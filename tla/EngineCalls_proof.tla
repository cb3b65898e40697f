-------------------------- MODULE EngineCalls_proof --------------------------
(* For any OS threads, VMs, natives and programs: no two OS threads are in one *)
(* VM; what the debugger shows as the stack of calls is that of a call that    *)
(* runs and that no other OS thread replaces; what the engine is given, and    *)
(* finds at the end of the pointers it was given for as long as it runs, is    *)
(* what the call was given, or its defaults.                                   *)
EXTENDS EngineCalls, FiniteSetTheorems, SequenceLemmas, TLAPS

----------------------------------------------------------------------------
(* A lock agrees with H, which says of each OS thread at which of its frames   *)
(* it took the lock.                                                          *)

Locks == [owner : OSThreads \cup {None}, depth : Nat]

Agrees(l, H) ==
  /\ l \in Locks
  /\ l.owner = None => l.depth = 0
  /\ \A o \in OSThreads :
       /\ IsFiniteSet(H[o])
       /\ IF l.owner = o THEN H[o] # {} /\ l.depth = Cardinality(H[o]) ELSE H[o] = {}

\* An OS thread that may take a lock takes it at one more of its frames.
LEMMA LockTaken ==
  ASSUME NEW l, NEW H, NEW G, NEW o \in OSThreads, NEW x,
         Agrees(l, H), CanLock(l, o), x \notin H[o], G[o] = H[o] \cup {x},
         \A p \in OSThreads \ {o} : G[p] = H[p]
  PROVE  Agrees(Locked(l, o), G)
<1>1. l \in Locks /\ IsFiniteSet(H[o]) /\ l.owner \in {None, o}
  BY DEF Agrees, CanLock
<1>2. l.depth = Cardinality(H[o])
  <2>1. CASE l.owner = o
    BY <2>1 DEF Agrees
  <2>2. CASE l.owner = None
    BY <2>2, NoneAssumption, FS_EmptySet DEF Agrees
  <2> QED BY <1>1, <2>1, <2>2
<1>3. IsFiniteSet(G[o]) /\ Cardinality(G[o]) = l.depth + 1 /\ G[o] # {}
  <2>1. IsFiniteSet(H[o] \cup {x}) /\ Cardinality(H[o] \cup {x}) = Cardinality(H[o]) + 1
    BY <1>1, FS_AddElement
  <2> QED BY <1>2, <2>1
<1>4. Locked(l, o) \in Locks /\ Locked(l, o).owner = o /\ Locked(l, o).depth = l.depth + 1
  BY <1>1 DEF Locks, Locked
<1>5. \A p \in OSThreads \ {o} : IsFiniteSet(G[p]) /\ G[p] = {}
  BY <1>1, NoneAssumption DEF Agrees
<1> QED BY <1>3, <1>4, <1>5, NoneAssumption DEF Agrees

\* An OS thread gives a lock back that it took at one of its frames.
LEMMA LockLeft ==
  ASSUME NEW l, NEW H, NEW G, NEW o \in OSThreads, NEW x,
         Agrees(l, H), x \in H[o], G[o] = H[o] \ {x},
         \A p \in OSThreads \ {o} : G[p] = H[p]
  PROVE  Agrees(Released(l), G)
<1>1. l \in Locks /\ l.owner = o /\ IsFiniteSet(H[o]) /\ l.depth = Cardinality(H[o])
  BY DEF Agrees
<1>2. l.depth \in Nat
  BY <1>1 DEF Locks
<1>3. IsFiniteSet(G[o]) /\ Cardinality(G[o]) = l.depth - 1
  BY <1>1, FS_RemoveElement
<1>4. Cardinality(G[o]) \in Nat /\ (Cardinality(G[o]) = 0 <=> G[o] = {})
  BY <1>3, FS_CardinalityType, FS_EmptySet
<1>5. \A p \in OSThreads \ {o} : IsFiniteSet(G[p]) /\ G[p] = {}
  BY <1>1 DEF Agrees
<1>6. CASE l.depth = 1
  <2>1. Released(l) = Unlocked /\ G[o] = {}
    BY <1>3, <1>4, <1>6 DEF Released
  <2>2. Unlocked \in Locks /\ Unlocked.owner = None /\ Unlocked.depth = 0
    BY DEF Unlocked, Locks
  <2> QED BY <1>3, <1>5, <2>1, <2>2, NoneAssumption DEF Agrees
<1>7. CASE l.depth # 1
  <2>1. Released(l) = [l EXCEPT !.depth = @ - 1]
    BY <1>7 DEF Released
  <2>2. Released(l) \in Locks /\ Released(l).owner = o /\ Released(l).depth = l.depth - 1
    BY <1>1, <1>2, <1>3, <1>4, <2>1 DEF Locks
  <2>3. G[o] # {}
    BY <1>2, <1>3, <1>4, <1>7
  <2> QED BY <1>3, <1>5, <2>2, <2>3, NoneAssumption DEF Agrees
<1> QED BY <1>6, <1>7

----------------------------------------------------------------------------
(* Frames of one OS thread.                                                   *)

AllCalls == UNION {Programs[p].calls[v] : p \in DOMAIN Programs, v \in VMs}
LuaFrames == [kind : {"lua", "tostring"}, vm : VMs, step : {"wait", "run"}]
NativeFrames == [kind : {"native"}, vm : VMs, step : {"lock", "fill", "engine", "refused"},
                 call : AllCalls]
AnyFrame == LuaFrames \cup NativeFrames

Holds(fr, v) == fr.kind = "lua" /\ fr.step = "run" /\ fr.vm = v
Tracks(fr) == fr.kind = "native" /\ fr.step = "engine" /\ Natives[fr.call.f].call_stack

HeldIn(s, v) == {i \in DOMAIN s : Holds(s[i], v)}
TrackedIn(s) == {i \in DOMAIN s : Tracks(s[i])}

\* A native waits for the lock of the call stack only if it sets the stack,
\* and print does not.
Proper(fr) ==
  fr.kind = "native" => /\ fr.step = "fill" => ~Natives[fr.call.f].call_stack
                        /\ fr.step = "lock" => Natives[fr.call.f].call_stack

\* print runs __tostring while it fills the stack.
Prints(fr) == fr.kind = "native" /\ fr.step = "fill"
OnPrint(s, i) == s[i].kind = "tostring" => i > 1 /\ Prints(s[i - 1])

\* Natives and __tostring are above Lua code that holds their VM.
NestedIn(s) ==
  \A i \in DOMAIN s :
    /\ s[i].kind \in {"native", "tostring"} => \E j \in HeldIn(s, s[i].vm) : j < i
    /\ Proper(s[i])
    /\ OnPrint(s, i)

\* A frame that neither holds a VM nor is tracked is pushed.
LEMMA PushFacts ==
  ASSUME NEW s \in Seq(AnyFrame), NEW fr \in AnyFrame,
         ~Tracks(fr), \A v : ~Holds(fr, v)
  PROVE  /\ Append(s, fr) \in Seq(AnyFrame)
         /\ \A v : HeldIn(Append(s, fr), v) = HeldIn(s, v)
         /\ TrackedIn(Append(s, fr)) = TrackedIn(s)
<1>1. /\ Append(s, fr) \in Seq(AnyFrame)
      /\ DOMAIN s = 1..Len(s) /\ Len(s) \in Nat
      /\ DOMAIN Append(s, fr) = 1..(Len(s) + 1)
      /\ \A i \in 1..Len(s) : Append(s, fr)[i] = s[i]
      /\ Append(s, fr)[Len(s) + 1] = fr
  BY AppendProperties, LenProperties
<1>2. \A i : i \in DOMAIN Append(s, fr) <=> i \in DOMAIN s \/ i = Len(s) + 1
  BY <1>1
<1>3. \A v : HeldIn(Append(s, fr), v) = HeldIn(s, v)
  BY <1>1, <1>2 DEF HeldIn
<1>4. TrackedIn(Append(s, fr)) = TrackedIn(s)
  BY <1>1, <1>2 DEF TrackedIn
<1> QED BY <1>1, <1>3, <1>4

LEMMA PushNested ==
  ASSUME NEW s \in Seq(AnyFrame), NEW fr \in AnyFrame, NestedIn(s),
         ~Tracks(fr), \A v : ~Holds(fr, v),
         fr.kind \in {"native", "tostring"} => HeldIn(s, fr.vm) # {},
         fr.kind = "tostring" => s # << >> /\ Prints(s[Len(s)]),
         Proper(fr)
  PROVE  NestedIn(Append(s, fr))
<1>1. /\ DOMAIN s = 1..Len(s) /\ Len(s) \in Nat
      /\ DOMAIN Append(s, fr) = 1..(Len(s) + 1)
      /\ \A i \in 1..Len(s) : Append(s, fr)[i] = s[i]
      /\ Append(s, fr)[Len(s) + 1] = fr
  BY AppendProperties, LenProperties
<1>2. \A v : HeldIn(Append(s, fr), v) = HeldIn(s, v)
  BY PushFacts
<1>3. \A v : \A j \in HeldIn(s, v) : j \in 1..Len(s)
  BY <1>1 DEF HeldIn
<1> SUFFICES ASSUME NEW i \in DOMAIN Append(s, fr)
             PROVE  /\ Append(s, fr)[i].kind \in {"native", "tostring"} =>
                         \E j \in HeldIn(s, Append(s, fr)[i].vm) : j < i
                    /\ Proper(Append(s, fr)[i])
                    /\ OnPrint(Append(s, fr), i)
  BY <1>2 DEF NestedIn
<1>4. CASE i \in 1..Len(s)
  <2>1. Append(s, fr)[i] = s[i] /\ i \in DOMAIN s
    BY <1>1, <1>4
  <2>2. i > 1 => Append(s, fr)[i - 1] = s[i - 1]
    BY <1>1, <1>4
  <2> QED BY <2>1, <2>2 DEF NestedIn, OnPrint
<1>5. CASE i = Len(s) + 1
  <2>1. Append(s, fr)[i] = fr
    BY <1>1, <1>5
  <2>2. \A j \in HeldIn(s, fr.vm) : j < i
    BY <1>1, <1>3, <1>5
  <2>3. fr.kind \in {"native", "tostring"} => \E j \in HeldIn(s, fr.vm) : j < i
    BY <2>2
  <2>4. OnPrint(Append(s, fr), i)
    <3> SUFFICES ASSUME fr.kind = "tostring" PROVE i > 1 /\ Prints(Append(s, fr)[i - 1])
      BY <2>1 DEF OnPrint
    <3>1. Len(s) # 0
      BY EmptySeq
    <3>2. Len(s) \in 1..Len(s) /\ i - 1 = Len(s)
      BY <1>1, <1>5, <3>1
    <3> QED BY <1>1, <3>2
  <2> QED BY <2>1, <2>3, <2>4
<1> QED BY <1>1, <1>4, <1>5

\* The innermost frame is popped.
LEMMA PopFacts ==
  ASSUME NEW s \in Seq(AnyFrame), s # << >>
  PROVE  /\ SubSeq(s, 1, Len(s) - 1) \in Seq(AnyFrame)
         /\ DOMAIN SubSeq(s, 1, Len(s) - 1) = 1..(Len(s) - 1)
         /\ Len(s) \in Nat /\ Len(s) >= 1
         /\ \A v : HeldIn(SubSeq(s, 1, Len(s) - 1), v) = HeldIn(s, v) \ {Len(s)}
         /\ TrackedIn(SubSeq(s, 1, Len(s) - 1)) = TrackedIn(s) \ {Len(s)}
         /\ NestedIn(s) => NestedIn(SubSeq(s, 1, Len(s) - 1))
<1> DEFINE t == SubSeq(s, 1, Len(s) - 1)
<1>1. Len(s) \in Nat /\ Len(s) >= 1 /\ DOMAIN s = 1..Len(s)
  BY LenProperties, EmptySeq
<1>2. t \in Seq(AnyFrame) /\ Len(t) = Len(s) - 1 /\ \A i \in 1..(Len(s) - 1) : t[i] = s[i]
  BY <1>1
<1>3. DOMAIN t = 1..(Len(s) - 1)
  BY <1>2, LenProperties
<1> HIDE DEF t
<1>4. \A i : i \in DOMAIN t <=> i \in DOMAIN s /\ i # Len(s)
  BY <1>1, <1>3
<1>5. \A v : HeldIn(t, v) = HeldIn(s, v) \ {Len(s)}
  BY <1>2, <1>3, <1>4 DEF HeldIn
<1>6. TrackedIn(t) = TrackedIn(s) \ {Len(s)}
  BY <1>2, <1>3, <1>4 DEF TrackedIn
<1>7. ASSUME NestedIn(s) PROVE NestedIn(t)
  <2> SUFFICES ASSUME NEW i \in DOMAIN t
               PROVE  /\ t[i].kind \in {"native", "tostring"} => \E j \in HeldIn(t, t[i].vm) : j < i
                      /\ Proper(t[i]) /\ OnPrint(t, i)
    BY DEF NestedIn
  <2>1. /\ i \in DOMAIN s /\ t[i] = s[i] /\ i < Len(s)
        /\ i > 1 => t[i - 1] = s[i - 1]
    BY <1>1, <1>2, <1>3
  <2>2. ASSUME s[i].kind \in {"native", "tostring"} PROVE \E j \in HeldIn(t, s[i].vm) : j < i
    <3>1. PICK j \in HeldIn(s, s[i].vm) : j < i
      BY <1>7, <2>1, <2>2 DEF NestedIn
    <3>2. j \in 1..Len(s)
      BY <1>1 DEF HeldIn
    <3> QED BY <1>1, <1>5, <2>1, <3>1, <3>2
  <2> QED BY <1>7, <2>1, <2>2 DEF NestedIn, OnPrint
<1> QED BY <1>1, <1>2, <1>3, <1>5, <1>6, <1>7 DEF t

\* The innermost frame goes on to another step.
LEMMA StepFacts ==
  ASSUME NEW s \in Seq(AnyFrame), s # << >>, NEW x,
         [s[Len(s)] EXCEPT !.step = x] \in AnyFrame,
         ~Holds(s[Len(s)], s[Len(s)].vm), NestedIn(s), x \notin {"fill", "lock"}
  PROVE  LET t == [s EXCEPT ![Len(s)].step = x] IN
         /\ t \in Seq(AnyFrame) /\ DOMAIN t = DOMAIN s /\ NestedIn(t)
         /\ Len(s) \in DOMAIN s /\ t[Len(s)] = [s[Len(s)] EXCEPT !.step = x]
         /\ \A i \in DOMAIN s \ {Len(s)} : t[i] = s[i]
<1> DEFINE t == [s EXCEPT ![Len(s)].step = x]
<1>1. Len(s) \in Nat /\ Len(s) >= 1 /\ DOMAIN s = 1..Len(s)
  BY LenProperties, EmptySeq
<1>2. /\ DOMAIN t = DOMAIN s /\ t[Len(s)] = [s[Len(s)] EXCEPT !.step = x]
      /\ \A i \in DOMAIN s \ {Len(s)} : t[i] = s[i]
  BY <1>1
<1>3. t \in Seq(AnyFrame)
  <2>1. s \in [1..Len(s) -> AnyFrame]
    BY <1>1, LenProperties
  <2>2. t \in [1..Len(s) -> AnyFrame]
    BY <1>1, <1>2, <2>1
  <2> QED BY <1>1, <2>2, SeqDef
<1> HIDE DEF t
<1>4. s[Len(s)] \in AnyFrame
  BY <1>1, ElementOfSeq
<1>5. t[Len(s)].kind = s[Len(s)].kind /\ t[Len(s)].vm = s[Len(s)].vm /\ t[Len(s)].step = x
  BY <1>2, <1>4 DEF AnyFrame, LuaFrames, NativeFrames
<1>6. \A v : HeldIn(s, v) \subseteq HeldIn(t, v)
  <2> SUFFICES ASSUME NEW v, NEW i \in HeldIn(s, v) PROVE i \in HeldIn(t, v)
    OBVIOUS
  <2>1. i # Len(s)
    BY DEF HeldIn, Holds
  <2> QED BY <1>2, <2>1 DEF HeldIn
<1>7. NestedIn(t)
  <2> SUFFICES ASSUME NEW i \in DOMAIN t
               PROVE  /\ t[i].kind \in {"native", "tostring"} => \E j \in HeldIn(t, t[i].vm) : j < i
                      /\ Proper(t[i]) /\ OnPrint(t, i)
    BY DEF NestedIn
  <2>3. OnPrint(t, i)
    <3>1. i > 1 => t[i - 1] = s[i - 1]
      BY <1>1, <1>2
    <3>2. t[i].kind = s[i].kind /\ OnPrint(s, i)
      BY <1>2, <1>5 DEF NestedIn
    <3> QED BY <3>1, <3>2 DEF OnPrint
  <2>1. CASE i = Len(s)
    BY <1>1, <1>5, <1>6, <2>1, <2>3 DEF NestedIn, Proper
  <2>2. CASE i # Len(s)
    BY <1>2, <1>6, <2>2, <2>3 DEF NestedIn
  <2> QED BY <2>1, <2>2
<1> QED BY <1>1, <1>2, <1>3, <1>7 DEF t

----------------------------------------------------------------------------
(* The inductive invariant.                                                   *)

Holders(v) == [o \in OSThreads |-> HeldIn(frames[o], v)]
Trackers == [o \in OSThreads |-> TrackedIn(frames[o])]

\* What call_stack shows: the innermost tracked frame of an OS thread.
Described ==
  call_stack # None =>
    \E o \in OSThreads : \E n \in TrackedIn(frames[o]) :
      call_stack = <<o, n>> /\ \A i \in TrackedIn(frames[o]) : i <= n

Inv ==
  /\ program \in DOMAIN Programs
  /\ frames \in [OSThreads -> Seq(AnyFrame)]
  /\ \A o \in OSThreads : NestedIn(frames[o])
  /\ DOMAIN vm_lock = VMs
  /\ \A v \in VMs : Agrees(vm_lock[v], Holders(v))
  /\ Agrees(call_lock, Trackers)
  /\ Described

\* So the process begins.
Fresh ==
  /\ program \in DOMAIN Programs
  /\ frames = NoFrames /\ vm_lock = NoLocks /\ call_lock = Unlocked /\ call_stack = None

LEMMA FreshInv == Fresh => Inv
<1> SUFFICES ASSUME Fresh PROVE Inv
  OBVIOUS
<1>1. program \in DOMAIN Programs /\ DOMAIN vm_lock = VMs /\ Described
  BY DEF Fresh, Described, NoLocks
<1>2. frames \in [OSThreads -> Seq(AnyFrame)] /\ \A o \in OSThreads : frames[o] = << >>
  BY EmptySeq DEF Fresh, NoFrames
<1>3. \A o \in OSThreads : NestedIn(frames[o])
  BY <1>2 DEF NestedIn
<1>4. /\ \A o \in OSThreads : TrackedIn(frames[o]) = {}
      /\ \A o \in OSThreads : \A v \in VMs : HeldIn(frames[o], v) = {}
  BY <1>2 DEF TrackedIn, HeldIn
<1>5. Unlocked \in Locks /\ Unlocked.owner = None /\ Unlocked.depth = 0 /\ IsFiniteSet({})
  BY FS_EmptySet DEF Unlocked, Locks
<1>6. \A v \in VMs : Agrees(vm_lock[v], Holders(v))
  BY <1>4, <1>5, NoneAssumption DEF Fresh, NoLocks, Agrees, Holders
<1>7. Agrees(call_lock, Trackers)
  BY <1>4, <1>5, NoneAssumption DEF Fresh, Agrees, Trackers
<1> QED BY <1>1, <1>2, <1>3, <1>6, <1>7 DEF Inv

LEMMA InitInv == Init => Inv
BY FreshInv DEF Init, Fresh

LEMMA CrashInv ==
  ASSUME Inv, NEW o \in OSThreads, Crash(o) PROVE Inv'
<1>1. Fresh'
  BY DEF Crash, Fresh, Inv
<1>2. Fresh' => Inv'
  BY FreshInv, PTL
<1> QED BY <1>1, <1>2

\* One OS thread's frames change.
LEMMA FramesChange ==
  ASSUME Inv, NEW o \in OSThreads, NEW t \in Seq(AnyFrame), NestedIn(t),
         frames' = [frames EXCEPT ![o] = t]
  PROVE  /\ frames' \in [OSThreads -> Seq(AnyFrame)]
         /\ \A p \in OSThreads : NestedIn(frames'[p])
         /\ frames'[o] = t /\ \A p \in OSThreads \ {o} : frames'[p] = frames[p]
         /\ Trackers'[o] = TrackedIn(t)
         /\ \A p \in OSThreads \ {o} : Trackers'[p] = Trackers[p]
         /\ \A v : /\ Holders(v)'[o] = HeldIn(t, v)
                  /\ \A p \in OSThreads \ {o} : Holders(v)'[p] = Holders(v)[p]
<1>1. frames'[o] = t /\ \A p \in OSThreads \ {o} : frames'[p] = frames[p]
  BY DEF Inv
<1> QED BY <1>1 DEF Inv, Trackers, Holders

\* What neither takes nor gives back a lock leaves the locks in agreement.
LEMMA VmLocksStay ==
  ASSUME Inv, NEW o \in OSThreads, NEW t \in Seq(AnyFrame), NestedIn(t),
         frames' = [frames EXCEPT ![o] = t],
         NEW v \in VMs, HeldIn(t, v) = HeldIn(frames[o], v), vm_lock'[v] = vm_lock[v]
  PROVE  Agrees(vm_lock'[v], Holders(v)')
<1>1. Holders(v)' = Holders(v)
  BY FramesChange DEF Holders
<1> QED BY <1>1 DEF Inv

LEMMA CallLockStays ==
  ASSUME Inv, NEW o \in OSThreads, NEW t \in Seq(AnyFrame), NestedIn(t),
         frames' = [frames EXCEPT ![o] = t],
         TrackedIn(t) = TrackedIn(frames[o]), UNCHANGED <<call_lock, call_stack>>
  PROVE  Agrees(call_lock', Trackers') /\ Described'
<1>1. \A p \in OSThreads : TrackedIn(frames'[p]) = TrackedIn(frames[p])
  BY FramesChange
<1>2. Trackers' = Trackers
  BY <1>1 DEF Trackers
<1> QED BY <1>1, <1>2 DEF Inv, Described

LEMMA LocksStay ==
  ASSUME Inv, NEW o \in OSThreads, NEW t \in Seq(AnyFrame), NestedIn(t),
         frames' = [frames EXCEPT ![o] = t],
         \A v : HeldIn(t, v) = HeldIn(frames[o], v), TrackedIn(t) = TrackedIn(frames[o]),
         UNCHANGED <<program, vm_lock, call_lock, call_stack>>
  PROVE  Inv'
<1>1. \A v \in VMs : Agrees(vm_lock'[v], Holders(v)')
  BY VmLocksStay
<1>2. Agrees(call_lock', Trackers') /\ Described'
  BY CallLockStays
<1>3. frames' \in [OSThreads -> Seq(AnyFrame)] /\ \A p \in OSThreads : NestedIn(frames'[p])
  BY FramesChange
<1> QED BY <1>1, <1>2, <1>3 DEF Inv

LEMMA PushStays ==
  ASSUME Inv, NEW o \in OSThreads, NEW fr \in AnyFrame, Proper(fr),
         ~Tracks(fr), \A v : ~Holds(fr, v),
         fr.kind \in {"native", "tostring"} => HeldIn(frames[o], fr.vm) # {},
         fr.kind = "tostring" => Busy(o) /\ Prints(Top(o)),
         frames' = [frames EXCEPT ![o] = Append(@, fr)],
         UNCHANGED <<program, vm_lock, call_lock, call_stack>>
  PROVE  Inv'
<1>1. frames[o] \in Seq(AnyFrame) /\ NestedIn(frames[o])
  BY DEF Inv
<1>2. /\ Append(frames[o], fr) \in Seq(AnyFrame)
      /\ \A v : HeldIn(Append(frames[o], fr), v) = HeldIn(frames[o], v)
      /\ TrackedIn(Append(frames[o], fr)) = TrackedIn(frames[o])
  BY <1>1, PushFacts
<1>3. NestedIn(Append(frames[o], fr))
  BY <1>1, PushNested DEF Busy, Top
<1> QED BY <1>2, <1>3, LocksStay

\* The innermost frame of an OS thread.
LEMMA TopFacts ==
  ASSUME Inv, NEW o \in OSThreads, Busy(o)
  PROVE  /\ frames[o] \in Seq(AnyFrame) /\ frames[o] # << >> /\ NestedIn(frames[o])
         /\ Len(frames[o]) \in DOMAIN frames[o] /\ DOMAIN frames[o] = 1..Len(frames[o])
         /\ Top(o) = frames[o][Len(frames[o])] /\ Top(o) \in AnyFrame /\ Top(o).vm \in VMs
         /\ Proper(Top(o))
         /\ Top(o).kind \in {"native", "tostring"} => HeldIn(frames[o], Top(o).vm) # {}
         /\ OnPrint(frames[o], Len(frames[o]))
<1>1. frames[o] \in Seq(AnyFrame) /\ frames[o] # << >> /\ NestedIn(frames[o])
  BY DEF Inv, Busy
<1>2. Len(frames[o]) \in DOMAIN frames[o] /\ DOMAIN frames[o] = 1..Len(frames[o])
  BY <1>1, LenProperties, EmptySeq
<1>3. Top(o) = frames[o][Len(frames[o])] /\ Top(o) \in AnyFrame
  BY <1>1, <1>2, ElementOfSeq DEF Top
<1>4. Top(o).vm \in VMs
  BY <1>3 DEF AnyFrame, LuaFrames, NativeFrames
<1>5. /\ Proper(Top(o)) /\ (Top(o).kind \in {"native", "tostring"} => HeldIn(frames[o], Top(o).vm) # {})
      /\ OnPrint(frames[o], Len(frames[o]))
  BY <1>1, <1>2, <1>3 DEF NestedIn
<1> QED BY <1>1, <1>2, <1>3, <1>4, <1>5

LEMMA PopStays ==
  ASSUME Inv, NEW o \in OSThreads, Busy(o), ~Tracks(Top(o)), \A v : ~Holds(Top(o), v),
         frames' = [frames EXCEPT ![o] = SubSeq(@, 1, Len(@) - 1)],
         UNCHANGED <<program, vm_lock, call_lock, call_stack>>
  PROVE  Inv'
<1> DEFINE t == SubSeq(frames[o], 1, Len(frames[o]) - 1)
<1>1. /\ t \in Seq(AnyFrame) /\ NestedIn(t)
      /\ \A v : HeldIn(t, v) = HeldIn(frames[o], v) \ {Len(frames[o])}
      /\ TrackedIn(t) = TrackedIn(frames[o]) \ {Len(frames[o])}
  BY TopFacts, PopFacts
<1>2. \A v : Len(frames[o]) \notin HeldIn(frames[o], v)
  BY TopFacts DEF HeldIn
<1>3. Len(frames[o]) \notin TrackedIn(frames[o])
  BY TopFacts DEF TrackedIn
<1>4. (\A v : HeldIn(t, v) = HeldIn(frames[o], v)) /\ TrackedIn(t) = TrackedIn(frames[o])
  BY <1>1, <1>2, <1>3
<1>5. frames' = [frames EXCEPT ![o] = t]
  OBVIOUS
<1> HIDE DEF t
<1> QED BY <1>1, <1>4, <1>5, LocksStay

----------------------------------------------------------------------------
(* The actions.                                                               *)

LEMMA LuaFrameFacts ==
  ASSUME NEW v \in VMs
  PROVE  /\ LuaFrame(v) \in AnyFrame /\ Proper(LuaFrame(v)) /\ ~Tracks(LuaFrame(v))
         /\ \A w : ~Holds(LuaFrame(v), w)
         /\ LuaFrame(v).kind \notin {"native", "tostring"}
  BY DEF LuaFrame, AnyFrame, LuaFrames, Proper, Tracks, Holds

LEMMA EnterInv ==
  ASSUME Inv, NEW o \in OSThreads, Enter(o) PROVE Inv'
<1>1. PICK v \in Programs[program].enters[o] : Push(o, LuaFrame(v), NotPassed)
  BY DEF Enter
<1>2. v \in VMs
  BY <1>1, ProgramAssumption DEF Inv
<1>3. /\ frames' = [frames EXCEPT ![o] = Append(@, LuaFrame(v))]
      /\ UNCHANGED <<program, vm_lock, call_lock, call_stack>>
  BY <1>1 DEF Enter, Push
<1> QED BY <1>2, <1>3, LuaFrameFacts, PushStays

LEMMA CallBackInv ==
  ASSUME Inv, NEW o \in OSThreads, CallBack(o) PROVE Inv'
<1>1. PICK v \in Top(o).call.back : Push(o, LuaFrame(v), NotPassed)
  BY DEF CallBack
<1>2. Busy(o) /\ Top(o).kind = "native"
  BY DEF CallBack, InEngine, InNative
<1>3. Top(o).call \in AllCalls
  BY <1>2, TopFacts DEF AnyFrame, LuaFrames, NativeFrames
<1>4. v \in VMs
  BY <1>1, <1>3, ProgramAssumption DEF AllCalls
<1>5. /\ frames' = [frames EXCEPT ![o] = Append(@, LuaFrame(v))]
      /\ UNCHANGED <<program, vm_lock, call_lock, call_stack>>
  BY <1>1 DEF CallBack, Push
<1> QED BY <1>4, <1>5, LuaFrameFacts, PushStays

\* Lua code runs where its VM is held.
LEMMA LuaHolds ==
  ASSUME Inv, NEW o \in OSThreads, InLua(o)
  PROVE  HeldIn(frames[o], Top(o).vm) # {}
<1>1. Busy(o) /\ Top(o).kind \in {"lua", "tostring"} /\ Top(o).step = "run"
  BY DEF InLua
<1>2. CASE Top(o).kind = "lua"
  <2>1. Len(frames[o]) \in HeldIn(frames[o], Top(o).vm)
    BY <1>1, <1>2, TopFacts DEF HeldIn, Holds
  <2> QED BY <2>1
<1>3. CASE Top(o).kind = "tostring"
  BY <1>1, <1>3, TopFacts
<1> QED BY <1>1, <1>2, <1>3

\* The frame of a native is pushed, at a step that becomes it.
NativePushed(o, c) ==
  \E step \in {"lock", "fill", "engine", "refused"} :
    /\ frames' = [frames EXCEPT ![o] = Append(@, Native(Top(o).vm, c, step))]
    /\ step = "fill" => ~Natives[c.f].call_stack
    /\ step = "lock" => Natives[c.f].call_stack
    /\ step = "engine" => ~Natives[c.f].call_stack

LEMMA FirstStepFacts ==
  ASSUME NEW f, NEW size
  PROVE  /\ FirstStep(f, size) \in {"lock", "engine", "refused"}
         /\ FirstStep(f, size) = "lock" => Natives[f].call_stack
         /\ FirstStep(f, size) = "engine" => ~Natives[f].call_stack
  BY DEF FirstStep

LEMMA OutcomePushes ==
  ASSUME NEW o, NEW c, NEW r, Outcome(o, c, r)
  PROVE  UNCHANGED frames \/ NativePushed(o, c)
<1>1. CASE Raised(o, r.stack)
  BY <1>1 DEF Raised
<1>2. CASE Called(o, c, r.stack, FirstStep(c.f, r.stack.size))
  <2>1. PICK step : step = FirstStep(c.f, r.stack.size)
    OBVIOUS
  <2>2. frames' = [frames EXCEPT ![o] = Append(@, Native(Top(o).vm, c, step))]
    BY <1>2, <2>1 DEF Called
  <2>3. step \in {"lock", "engine", "refused"}
        /\ (step = "lock" => Natives[c.f].call_stack)
        /\ (step = "engine" => ~Natives[c.f].call_stack)
    BY <2>1, FirstStepFacts
  <2> QED BY <2>2, <2>3 DEF NativePushed
<1> QED BY <1>1, <1>2 DEF Outcome

\* A call of Lua code either pushes the frame of its native, or raises.
LEMMA CallPushes ==
  ASSUME Inv, NEW o \in OSThreads, Call(o)
  PROVE  \/ UNCHANGED frames
         \/ \E c \in Programs[program].calls[Top(o).vm] : NativePushed(o, c)
<1>1. PICK c \in Programs[program].calls[Top(o).vm] :
        CallMethod(o, c) \/ Construct(o, c) \/ CallLocal(o, c) \/ CallPrint(o, c)
  BY DEF Call
<1>2. CASE CallMethod(o, c)
  BY <1>1, <1>2, OutcomePushes DEF CallMethod
<1>3. CASE Construct(o, c)
  BY <1>1, <1>3, OutcomePushes DEF Construct
<1>4. CASE CallLocal(o, c)
  <2>1. CASE Push(o, Native(Top(o).vm, c, FirstStep(c.f, 0)), NotPassed)
    <3>1. frames' = [frames EXCEPT ![o] = Append(@, Native(Top(o).vm, c, FirstStep(c.f, 0)))]
      BY <2>1 DEF Push
    <3>2. NativePushed(o, c)
      BY <3>1, FirstStepFacts DEF NativePushed
    <3> QED BY <1>1, <3>2
  <2> QED BY <1>4, <2>1 DEF CallLocal
<1>5. CASE CallPrint(o, c)
  <2>1. Busy(o) /\ c.f \in DOMAIN Natives
    BY <1>1, TopFacts, ProgramAssumption DEF Call, InLua, Inv
  <2>2. ~Natives[c.f].call_stack
    BY <1>5, <2>1, PrintAssumption DEF CallPrint
  <2>3. frames' = [frames EXCEPT ![o] = Append(@, Native(Top(o).vm, c, "fill"))]
    BY <1>5 DEF CallPrint, Called
  <2>4. NativePushed(o, c)
    BY <2>2, <2>3 DEF NativePushed
  <2> QED BY <1>1, <2>4
<1> QED BY <1>1, <1>2, <1>3, <1>4, <1>5

LEMMA CallInv ==
  ASSUME Inv, NEW o \in OSThreads, Call(o) PROVE Inv'
<1>1. InLua(o) /\ Busy(o) /\ UNCHANGED <<program, vm_lock, call_lock, call_stack>>
  BY DEF Call, InLua
<1>2. CASE UNCHANGED frames
  BY <1>1, <1>2 DEF Inv, Described, Holders, Trackers
<1>3. CASE \E c \in Programs[program].calls[Top(o).vm] : NativePushed(o, c)
  <2>1. PICK c \in Programs[program].calls[Top(o).vm] : NativePushed(o, c)
    BY <1>3
  <2>2. PICK step \in {"lock", "fill", "engine", "refused"} :
          /\ frames' = [frames EXCEPT ![o] = Append(@, Native(Top(o).vm, c, step))]
          /\ step = "fill" => ~Natives[c.f].call_stack
          /\ step = "lock" => Natives[c.f].call_stack
          /\ step = "engine" => ~Natives[c.f].call_stack
    BY <2>1 DEF NativePushed
  <2>3. Top(o).vm \in VMs /\ c \in AllCalls
    BY <1>1, TopFacts DEF Inv, AllCalls
  <2> DEFINE fr == Native(Top(o).vm, c, step)
  <2>4. /\ fr \in AnyFrame /\ Proper(fr) /\ ~Tracks(fr) /\ \A v : ~Holds(fr, v)
        /\ fr.vm = Top(o).vm /\ fr.kind # "tostring"
    BY <2>2, <2>3 DEF Native, AnyFrame, NativeFrames, Proper, Tracks, Holds
  <2>5. HeldIn(frames[o], fr.vm) # {}
    BY <1>1, <2>4, LuaHolds
  <2>6. frames' = [frames EXCEPT ![o] = Append(@, fr)]
    BY <2>2
  <2> HIDE DEF fr
  <2> QED BY <1>1, <2>4, <2>5, <2>6, PushStays
<1> QED BY <1>2, <1>3, CallPushes

LEMMA PrintNextInv ==
  ASSUME Inv, NEW o \in OSThreads, PrintNext(o) PROVE Inv'
<1>1. /\ Busy(o) /\ Top(o).kind = "native" /\ Prints(Top(o))
      /\ UNCHANGED <<program, vm_lock, call_lock, call_stack>>
  BY DEF PrintNext, InNative, Prints
<1>2. CASE UNCHANGED frames
  BY <1>1, <1>2 DEF Inv, Described, Holders, Trackers
<1>3. CASE Push(o, ToStringFrame(Top(o).vm), NotPassed)
  <2> DEFINE fr == ToStringFrame(Top(o).vm)
  <2>1. /\ fr \in AnyFrame /\ Proper(fr) /\ ~Tracks(fr) /\ \A v : ~Holds(fr, v)
        /\ fr.vm = Top(o).vm
    BY <1>1, TopFacts DEF ToStringFrame, AnyFrame, LuaFrames, Proper, Tracks, Holds
  <2>2. HeldIn(frames[o], fr.vm) # {}
    BY <1>1, <2>1, TopFacts
  <2>3. frames' = [frames EXCEPT ![o] = Append(@, fr)]
    BY <1>3 DEF Push
  <2> HIDE DEF fr
  <2> QED BY <1>1, <2>1, <2>2, <2>3, PushStays
<1> QED BY <1>2, <1>3 DEF PrintNext

LEMMA ToStringReturnsInv ==
  ASSUME Inv, NEW o \in OSThreads, ToStringReturns(o) PROVE Inv'
<1>1. Busy(o) /\ Top(o).kind = "tostring"
  BY DEF ToStringReturns, InLua
<1>2. ~Tracks(Top(o)) /\ \A v : ~Holds(Top(o), v)
  BY <1>1 DEF Tracks, Holds
<1>3. /\ frames' = [frames EXCEPT ![o] = SubSeq(@, 1, Len(@) - 1)]
      /\ UNCHANGED <<program, vm_lock, call_lock, call_stack>>
  BY DEF ToStringReturns
<1> QED BY <1>1, <1>2, <1>3, PopStays

\* What an OS thread loses with its innermost m frames.
Without(s, m) == SubSeq(s, 1, Len(s) - m)

LEMMA WithoutTwo ==
  ASSUME NEW s \in Seq(AnyFrame), Len(s) >= 2
  PROVE  Without(s, 1) # << >> /\ Without(Without(s, 1), 1) = Without(s, 2)
<1>1. Len(s) \in Nat /\ Len(s) - 1 \in 1..Len(s)
  BY LenProperties
<1>2. PICK t : t = Without(s, 1)
  OBVIOUS
<1>3. /\ t \in Seq(AnyFrame) /\ Len(t) = Len(s) - 1
      /\ \A i \in 1..(Len(s) - 1) : t[i] = s[i]
  BY <1>1, <1>2 DEF Without
<1>4. t # << >>
  BY <1>1, <1>3
<1>5. Without(t, 1) = Without(s, 2)
  BY <1>1, <1>3 DEF Without
<1> QED BY <1>2, <1>4, <1>5

LEMMA ToStringRaisesInv ==
  ASSUME Inv, NEW o \in OSThreads, ToStringRaises(o) PROVE Inv'
<1> DEFINE s == frames[o]
           t == Without(s, 1)
           u == Without(t, 1)
           n == Len(s)
<1>1. /\ Busy(o) /\ Top(o).kind = "tostring"
      /\ frames' = [frames EXCEPT ![o] = SubSeq(@, 1, Len(@) - 2)]
      /\ UNCHANGED <<program, vm_lock, call_lock, call_stack>>
  BY DEF ToStringRaises, InLua
<1>2. /\ s \in Seq(AnyFrame) /\ s # << >> /\ NestedIn(s) /\ n \in Nat
      /\ n > 1 /\ s[n].kind = "tostring" /\ Prints(s[n - 1])
  BY <1>1, TopFacts, LenProperties DEF OnPrint
<1>3. /\ t \in Seq(AnyFrame) /\ NestedIn(t) /\ Len(t) = n - 1 /\ t[n - 1] = s[n - 1]
      /\ \A v : HeldIn(t, v) = HeldIn(s, v) \ {n}
      /\ TrackedIn(t) = TrackedIn(s) \ {n}
  BY <1>2, PopFacts DEF Without
<1>4. t # << >> /\ u = Without(s, 2)
  BY <1>2, WithoutTwo
<1>5. /\ u \in Seq(AnyFrame) /\ NestedIn(u)
      /\ \A v : HeldIn(u, v) = HeldIn(t, v) \ {n - 1}
      /\ TrackedIn(u) = TrackedIn(t) \ {n - 1}
  <2> HIDE DEF t
  <2> QED BY <1>3, <1>4, PopFacts DEF Without
<1>6. frames' = [frames EXCEPT ![o] = u]
  BY <1>1, <1>4 DEF Without
<1> HIDE DEF s, t, u, n
<1>7. \A v : n \notin HeldIn(s, v) /\ n - 1 \notin HeldIn(s, v)
  BY <1>2 DEF HeldIn, Holds, Prints
<1>8. n \notin TrackedIn(s) /\ n - 1 \notin TrackedIn(s)
  BY <1>2 DEF TrackedIn, Tracks, Prints
<1>9. \A v : HeldIn(u, v) = HeldIn(s, v)
  <2> TAKE v
  <2>1. HeldIn(u, v) = (HeldIn(s, v) \ {n}) \ {n - 1}
    BY <1>3, <1>5
  <2> QED BY <1>7, <2>1
<1>10. TrackedIn(u) = TrackedIn(s)
  <2>1. TrackedIn(u) = (TrackedIn(s) \ {n}) \ {n - 1}
    BY <1>3, <1>5
  <2> QED BY <1>8, <2>1
<1> QED BY <1>1, <1>5, <1>6, <1>9, <1>10, LocksStay DEF s

LEMMA ReturnRefusedInv ==
  ASSUME Inv, NEW o \in OSThreads, ReturnRefused(o) PROVE Inv'
<1>1. Busy(o) /\ Top(o).kind = "native" /\ Top(o).step = "refused"
  BY DEF ReturnRefused, InNative
<1>2. ~Tracks(Top(o)) /\ \A v : ~Holds(Top(o), v)
  BY <1>1 DEF Tracks, Holds
<1>3. /\ frames' = [frames EXCEPT ![o] = SubSeq(@, 1, Len(@) - 1)]
      /\ UNCHANGED <<program, vm_lock, call_lock, call_stack>>
  BY DEF ReturnRefused, Pop
<1> QED BY <1>1, <1>2, <1>3, PopStays

\* The innermost frame goes on to step x, at which it is fr.
LEMMA StepChange ==
  ASSUME Inv, NEW o \in OSThreads, Busy(o), NEW x, x \notin {"fill", "lock"}, ToStep(o, x),
         NEW fr, fr = [Top(o) EXCEPT !.step = x], fr \in AnyFrame,
         \A v : ~Holds(Top(o), v), ~Tracks(Top(o))
  PROVE  \E t \in Seq(AnyFrame) :
           /\ frames' = [frames EXCEPT ![o] = t]
           /\ NestedIn(t)
           /\ \A v : HeldIn(t, v) = IF Holds(fr, v) THEN HeldIn(frames[o], v) \cup {Len(frames[o])}
                                    ELSE HeldIn(frames[o], v)
           /\ TrackedIn(t) = IF Tracks(fr) THEN TrackedIn(frames[o]) \cup {Len(frames[o])}
                             ELSE TrackedIn(frames[o])
           /\ \A v : Len(frames[o]) \notin HeldIn(frames[o], v)
           /\ Len(frames[o]) \notin TrackedIn(frames[o])
<1> DEFINE n == Len(frames[o])
<1> DEFINE t == [frames[o] EXCEPT ![n].step = x]
<1>1. /\ frames[o] \in Seq(AnyFrame) /\ frames[o] # << >> /\ NestedIn(frames[o])
      /\ n \in DOMAIN frames[o] /\ Top(o) = frames[o][n]
  BY TopFacts
<1>2. /\ t \in Seq(AnyFrame) /\ DOMAIN t = DOMAIN frames[o] /\ NestedIn(t)
      /\ t[n] = fr /\ \A i \in DOMAIN frames[o] \ {n} : t[i] = frames[o][i]
  <2>1. [frames[o][n] EXCEPT !.step = x] = fr
    BY <1>1
  <2>2. /\ [frames[o][n] EXCEPT !.step = x] \in AnyFrame
        /\ ~Holds(frames[o][n], frames[o][n].vm)
    BY <1>1, <2>1
  <2> QED BY <1>1, <2>1, <2>2, StepFacts
<1>3. frames' = [frames EXCEPT ![o] = t]
  BY DEF ToStep
<1> HIDE DEF t, n
<1>4. \A v : n \notin HeldIn(frames[o], v)
  BY <1>1 DEF HeldIn
<1>5. n \notin TrackedIn(frames[o])
  BY <1>1 DEF TrackedIn
<1>6. \A v : HeldIn(t, v) = IF Holds(fr, v) THEN HeldIn(frames[o], v) \cup {n} ELSE HeldIn(frames[o], v)
  BY <1>1, <1>2, <1>4 DEF HeldIn
<1>7. TrackedIn(t) = IF Tracks(fr) THEN TrackedIn(frames[o]) \cup {n} ELSE TrackedIn(frames[o])
  BY <1>1, <1>2, <1>5 DEF TrackedIn
<1> QED BY <1>2, <1>3, <1>4, <1>5, <1>6, <1>7 DEF n

LEMMA PrintCallsInv ==
  ASSUME Inv, NEW o \in OSThreads, PrintCalls(o) PROVE Inv'
<1>4. PICK fr : fr = [Top(o) EXCEPT !.step = "engine"]
  OBVIOUS
<1>1. /\ Busy(o) /\ Top(o).kind = "native" /\ Top(o).step = "fill" /\ ToStep(o, "engine")
      /\ UNCHANGED <<program, vm_lock, call_lock, call_stack>>
  BY DEF PrintCalls, InNative
<1>2. Top(o) \in NativeFrames /\ ~Natives[Top(o).call.f].call_stack
  BY <1>1, TopFacts DEF AnyFrame, LuaFrames, Proper
<1>3. /\ fr \in AnyFrame /\ ~Tracks(fr) /\ \A v : ~Holds(fr, v)
      /\ ~Tracks(Top(o)) /\ \A v : ~Holds(Top(o), v)
  BY <1>1, <1>2, <1>4 DEF AnyFrame, NativeFrames, Tracks, Holds
<1>5. PICK t \in Seq(AnyFrame) :
        /\ frames' = [frames EXCEPT ![o] = t]
        /\ NestedIn(t)
        /\ \A v : HeldIn(t, v) = IF Holds(fr, v) THEN HeldIn(frames[o], v) \cup {Len(frames[o])}
                                 ELSE HeldIn(frames[o], v)
        /\ TrackedIn(t) = IF Tracks(fr) THEN TrackedIn(frames[o]) \cup {Len(frames[o])}
                          ELSE TrackedIn(frames[o])
        /\ \A v : Len(frames[o]) \notin HeldIn(frames[o], v)
        /\ Len(frames[o]) \notin TrackedIn(frames[o])
  BY <1>1, <1>3, <1>4, StepChange
<1>6. (\A v : HeldIn(t, v) = HeldIn(frames[o], v)) /\ TrackedIn(t) = TrackedIn(frames[o])
  BY <1>3, <1>5
<1> QED BY <1>1, <1>5, <1>6, LocksStay

LEMMA AcquireInv ==
  ASSUME Inv, NEW o \in OSThreads, Acquire(o) PROVE Inv'
<1>4. PICK fr, w : fr = [Top(o) EXCEPT !.step = "run"] /\ w = Top(o).vm
  OBVIOUS
<1>1. /\ Busy(o) /\ Top(o).kind = "lua" /\ Top(o).step = "wait" /\ ToStep(o, "run")
      /\ CanLock(vm_lock[w], o) /\ vm_lock' = [vm_lock EXCEPT ![w] = Locked(@, o)]
      /\ UNCHANGED <<program, call_lock, call_stack>>
  BY <1>4 DEF Acquire
<1>2. w \in VMs /\ Top(o) \in LuaFrames
  BY <1>1, <1>4, TopFacts DEF AnyFrame, NativeFrames
<1>3. /\ fr \in AnyFrame /\ ~Tracks(fr) /\ Holds(fr, w) /\ \A v : Holds(fr, v) => v = w
      /\ ~Tracks(Top(o)) /\ \A v : ~Holds(Top(o), v)
  BY <1>1, <1>2, <1>4 DEF AnyFrame, LuaFrames, Tracks, Holds
<1>5a. PICK t \in Seq(AnyFrame) :
        /\ frames' = [frames EXCEPT ![o] = t]
        /\ NestedIn(t)
        /\ \A v : HeldIn(t, v) = IF Holds(fr, v) THEN HeldIn(frames[o], v) \cup {Len(frames[o])}
                                 ELSE HeldIn(frames[o], v)
        /\ TrackedIn(t) = IF Tracks(fr) THEN TrackedIn(frames[o]) \cup {Len(frames[o])}
                          ELSE TrackedIn(frames[o])
        /\ \A v : Len(frames[o]) \notin HeldIn(frames[o], v)
        /\ Len(frames[o]) \notin TrackedIn(frames[o])
  BY <1>1, <1>3, <1>4, StepChange
<1>5. /\ frames' = [frames EXCEPT ![o] = t] /\ NestedIn(t)
      /\ \A v : v # w => HeldIn(t, v) = HeldIn(frames[o], v)
      /\ HeldIn(t, w) = HeldIn(frames[o], w) \cup {Len(frames[o])}
      /\ Len(frames[o]) \notin HeldIn(frames[o], w)
      /\ TrackedIn(t) = TrackedIn(frames[o])
  BY <1>3, <1>5a
<1>6. Agrees(call_lock', Trackers') /\ Described'
  BY <1>1, <1>5, CallLockStays
<1>7. /\ DOMAIN vm_lock' = VMs /\ vm_lock'[w] = Locked(vm_lock[w], o)
      /\ \A v \in VMs \ {w} : vm_lock'[v] = vm_lock[v]
  BY <1>1, <1>2 DEF Inv
<1>8. \A v \in VMs \ {w} : Agrees(vm_lock'[v], Holders(v)')
  BY <1>5, <1>7, VmLocksStay
<1>9. Agrees(vm_lock'[w], Holders(w)')
  <2>1. Agrees(vm_lock[w], Holders(w)) /\ Len(frames[o]) \notin Holders(w)[o]
    BY <1>2, <1>5 DEF Inv, Holders
  <2>2. /\ Holders(w)'[o] = Holders(w)[o] \cup {Len(frames[o])}
        /\ \A p \in OSThreads \ {o} : Holders(w)'[p] = Holders(w)[p]
    BY <1>5, FramesChange DEF Holders
  <2> QED BY <1>1, <1>7, <2>1, <2>2, LockTaken
<1>10. frames' \in [OSThreads -> Seq(AnyFrame)] /\ \A p \in OSThreads : NestedIn(frames'[p])
  BY <1>5, FramesChange
<1> QED BY <1>1, <1>6, <1>7, <1>8, <1>9, <1>10 DEF Inv

LEMMA LeaveInv ==
  ASSUME Inv, NEW o \in OSThreads, Leave(o) PROVE Inv'
<1>0. PICK w, n, t : /\ w = Top(o).vm /\ n = Len(frames[o])
                    /\ t = SubSeq(frames[o], 1, Len(frames[o]) - 1)
  OBVIOUS
<1>1. /\ Busy(o) /\ Top(o).kind = "lua" /\ Top(o).step = "run"
      /\ vm_lock' = [vm_lock EXCEPT ![w] = Released(@)]
      /\ frames' = [frames EXCEPT ![o] = t]
      /\ UNCHANGED <<program, call_lock, call_stack>>
  BY <1>0 DEF Leave, InLua, Pop
<1>2. w \in VMs /\ Top(o) = frames[o][n] /\ n \in DOMAIN frames[o]
  BY <1>0, <1>1, TopFacts
<1>3. /\ t \in Seq(AnyFrame) /\ NestedIn(t)
      /\ \A v : HeldIn(t, v) = HeldIn(frames[o], v) \ {n}
      /\ TrackedIn(t) = TrackedIn(frames[o]) \ {n}
  BY <1>0, <1>1, TopFacts, PopFacts
<1>4. n \in HeldIn(frames[o], w) /\ \A v : v # w => n \notin HeldIn(frames[o], v)
  BY <1>0, <1>1, <1>2 DEF HeldIn, Holds
<1>5. n \notin TrackedIn(frames[o])
  BY <1>0, <1>1, <1>2 DEF TrackedIn, Tracks
<1>6. TrackedIn(t) = TrackedIn(frames[o]) /\ \A v : v # w => HeldIn(t, v) = HeldIn(frames[o], v)
  BY <1>3, <1>4, <1>5
<1>7. Agrees(call_lock', Trackers') /\ Described'
  BY <1>1, <1>3, <1>6, CallLockStays
<1>8. /\ DOMAIN vm_lock' = VMs /\ vm_lock'[w] = Released(vm_lock[w])
      /\ \A v \in VMs \ {w} : vm_lock'[v] = vm_lock[v]
  BY <1>1, <1>2 DEF Inv
<1>9. \A v \in VMs \ {w} : Agrees(vm_lock'[v], Holders(v)')
  BY <1>1, <1>3, <1>6, <1>8, VmLocksStay
<1>10. Agrees(vm_lock'[w], Holders(w)')
  <2>1. Agrees(vm_lock[w], Holders(w)) /\ n \in Holders(w)[o]
    BY <1>2, <1>4 DEF Inv, Holders
  <2>2. /\ Holders(w)'[o] = Holders(w)[o] \ {n}
        /\ \A p \in OSThreads \ {o} : Holders(w)'[p] = Holders(w)[p]
    BY <1>1, <1>3, FramesChange DEF Holders
  <2>3. PICK l, H, G : l = vm_lock[w] /\ H = Holders(w) /\ G = Holders(w)'
    OBVIOUS
  <2>4. /\ Agrees(l, H) /\ n \in H[o] /\ G[o] = H[o] \ {n}
        /\ \A p \in OSThreads \ {o} : G[p] = H[p]
    BY <2>1, <2>2, <2>3
  <2>5. Agrees(Released(l), G)
    BY ONLY <2>4, LockLeft, ZenonT(30)
  <2> QED BY <1>8, <2>3, <2>5
<1>11. frames' \in [OSThreads -> Seq(AnyFrame)] /\ \A p \in OSThreads : NestedIn(frames'[p])
  BY <1>1, <1>3, FramesChange
<1> QED BY <1>1, <1>7, <1>8, <1>9, <1>10, <1>11 DEF Inv

\* The frames that hold VMs stay: so do the locks of VMs.
LEMMA CallLockMoves ==
  ASSUME Inv, NEW o \in OSThreads, NEW t \in Seq(AnyFrame), NestedIn(t),
         frames' = [frames EXCEPT ![o] = t],
         \A v : HeldIn(t, v) = HeldIn(frames[o], v),
         UNCHANGED <<program, vm_lock>>,
         Agrees(call_lock', Trackers'), Described'
  PROVE  Inv'
<1>1. \A v \in VMs : Agrees(vm_lock'[v], Holders(v)')
  BY VmLocksStay
<1>2. frames' \in [OSThreads -> Seq(AnyFrame)] /\ \A p \in OSThreads : NestedIn(frames'[p])
  BY FramesChange
<1> QED BY <1>1, <1>2 DEF Inv

LEMMA SetCallStackInv ==
  ASSUME Inv, NEW o \in OSThreads, set_call_stack(o) PROVE Inv'
<1>1. PICK fr, n : fr = [Top(o) EXCEPT !.step = "engine"] /\ n = Len(frames[o])
  OBVIOUS
<1>2. /\ Busy(o) /\ Top(o).kind = "native" /\ Top(o).step = "lock" /\ ToStep(o, "engine")
      /\ CanLock(call_lock, o) /\ call_lock' = Locked(call_lock, o) /\ call_stack' = <<o, n>>
      /\ UNCHANGED <<program, vm_lock>>
  BY <1>1 DEF set_call_stack, InNative, Id
<1>3. Top(o) \in NativeFrames /\ Natives[Top(o).call.f].call_stack
  BY <1>2, TopFacts DEF AnyFrame, LuaFrames, Proper
<1>4. /\ fr \in AnyFrame /\ Tracks(fr) /\ \A v : ~Holds(fr, v)
      /\ ~Tracks(Top(o)) /\ \A v : ~Holds(Top(o), v)
  BY <1>1, <1>2, <1>3 DEF AnyFrame, NativeFrames, Tracks, Holds
<1>5. PICK t \in Seq(AnyFrame) :
        /\ frames' = [frames EXCEPT ![o] = t]
        /\ NestedIn(t)
        /\ \A v : HeldIn(t, v) = IF Holds(fr, v) THEN HeldIn(frames[o], v) \cup {Len(frames[o])}
                                 ELSE HeldIn(frames[o], v)
        /\ TrackedIn(t) = IF Tracks(fr) THEN TrackedIn(frames[o]) \cup {Len(frames[o])}
                          ELSE TrackedIn(frames[o])
        /\ \A v : Len(frames[o]) \notin HeldIn(frames[o], v)
        /\ Len(frames[o]) \notin TrackedIn(frames[o])
  BY <1>1, <1>2, <1>4, StepChange
<1>6. /\ \A v : HeldIn(t, v) = HeldIn(frames[o], v)
      /\ TrackedIn(t) = TrackedIn(frames[o]) \cup {n} /\ n \notin TrackedIn(frames[o])
  BY <1>1, <1>4, <1>5
<1>7. Agrees(call_lock', Trackers')
  <2>1. PICK l, H, G : l = call_lock /\ H = Trackers /\ G = Trackers'
    OBVIOUS
  <2>2. /\ Agrees(l, H) /\ n \notin H[o] /\ CanLock(l, o)
    BY <1>2, <1>6, <2>1 DEF Inv, Trackers
  <2>3. G[o] = H[o] \cup {n} /\ \A p \in OSThreads \ {o} : G[p] = H[p]
    BY <1>5, <1>6, <2>1, FramesChange, ZenonT(30) DEF Trackers
  <2>4. Agrees(Locked(l, o), G)
    BY ONLY <2>2, <2>3, LockTaken
  <2> QED BY <1>2, <2>1, <2>4
<1>8. Described'
  <2>1. TrackedIn(frames'[o]) = TrackedIn(frames[o]) \cup {n}
    BY <1>5, <1>6, FramesChange
  <2>2. TrackedIn(frames[o]) \subseteq 1..n /\ n \in Nat
    BY <1>1, <1>2, TopFacts, LenProperties DEF TrackedIn
  <2>3. \A i \in TrackedIn(frames'[o]) : i <= n
    BY <2>1, <2>2
  <2> QED BY <1>2, <2>1, <2>3 DEF Described
<1> QED BY <1>2, <1>5, <1>6, <1>7, <1>8, CallLockMoves

LEMMA ReturnInv ==
  ASSUME Inv, NEW o \in OSThreads, Return(o) PROVE Inv'
<1>0. PICK n, t : n = Len(frames[o]) /\ t = SubSeq(frames[o], 1, Len(frames[o]) - 1)
  OBVIOUS
<1>1. /\ Busy(o) /\ Top(o).kind = "native" /\ Top(o).step = "engine"
      /\ frames' = [frames EXCEPT ![o] = SubSeq(@, 1, Len(@) - 1)]
      /\ UNCHANGED <<program, vm_lock>>
  BY DEF Return, InEngine, InNative, Pop
<1>2. \A v : ~Holds(Top(o), v)
  BY <1>1 DEF Holds
<1>3. CASE ~Natives[Top(o).call.f].call_stack
  <2>1. UNCHANGED <<program, vm_lock, call_lock, call_stack>>
    BY <1>1, <1>3 DEF Return
  <2>2. ~Tracks(Top(o))
    BY <1>3 DEF Tracks
  <2> QED BY <1>1, <1>2, <2>1, <2>2, PopStays
<1>4. CASE Natives[Top(o).call.f].call_stack
  <2>1. call_stack' = None /\ call_lock' = Released(call_lock)
    BY <1>4 DEF Return, clear_call_stack
  <2>2. /\ t \in Seq(AnyFrame) /\ NestedIn(t)
        /\ \A v : HeldIn(t, v) = HeldIn(frames[o], v) \ {n}
        /\ TrackedIn(t) = TrackedIn(frames[o]) \ {n}
    BY <1>0, <1>1, TopFacts, PopFacts
  <2>3. frames' = [frames EXCEPT ![o] = t]
    BY <1>0, <1>1
  <2>4. \A v : n \notin HeldIn(frames[o], v)
    BY <1>0, <1>1, <1>2, TopFacts DEF HeldIn
  <2>5. n \in TrackedIn(frames[o])
    BY <1>0, <1>1, <1>4, TopFacts DEF TrackedIn, Tracks
  <2>6. \A v : HeldIn(t, v) = HeldIn(frames[o], v)
    BY <2>2, <2>4
  <2>7. Agrees(call_lock', Trackers')
    <3>1. PICK l, H, G : l = call_lock /\ H = Trackers /\ G = Trackers'
      OBVIOUS
    <3>2. Agrees(l, H) /\ n \in H[o]
      BY <2>5, <3>1 DEF Inv, Trackers
    <3>3. G[o] = H[o] \ {n} /\ \A p \in OSThreads \ {o} : G[p] = H[p]
      BY <2>2, <2>3, <3>1, FramesChange, ZenonT(30) DEF Trackers
    <3>4. Agrees(Released(l), G)
      BY ONLY <3>2, <3>3, LockLeft, ZenonT(30)
    <3> QED BY <2>1, <3>1, <3>4
  <2>8. Described'
    BY <2>1 DEF Described
  <2> QED BY <1>1, <2>2, <2>3, <2>6, <2>7, <2>8, CallLockMoves
<1> QED BY <1>3, <1>4

LEMMA NextInv == Inv /\ [Next]_vars => Inv'
<1> SUFFICES ASSUME Inv, [Next]_vars PROVE Inv'
  OBVIOUS
<1>1. CASE UNCHANGED vars
  BY <1>1 DEF vars, Inv, Described, Holders, Trackers
<1>2. ASSUME NEW o \in OSThreads, Step(o) PROVE Inv'
  BY <1>2, EnterInv, CallBackInv, AcquireInv, LeaveInv, CallInv, PrintNextInv,
     ToStringReturnsInv, ToStringRaisesInv, PrintCallsInv, SetCallStackInv, ReturnInv,
     ReturnRefusedInv DEF Step
<1> QED BY <1>1, <1>2, CrashInv DEF Next

LEMMA SpecInv == Spec => []Inv
BY InitInv, NextInv, PTL DEF Spec

----------------------------------------------------------------------------
(* The theorems.                                                              *)

LEMMA RunsHolds ==
  ASSUME Inv, NEW o \in OSThreads, NEW v \in VMs, Runs(o, v)
  PROVE  vm_lock[v].owner = o
<1>1. PICK i \in DOMAIN frames[o] : frames[o][i].vm = v /\ frames[o][i].step # "wait"
  BY DEF Runs
<1>2. frames[o][i] \in AnyFrame /\ NestedIn(frames[o])
  BY <1>1, ElementOfSeq, LenProperties DEF Inv
<1>3. HeldIn(frames[o], v) # {}
  <2>1. CASE frames[o][i].kind = "lua"
    <3>1. frames[o][i].step = "run"
      BY <1>1, <1>2, <2>1 DEF AnyFrame, LuaFrames, NativeFrames
    <3>2. i \in HeldIn(frames[o], v)
      BY <1>1, <2>1, <3>1 DEF HeldIn, Holds
    <3> QED BY <3>2
  <2>2. CASE frames[o][i].kind \in {"native", "tostring"}
    BY <1>1, <1>2, <2>2 DEF NestedIn
  <2> QED BY <1>2, <2>1, <2>2 DEF AnyFrame, LuaFrames, NativeFrames
<1>4. Agrees(vm_lock[v], Holders(v)) /\ Holders(v)[o] # {}
  BY <1>3 DEF Inv, Holders
<1> QED BY <1>4 DEF Agrees

\* Whatever the programs: no two OS threads are within one VM, whose argument
\* stack is therefore used by one at a time (ThreadHandle, runtime.cpp).
THEOREM MutualExclusionHolds == Spec => []MutualExclusion
<1>1. Inv => MutualExclusion
  BY RunsHolds DEF MutualExclusion
<1> QED BY <1>1, SpecInv, PTL

LEMMA TrackedFacts ==
  ASSUME NEW o PROVE Tracked(o) = TrackedIn(frames[o])
BY DEF Tracked, NativesOf, TrackedIn, Tracks

\* Whatever the programs: the stack of calls that the debugger shows is that of
\* a call of the engine that has not ended, the innermost of its OS thread.
THEOREM CallStackTrueHolds == Spec => []CallStackTrue
<1>1. Inv => CallStackTrue
  BY TrackedFacts DEF Inv, Described, CallStackTrue
<1> QED BY <1>1, SpecInv, PTL

\* The OS thread whose call is shown holds the lock of the call stack.
LEMMA ShownOwns ==
  ASSUME Inv, call_stack # None
  PROVE  \E p \in OSThreads : \E n \in TrackedIn(frames[p]) :
           /\ call_stack = <<p, n>> /\ call_lock.owner = p
           /\ \A i \in TrackedIn(frames[p]) : i <= n
<1>1. PICK p \in OSThreads : \E n \in TrackedIn(frames[p]) :
        call_stack = <<p, n>> /\ \A i \in TrackedIn(frames[p]) : i <= n
  BY DEF Inv, Described
<1>2. call_lock.owner = p
  BY <1>1 DEF Inv, Agrees, Trackers
<1> QED BY <1>1, <1>2

KeptStep ==
  call_stack # None /\ call_stack' # call_stack =>
    \/ call_stack[2] \notin DOMAIN frames'[call_stack[1]]
    \/ call_stack'[1] = call_stack[1] /\ call_stack'[2] > call_stack[2]

LEMMA SetKeeps ==
  ASSUME Inv, NEW o \in OSThreads, set_call_stack(o), call_stack # None
  PROVE  call_stack'[1] = call_stack[1] /\ call_stack'[2] > call_stack[2]
<1>0. PICK p \in OSThreads : \E n \in TrackedIn(frames[p]) :
        call_stack = <<p, n>> /\ call_lock.owner = p
  BY ShownOwns
<1>1. PICK n \in TrackedIn(frames[p]) : call_stack = <<p, n>> /\ call_lock.owner = p
  BY <1>0
<1>2. /\ Busy(o) /\ Top(o).step = "lock" /\ CanLock(call_lock, o)
      /\ call_stack' = <<o, Len(frames[o])>>
  BY DEF set_call_stack, InNative, Id
<1>3. p = o
  BY <1>1, <1>2, NoneAssumption DEF CanLock
<1>4. n \in 1..Len(frames[o]) /\ n # Len(frames[o]) /\ Len(frames[o]) \in Nat
  BY <1>1, <1>2, <1>3, TopFacts, LenProperties DEF TrackedIn, Tracks
<1> QED BY <1>1, <1>2, <1>3, <1>4

LEMMA ReturnKeeps ==
  ASSUME Inv, NEW o \in OSThreads, Return(o), call_stack # None, call_stack' # call_stack
  PROVE  call_stack[2] \notin DOMAIN frames'[call_stack[1]]
<1>0. PICK p \in OSThreads : \E n \in TrackedIn(frames[p]) :
        /\ call_stack = <<p, n>> /\ call_lock.owner = p
        /\ \A i \in TrackedIn(frames[p]) : i <= n
  BY ShownOwns
<1>1. PICK n \in TrackedIn(frames[p]) :
        /\ call_stack = <<p, n>> /\ call_lock.owner = p
        /\ \A i \in TrackedIn(frames[p]) : i <= n
  BY <1>0
<1>2. /\ Busy(o) /\ Top(o).kind = "native" /\ Top(o).step = "engine"
      /\ Natives[Top(o).call.f].call_stack
      /\ frames' = [frames EXCEPT ![o] = SubSeq(@, 1, Len(@) - 1)]
  BY DEF Return, InEngine, InNative, Pop
<1>3. Len(frames[o]) \in TrackedIn(frames[o])
  BY <1>2, TopFacts DEF TrackedIn, Tracks
<1>4. p = o
  BY <1>1, <1>3 DEF Inv, Agrees, Trackers
<1>5. n = Len(frames[o])
  <2>1. n \in 1..Len(frames[o]) /\ Len(frames[o]) <= n /\ Len(frames[o]) \in Nat
    BY <1>1, <1>2, <1>3, <1>4, TopFacts, LenProperties DEF TrackedIn
  <2> QED BY <2>1
<1>6. frames'[o] = SubSeq(frames[o], 1, Len(frames[o]) - 1)
  BY <1>2 DEF Inv
<1>7. DOMAIN frames'[o] = 1..(Len(frames[o]) - 1) /\ Len(frames[o]) \in Nat
  BY <1>2, <1>6, TopFacts, PopFacts
<1> QED BY <1>1, <1>4, <1>5, <1>7

LEMMA CrashKeeps ==
  ASSUME Inv, NEW o \in OSThreads, Crash(o), call_stack # None
  PROVE  call_stack[2] \notin DOMAIN frames'[call_stack[1]]
<1>1. PICK p \in OSThreads : \E n \in TrackedIn(frames[p]) : call_stack = <<p, n>>
  BY ShownOwns
<1>2. frames'[p] = << >> /\ call_stack[1] = p
  BY <1>1 DEF Crash, NoFrames
<1> QED BY <1>2

\* Whatever the programs: the stack that is shown goes with the call it belongs
\* to, or gives way to a call made from within it.
THEOREM CallStackKeptHolds == Spec => CallStackKept
<1>1. Inv /\ [Next]_vars => [KeptStep]_vars
  <2> SUFFICES ASSUME Inv, NEW o \in OSThreads, Step(o) \/ Crash(o),
                      call_stack # None, call_stack' # call_stack
               PROVE  \/ call_stack[2] \notin DOMAIN frames'[call_stack[1]]
                      \/ call_stack'[1] = call_stack[1] /\ call_stack'[2] > call_stack[2]
    BY DEF KeptStep, Next
  <2>1. Step(o) => set_call_stack(o) \/ Return(o)
    BY DEF Step, Enter, CallBack, Acquire, Leave, Call, PrintNext, ToStringReturns,
           ToStringRaises, PrintCalls, ReturnRefused
  <2> QED BY <2>1, SetKeeps, ReturnKeeps, CrashKeeps
<1>2. Spec => [][KeptStep]_vars
  BY <1>1, SpecInv, PTL DEF Spec
<1> QED BY <1>2, PTL DEF CallStackKept, KeptStep

----------------------------------------------------------------------------
(* How the frames of an OS thread lie on each other.                          *)

\* A frame may lie on another: Lua code on a native that is in the engine and may
\* call into its VM, a native on Lua code of its VM that calls it, __tostring on print.
Above(below, fr) ==
  \/ /\ fr.kind = "lua" /\ below.kind = "native" /\ below.step = "engine"
     /\ fr.vm \in below.call.back
  \/ /\ fr.kind = "native" /\ below.kind \in {"lua", "tostring"} /\ below.step = "run"
     /\ fr.vm = below.vm /\ fr.call \in Programs[program].calls[fr.vm]
  \/ /\ fr.kind = "tostring" /\ below.kind = "native" /\ below.step = "fill" /\ fr.vm = below.vm

Begins(o, fr) ==
  IF Busy(o) THEN Above(Top(o), fr) ELSE fr.kind = "lua" /\ Programs[program].enters[o] # {}

\* What a step of o does to its frames.
Pushed(o) == \E fr \in AnyFrame : frames'[o] = Append(frames[o], fr) /\ Begins(o, fr)
PoppedFrame(o) ==
  \E m \in {1, 2} : m <= Len(frames[o]) /\ frames'[o] = Without(frames[o], m)
Stepped(o) ==
  /\ Busy(o) /\ Top(o).step \in {"wait", "fill", "lock"}
  /\ \E x \in {"run", "engine"} : frames'[o] = [frames[o] EXCEPT ![Len(frames[o])].step = x]
FramesMove(o) ==
  /\ UNCHANGED program
  /\ \A p \in OSThreads \ {o} : frames'[p] = frames[p]
  /\ UNCHANGED frames \/ Pushed(o) \/ PoppedFrame(o) \/ Stepped(o)

\* The frames of o become t.
LEMMA OneMoves ==
  ASSUME Inv, NEW o \in OSThreads, NEW t, frames' = [frames EXCEPT ![o] = t]
  PROVE  frames'[o] = t /\ \A p \in OSThreads \ {o} : frames'[p] = frames[p]
BY DEF Inv

\* A native is pushed by Lua code of its VM, which may call it.
LEMMA CallMoves ==
  ASSUME Inv, NEW o \in OSThreads, Call(o) PROVE FramesMove(o)
<1>1. InLua(o) /\ Busy(o) /\ UNCHANGED program
  BY DEF Call, InLua
<1>2. CASE UNCHANGED frames
  BY <1>1, <1>2 DEF FramesMove
<1>3. CASE \E c \in Programs[program].calls[Top(o).vm] : NativePushed(o, c)
  <2>1. PICK c \in Programs[program].calls[Top(o).vm],
            step \in {"lock", "fill", "engine", "refused"} :
          frames' = [frames EXCEPT ![o] = Append(@, Native(Top(o).vm, c, step))]
    BY <1>3 DEF NativePushed
  <2>2. PICK fr : fr = Native(Top(o).vm, c, step)
    OBVIOUS
  <2>3. Top(o).vm \in VMs /\ c \in AllCalls
    BY <1>1, TopFacts DEF Inv, AllCalls
  <2>4. fr \in AnyFrame /\ fr.kind = "native" /\ fr.vm = Top(o).vm /\ fr.call = c
    BY <2>2, <2>3 DEF Native, AnyFrame, NativeFrames
  <2>5. Begins(o, fr)
    BY <1>1, <2>4 DEF Begins, Above, InLua
  <2>6. frames' = [frames EXCEPT ![o] = Append(frames[o], fr)]
    BY <2>1, <2>2
  <2>7. frames'[o] = Append(frames[o], fr) /\ \A p \in OSThreads \ {o} : frames'[p] = frames[p]
    BY <2>6, OneMoves
  <2> QED BY <1>1, <2>4, <2>5, <2>7 DEF FramesMove, Pushed
<1> QED BY <1>2, <1>3, CallPushes

\* Lua code is entered by the engine, for itself or for a native.
LEMMA LuaMoves ==
  ASSUME Inv, NEW o \in OSThreads, Enter(o) \/ CallBack(o) PROVE FramesMove(o)
<1>1. PICK v \in VMs :
        /\ frames' = [frames EXCEPT ![o] = Append(frames[o], LuaFrame(v))]
        /\ IF Busy(o) THEN InEngine(o) /\ v \in Top(o).call.back
           ELSE v \in Programs[program].enters[o]
  <2>1. CASE Enter(o)
    <3>1. PICK v \in Programs[program].enters[o] : Push(o, LuaFrame(v), NotPassed)
      BY <2>1 DEF Enter
    <3>2. v \in VMs /\ ~Busy(o)
      BY <2>1, <3>1, ProgramAssumption DEF Inv, Enter
    <3> QED BY <3>1, <3>2 DEF Push
  <2>2. CASE CallBack(o)
    <3>1. PICK v \in Top(o).call.back : Push(o, LuaFrame(v), NotPassed)
      BY <2>2 DEF CallBack
    <3>2. Busy(o) /\ Top(o).kind = "native" /\ InEngine(o)
      BY <2>2 DEF CallBack, InEngine, InNative
    <3>3. Top(o).call \in AllCalls
      BY <3>2, TopFacts DEF AnyFrame, LuaFrames, NativeFrames
    <3>4. v \in VMs
      BY <3>1, <3>3, ProgramAssumption DEF AllCalls
    <3> QED BY <3>1, <3>2, <3>4 DEF Push
  <2> QED BY <2>1, <2>2
<1>2. PICK fr : fr = LuaFrame(v)
  OBVIOUS
<1>3. fr \in AnyFrame /\ fr.kind = "lua" /\ fr.vm = v
  BY <1>2 DEF LuaFrame, AnyFrame, LuaFrames
<1>4. Begins(o, fr)
  BY <1>1, <1>3 DEF Begins, Above, InEngine, InNative
<1>5. frames'[o] = Append(frames[o], fr) /\ \A p \in OSThreads \ {o} : frames'[p] = frames[p]
  BY <1>1, <1>2, OneMoves
<1>6. UNCHANGED program
  BY DEF Enter, CallBack
<1> QED BY <1>3, <1>4, <1>5, <1>6 DEF FramesMove, Pushed

\* print calls __tostring, or goes on.
LEMMA PrintMoves ==
  ASSUME Inv, NEW o \in OSThreads, PrintNext(o) PROVE FramesMove(o)
<1>1. Busy(o) /\ Top(o).kind = "native" /\ Top(o).step = "fill" /\ UNCHANGED program
  BY DEF PrintNext, InNative
<1>2. CASE UNCHANGED frames
  BY <1>1, <1>2 DEF FramesMove
<1>3. CASE Push(o, ToStringFrame(Top(o).vm), NotPassed)
  <2>1. PICK fr : fr = ToStringFrame(Top(o).vm)
    OBVIOUS
  <2>2. fr \in AnyFrame /\ fr.kind = "tostring" /\ fr.vm = Top(o).vm
    BY <1>1, <2>1, TopFacts DEF ToStringFrame, AnyFrame, LuaFrames
  <2>3. Begins(o, fr)
    BY <1>1, <2>2 DEF Begins, Above
  <2>4. frames' = [frames EXCEPT ![o] = Append(frames[o], fr)]
    BY <1>3, <2>1 DEF Push
  <2>5. frames'[o] = Append(frames[o], fr) /\ \A p \in OSThreads \ {o} : frames'[p] = frames[p]
    BY <2>4, OneMoves
  <2> QED BY <1>1, <2>2, <2>3, <2>5 DEF FramesMove, Pushed
<1> QED BY <1>2, <1>3 DEF PrintNext

LEMMA PopMoves ==
  ASSUME Inv, NEW o \in OSThreads,
         \/ Leave(o) \/ ToStringReturns(o) \/ ToStringRaises(o)
         \/ Return(o) \/ ReturnRefused(o)
  PROVE  FramesMove(o)
<1>1. PICK m \in {1, 2} :
        /\ Busy(o) /\ UNCHANGED program
        /\ frames' = [frames EXCEPT ![o] = Without(frames[o], m)]
        /\ m = 2 => Top(o).kind = "tostring"
  BY DEF Leave, ToStringReturns, ToStringRaises, Return, ReturnRefused, InLua, InEngine,
         InNative, Pop, Without
<1>2. /\ frames'[o] = Without(frames[o], m)
      /\ \A p \in OSThreads \ {o} : frames'[p] = frames[p]
  BY <1>1, OneMoves
<1>3. m <= Len(frames[o])
  <2>1. /\ Len(frames[o]) \in 1..Len(frames[o]) /\ Len(frames[o]) \in Nat
        /\ Top(o).kind = "tostring" => Len(frames[o]) > 1
    BY <1>1, TopFacts, LenProperties DEF OnPrint
  <2> QED BY <1>1, <2>1
<1> QED BY <1>1, <1>2, <1>3 DEF FramesMove, PoppedFrame

\* The innermost frames are popped: those below stay.
LEMMA PoppedFacts ==
  ASSUME Inv, NEW o \in OSThreads, PoppedFrame(o)
  PROVE  \E n \in Nat : /\ n < Len(frames[o]) /\ DOMAIN frames'[o] = 1..n
                       /\ \A i \in 1..n : frames'[o][i] = frames[o][i]
<1>1. PICK m \in {1, 2} : m <= Len(frames[o]) /\ frames'[o] = Without(frames[o], m)
  BY DEF PoppedFrame
<1>2. frames[o] \in Seq(AnyFrame) /\ Len(frames[o]) \in Nat
  BY LenProperties DEF Inv
<1>3. PICK n \in Nat : n = Len(frames[o]) - m /\ n < Len(frames[o])
  BY <1>1, <1>2
<1>4. frames'[o] = SubSeq(frames[o], 1, n)
  BY <1>1, <1>3 DEF Without
<1>5. /\ frames'[o] \in Seq(AnyFrame) /\ Len(frames'[o]) = n
      /\ \A i \in 1..n : frames'[o][i] = frames[o][i]
  BY <1>2, <1>3, <1>4
<1>6. DOMAIN frames'[o] = 1..n
  BY <1>5, LenProperties
<1> QED BY <1>3, <1>5, <1>6

LEMMA StepMoves ==
  ASSUME Inv, NEW o \in OSThreads, Acquire(o) \/ PrintCalls(o) \/ set_call_stack(o)
  PROVE  FramesMove(o)
<1>1. /\ Busy(o) /\ Top(o).step \in {"wait", "fill", "lock"} /\ UNCHANGED program
      /\ ToStep(o, "run") \/ ToStep(o, "engine")
  BY DEF Acquire, PrintCalls, set_call_stack, InNative
<1>2. PICK x \in {"run", "engine"} :
        frames' = [frames EXCEPT ![o] = [frames[o] EXCEPT ![Len(frames[o])].step = x]]
  BY <1>1 DEF ToStep
<1>3. /\ frames'[o] = [frames[o] EXCEPT ![Len(frames[o])].step = x]
      /\ \A p \in OSThreads \ {o} : frames'[p] = frames[p]
  BY <1>2, OneMoves
<1> QED BY <1>1, <1>3 DEF FramesMove, Stepped

LEMMA StepFrames ==
  ASSUME Inv, NEW o \in OSThreads, Step(o) PROVE FramesMove(o)
BY LuaMoves, StepMoves, PopMoves, CallMoves, PrintMoves DEF Step

\* A frame is pushed: the frames below stay.
LEMMA AppendFacts ==
  ASSUME NEW s \in Seq(AnyFrame), NEW fr \in AnyFrame
  PROVE  /\ Append(s, fr) \in Seq(AnyFrame) /\ Len(s) \in Nat
         /\ DOMAIN s = 1..Len(s) /\ DOMAIN Append(s, fr) = 1..(Len(s) + 1)
         /\ Append(s, fr)[Len(s) + 1] = fr
         /\ \A i \in 1..Len(s) : Append(s, fr)[i] = s[i]
BY AppendProperties, LenProperties

\* The innermost frame goes on: nothing but its step changes.
LEMMA SteppedFacts ==
  ASSUME Inv, NEW o \in OSThreads, Stepped(o)
  PROVE  /\ DOMAIN frames'[o] = DOMAIN frames[o]
         /\ \A i \in DOMAIN frames[o] :
              /\ i # Len(frames[o]) => frames'[o][i] = frames[o][i]
              /\ frames'[o][i].kind = frames[o][i].kind /\ frames'[o][i].vm = frames[o][i].vm
              /\ frames[o][i].kind = "native" => frames'[o][i].call = frames[o][i].call
<1>1. PICK x \in {"run", "engine"} : frames'[o] = [frames[o] EXCEPT ![Len(frames[o])].step = x]
  BY DEF Stepped
<1>2. /\ frames[o] \in Seq(AnyFrame) /\ Len(frames[o]) \in DOMAIN frames[o]
      /\ \A i \in DOMAIN frames[o] : frames[o][i] \in AnyFrame
  BY TopFacts, ElementOfSeq, LenProperties DEF Stepped
<1>3. DOMAIN frames'[o] = DOMAIN frames[o]
  BY <1>1
<1>4. \A i \in DOMAIN frames[o] : i # Len(frames[o]) => frames'[o][i] = frames[o][i]
  BY <1>1
<1>5. PICK fr : fr = frames[o][Len(frames[o])]
  OBVIOUS
<1>6. frames'[o][Len(frames[o])] = [fr EXCEPT !.step = x] /\ fr \in AnyFrame
  BY <1>1, <1>2, <1>5
<1>7. /\ [fr EXCEPT !.step = x].kind = fr.kind /\ [fr EXCEPT !.step = x].vm = fr.vm
      /\ fr.kind = "native" => [fr EXCEPT !.step = x].call = fr.call
  BY <1>6 DEF AnyFrame, LuaFrames, NativeFrames
<1> QED BY <1>3, <1>4, <1>5, <1>6, <1>7

\* Each frame lies on one that it may lie on, the first on none.
ShapeIn(s) ==
  \A i \in DOMAIN s : IF i = 1 THEN s[i].kind = "lua" ELSE Above(s[i - 1], s[i])

ShapeInv == \A o \in OSThreads : ShapeIn(frames[o])

LEMMA NextShape == Inv /\ ShapeInv /\ [Next]_vars => ShapeInv'
<1> SUFFICES ASSUME Inv, ShapeInv, [Next]_vars PROVE ShapeInv'
  OBVIOUS
<1>1. CASE UNCHANGED vars
  BY <1>1 DEF vars, ShapeInv, ShapeIn, Above
<1>2. ASSUME NEW o \in OSThreads, Step(o) PROVE ShapeInv'
  <2>1. FramesMove(o)
    BY <1>2, StepFrames
  <2>2. \A below, fr : Above(below, fr)' <=> Above(below, fr)
    BY <2>1 DEF FramesMove, Above
  <2> SUFFICES ASSUME NEW i \in DOMAIN frames'[o]
               PROVE  IF i = 1 THEN frames'[o][i].kind = "lua"
                      ELSE Above(frames'[o][i - 1], frames'[o][i])
    BY <2>1, <2>2 DEF FramesMove, ShapeInv, ShapeIn, Above
  <2>3. frames[o] \in Seq(AnyFrame) /\ DOMAIN frames[o] = 1..Len(frames[o]) /\ Len(frames[o]) \in Nat
    BY LenProperties DEF Inv
  <2>4. \A j \in 1..Len(frames[o]) : IF j = 1 THEN frames[o][j].kind = "lua"
                                     ELSE Above(frames[o][j - 1], frames[o][j])
    BY <2>3 DEF ShapeInv, ShapeIn
  <2>5. CASE UNCHANGED frames
    BY <2>3, <2>4, <2>5
  <2>6. CASE Pushed(o)
    <3>1. PICK fr \in AnyFrame : frames'[o] = Append(frames[o], fr) /\ Begins(o, fr)
      BY <2>6 DEF Pushed
    <3>2. /\ DOMAIN frames'[o] = 1..(Len(frames[o]) + 1)
          /\ frames'[o][Len(frames[o]) + 1] = fr
          /\ \A j \in 1..Len(frames[o]) : frames'[o][j] = frames[o][j]
      BY <2>3, <3>1, AppendFacts
    <3>3. CASE i = Len(frames[o]) + 1
      <4>1. CASE Busy(o)
        <5>1. Len(frames[o]) \in 1..Len(frames[o]) /\ Top(o) = frames[o][Len(frames[o])]
          BY <2>3, <4>1, TopFacts
        <5> QED BY <2>3, <3>1, <3>2, <3>3, <4>1, <5>1 DEF Begins
      <4>2. CASE ~Busy(o)
        <5>1. Len(frames[o]) = 0
          BY <4>2 DEF Busy
        <5> QED BY <3>1, <3>2, <3>3, <4>2, <5>1 DEF Begins
      <4> QED BY <4>1, <4>2
    <3>4. CASE i \in 1..Len(frames[o])
      <4>1. i # 1 => i - 1 \in 1..Len(frames[o])
        BY <2>3, <3>4
      <4>2. frames'[o][i] = frames[o][i] /\ (i # 1 => frames'[o][i - 1] = frames[o][i - 1])
        BY <3>2, <3>4, <4>1
      <4> QED BY <2>4, <3>4, <4>2
    <3> QED BY <2>3, <3>2, <3>3, <3>4
  <2>7. CASE PoppedFrame(o)
    <3>1. PICK n \in Nat : /\ n < Len(frames[o]) /\ DOMAIN frames'[o] = 1..n
                           /\ \A j \in 1..n : frames'[o][j] = frames[o][j]
      BY <2>7, PoppedFacts
    <3> QED BY <2>3, <2>4, <3>1
  <2>8. CASE Stepped(o)
    <3>1. /\ DOMAIN frames'[o] = DOMAIN frames[o]
          /\ \A j \in 1..Len(frames[o]) :
               /\ j # Len(frames[o]) => frames'[o][j] = frames[o][j]
               /\ frames'[o][j].kind = frames[o][j].kind /\ frames'[o][j].vm = frames[o][j].vm
               /\ frames[o][j].kind = "native" => frames'[o][j].call = frames[o][j].call
      BY <2>3, <2>8, SteppedFacts
    <3>2. CASE i = 1
      BY <2>3, <2>4, <3>1, <3>2
    <3>3. CASE i # 1
      <4>1. i - 1 \in 1..Len(frames[o]) /\ i - 1 # Len(frames[o]) /\ i \in 1..Len(frames[o])
        BY <2>3, <3>1, <3>3
      <4>2. Above(frames[o][i - 1], frames[o][i]) /\ frames'[o][i - 1] = frames[o][i - 1]
        BY <2>4, <3>1, <3>3, <4>1
      <4> QED BY <3>1, <3>3, <4>1, <4>2 DEF Above
    <3> QED BY <3>2, <3>3
  <2> QED BY <2>1, <2>5, <2>6, <2>7, <2>8 DEF FramesMove
<1>3. ASSUME NEW o \in OSThreads, Crash(o) PROVE ShapeInv'
  BY <1>3 DEF Crash, NoFrames, ShapeInv, ShapeIn
<1> QED BY <1>1, <1>2, <1>3 DEF Next

LEMMA SpecShape == Spec => []ShapeInv
<1>1. Init => ShapeInv
  BY DEF Init, NoFrames, ShapeInv, ShapeIn
<1> QED BY <1>1, SpecInv, NextShape, PTL DEF Spec

----------------------------------------------------------------------------
(* No circle of OS threads that wait for each other.                          *)

\* Frames stay in the VM of a call that holds the lock of the call stack, and go
\* down in rank where they change it.
DescendsIn(s, rank) ==
  \A i, j \in DOMAIN s : i < j =>
    /\ s[j].vm # s[i].vm => rank[s[j].vm] < rank[s[i].vm]
    /\ s[i].kind = "native" /\ Natives[s[i].call.f].call_stack => s[j].vm = s[i].vm

\* OS threads that the engine never makes enter Lua have no frames; the others'
\* descend, if the program's calls do.
OrderInv(rank) ==
  /\ \A o \in OSThreads : Programs[program].enters[o] = {} => frames[o] = << >>
  /\ CrossesDown(Programs[program], rank) => \A o \in OSThreads : DescendsIn(frames[o], rank)

\* A frame that is pushed on one of another VM descends.
LEMMA PushDescends ==
  ASSUME NEW rank \in [VMs -> Nat], Inv, ShapeInv, CrossesDown(Programs[program], rank),
         NEW o \in OSThreads, Busy(o), DescendsIn(frames[o], rank),
         NEW fr \in AnyFrame, Above(Top(o), fr), NEW i \in DOMAIN frames[o]
  PROVE  /\ fr.vm # frames[o][i].vm => rank[fr.vm] < rank[frames[o][i].vm]
         /\ frames[o][i].kind = "native" /\ Natives[frames[o][i].call.f].call_stack
              => fr.vm = frames[o][i].vm
<1> DEFINE n == Len(frames[o])
<1>1. /\ frames[o] \in Seq(AnyFrame) /\ n \in Nat /\ n \in DOMAIN frames[o]
      /\ DOMAIN frames[o] = 1..n /\ Top(o) = frames[o][n] /\ Top(o).vm \in VMs
      /\ \A j \in DOMAIN frames[o] : frames[o][j] \in AnyFrame
  BY TopFacts, ElementOfSeq, LenProperties
<1> HIDE DEF n
<1>2. \A j \in DOMAIN frames[o] : frames[o][j].vm \in VMs
  BY <1>1 DEF AnyFrame, LuaFrames, NativeFrames
<1>3. fr.vm \in VMs
  BY DEF AnyFrame, LuaFrames, NativeFrames
<1>4. /\ Top(o).vm # frames[o][i].vm => rank[Top(o).vm] < rank[frames[o][i].vm]
      /\ i # n /\ frames[o][i].kind = "native" /\ Natives[frames[o][i].call.f].call_stack
           => Top(o).vm = frames[o][i].vm
  <2>1. CASE i = n
    BY <1>1, <2>1
  <2>2. CASE i # n
    BY <1>1, <2>2 DEF DescendsIn
  <2> QED BY <2>1, <2>2
<1>5. \A v \in VMs : rank[v] \in Nat
  OBVIOUS
<1>6. CASE fr.vm = Top(o).vm
  BY <1>1, <1>4, <1>6
<1>7. CASE fr.vm # Top(o).vm
  <2>1. /\ Top(o).kind = "native" /\ fr.vm \in Top(o).call.back
        /\ n # 1 /\ Top(o).call \in Programs[program].calls[Top(o).vm]
    <3>1. Top(o).kind = "native" /\ fr.vm \in Top(o).call.back
      BY <1>7 DEF Above
    <3>2. IF n = 1 THEN Top(o).kind = "lua" ELSE Above(frames[o][n - 1], Top(o))
      BY <1>1 DEF ShapeInv, ShapeIn
    <3> QED BY <3>1, <3>2 DEF Above
  <2>2. rank[fr.vm] < rank[Top(o).vm]
    BY <1>1, <1>7, <2>1 DEF CrossesDown
  <2>3. rank[fr.vm] < rank[frames[o][i].vm]
    BY <1>1, <1>2, <1>3, <1>4, <1>5, <2>2
  <2>4. ASSUME frames[o][i].kind = "native", Natives[frames[o][i].call.f].call_stack
        PROVE  FALSE
    <3>1. i # 1 /\ frames[o][i].call \in Programs[program].calls[frames[o][i].vm]
      BY <2>4 DEF ShapeInv, ShapeIn, Above
    <3>2. frames[o][i].call.back # {}
      <4>1. CASE i = n
        BY <1>1, <2>1, <4>1
      <4>2. CASE i # n
        <5>1. i + 1 \in DOMAIN frames[o] /\ i + 1 # 1 /\ (i + 1) - 1 = i
          BY <1>1, <4>2
        <5>2. Above(frames[o][i], frames[o][i + 1])
          BY <5>1 DEF ShapeInv, ShapeIn
        <5>3. frames[o][i].step # "fill"
          BY <2>4 DEF Inv, NestedIn, Proper
        <5> QED BY <2>4, <5>2, <5>3 DEF Above
      <4> QED BY <4>1, <4>2
    <3>3. Top(o).vm = frames[o][i].vm
      BY <1>1, <1>4, <2>4
    <3>4. Top(o).call.back \subseteq {frames[o][i].vm}
      BY <1>2, <2>1, <2>4, <3>1, <3>2, <3>3 DEF CrossesDown
    <3> QED BY <1>7, <2>1, <3>3, <3>4
  <2> QED BY <2>3, <2>4
<1> QED BY <1>6, <1>7

LEMMA NextOrder ==
  ASSUME NEW rank \in [VMs -> Nat], Inv, ShapeInv, OrderInv(rank), [Next]_vars
  PROVE  OrderInv(rank)'
<1>1. CASE UNCHANGED vars
  BY <1>1 DEF vars, OrderInv, DescendsIn
<1>2. ASSUME NEW o \in OSThreads, Step(o) PROVE OrderInv(rank)'
  <2>1. FramesMove(o)
    BY <1>2, StepFrames
  <2>2. frames[o] \in Seq(AnyFrame) /\ DOMAIN frames[o] = 1..Len(frames[o]) /\ Len(frames[o]) \in Nat
    BY LenProperties DEF Inv
  <2>3. ASSUME Programs[program].enters[o] = {} PROVE frames'[o] = << >>
    <3>1. frames[o] = << >> /\ ~Busy(o)
      BY <2>3 DEF OrderInv, Busy
    <3>2. Len(frames[o]) = 0
      BY <3>1
    <3> QED BY <2>1, <2>3, <3>1, <3>2 DEF FramesMove, Pushed, PoppedFrame, Stepped, Begins
  <2>4. ASSUME CrossesDown(Programs[program], rank) PROVE DescendsIn(frames'[o], rank)
    <3>1. DescendsIn(frames[o], rank)
      BY <2>4 DEF OrderInv
    <3> SUFFICES ASSUME NEW i \in DOMAIN frames'[o], NEW j \in DOMAIN frames'[o], i < j
                 PROVE  /\ frames'[o][j].vm # frames'[o][i].vm
                             => rank[frames'[o][j].vm] < rank[frames'[o][i].vm]
                        /\ frames'[o][i].kind = "native" /\ Natives[frames'[o][i].call.f].call_stack
                             => frames'[o][j].vm = frames'[o][i].vm
      BY DEF DescendsIn
    <3>2. CASE UNCHANGED frames
      BY <3>1, <3>2 DEF DescendsIn
    <3>3. CASE Pushed(o)
      <4>1. PICK fr \in AnyFrame : frames'[o] = Append(frames[o], fr) /\ Begins(o, fr)
        BY <3>3 DEF Pushed
      <4>2. /\ DOMAIN frames'[o] = 1..(Len(frames[o]) + 1)
            /\ frames'[o][Len(frames[o]) + 1] = fr
            /\ \A k \in 1..Len(frames[o]) : frames'[o][k] = frames[o][k]
        BY <2>2, <4>1, AppendFacts
      <4>3. i \in 1..Len(frames[o]) /\ frames'[o][i] = frames[o][i]
        BY <2>2, <4>2
      <4>4. CASE j = Len(frames[o]) + 1
        <5>1. Busy(o)
          BY <2>2, <4>3 DEF Busy
        <5>2. Above(Top(o), fr)
          BY <4>1, <5>1 DEF Begins
        <5>3. i \in DOMAIN frames[o]
          BY <2>2, <4>3
        <5>4. /\ fr.vm # frames[o][i].vm => rank[fr.vm] < rank[frames[o][i].vm]
              /\ frames[o][i].kind = "native" /\ Natives[frames[o][i].call.f].call_stack
                   => fr.vm = frames[o][i].vm
          BY <2>4, <3>1, <5>1, <5>2, <5>3, PushDescends
        <5> QED BY <4>2, <4>3, <4>4, <5>4
      <4>5. CASE j # Len(frames[o]) + 1
        <5>1. j \in 1..Len(frames[o]) /\ frames'[o][j] = frames[o][j]
          BY <2>2, <4>2, <4>5
        <5> QED BY <2>2, <3>1, <4>3, <5>1 DEF DescendsIn
      <4> QED BY <4>4, <4>5
    <3>4. CASE PoppedFrame(o)
      <4>1. PICK n \in Nat : /\ n < Len(frames[o]) /\ DOMAIN frames'[o] = 1..n
                             /\ \A k \in 1..n : frames'[o][k] = frames[o][k]
        BY <3>4, PoppedFacts
      <4>2. /\ i \in DOMAIN frames[o] /\ j \in DOMAIN frames[o]
            /\ frames'[o][i] = frames[o][i] /\ frames'[o][j] = frames[o][j]
        BY <2>2, <4>1
      <4> QED BY <3>1, <4>2 DEF DescendsIn
    <3>5. CASE Stepped(o)
      <4>1. /\ DOMAIN frames'[o] = DOMAIN frames[o]
            /\ \A k \in 1..Len(frames[o]) :
                 /\ k # Len(frames[o]) => frames'[o][k] = frames[o][k]
                 /\ frames'[o][k].vm = frames[o][k].vm
        BY <2>2, <3>5, SteppedFacts
      <4>2. i \in 1..Len(frames[o]) /\ j \in 1..Len(frames[o]) /\ i # Len(frames[o])
        BY <2>2, <4>1
      <4>3. frames'[o][i] = frames[o][i] /\ frames'[o][j].vm = frames[o][j].vm
        BY <4>1, <4>2
      <4> QED BY <2>2, <3>1, <4>2, <4>3 DEF DescendsIn
    <3> QED BY <2>1, <3>2, <3>3, <3>4, <3>5 DEF FramesMove
  <2>5. program' = program /\ \A p \in OSThreads \ {o} : frames'[p] = frames[p]
    BY <2>1 DEF FramesMove
  <2> QED BY <2>3, <2>4, <2>5 DEF OrderInv
<1>3. ASSUME NEW o \in OSThreads, Crash(o) PROVE OrderInv(rank)'
  BY <1>3 DEF Crash, NoFrames, OrderInv, DescendsIn
<1> QED BY <1>1, <1>2, <1>3 DEF Next

\* The OS thread that o waits for is another, and busy: it has the lock.
LEMMA WaitFacts ==
  ASSUME Inv, NEW o \in OSThreads, NEW p \in WaitsFor(o)
  PROVE  /\ Busy(o) /\ p # o /\ p # None
         /\ \/ Top(o).step = "wait" /\ p = vm_lock[Top(o).vm].owner
            \/ Top(o).step = "lock" /\ p = call_lock.owner
BY DEF WaitsFor, CanLock

\* What has the lock of the call stack waits for nothing: it stays in its VM.
LEMMA CallOwnerRuns ==
  ASSUME NEW rank \in [VMs -> Nat], Inv, OrderInv(rank), CrossesDown(Programs[program], rank),
         NEW p \in OSThreads, call_lock.owner = p
  PROVE  WaitsFor(p) = {}
<1>1. PICK k \in TrackedIn(frames[p]) : TRUE
  BY DEF Inv, Agrees, Trackers
<1>2. /\ k \in DOMAIN frames[p] /\ frames[p][k].kind = "native" /\ frames[p][k].step = "engine"
      /\ Natives[frames[p][k].call.f].call_stack
  BY DEF TrackedIn, Tracks
<1>3. Busy(p)
  <2>1. frames[p] \in Seq(AnyFrame)
    BY DEF Inv
  <2> QED BY <1>2, <2>1, LenProperties DEF Busy
<1>4. /\ DOMAIN frames[p] = 1..Len(frames[p]) /\ Len(frames[p]) \in DOMAIN frames[p]
      /\ Top(p) = frames[p][Len(frames[p])] /\ Top(p).vm \in VMs /\ NestedIn(frames[p])
  BY <1>3, TopFacts
<1>5. Top(p).step = "wait" => CanLock(vm_lock[Top(p).vm], p)
  <2> SUFFICES ASSUME Top(p).step = "wait" PROVE CanLock(vm_lock[Top(p).vm], p)
    OBVIOUS
  <2>1. k < Len(frames[p])
    BY <1>2, <1>4
  <2>2. Top(p).vm = frames[p][k].vm
    BY <1>2, <1>4, <2>1 DEF OrderInv, DescendsIn
  <2>3. HeldIn(frames[p], Top(p).vm) # {}
    BY <1>2, <1>4, <2>2 DEF NestedIn
  <2>4. Agrees(vm_lock[Top(p).vm], Holders(Top(p).vm)) /\ Holders(Top(p).vm)[p] # {}
    BY <1>4, <2>3 DEF Inv, Holders
  <2> QED BY <2>4 DEF Agrees, CanLock
<1> QED BY <1>5 DEF WaitsFor, CanLock

\* Who waits for a VM that another OS thread has is of a higher rank than what
\* that one waits for.
LEMMA WaitsDown ==
  ASSUME NEW rank \in [VMs -> Nat], Inv, OrderInv(rank), CrossesDown(Programs[program], rank),
         NEW o \in OSThreads, NEW p \in OSThreads, NEW q \in OSThreads,
         p \in WaitsFor(o), q \in WaitsFor(p), WaitsFor(q) # {}
  PROVE  rank[Top(p).vm] < rank[Top(o).vm]
<1>1. call_lock.owner # p /\ call_lock.owner # q
  BY CallOwnerRuns
<1>2. Busy(o) /\ Top(o).step = "wait" /\ p = vm_lock[Top(o).vm].owner /\ Top(o).vm \in VMs
  BY <1>1, WaitFacts, TopFacts
<1>3. /\ Busy(p) /\ Top(p).vm \in VMs /\ Top(p).step = "wait"
      /\ q = vm_lock[Top(p).vm].owner /\ q # p
  BY <1>1, WaitFacts, TopFacts
<1>4. HeldIn(frames[p], Top(o).vm) # {}
  <2>1. Agrees(vm_lock[Top(o).vm], Holders(Top(o).vm))
    BY <1>2 DEF Inv
  <2>2. Holders(Top(o).vm)[p] # {}
    BY <1>2, <2>1 DEF Agrees
  <2> QED BY <2>2 DEF Holders
<1>5. PICK i \in HeldIn(frames[p], Top(o).vm) : TRUE
  BY <1>4
<1>6. /\ i \in DOMAIN frames[p] /\ frames[p][i].vm = Top(o).vm
      /\ frames[p][i].kind = "lua" /\ frames[p][i].step = "run"
  BY DEF HeldIn, Holds
<1>7. /\ DOMAIN frames[p] = 1..Len(frames[p]) /\ Len(frames[p]) \in DOMAIN frames[p]
      /\ Top(p) = frames[p][Len(frames[p])] /\ Len(frames[p]) \in Nat
  BY <1>3, TopFacts, LenProperties
<1>8. i < Len(frames[p])
  <2>1. i # Len(frames[p])
    BY <1>3, <1>6, <1>7, Zenon
  <2>2. i \in 1..Len(frames[p]) /\ Len(frames[p]) \in Nat
    BY <1>6, <1>7, Zenon
  <2> QED BY <2>1, <2>2
<1>9. Top(p).vm # Top(o).vm
  BY <1>2, <1>3, Zenon
<1> QED BY <1>6, <1>7, <1>8, <1>9 DEF OrderInv, DescendsIn

\* Of several OS threads one does not wait for another of them.
LEMMA NoCircle ==
  ASSUME NEW rank \in [VMs -> Nat], Inv, OrderInv(rank),
         CrossesDown(Programs[program], rank) \/ OneEnters(Programs[program])
  PROVE  NoCircularWait
<1> SUFFICES ASSUME NEW S \in (SUBSET OSThreads) \ {{}},
                    \A o \in S : WaitsFor(o) \cap S # {}
             PROVE  FALSE
  BY DEF NoCircularWait
<1>1. \A o \in S : o \in OSThreads /\ \E p \in S : p \in WaitsFor(o) /\ p # o /\ Busy(p) /\ Busy(o)
  <2> TAKE o \in S
  <2>1. PICK p \in S : p \in WaitsFor(o)
    OBVIOUS
  <2>2. PICK q \in S : q \in WaitsFor(p)
    OBVIOUS
  <2> QED BY <2>1, <2>2, WaitFacts
<1>2. CASE OneEnters(Programs[program])
  <2>1. PICK o \in OSThreads : \A p \in OSThreads \ {o} : Programs[program].enters[p] = {}
    BY <1>2 DEF OneEnters
  <2>2. \A p \in OSThreads : Busy(p) => p = o
    BY <2>1 DEF OrderInv, Busy
  <2>3. PICK p \in S : TRUE
    OBVIOUS
  <2> QED BY <1>1, <2>2, <2>3
<1>3. CASE CrossesDown(Programs[program], rank)
  <2> DEFINE R == {rank[Top(o).vm] : o \in S}
  <2>1. \A o \in S : rank[Top(o).vm] \in Nat
    BY <1>1, TopFacts
  <2>2. R \in SUBSET Nat /\ R # {}
    BY <2>1
  <2>3. PICK x \in R : \A y \in R : x <= y
    <3> HIDE DEF R
    <3> QED BY <2>2, LeastExists
  <2>4. PICK o \in S : x = rank[Top(o).vm]
    OBVIOUS
  <2>5. PICK p \in S : p \in WaitsFor(o)
    OBVIOUS
  <2>6. PICK q \in S : q \in WaitsFor(p)
    OBVIOUS
  <2>7. WaitsFor(q) # {}
    OBVIOUS
  <2>8. rank[Top(p).vm] < rank[Top(o).vm]
    BY <1>1, <1>3, <2>5, <2>6, <2>7, WaitsDown
  <2>9. rank[Top(o).vm] <= rank[Top(p).vm]
    BY <2>3, <2>4
  <2> QED BY <2>1, <2>8, <2>9
<1> QED BY <1>2, <1>3

\* OS threads never wait for each other in a circle, by the locks of VMs (ThreadHandle)
\* and that of the call stack (SET_CALL_STACK), in programs whose calls cross VMs
\* down a rank and not from natives that hold the lock of the call stack, or that
\* one OS thread runs.
THEOREM NoCircularWaitHolds ==
  ASSUME NEW rank \in [VMs -> Nat],
         \A p \in DOMAIN Programs : CrossesDown(Programs[p], rank) \/ OneEnters(Programs[p])
  PROVE  Spec => []NoCircularWait
<1>1. Init => OrderInv(rank)
  BY DEF Init, NoFrames, OrderInv, DescendsIn
<1>2. Inv /\ ShapeInv /\ OrderInv(rank) /\ [Next]_vars => OrderInv(rank)'
  BY NextOrder
<1>3. Inv /\ OrderInv(rank) => NoCircularWait
  BY NoCircle DEF Inv
<1> QED BY <1>1, <1>2, <1>3, SpecInv, SpecShape, PTL DEF Spec

----------------------------------------------------------------------------
(* What holds of an argument stack, at the start and after every call.        *)

IsSlot(lv) ==
  /\ lv = [type |-> lv.type, from_luau |-> lv.from_luau, data |-> lv.data, value |-> lv.value]
  /\ lv.type \in Types \cup {None}

\* A pointer into an array is to the slot of its own position.
OwnPointer(x, i) == x.to \in {"args", "varargs"} => x.index = i

IsStack(s) ==
  /\ s = [args |-> s.args, varargs |-> s.varargs, ptr_args |-> s.ptr_args,
          size |-> s.size, capacity |-> s.capacity]
  /\ s.size \in Nat /\ s.capacity \in 0..SizeMax /\ s.size <= s.capacity
  /\ s.args = [i \in Places(s.capacity) |-> s.args[i]]
  /\ s.varargs = [i \in Places(s.capacity) |-> s.varargs[i]]
  /\ s.ptr_args = [i \in Places(s.capacity) |-> s.ptr_args[i]]
  /\ \A i \in Places(s.capacity) : IsSlot(s.args[i]) /\ OwnPointer(s.ptr_args[i], i)

\* Stack s becomes t, by a call that fills n positions.
Fills(s, t, n) ==
  /\ IsStack(t) /\ t.size = n
  /\ t.capacity = Largest(s.capacity, n)
  /\ t.capacity = s.capacity =>
       \A i \in 1..s.capacity : i > n => Argument(t, i) = Argument(s, i)

LEMMA PlacesFacts ==
  ASSUME NEW n \in 0..SizeMax
  PROVE  /\ Places(n) \subseteq 1..n
         /\ n # SizeMax => Places(n) = 1..n
         /\ n = SizeMax => Places(n) = {}
BY SizeAssumption DEF Places

LEMMA StackFacts ==
  ASSUME NEW s, IsStack(s)
  PROVE  s.size \in Nat /\ s.capacity \in Nat /\ s.size <= s.capacity
BY SizeAssumption DEF IsStack

LEMMA FirstIs ==
  ASSUME NEW S \in SUBSET Nat, S # {}
  PROVE  First(S) \in S /\ \A y \in S : First(S) <= y
BY LeastExists DEF First

LEMMA FinalIs ==
  ASSUME NEW n \in Nat, NEW S \in SUBSET (1..n), S # {}
  PROVE  Final(S) \in S /\ \A y \in S : y <= Final(S)
<1> DEFINE T == {n - x : x \in S}
<1>1. T \in SUBSET Nat /\ T # {}
  <2>1. \A x \in S : x \in 1..n
    OBVIOUS
  <2>2. \A x \in 1..n : n - x \in Nat
    OBVIOUS
  <2> QED BY <2>1, <2>2
<1>2. PICK t \in T : \A u \in T : t <= u
  BY <1>1, LeastExists
<1>3. PICK x \in S : t = n - x
  OBVIOUS
<1>4. \A y \in S : n - x <= n - y
  BY <1>2, <1>3
<1>5. \A y \in S : y <= x
  BY <1>3, <1>4
<1> QED BY <1>3, <1>5 DEF Final

LEMMA SequenceFacts ==
  ASSUME NEW s, IsSequence(s)
  PROVE  Len(s) \in Nat /\ DOMAIN s = 1..Len(s)
BY LenProperties DEF IsSequence

\* The stack has room for n arguments.
LEMMA Resized ==
  ASSUME NEW s, IsStack(s), NEW n \in 0..SizeMax
  PROVE  Fills(s, resize(s, n), n)
<1>1. CASE n <= s.capacity
  <2>1. PICK t : t = [args |-> s.args, varargs |-> s.varargs, ptr_args |-> s.ptr_args,
                      size |-> n, capacity |-> s.capacity]
    OBVIOUS
  <2>2. resize(s, n) = t
    <3>1. resize(s, n) = [s EXCEPT !.size = n]
      BY <1>1 DEF resize
    <3>2. PICK a1, a2, a3, a4, a5 :
            s = [args |-> a1, varargs |-> a2, ptr_args |-> a3, size |-> a4, capacity |-> a5]
      BY DEF IsStack
    <3>3. t = [args |-> a1, varargs |-> a2, ptr_args |-> a3, size |-> n, capacity |-> a5]
      BY <2>1, <3>2
    <3> QED BY <3>1, <3>2, <3>3
  <2>3. /\ t.size = n /\ t.capacity = s.capacity /\ t.args = s.args
        /\ t.varargs = s.varargs /\ t.ptr_args = s.ptr_args
    BY <2>1
  <2>4. IsStack(t)
    BY <1>1, <2>1, <2>3, SizeAssumption DEF IsStack
  <2>5. \A i : Argument(t, i) = Argument(s, i)
    BY <2>3 DEF Argument
  <2>6. t.capacity = Largest(s.capacity, n)
    BY <1>1, <2>3, SizeAssumption DEF Largest, IsStack
  <2> QED BY <2>2, <2>3, <2>4, <2>5, <2>6 DEF Fills
<1>2. CASE ~(n <= s.capacity)
  <2>1. PICK t : t = Allocated(n)
    OBVIOUS
  <2>2. resize(s, n) = t /\ t.size = n /\ t.capacity = n /\ n > s.capacity
    BY <1>2, <2>1, SizeAssumption DEF resize, Allocated, IsStack
  <2>3. /\ t.args = [i \in Places(n) |-> LuauVariant] /\ t.varargs = [i \in Places(n) |-> NilVariant]
        /\ t.ptr_args = [i \in Places(n) |-> Unset]
    BY <2>1 DEF Allocated
  <2>4. IsSlot(LuauVariant) /\ \A i : OwnPointer(Unset, i)
    BY DEF IsSlot, LuauVariant, OwnPointer, Unset
  <2>5. t = [args |-> t.args, varargs |-> t.varargs, ptr_args |-> t.ptr_args,
             size |-> t.size, capacity |-> t.capacity]
    BY <2>1 DEF Allocated
  <2>6. \A i \in Places(n) : IsSlot(t.args[i]) /\ OwnPointer(t.ptr_args[i], i)
    BY <2>3, <2>4
  <2>7. /\ t.args = [i \in Places(n) |-> t.args[i]] /\ t.varargs = [i \in Places(n) |-> t.varargs[i]]
        /\ t.ptr_args = [i \in Places(n) |-> t.ptr_args[i]]
    BY <2>3
  <2>8. IsStack(t)
    BY <2>2, <2>5, <2>6, <2>7, SizeAssumption DEF IsStack
  <2>9. t.capacity = Largest(s.capacity, n) /\ t.capacity # s.capacity
    BY <2>2, SizeAssumption DEF Largest, IsStack
  <2> QED BY <2>2, <2>8, <2>9 DEF Fills
<1> QED BY <1>1, <1>2

\* The stack that has room for n arguments, with other arrays.
LEMMA Refilled ==
  ASSUME NEW s, NEW n \in 0..SizeMax, NEW r, IsStack(s), Fills(s, r, n), NEW args, NEW varargs, NEW ptrs,
         args = [i \in Places(r.capacity) |-> args[i]],
         varargs = [i \in Places(r.capacity) |-> varargs[i]],
         ptrs = [i \in Places(r.capacity) |-> ptrs[i]],
         \A i \in Places(r.capacity) : IsSlot(args[i]) /\ OwnPointer(ptrs[i], i),
         \A i \in Places(r.capacity) : i > n => args[i] = r.args[i] /\ varargs[i] = r.varargs[i]
                                           /\ ptrs[i] = r.ptr_args[i],
         NEW t, t = [args |-> args, varargs |-> varargs, ptr_args |-> ptrs,
                     size |-> r.size, capacity |-> r.capacity]
  PROVE  Fills(s, t, n)
<1>1. /\ t.size = n /\ t.capacity = r.capacity /\ t.args = args
      /\ t.varargs = varargs /\ t.ptr_args = ptrs /\ r.size = n
  BY DEF Fills
<1>2. IsStack(t)
  BY <1>1 DEF IsStack, Fills
<1>3. \A i \in 1..r.capacity : i > n => Argument(t, i) = Argument(r, i)
  <2> SUFFICES ASSUME NEW i \in 1..r.capacity, i > n PROVE Argument(t, i) = Argument(r, i)
    OBVIOUS
  <2>1. CASE r.capacity # SizeMax
    <3>1. i \in Places(r.capacity)
      BY <2>1, PlacesFacts DEF Fills, IsStack
    <3>2. OwnPointer(r.ptr_args[i], i)
      BY <3>1 DEF Fills, IsStack
    <3>3. t.ptr_args[i] = r.ptr_args[i] /\ t.args[i] = r.args[i] /\ t.varargs[i] = r.varargs[i]
      BY <1>1, <3>1
    <3> QED BY <3>2, <3>3 DEF OwnPointer, Argument
  <2>2. CASE r.capacity = SizeMax
    <3>1. Places(r.capacity) = {}
      BY <2>2 DEF Places
    <3>2. /\ r.args = [j \in {} |-> r.args[j]] /\ r.varargs = [j \in {} |-> r.varargs[j]]
          /\ r.ptr_args = [j \in {} |-> r.ptr_args[j]]
      BY <3>1 DEF Fills, IsStack
    <3>3. /\ t.args = [j \in {} |-> t.args[j]] /\ t.varargs = [j \in {} |-> t.varargs[j]]
          /\ t.ptr_args = [j \in {} |-> t.ptr_args[j]]
      BY <1>1, <3>1
    <3>4. t.args = r.args /\ t.varargs = r.varargs /\ t.ptr_args = r.ptr_args
      BY <3>2, <3>3
    <3> QED BY <3>4 DEF Argument
  <2> QED BY <2>1, <2>2
<1>4. t.capacity = s.capacity => \A i \in 1..s.capacity : i > n => Argument(t, i) = Argument(s, i)
  BY <1>1, <1>3 DEF Fills
<1> QED BY <1>1, <1>2, <1>4 DEF Fills

----------------------------------------------------------------------------
(* Checks of single values.                                                   *)

LEMMA ClearSlot ==
  ASSUME NEW lv, IsSlot(lv)
  PROVE  IsSlot(clear(lv))
<1>1. CASE lv.type = None
  BY <1>1 DEF clear
<1>2. CASE lv.type # None
  <2>1. PICK a, b, c, d : lv = [type |-> a, from_luau |-> b, data |-> c, value |-> d]
    BY DEF IsSlot
  <2>2. PICK e : e = IF ~lv.from_luau /\ destroys(lv.type) THEN "raw" ELSE lv.data
    OBVIOUS
  <2>3. clear(lv) = [lv EXCEPT !.type = None, !.data = e]
    BY <1>2, <2>2 DEF clear
  <2>4. clear(lv) = [type |-> None, from_luau |-> b, data |-> e, value |-> d]
    BY <2>1, <2>3
  <2> QED BY <2>4 DEF IsSlot
<1> QED BY <1>1, <1>2

\* A check makes a slot of the type, with the value if it succeeds.
LEMMA CheckSlot ==
  ASSUME NEW lv, IsSlot(lv), NEW v, NEW arg, arg.type \in Types
  PROVE  /\ IsSlot(lua_check(lv, v, arg))
         /\ lua_is(v, arg) => lua_check(lv, v, arg).value = Converted(v, arg.type)
<1>1. PICK a, b, c, d : clear(lv) = [type |-> a, from_luau |-> b, data |-> c, value |-> d]
  BY ClearSlot DEF IsSlot
<1>2. CASE lua_is(v, arg)
  <2>1. PICK x, y, z : x = Refers(v, arg.type) /\ y = (IF Refers(v, arg.type) THEN "pointer" ELSE "built")
                       /\ z = Converted(v, arg.type)
    OBVIOUS
  <2>2. Checked(lv, v, arg.type) =
          [clear(lv) EXCEPT !.type = arg.type, !.from_luau = x, !.data = y, !.value = z]
    BY <2>1 DEF Checked
  <2>3. Checked(lv, v, arg.type) = [type |-> arg.type, from_luau |-> x, data |-> y, value |-> z]
    BY <1>1, <2>2
  <2>4. lua_check(lv, v, arg) = [type |-> arg.type, from_luau |-> x, data |-> y, value |-> z]
    BY <1>2, <2>3 DEF lua_check
  <2> QED BY <2>1, <2>4 DEF IsSlot
<1>3. CASE ~lua_is(v, arg)
  <2>1. PICK y : y = IF Representation[arg.type] \in {"variant", "assign", "assign_dtor", "coerced"}
                     THEN "built" ELSE clear(lv).data
    OBVIOUS
  <2>2. CheckRaised(lv, arg.type) =
          [clear(lv) EXCEPT !.type = arg.type, !.data = y, !.value = None]
    BY <2>1 DEF CheckRaised
  <2>3. CheckRaised(lv, arg.type) = [type |-> arg.type, from_luau |-> b, data |-> y, value |-> None]
    <3>1. PICK k, t, x : k = clear(lv) /\ t = arg.type /\ x = None
      OBVIOUS
    <3>2. k = [type |-> a, from_luau |-> b, data |-> c, value |-> d]
      BY <1>1, <3>1
    <3>3. [k EXCEPT !.type = t, !.data = y, !.value = x] = [type |-> t, from_luau |-> b, data |-> y, value |-> x]
      <4>1. PICK l : l = [k EXCEPT !.type = t]
        OBVIOUS
      <4>2. l = [type |-> t, from_luau |-> b, data |-> c, value |-> d]
        BY <3>2, <4>1
      <4>3. PICK m : m = [l EXCEPT !.data = y]
        OBVIOUS
      <4>4. m = [type |-> t, from_luau |-> b, data |-> y, value |-> d]
        BY <4>2, <4>3
      <4>5. [m EXCEPT !.value = x] = [type |-> t, from_luau |-> b, data |-> y, value |-> x]
        BY <4>4
      <4>6. [k EXCEPT !.type = t, !.data = y, !.value = x] = [m EXCEPT !.value = x]
        BY <4>1, <4>3
      <4> QED BY <4>5, <4>6
    <3> QED BY <2>2, <3>1, <3>3
  <2>4. lua_check(lv, v, arg) = [type |-> arg.type, from_luau |-> b, data |-> y, value |-> None]
    BY <1>3, <2>3 DEF lua_check
  <2> QED BY <1>3, <2>4 DEF IsSlot
<1> QED BY <1>2, <1>3

\* Each way of pointing finds the value.
LEMMA Points ==
  ASSUME NEW i
  PROVE  /\ OwnPointer(ToVararg(i), i) /\ OwnPointer(Null, i)
         /\ \A lv : OwnPointer(ToArgument(lv, i), i)
         /\ \A x : OwnPointer(ToDefault(x), i)
         /\ \A s : s.ptr_args[i] = ToVararg(i) => Argument(s, i) = s.varargs[i]
         /\ \A s : s.ptr_args[i] = ToArgument(s.args[i], i) => Argument(s, i) = s.args[i].value
         /\ \A s : \A x : s.ptr_args[i] = ToDefault(x) => Argument(s, i) = x
         /\ \A s : s.ptr_args[i] = Null => Argument(s, i) = NullObject
<1>1. OwnPointer(ToVararg(i), i) /\ OwnPointer(Null, i) /\ \A x : OwnPointer(ToDefault(x), i)
  BY DEF OwnPointer, ToVararg, Null, ToDefault
<1>2. \A lv : OwnPointer(ToArgument(lv, i), i)
  BY DEF OwnPointer, ToArgument
<1>3. \A s : s.ptr_args[i] = ToVararg(i) => Argument(s, i) = s.varargs[i]
  BY DEF Argument, ToVararg
<1>4. \A s : s.ptr_args[i] = ToArgument(s.args[i], i) => Argument(s, i) = s.args[i].value
  BY DEF Argument, ToArgument
<1>5. \A s : \A x : s.ptr_args[i] = ToDefault(x) => Argument(s, i) = x
  BY DEF Argument, ToDefault
<1>6. \A s : s.ptr_args[i] = Null => Argument(s, i) = NullObject
  BY DEF Argument, Null
<1> QED BY <1>1, <1>2, <1>3, <1>4, <1>5, <1>6

----------------------------------------------------------------------------
(* Reading the arguments of a call.                                           *)

LEMMA CallFacts ==
  ASSUME NEW c \in AllCalls
  PROVE  /\ c.f \in DOMAIN Natives /\ IsSequence(c.given) /\ IsSequence(Arguments(c))
         /\ Len(c.given) \in 0..(SizeMax - 1) /\ Len(Arguments(c)) \in 0..Len(c.given)
         /\ Natives[c.f].static => Arguments(c) = c.given
         /\ ~Natives[c.f].static /\ c.given # << >> => Len(Arguments(c)) = Len(c.given) - 1
         /\ Natives[c.f].kind \in {"class", "builtin", "method", "utility", "ctor", "local", "print"}
<1>1. c.f \in DOMAIN Natives /\ IsSequence(c.given) /\ Len(c.given) < SizeMax
  BY ProgramAssumption DEF AllCalls
<1>2. /\ Natives[c.f].static \/ c.given = << >> => Arguments(c) = c.given
      /\ ~(Natives[c.f].static \/ c.given = << >>) => Arguments(c) = Tail(c.given)
  BY DEF Arguments, Parameters
<1>3. ASSUME ~Natives[c.f].static, c.given # << >>
      PROVE  IsSequence(Arguments(c)) /\ Len(Arguments(c)) = Len(c.given) - 1 /\ Len(c.given) # 0
  <2>1. PICK s : s = c.given
    OBVIOUS
  <2>2. s \in Seq(ToSet(s)) /\ s # << >>
    BY <1>1, <1>3, <2>1 DEF IsSequence
  <2>3. /\ Tail(s) \in Seq(ToSet(s)) /\ Len(Tail(s)) = Len(s) - 1 /\ Len(s) \in Nat
        /\ DOMAIN Tail(s) = 1..(Len(s) - 1) /\ \A i \in 1..(Len(s) - 1) : Tail(s)[i] = s[i + 1]
    BY <2>2, HeadTailProperties, LenProperties, EmptySeq
  <2>4. Tail(s) \in Seq(ToSet(Tail(s)))
    <3>1. \A i \in 1..Len(Tail(s)) : Tail(s)[i] \in ToSet(Tail(s))
      BY <2>3 DEF ToSet
    <3>2. Tail(s) \in [1..Len(Tail(s)) -> ToSet(s)]
      BY <2>3, LenProperties
    <3>3. Tail(s) \in [1..Len(Tail(s)) -> ToSet(Tail(s))]
      BY <3>1, <3>2
    <3>4. Len(Tail(s)) \in Nat
      BY <2>3, LenProperties
    <3> QED BY <3>3, <3>4, SeqDef
  <2>5. Len(s) # 0
    BY <2>2, EmptySeq
  <2> QED BY <1>2, <1>3, <2>1, <2>3, <2>4, <2>5 DEF IsSequence
<1>4. Len(c.given) \in 0..(SizeMax - 1)
  BY <1>1, SequenceFacts, SizeAssumption
<1>5. IsSequence(Arguments(c)) /\ Len(Arguments(c)) \in 0..Len(c.given)
  BY <1>1, <1>2, <1>3, <1>4
<1> QED BY <1>1, <1>2, <1>3, <1>4, <1>5, NativeAssumption

LEMMA UptoFacts ==
  ASSUME NEW f, NEW given, IsSequence(given)
  PROVE  /\ Len(given) \in Nat /\ DOMAIN given = 1..Len(given)
         /\ Upto(f, given) \in 0..Len(given)
         /\ Bad(f, given) = {} => Upto(f, given) = Len(given)
         /\ Bad(f, given) # {} => First(Bad(f, given)) \in 1..Len(given)
         /\ \A i \in 1..Len(given) : i <= Upto(f, given) => i \notin Bad(f, given)
<1>1. Len(given) \in Nat /\ DOMAIN given = 1..Len(given)
  BY SequenceFacts
<1>2. Bad(f, given) \in SUBSET (1..Len(given))
  BY <1>1 DEF Bad
<1>3. ASSUME Bad(f, given) # {}
      PROVE  /\ First(Bad(f, given)) \in 1..Len(given)
             /\ \A i \in Bad(f, given) : First(Bad(f, given)) <= i
  <2>1. Bad(f, given) \in SUBSET Nat
    BY <1>1, <1>2
  <2> QED BY <1>2, <1>3, <2>1, FirstIs
<1> QED BY <1>1, <1>2, <1>3 DEF Upto

\* The stack with other arrays.
WithArgs(s, x, y) == [s EXCEPT !.args = x, !.ptr_args = y]
WithVarargs(s, x, y) == [s EXCEPT !.varargs = x, !.ptr_args = y]
WithPointers(s, y) == [s EXCEPT !.ptr_args = y]

LEMMA StackReplaced ==
  ASSUME NEW s, IsStack(s), NEW x, NEW y
  PROVE  /\ WithArgs(s, x, y) =
              [args |-> x, varargs |-> s.varargs, ptr_args |-> y, size |-> s.size, capacity |-> s.capacity]
         /\ WithVarargs(s, x, y) =
              [args |-> s.args, varargs |-> x, ptr_args |-> y, size |-> s.size, capacity |-> s.capacity]
         /\ WithPointers(s, y) =
              [args |-> s.args, varargs |-> s.varargs, ptr_args |-> y, size |-> s.size, capacity |-> s.capacity]
<1>1. PICK a, v, p, n, m : /\ s = [args |-> a, varargs |-> v, ptr_args |-> p, size |-> n, capacity |-> m]
                           /\ a = s.args /\ v = s.varargs /\ p = s.ptr_args /\ n = s.size /\ m = s.capacity
  BY DEF IsStack
<1>2. PICK r : r = [s EXCEPT !.args = x]
  OBVIOUS
<1>3. r = [args |-> x, varargs |-> v, ptr_args |-> p, size |-> n, capacity |-> m]
  BY <1>1, <1>2
<1>4. [r EXCEPT !.ptr_args = y] = [args |-> x, varargs |-> v, ptr_args |-> y, size |-> n, capacity |-> m]
  BY <1>3
<1>5. WithArgs(s, x, y) = [r EXCEPT !.ptr_args = y]
  BY <1>2 DEF WithArgs
<1>6. PICK q : q = [s EXCEPT !.varargs = x]
  OBVIOUS
<1>7. q = [args |-> a, varargs |-> x, ptr_args |-> p, size |-> n, capacity |-> m]
  BY <1>1, <1>6
<1>8. [q EXCEPT !.ptr_args = y] = [args |-> a, varargs |-> x, ptr_args |-> y, size |-> n, capacity |-> m]
  BY <1>7
<1>9. WithVarargs(s, x, y) = [q EXCEPT !.ptr_args = y]
  BY <1>6 DEF WithVarargs
<1>10. WithPointers(s, y) = [args |-> a, varargs |-> v, ptr_args |-> y, size |-> n, capacity |-> m]
  BY <1>1 DEF WithPointers
<1> QED BY <1>1, <1>4, <1>5, <1>8, <1>9, <1>10

\* A vararg function: each value in a Variant.
LEMMA VarargsFill ==
  ASSUME NEW s, IsStack(s), NEW n \in 0..SizeMax, NEW r, Fills(s, r, n),
         NEW f, NEW given, IsSequence(given), Len(given) <= n
  PROVE  /\ Fills(s, FillVarargs(r, f, given), n)
         /\ Bad(f, given) = {} =>
              \A i \in Places(r.capacity) :
                i <= Len(given) => Argument(FillVarargs(r, f, given), i) = InVararg(f, given, i)
<1> DEFINE k == Upto(f, given)
<1> DEFINE varargs == [i \in DOMAIN r.varargs |-> IF i <= k THEN InVararg(f, given, i) ELSE r.varargs[i]]
<1> DEFINE ptrs == [i \in DOMAIN r.ptr_args |-> IF i <= k THEN ToVararg(i) ELSE r.ptr_args[i]]
<1>1. /\ IsStack(r) /\ r.capacity \in 0..SizeMax /\ n <= r.capacity
      /\ DOMAIN r.args = Places(r.capacity) /\ DOMAIN r.varargs = Places(r.capacity)
      /\ DOMAIN r.ptr_args = Places(r.capacity)
      /\ r.args = [i \in Places(r.capacity) |-> r.args[i]]
      /\ \A i \in Places(r.capacity) : IsSlot(r.args[i]) /\ OwnPointer(r.ptr_args[i], i)
  BY DEF Fills, IsStack
<1>2. k \in 0..Len(given) /\ Len(given) \in Nat /\ (Bad(f, given) = {} => k = Len(given))
  BY UptoFacts
<1>3. FillVarargs(r, f, given) = [r EXCEPT !.varargs = varargs, !.ptr_args = ptrs]
  BY DEF FillVarargs
<1> HIDE DEF k
<1>4. /\ varargs = [i \in Places(r.capacity) |-> varargs[i]] /\ ptrs = [i \in Places(r.capacity) |-> ptrs[i]]
      /\ \A i \in Places(r.capacity) :
           /\ i <= k => varargs[i] = InVararg(f, given, i) /\ ptrs[i] = ToVararg(i)
           /\ ~(i <= k) => varargs[i] = r.varargs[i] /\ ptrs[i] = r.ptr_args[i]
  BY <1>1
<1> HIDE DEF varargs, ptrs
<1>5. PICK t : t = [args |-> r.args, varargs |-> varargs, ptr_args |-> ptrs,
                    size |-> r.size, capacity |-> r.capacity]
  OBVIOUS
<1>6. FillVarargs(r, f, given) = t
  <2>1. IsStack(r)
    BY <1>1
  <2>2. WithVarargs(r, varargs, ptrs) = t
    BY <1>5, <2>1, StackReplaced
  <2> QED BY <1>3, <2>2 DEF WithVarargs
<1>7. \A i \in Places(r.capacity) : OwnPointer(ptrs[i], i)
  BY <1>1, <1>4, Points
<1>8. \A i \in Places(r.capacity) : i > n => varargs[i] = r.varargs[i] /\ ptrs[i] = r.ptr_args[i]
  <2> SUFFICES ASSUME NEW i \in Places(r.capacity), i > n PROVE ~(i <= k)
    BY <1>4
  <2>1. i \in 1..r.capacity
    BY <1>1, PlacesFacts
  <2> QED BY <1>1, <1>2, <2>1, SizeAssumption
<1>9. Fills(s, t, n)
  BY <1>1, <1>4, <1>5, <1>7, <1>8, Refilled
<1>10. ASSUME Bad(f, given) = {}, NEW i \in Places(r.capacity), i <= Len(given)
       PROVE  Argument(t, i) = InVararg(f, given, i)
  <2>1. i <= k
    BY <1>2, <1>10
  <2>2. t.ptr_args[i] = ToVararg(i) /\ t.varargs[i] = InVararg(f, given, i)
    BY <1>4, <1>5, <2>1
  <2> QED BY <2>2, Points
<1> QED BY <1>6, <1>9, <1>10

\* Any other: each value in the slot of its argument, up to the first of another
\* type.
LEMMA ArgsFill ==
  ASSUME NEW s, IsStack(s), NEW n \in 0..SizeMax, NEW r, Fills(s, r, n),
         NEW f, NEW given, IsSequence(given), Len(given) <= n,
         Declares(f.arguments), Len(given) <= Len(f.arguments)
  PROVE  /\ Fills(s, FillArgs(r, f, given), n)
         /\ Bad(f, given) = {} =>
              \A i \in Places(r.capacity) : i <= Len(given) =>
                Argument(FillArgs(r, f, given), i) = Converted(given[i], f.arguments[i].type)
<1> DEFINE k == Upto(f, given)
<1> DEFINE l == IF Bad(f, given) = {} THEN Len(given) ELSE First(Bad(f, given))
<1> DEFINE args == CheckedArgs(r, given, f.arguments, l)
<1> DEFINE ptrs == [i \in DOMAIN r.ptr_args |-> IF i <= k THEN ToArgument(args[i], i) ELSE r.ptr_args[i]]
<1>1. /\ IsStack(r) /\ r.capacity \in 0..SizeMax /\ n <= r.capacity
      /\ DOMAIN r.args = Places(r.capacity) /\ DOMAIN r.varargs = Places(r.capacity)
      /\ DOMAIN r.ptr_args = Places(r.capacity)
      /\ r.varargs = [i \in Places(r.capacity) |-> r.varargs[i]]
      /\ \A i \in Places(r.capacity) : IsSlot(r.args[i]) /\ OwnPointer(r.ptr_args[i], i)
  BY DEF Fills, IsStack
<1>2. /\ k \in 0..Len(given) /\ Len(given) \in Nat
      /\ Bad(f, given) = {} => k = Len(given) /\ l = Len(given)
      /\ l \in 0..Len(given) /\ DOMAIN given = 1..Len(given)
  BY UptoFacts
<1>3. DOMAIN f.arguments = 1..Len(f.arguments) /\ Len(f.arguments) \in Nat
      /\ \A i \in 1..Len(f.arguments) : f.arguments[i].type \in Types
  BY SequenceFacts DEF Declares
<1>4. FillArgs(r, f, given) = Pointing(r, args, k)
  BY DEF FillArgs
<1>5. Pointing(r, args, k) = [r EXCEPT !.args = args, !.ptr_args = ptrs]
  BY DEF Pointing
<1> HIDE DEF k, l
<1>6. /\ args = [i \in Places(r.capacity) |-> args[i]]
      /\ \A i \in Places(r.capacity) :
           /\ i <= l => args[i] = lua_check(r.args[i], given[i], f.arguments[i])
           /\ ~(i <= l) => args[i] = r.args[i]
  BY <1>1 DEF CheckedArgs
<1> HIDE DEF args
<1>7. /\ ptrs = [i \in Places(r.capacity) |-> ptrs[i]]
      /\ \A i \in Places(r.capacity) :
           /\ i <= k => ptrs[i] = ToArgument(args[i], i)
           /\ ~(i <= k) => ptrs[i] = r.ptr_args[i]
  BY <1>1
<1> HIDE DEF ptrs
<1>8. PICK t : t = [args |-> args, varargs |-> r.varargs, ptr_args |-> ptrs,
                    size |-> r.size, capacity |-> r.capacity]
  OBVIOUS
<1>9. FillArgs(r, f, given) = t
  <2>1. [r EXCEPT !.args = args, !.ptr_args = ptrs] = t
    <3>1. IsStack(r)
      BY <1>1
    <3>2. WithArgs(r, args, ptrs) = t
      BY <1>8, <3>1, StackReplaced
    <3> QED BY <3>2 DEF WithArgs
  <2> QED BY <1>4, <1>5, <2>1
<1>10. \A i \in Places(r.capacity) : OwnPointer(ptrs[i], i)
  <2> SUFFICES ASSUME NEW i \in Places(r.capacity) PROVE OwnPointer(ptrs[i], i)
    OBVIOUS
  <2>1. ptrs[i] = ToArgument(args[i], i) \/ ptrs[i] = r.ptr_args[i]
    BY <1>7
  <2>2. OwnPointer(r.ptr_args[i], i)
    BY <1>1
  <2> QED BY <2>1, <2>2, Points
<1>11. \A i \in Places(r.capacity) : IsSlot(args[i])
  <2> SUFFICES ASSUME NEW i \in Places(r.capacity), i <= l PROVE IsSlot(args[i])
    BY <1>1, <1>6
  <2>1. /\ r.capacity \in 0..SizeMax /\ l \in 0..Len(given) /\ Len(given) \in Nat
        /\ Len(f.arguments) \in Nat /\ i \in 1..r.capacity
    BY <1>1, <1>2, <1>3, PlacesFacts
  <2>2. i \in 1..Len(f.arguments)
    BY <2>1, SizeAssumption
  <2>3. f.arguments[i].type \in Types /\ IsSlot(r.args[i])
    BY <1>1, <1>3, <2>2
  <2>4. args[i] = lua_check(r.args[i], given[i], f.arguments[i])
    BY <1>6
  <2> QED BY <2>3, <2>4, CheckSlot
<1>12. \A i \in Places(r.capacity) : i > n => args[i] = r.args[i] /\ ptrs[i] = r.ptr_args[i]
  <2> SUFFICES ASSUME NEW i \in Places(r.capacity), i > n PROVE ~(i <= k) /\ ~(i <= l)
    BY <1>6, <1>7
  <2>1. /\ i \in 1..r.capacity /\ r.capacity \in 0..SizeMax
        /\ l \in 0..Len(given) /\ k \in 0..Len(given) /\ Len(given) \in Nat
    BY <1>1, <1>2, PlacesFacts
  <2> QED BY <2>1, SizeAssumption
<1>13. Fills(s, t, n)
  BY <1>1, <1>6, <1>7, <1>8, <1>10, <1>11, <1>12, Refilled
<1>14. ASSUME Bad(f, given) = {}, NEW i \in Places(r.capacity), i <= Len(given)
       PROVE  Argument(t, i) = Converted(given[i], f.arguments[i].type)
  <2>1. i \in 1..Len(given) /\ i <= k /\ i <= l /\ i \in 1..Len(f.arguments)
    <3>1. i \in 1..r.capacity /\ r.capacity \in Nat
      BY <1>1, PlacesFacts, SizeAssumption
    <3> QED BY <1>2, <1>3, <1>14, <3>1
  <2>2. lua_is(given[i], f.arguments[i])
    BY <1>2, <1>3, <1>14, <2>1, Zenon DEF Bad
  <2>3. t.ptr_args[i] = ToArgument(t.args[i], i) /\ t.args[i].value = Converted(given[i], f.arguments[i].type)
    <3>1. /\ t.ptr_args[i] = ToArgument(t.args[i], i)
          /\ t.args[i] = lua_check(r.args[i], given[i], f.arguments[i])
      BY <1>6, <1>7, <1>8, <2>1
    <3>2. IsSlot(r.args[i]) /\ f.arguments[i].type \in Types
      BY <1>1, <1>3, <2>1
    <3> QED BY <2>2, <3>1, <3>2, CheckSlot
  <2> QED BY <2>3, Points
<1> QED BY <1>9, <1>13, <1>14

\* Where f declares the default of argument i.
DefaultOf(f, i) ==
  IF f.kind = "method" THEN Reverse(f.defaults)[Len(f.arguments) - i + 1] ELSE f.arguments[i].default

LEMMA DefaultPoints ==
  ASSUME NEW f, Declares(f.arguments), IsSequence(f.defaults), Len(f.defaults) <= Len(f.arguments),
         NEW i \in 1..Len(f.arguments), HasDefault(f, i), NEW s, s.ptr_args[i] = DefaultPointer(f, i)
  PROVE  Argument(s, i) = DefaultOf(f, i)
<1>1. /\ Len(f.arguments) \in Nat /\ DOMAIN f.arguments = 1..Len(f.arguments)
      /\ Len(f.defaults) \in Nat /\ DOMAIN f.defaults = 1..Len(f.defaults)
  BY SequenceFacts DEF Declares
<1>2. CASE f.kind = "method"
  <2>1. PICK m, n : m = Len(f.arguments) /\ n = Len(f.defaults)
    OBVIOUS
  <2>2. m \in Nat /\ n \in Nat /\ n <= m /\ i \in 1..m /\ i > m - n
    BY <1>1, <1>2, <2>1 DEF HasDefault, Required
  <2>3. m - i + 1 \in 1..n /\ n - (m - i + 1) + 1 = i - (m - n)
    BY <2>2
  <2>4. Reverse(f.defaults)[m - i + 1] = f.defaults[n - (m - i + 1) + 1]
    BY <2>1, <2>3 DEF Reverse
  <2>5. s.ptr_args[i] = ToDefault(f.defaults[i - (m - n)])
    BY <1>2, <2>1 DEF DefaultPointer, Required
  <2>6. Argument(s, i) = f.defaults[i - (m - n)]
    BY <2>5, Points
  <2>7. DefaultOf(f, i) = Reverse(f.defaults)[m - i + 1]
    BY <1>2, <2>1 DEF DefaultOf
  <2> QED BY <2>3, <2>4, <2>6, <2>7
<1>3. CASE f.kind # "method" /\ f.arguments[i].type = "Object"
  <2>1. s.ptr_args[i] = Null /\ f.arguments[i].default = NullObject
    BY <1>1, <1>3 DEF HasDefault, DefaultPointer, Declares
  <2> QED BY <1>3, <2>1, Points DEF DefaultOf
<1>4. CASE f.kind # "method" /\ f.arguments[i].type # "Object"
  <2>1. PICK x : x = f.arguments[i].default
    OBVIOUS
  <2>2. s.ptr_args[i] = ToDefault(x)
    BY <1>4, <2>1 DEF DefaultPointer
  <2>3. Argument(s, i) = x
    BY <2>2, Points
  <2> QED BY <1>4, <2>1, <2>3 DEF DefaultOf
<1> QED BY <1>2, <1>3, <1>4

\* Of what was not given, all that has a default, up to the first that has none.
LEMMA DefaultsFill ==
  ASSUME NEW s, IsStack(s), NEW n \in 0..SizeMax, NEW r, Fills(s, r, n), NEW f, NEW k \in Nat,
         Declares(f.arguments), IsSequence(f.defaults), Len(f.defaults) <= Len(f.arguments),
         k <= n, Len(f.arguments) <= n,
         NEW d, d = get_default_args(r, f, k)
  PROVE  /\ Fills(s, d.stack, n)
         /\ \A i \in Places(r.capacity) : i <= k => Argument(d.stack, i) = Argument(r, i)
         /\ ~d.raised => \A i \in Places(r.capacity) :
                           i > k /\ i <= Len(f.arguments) => Argument(d.stack, i) = DefaultOf(f, i)
<1> DEFINE S == Supplied(f, k)
<1> DEFINE ptrs == [i \in DOMAIN r.ptr_args |-> IF i \in S THEN DefaultPointer(f, i) ELSE r.ptr_args[i]]
<1>1. /\ IsStack(r) /\ DOMAIN r.ptr_args = Places(r.capacity)
      /\ r.args = [i \in Places(r.capacity) |-> r.args[i]]
      /\ r.varargs = [i \in Places(r.capacity) |-> r.varargs[i]]
      /\ \A i \in Places(r.capacity) : IsSlot(r.args[i]) /\ OwnPointer(r.ptr_args[i], i)
  BY DEF Fills, IsStack
<1>2. /\ r.capacity \in Nat /\ n \in Nat /\ n <= r.capacity /\ k \in Nat /\ Len(f.arguments) \in Nat
      /\ \A i \in Places(r.capacity) : i \in 1..r.capacity
  BY SequenceFacts, PlacesFacts, SizeAssumption DEF Fills, IsStack, Declares
<1>3. \A i \in S : i \in (k + 1)..Len(f.arguments)
  BY DEF Supplied, Missing
<1>4. d = [raised |-> Lacking(f, k) # {}, stack |-> WithPointers(r, ptrs)]
  BY DEF get_default_args, WithPointers
<1> HIDE DEF S
<1>5. /\ ptrs = [i \in Places(r.capacity) |-> ptrs[i]]
      /\ \A i \in Places(r.capacity) :
           /\ i \in S => ptrs[i] = DefaultPointer(f, i)
           /\ i \notin S => ptrs[i] = r.ptr_args[i]
  BY <1>1
<1> HIDE DEF ptrs
<1>6. PICK t : t = [args |-> r.args, varargs |-> r.varargs, ptr_args |-> ptrs,
                    size |-> r.size, capacity |-> r.capacity]
  OBVIOUS
<1>7. d.stack = t /\ d.raised = (Lacking(f, k) # {})
  <2>1. IsStack(r)
    BY <1>1
  <2>2. WithPointers(r, ptrs) = t
    BY <1>6, <2>1, StackReplaced
  <2> QED BY <1>4, <2>2
<1>8. \A i \in Places(r.capacity) : OwnPointer(ptrs[i], i)
  <2> SUFFICES ASSUME NEW i \in Places(r.capacity) PROVE OwnPointer(ptrs[i], i)
    OBVIOUS
  <2>1. OwnPointer(DefaultPointer(f, i), i)
    BY Points DEF DefaultPointer
  <2>2. OwnPointer(r.ptr_args[i], i)
    BY <1>1
  <2> QED BY <1>5, <2>1, <2>2
<1>9. \A i \in Places(r.capacity) : i > n => ptrs[i] = r.ptr_args[i]
  <2> SUFFICES ASSUME NEW i \in Places(r.capacity), i > n PROVE i \notin S
    BY <1>5
  <2> QED BY <1>2, <1>3
<1>10. Fills(s, t, n)
  BY <1>1, <1>5, <1>6, <1>8, <1>9, Refilled
<1>11. \A i \in Places(r.capacity) : i <= k => Argument(t, i) = Argument(r, i)
  <2> SUFFICES ASSUME NEW i \in Places(r.capacity), i <= k PROVE Argument(t, i) = Argument(r, i)
    OBVIOUS
  <2>1. i \notin S
    BY <1>2, <1>3
  <2>2. t.ptr_args[i] = r.ptr_args[i] /\ t.args = r.args /\ t.varargs = r.varargs
    BY <1>5, <1>6, <2>1
  <2> QED BY <2>2 DEF Argument
<1>12. ASSUME Lacking(f, k) = {}, NEW i \in Places(r.capacity), i > k, i <= Len(f.arguments)
       PROVE  Argument(t, i) = DefaultOf(f, i)
  <2>1. i \in 1..Len(f.arguments) /\ i \in (k + 1)..Len(f.arguments)
    BY <1>2, <1>12
  <2>2. i \in S /\ HasDefault(f, i)
    BY <1>12, <2>1 DEF S, Supplied, Missing, Lacking
  <2>3. t.ptr_args[i] = DefaultPointer(f, i)
    BY <1>5, <1>6, <2>1, <2>2
  <2> QED BY <2>1, <2>2, <2>3, DefaultPoints
<1> QED BY <1>7, <1>10, <1>11, <1>12

\* A call that has as many arguments as it is said to have.
Counted(c) == Natives[c.f].static \/ c.given # << >>

LEMMA CountedFacts ==
  ASSUME NEW c \in AllCalls, NEW k, k = Unsigned(nargs(Natives[c.f], c.given))
  PROVE  /\ k \in 0..SizeMax /\ Len(Arguments(c)) \in 0..k
         /\ Counted(c) => k = Len(Arguments(c)) /\ k < SizeMax
         /\ ~Counted(c) => k = SizeMax
<1>1. PICK n, l : n = Len(c.given) /\ l = Len(Arguments(c))
  OBVIOUS
<1>2. /\ n \in 0..(SizeMax - 1) /\ l \in 0..n
      /\ Natives[c.f].static => l = n
      /\ ~Natives[c.f].static /\ c.given # << >> => l = n - 1
      /\ c.given = << >> => n = 0
  BY <1>1, CallFacts
<1>3. \A x \in 0..SizeMax : Unsigned(x) = x
  BY SizeAssumption DEF Unsigned
<1>4. Unsigned(-1) = SizeMax
  BY SizeAssumption DEF Unsigned
<1>5. CASE Natives[c.f].static
  <2>1. k = n
    BY <1>1, <1>2, <1>3, <1>5, SizeAssumption DEF nargs
  <2> QED BY <1>1, <1>2, <1>5, <2>1, SizeAssumption DEF Counted
<1>6. CASE ~Natives[c.f].static /\ c.given # << >>
  <2>1. nargs(Natives[c.f], c.given) = l
    BY <1>1, <1>2, <1>6, SizeAssumption DEF nargs
  <2>2. k = l
    BY <1>2, <1>3, <2>1, SizeAssumption
  <2> QED BY <1>1, <1>2, <1>6, <2>2, SizeAssumption DEF Counted
<1>7. CASE ~Natives[c.f].static /\ c.given = << >>
  <2>1. nargs(Natives[c.f], c.given) = -1
    BY <1>1, <1>2, <1>7 DEF nargs
  <2>2. k = SizeMax
    BY <1>4, <2>1
  <2> QED BY <1>1, <1>2, <1>7, <2>2, SizeAssumption DEF Counted
<1> QED BY <1>5, <1>6, <1>7

\* The arguments of a method of a class, a builtin or a script, or of a utility.
LEMMA ReadsArguments ==
  ASSUME NEW s, IsStack(s), NEW c \in AllCalls,
         Natives[c.f].kind \in {"class", "builtin", "method", "utility"},
         NEW r, r = get_arguments(s, Natives[c.f], c.given)
  PROVE  /\ \E n \in 0..SizeMax : Fills(s, r.stack, n) /\ (~Counted(c) => n = SizeMax)
         /\ ~r.raised /\ Counted(c) /\ ~(Gone(s) /\ get_arguments_writes(Natives[c.f], c.given) # {}) =>
              /\ r.stack.size = Count(c)
              /\ \A i \in 1..Count(c) : Argument(r.stack, i) = Wanted(c, i)
<1>1. PICK f, given, k, n : /\ f = Natives[c.f] /\ given = Arguments(c)
                            /\ k = Unsigned(nargs(f, c.given)) /\ n = Largest(k, Len(f.arguments))
  OBVIOUS
<1>2. /\ IsSequence(given) /\ Declares(f.arguments) /\ IsSequence(f.defaults)
      /\ Len(f.defaults) <= Len(f.arguments) /\ f.vararg \in BOOLEAN
  BY <1>1, CallFacts, NativeAssumption
<1>3. /\ Len(given) \in Nat /\ DOMAIN given = 1..Len(given)
      /\ Len(f.arguments) \in Nat /\ DOMAIN f.arguments = 1..Len(f.arguments)
      /\ Len(f.arguments) < SizeMax
  BY <1>2, SequenceFacts DEF Declares
<1>13. /\ k \in 0..SizeMax /\ Len(given) \in 0..k
       /\ Counted(c) => k = Len(given) /\ k < SizeMax
       /\ ~Counted(c) => k = SizeMax
  BY <1>1, CountedFacts
<1>11. PICK l, m : l = Len(given) /\ m = Len(f.arguments)
  OBVIOUS
<1>4. /\ n \in 0..SizeMax /\ Len(given) <= n /\ k <= n /\ Len(f.arguments) <= n
      /\ n = k \/ n = Len(f.arguments)
      /\ ~Counted(c) => n = SizeMax
  <2>1. k \in 0..SizeMax /\ l \in 0..k /\ m \in 0..SizeMax /\ (~Counted(c) => k = SizeMax)
    <3>1. k \in 0..SizeMax /\ l \in 0..k /\ (~Counted(c) => k = SizeMax)
      BY <1>11, <1>13
    <3>2. m \in 0..SizeMax
      BY <1>3, <1>11, SizeAssumption
    <3> QED BY <3>1, <3>2
  <2>2. n = Largest(k, m)
    BY <1>1, <1>11
  <2> QED BY <1>11, <2>1, <2>2, SizeAssumption DEF Largest
<1>12. l \in Nat /\ m \in Nat /\ n \in Nat /\ l <= n /\ m <= n /\ (Counted(c) => n = l \/ n = m)
  BY <1>3, <1>4, <1>11, <1>13, SizeAssumption
<1>5. PICK sized : sized = resize(s, n)
  OBVIOUS
<1>6. Fills(s, sized, n)
  BY <1>4, <1>5, Resized
<1>7. r = ReadArguments(sized, f, k, given)
  BY <1>1, <1>5 DEF get_arguments, ReadCount, Arguments
<1>8. Declared(c) = f.arguments /\ (Counted(c) => Count(c) = n)
  BY <1>1, <1>13 DEF Count, Declared
<1>14. /\ IsStack(sized) /\ sized.capacity \in Nat /\ n <= sized.capacity
       /\ Counted(c) /\ ~Gone(s) => Places(sized.capacity) = 1..sized.capacity
  <2>1. IsStack(sized) /\ sized.size = n /\ sized.capacity = Largest(s.capacity, n) /\ IsStack(s)
    BY <1>6 DEF Fills
  <2>2. /\ sized.capacity \in 0..SizeMax /\ n <= sized.capacity
        /\ s.capacity \in 0..SizeMax
    BY <2>1 DEF IsStack
  <2>3. Counted(c) => n < SizeMax
    BY <1>3, <1>4, <1>13
  <2>4. Counted(c) /\ ~Gone(s) => sized.capacity # SizeMax
    BY <1>4, <2>1, <2>2, <2>3, SizeAssumption DEF Gone, Largest
  <2> QED BY <2>1, <2>2, <2>4, PlacesFacts, SizeAssumption
<1>9. CASE TooMany(f, k)
  <2>1. r = Raise(sized)
    BY <1>7, <1>9 DEF ReadArguments
  <2> QED BY <1>4, <1>6, <2>1 DEF Raise
<1>10. CASE ~TooMany(f, k)
  <2>1. PICK t : t = Fill(sized, f, given)
    OBVIOUS
  <2>5. f.vararg \/ Len(given) <= Len(f.arguments)
    BY <1>3, <1>10, <1>13, SizeAssumption DEF TooMany
  <2>2. /\ Fills(s, t, n)
        /\ Bad(f, given) = {} =>
             \A i \in Places(sized.capacity) : i <= Len(given) =>
               Argument(t, i) = IF f.vararg THEN InVararg(f, given, i)
                                ELSE Converted(given[i], f.arguments[i].type)
    <3>1. CASE f.vararg
      BY <1>2, <1>4, <1>6, <2>1, <3>1, VarargsFill DEF Fill
    <3>2. CASE ~f.vararg
      BY <1>2, <1>4, <1>6, <2>5, <2>1, <3>2, ArgsFill DEF Fill
    <3> QED BY <3>1, <3>2
  <2>3. CASE Bad(f, given) # {}
    <3>1. r = Raise(t)
      BY <1>7, <1>10, <2>1, <2>3 DEF ReadArguments
    <3> QED BY <1>4, <2>2, <3>1 DEF Raise
  <2>4. CASE Bad(f, given) = {}
    <3>1. r = get_default_args(t, f, k)
      BY <1>7, <1>10, <2>1, <2>4 DEF ReadArguments
    <3>6. t.capacity = sized.capacity
      BY <1>6, <2>2 DEF Fills
    <3>2. /\ Fills(s, r.stack, n)
          /\ \A i \in Places(sized.capacity) : i <= k => Argument(r.stack, i) = Argument(t, i)
          /\ ~r.raised => \A i \in Places(sized.capacity) :
                            i > k /\ i <= Len(f.arguments) => Argument(r.stack, i) = DefaultOf(f, i)
      <4>1. k \in Nat /\ k <= n /\ Len(f.arguments) <= n
        BY <1>4, <1>13, SizeAssumption
      <4> QED BY <1>2, <1>4, <2>2, <3>1, <3>6, <4>1, DefaultsFill
    <3>3. ASSUME ~r.raised, Counted(c), ~Gone(s), NEW i \in 1..n PROVE Argument(r.stack, i) = Wanted(c, i)
      <4>5. i \in Places(sized.capacity) /\ k = l
        <5>1. k = l
          BY <1>11, <1>13, <3>3
        <5>2. Places(sized.capacity) = 1..sized.capacity /\ sized.capacity \in Nat /\ n <= sized.capacity
          BY <1>14, <3>3
        <5> QED BY <1>12, <3>3, <5>1, <5>2
      <4>1. Wanted(c, i) = IF i > Len(given) THEN Default(c, i)
                           ELSE IF i > Len(f.arguments) THEN Boxed(get_type(given[i]), given[i])
                           ELSE [Converted(given[i], f.arguments[i].type) EXCEPT !.boxed = @ \/ f.vararg]
        BY <1>1, <1>8 DEF Wanted
      <4>2. CASE i > Len(given)
        <5>1. i > k /\ i <= Len(f.arguments)
          <6>1. i > l => i <= m
            BY <1>12, <3>3
          <6> QED BY <1>11, <4>2, <4>5, <6>1
        <5>2. Default(c, i) = DefaultOf(f, i)
          BY <1>1, <1>8 DEF Default, DefaultOf
        <5> QED BY <3>2, <3>3, <4>1, <4>2, <4>5, <5>1, <5>2
      <4>3. CASE ~(i > Len(given)) /\ i > Len(f.arguments)
        <5>1. i <= Len(given) /\ i <= k /\ i \notin DOMAIN f.arguments /\ f.vararg
          <6>1. ~(i > l) /\ i > m => i <= l /\ i \notin 1..m /\ ~(l <= m)
            BY <1>12
          <6> QED BY <1>3, <2>5, <1>11, <4>3, <4>5, <6>1
        <5>2. InVararg(f, given, i) = Boxed(get_type(given[i]), given[i])
          BY <5>1 DEF InVararg
        <5> QED BY <2>2, <2>4, <3>2, <4>1, <4>3, <4>5, <5>1, <5>2
      <4>4. CASE ~(i > Len(given)) /\ ~(i > Len(f.arguments))
        <5>1. i <= Len(given) /\ i <= k /\ i \in DOMAIN f.arguments
          <6>1. ~(i > l) /\ ~(i > m) => i <= l /\ i \in 1..m
            BY <1>12
          <6> QED BY <1>3, <1>11, <4>4, <4>5, <6>1
        <5>2. PICK x : x = Converted(given[i], f.arguments[i].type)
          OBVIOUS
        <5>3. PICK a, b, e : x = [type |-> a, of |-> b, boxed |-> e] /\ e \in BOOLEAN
          BY <5>2 DEF Converted, Boxed, Value, NullObject
        <5>4. [x EXCEPT !.boxed = @ \/ f.vararg] = [type |-> a, of |-> b, boxed |-> e \/ f.vararg]
          BY <5>3
        <5>5. CASE f.vararg
          <6>1. Argument(r.stack, i) = to_variant(x)
            BY <2>2, <2>4, <3>2, <4>5, <5>1, <5>2, <5>5 DEF InVararg
          <6>2. to_variant(x) = [type |-> a, of |-> b, boxed |-> TRUE]
            <7>1. PICK y : y = TRUE
              OBVIOUS
            <7>2. [x EXCEPT !.boxed = y] = [type |-> a, of |-> b, boxed |-> y]
              BY <5>3
            <7> QED BY <7>1, <7>2 DEF to_variant
          <6>3. (e \/ f.vararg) = TRUE
            BY <5>5
          <6> QED BY <4>1, <4>4, <5>2, <5>4, <6>1, <6>2, <6>3
        <5>6. CASE ~f.vararg
          <6>1. Argument(r.stack, i) = x
            BY <2>2, <2>4, <3>2, <4>5, <5>1, <5>2, <5>6
          <6>2. (e \/ f.vararg) = e
            BY <5>3, <5>6
          <6> QED BY <4>1, <4>4, <5>2, <5>3, <5>4, <6>1, <6>2
        <5> QED BY <5>5, <5>6
      <4> QED BY <4>2, <4>3, <4>4
    <3>4. r.stack.size = n
      BY <3>2 DEF Fills
    <3>5. ASSUME ~r.raised, Gone(s), get_arguments_writes(f, c.given) = {}, Counted(c) PROVE n = 0
      <4>1. given = Parameters(f, c.given)
        BY <1>1 DEF Arguments
      <4>2. DOMAIN given \cup Supplied(f, k) = {}
        BY <1>1, <1>10, <2>4, <3>5, <4>1 DEF get_arguments_writes, ReadWrites
      <4>3. Lacking(f, k) = {}
        <5>1. PICK x : x = (Lacking(f, k) # {})
          OBVIOUS
        <5>2. r.raised = x
          <6>1. PICK y : r = [raised |-> x, stack |-> y]
            BY <3>1, <5>1, Zenon DEF get_default_args
          <6> QED BY <6>1
        <5> QED BY <3>5, <5>1, <5>2, Zenon
      <4>4. Missing(f, k) = {}
        BY <4>2, <4>3 DEF Supplied
      <4>5. l = 0
        <5>1. DOMAIN given = 1..l /\ DOMAIN given = {}
          BY <1>3, <1>11, <4>2
        <5> QED BY <1>12, <5>1
      <4>6. m = 0
        BY <1>11, <1>12, <1>13, <3>5, <4>4, <4>5 DEF Missing
      <4> QED BY <1>12, <3>5, <4>5, <4>6
    <3>7. \E q \in 0..SizeMax : Fills(s, r.stack, q) /\ (~Counted(c) => q = SizeMax)
      BY <1>4, <3>2
    <3>8. ASSUME ~r.raised, Counted(c), ~(Gone(s) /\ get_arguments_writes(f, c.given) # {}),
                 NEW i \in 1..Count(c)
          PROVE  Argument(r.stack, i) = Wanted(c, i)
      <4>1. i \in 1..n
        BY <1>8, <3>8
      <4>2. n # 0
        BY <1>12, <4>1
      <4> QED BY <3>3, <3>5, <3>8, <4>1, <4>2
    <3> QED BY <1>1, <1>8, <3>4, <3>7, <3>8
  <2> QED BY <2>3, <2>4
<1> QED BY <1>9, <1>10

\* The values that constructors are tried with.
LEMMA CtorFills ==
  ASSUME NEW s, IsStack(s), NEW n \in 0..SizeMax, NEW r, Fills(s, r, n), NEW f, NEW given, IsSequence(given),
         IsSequence(f.constructors), \A k \in DOMAIN f.constructors : Declares(f.constructors[k]),
         n = Len(given)
  PROVE  /\ Fills(s, CtorFill(r, f, given), n)
         /\ Fitting(f, given) # {} =>
              /\ First(Fitting(f, given)) \in Fitting(f, given)
              /\ \A i \in Places(r.capacity) : i <= n =>
                   Argument(CtorFill(r, f, given), i) =
                     Converted(given[i], f.constructors[First(Fitting(f, given))][i].type)
<1> DEFINE W == Written(f, given)
<1> DEFINE args == CtorArgs(r, f, given)
<1> DEFINE ptrs == [i \in DOMAIN r.ptr_args |-> IF i \in W THEN ToArgument(args[i], i) ELSE r.ptr_args[i]]
<1>1. /\ IsStack(r) /\ DOMAIN r.ptr_args = Places(r.capacity) /\ DOMAIN r.args = Places(r.capacity)
      /\ r.varargs = [i \in Places(r.capacity) |-> r.varargs[i]]
      /\ \A i \in Places(r.capacity) : IsSlot(r.args[i]) /\ OwnPointer(r.ptr_args[i], i)
  BY DEF Fills, IsStack
<1>2. /\ r.capacity \in Nat /\ n \in Nat /\ n <= r.capacity
      /\ \A i \in Places(r.capacity) : i \in 1..r.capacity
  BY PlacesFacts, SizeAssumption DEF Fills, IsStack
<1>3. DOMAIN given = 1..n
  BY SequenceFacts
<1>4. PICK m : m = Len(f.constructors)
  OBVIOUS
<1>5. m \in Nat /\ DOMAIN f.constructors = 1..m
  BY <1>4, SequenceFacts
<1>6. ASSUME NEW i \in W
      PROVE  LET k == Final(Reaching(f, given, i)) IN
             /\ i \in 1..n /\ k \in Reaching(f, given, i)
             /\ \A l \in Reaching(f, given, i) : l <= k
             /\ lua_is(given[i], f.constructors[k][i]) /\ f.constructors[k][i].type \in Types
  <2>1. i \in 1..n /\ Reaching(f, given, i) # {} /\ Reaching(f, given, i) \in SUBSET (1..m)
    BY <1>3, <1>5, <1>6 DEF Written, Reaching
  <2>2. PICK k : k = Final(Reaching(f, given, i))
    OBVIOUS
  <2>3. k \in Reaching(f, given, i) /\ \A l \in Reaching(f, given, i) : l <= k
    BY <1>5, <2>1, <2>2, FinalIs
  <2>4. /\ k \in DOMAIN f.constructors /\ Len(f.constructors[k]) = n
        /\ \A j \in 1..i : lua_is(given[j], f.constructors[k][j])
    BY <2>3 DEF Reaching
  <2>5. Declares(f.constructors[k]) /\ DOMAIN f.constructors[k] = 1..n
    BY <2>4, SequenceFacts DEF Declares
  <2>6. f.constructors[k][i].type \in Types
    BY <2>1, <2>5 DEF Declares
  <2>7. i \in 1..i
    BY <2>1
  <2> QED BY <2>1, <2>2, <2>3, <2>4, <2>6, <2>7
<1>7. CtorFill(r, f, given) = WithArgs(r, args, ptrs)
  BY DEF CtorFill, WithArgs
<1>8. /\ args = [i \in Places(r.capacity) |-> args[i]]
      /\ \A i \in Places(r.capacity) :
           /\ i \in W => args[i] = lua_check(r.args[i], given[i], f.constructors[Final(Reaching(f, given, i))][i])
           /\ i \notin W => args[i] = r.args[i]
  BY <1>1 DEF CtorArgs
<1> HIDE DEF args, W
<1>9. /\ ptrs = [i \in Places(r.capacity) |-> ptrs[i]]
      /\ \A i \in Places(r.capacity) :
           /\ i \in W => ptrs[i] = ToArgument(args[i], i)
           /\ i \notin W => ptrs[i] = r.ptr_args[i]
  BY <1>1
<1> HIDE DEF ptrs
<1>10. PICK t : t = [args |-> args, varargs |-> r.varargs, ptr_args |-> ptrs,
                     size |-> r.size, capacity |-> r.capacity]
  OBVIOUS
<1>11. CtorFill(r, f, given) = t
  <2>1. IsStack(r)
    BY <1>1
  <2>2. WithArgs(r, args, ptrs) = t
    BY <1>10, <2>1, StackReplaced
  <2> QED BY <1>7, <2>2
<1>12. ASSUME NEW i \in Places(r.capacity)
       PROVE  /\ IsSlot(args[i]) /\ OwnPointer(ptrs[i], i)
              /\ i \in W => args[i].value =
                              Converted(given[i], f.constructors[Final(Reaching(f, given, i))][i].type)
  <2>1. OwnPointer(ptrs[i], i)
    <3>1. ptrs[i] = ToArgument(args[i], i) \/ ptrs[i] = r.ptr_args[i]
      BY <1>9, <1>12
    <3>2. OwnPointer(r.ptr_args[i], i)
      BY <1>1, <1>12
    <3> QED BY <3>1, <3>2, Points
  <2>2. IsSlot(r.args[i])
    BY <1>1, <1>12
  <2>3. CASE i \in W
    <3>1. PICK x : x = f.constructors[Final(Reaching(f, given, i))][i]
      OBVIOUS
    <3>2. lua_is(given[i], x) /\ x.type \in Types
      BY <1>6, <2>3, <3>1
    <3>3. args[i] = lua_check(r.args[i], given[i], x)
      BY <1>8, <1>12, <2>3, <3>1
    <3>4. IsSlot(args[i]) /\ args[i].value = Converted(given[i], x.type)
      BY <2>2, <3>2, <3>3, CheckSlot
    <3> QED BY <2>1, <3>1, <3>4
  <2>4. CASE i \notin W
    BY <1>8, <1>12, <2>1, <2>2, <2>4
  <2> QED BY <2>3, <2>4
<1>13. \A i \in Places(r.capacity) : i > n => args[i] = r.args[i] /\ ptrs[i] = r.ptr_args[i]
  <2> SUFFICES ASSUME NEW i \in Places(r.capacity), i > n PROVE i \notin W
    BY <1>8, <1>9
  <2>1. ~(i \in 1..n)
    BY <1>2
  <2> QED BY <1>6, <2>1
<1>14. Fills(s, t, n)
  <2>1. \A i \in Places(r.capacity) : IsSlot(args[i]) /\ OwnPointer(ptrs[i], i)
    BY <1>12
  <2> QED BY <1>1, <1>8, <1>9, <1>10, <1>13, <2>1, Refilled
<1>15. ASSUME Fitting(f, given) # {}
       PROVE  /\ First(Fitting(f, given)) \in Fitting(f, given)
              /\ \A i \in Places(r.capacity) : i <= n => Argument(t, i) =
                   Converted(given[i], f.constructors[First(Fitting(f, given))][i].type)
  <2>1. PICK k : k = First(Fitting(f, given))
    OBVIOUS
  <2>2. Fitting(f, given) \in SUBSET Nat
    BY <1>5 DEF Fitting
  <2>3. k \in Fitting(f, given) /\ \A l \in Fitting(f, given) : k <= l
    BY <1>15, <2>1, <2>2, FirstIs
  <2>4. k \in 1..m /\ Len(f.constructors[k]) = n /\ \A j \in 1..n : lua_is(given[j], f.constructors[k][j])
    BY <1>3, <1>5, <2>3 DEF Fitting, Fits
  <2>5. ASSUME NEW i \in Places(r.capacity), i <= n
        PROVE  Argument(t, i) = Converted(given[i], f.constructors[k][i].type)
    <3>8. i \in 1..n
      BY <1>2, <2>5
    <3>1. \A j \in 1..i : j \in 1..n
      BY <1>2, <3>8
    <3>2. k \in Reaching(f, given, i)
      BY <1>5, <2>3, <2>4, <3>1 DEF Reaching
    <3>3. i \in W
      BY <1>3, <3>2, <3>8 DEF W, Written
    <3>4. PICK l : l = Final(Reaching(f, given, i))
      OBVIOUS
    <3>5. l \in Reaching(f, given, i) /\ k <= l
      BY <1>6, <3>2, <3>3, <3>4
    <3>6. l \in 1..m /\ l <= k
      BY <1>5, <2>3, <3>5 DEF Reaching
    <3>7. l = k
      BY <1>5, <2>4, <3>5, <3>6
    <3>9. args[i].value = Converted(given[i], f.constructors[k][i].type)
      BY <1>12, <2>5, <3>3, <3>4, <3>7
    <3>10. t.ptr_args[i] = ToArgument(t.args[i], i) /\ t.args[i] = args[i]
      BY <1>9, <1>10, <2>5, <3>3
    <3> QED BY <3>9, <3>10, Points
  <2> QED BY <2>1, <2>3, <2>5
<1> QED BY <1>11, <1>14, <1>15

\* The arguments of a constructor.
LEMMA Constructs ==
  ASSUME NEW s, IsStack(s), NEW c \in AllCalls, Natives[c.f].kind = "ctor",
         NEW r, r = builtin_ctor(s, Natives[c.f], Arguments(c))
  PROVE  /\ \E n \in 0..SizeMax : Fills(s, r.stack, n)
         /\ ~r.raised /\ ~(Gone(s) /\ Written(Natives[c.f], Arguments(c)) # {}) =>
              /\ r.stack.size = Count(c)
              /\ \A i \in 1..Count(c) : Argument(r.stack, i) = Wanted(c, i)
<1>1. PICK f, given, n : f = Natives[c.f] /\ given = Arguments(c) /\ n = Len(given)
  OBVIOUS
<1>2. /\ IsSequence(given) /\ f.kind = "ctor" /\ f.vararg = FALSE
      /\ IsSequence(f.constructors) /\ \A k \in DOMAIN f.constructors : Declares(f.constructors[k])
  BY <1>1, CallFacts, NativeAssumption
<1>3. n \in Nat /\ n \in 0..SizeMax /\ n # SizeMax
  BY <1>1, CallFacts, SizeAssumption
<1>4. PICK sized : sized = resize(s, n)
  OBVIOUS
<1>5. Fills(s, sized, n)
  BY <1>3, <1>4, Resized
<1>6. r = [raised |-> Fitting(f, given) = {}, stack |-> CtorFill(sized, f, given)]
  BY <1>1, <1>4 DEF builtin_ctor
<1>7. /\ Fills(s, r.stack, n)
      /\ Fitting(f, given) # {} =>
           /\ First(Fitting(f, given)) \in Fitting(f, given)
           /\ \A i \in Places(sized.capacity) : i <= n => Argument(r.stack, i) =
                Converted(given[i], f.constructors[First(Fitting(f, given))][i].type)
  <2>1. r.stack = CtorFill(sized, f, given)
    BY <1>6
  <2> QED BY <1>1, <1>2, <1>3, <1>5, <2>1, CtorFills
<1>9. /\ sized.capacity \in Nat /\ n <= sized.capacity
      /\ ~Gone(s) => Places(sized.capacity) = 1..sized.capacity
  <2>1. IsStack(sized) /\ sized.size = n /\ sized.capacity = Largest(s.capacity, n) /\ IsStack(s)
    BY <1>5 DEF Fills
  <2>2. /\ sized.capacity \in 0..SizeMax /\ n <= sized.capacity
        /\ s.capacity \in 0..SizeMax
    BY <2>1 DEF IsStack
  <2>3. ~Gone(s) => sized.capacity # SizeMax
    BY <1>3, <2>1, <2>2, SizeAssumption DEF Gone, Largest
  <2> QED BY <2>2, <2>3, PlacesFacts, SizeAssumption
<1>8. ASSUME ~r.raised, ~(Gone(s) /\ Written(f, given) # {})
      PROVE  r.stack.size = Count(c) /\ \A i \in 1..Count(c) : Argument(r.stack, i) = Wanted(c, i)
  <2>1. Fitting(f, given) # {}
    <3>1. PICK b : b = (Fitting(f, given) = {})
      OBVIOUS
    <3>2. r = [raised |-> b, stack |-> CtorFill(sized, f, given)]
      BY <1>6, <3>1, Zenon
    <3>3. r.raised = b
      BY <3>2
    <3> QED BY <1>8, <3>1, <3>3, Zenon
  <2>2. PICK k : k = First(Fitting(f, given))
    OBVIOUS
  <2>3. k \in Fitting(f, given)
    BY <1>7, <2>1, <2>2
  <2>4. Declared(c) = f.constructors[k] /\ Len(Declared(c)) = n
    BY <1>1, <1>2, <2>2, <2>3, Zenon DEF Declared, Fitting, Fits
  <2>5. Count(c) = n
    BY <1>1, <1>2, <1>3, <2>4 DEF Count, Largest
  <2>6. r.stack.size = n
    BY <1>7 DEF Fills
  <2>7. ASSUME NEW i \in 1..n PROVE Argument(r.stack, i) = Wanted(c, i)
    <3>8. ~Gone(s)
      <4>1. i \in DOMAIN given /\ DOMAIN given = 1..n
        BY <1>1, <1>2, <2>7, SequenceFacts
      <4>2. k \in DOMAIN f.constructors /\ Fits(f.constructors[k], given)
        BY <2>3 DEF Fitting
      <4>3. First(Fitting(f, given)) = k /\ Fitting(f, given) \in SUBSET Nat
        <5>1. DOMAIN f.constructors = 1..Len(f.constructors)
          BY <1>2, SequenceFacts
        <5> QED BY <2>2, <5>1 DEF Fitting
      <4>4. \A d \in Fitting(f, given) : k <= d
        BY <2>1, <4>3, FirstIs
      <4>5. \A j \in 1..i : j \in DOMAIN given
        BY <1>3, <4>1
      <4>6. k \in Reaching(f, given, i)
        BY <4>2, <4>4, <4>5 DEF Reaching, Fits
      <4>7. i \in Written(f, given)
        BY <4>1, <4>6 DEF Written
      <4> QED BY <1>8, <4>7
    <3>9. i \in Places(sized.capacity)
      BY <1>3, <1>9, <2>7, <3>8
    <3>1. PICK x : x = Converted(given[i], f.constructors[k][i].type)
      OBVIOUS
    <3>2. PICK a, b, e : x = [type |-> a, of |-> b, boxed |-> e] /\ e \in BOOLEAN
      BY <3>1 DEF Converted, Boxed, Value, NullObject
    <3>3. ~(i > n)
      BY <1>3, <2>7
    <3>4. Wanted(c, i) = [x EXCEPT !.boxed = @ \/ FALSE]
      BY <1>1, <1>2, <2>4, <3>1, <3>3, Zenon DEF Wanted
    <3>5. [x EXCEPT !.boxed = @ \/ FALSE] = [type |-> a, of |-> b, boxed |-> e \/ FALSE]
      BY <3>2
    <3>6. (e \/ FALSE) = e
      BY <3>2
    <3>7. Argument(r.stack, i) = x
      BY <1>7, <2>1, <2>2, <3>1, <3>3, <3>9
    <3> QED BY <3>2, <3>4, <3>5, <3>6, <3>7
  <2> QED BY <2>5, <2>6, <2>7
<1> QED BY <1>1, <1>3, <1>7, <1>8

\* t is s with x for an argument at place i.
Replaces(t, s, i, x) ==
  /\ IsStack(t) /\ t.size = s.size /\ t.capacity = s.capacity
  /\ Argument(t, i) = x
  /\ \A j \in 1..s.capacity : j # i => Argument(t, j) = Argument(s, j)

\* print writes one of its arguments.
LEMMA PrintsOne ==
  ASSUME NEW s, IsStack(s), ~Gone(s), NEW i \in 1..s.capacity, NEW v
  PROVE  Replaces(Printed(s, i, v), s, i, Text(v))
<1> DEFINE t == Printed(s, i, v)
<1> DEFINE varargs == [s.varargs EXCEPT ![i] = Text(v)]
<1> DEFINE ptrs == [s.ptr_args EXCEPT ![i] = ToVararg(i)]
<1>11. Places(s.capacity) = 1..s.capacity
  BY PlacesFacts DEF IsStack, Gone
<1>1. /\ s.size \in Nat /\ s.capacity \in Nat /\ s.size <= s.capacity
      /\ s.args = [j \in 1..s.capacity |-> s.args[j]]
      /\ DOMAIN s.varargs = 1..s.capacity /\ DOMAIN s.ptr_args = 1..s.capacity
      /\ \A j \in 1..s.capacity : IsSlot(s.args[j]) /\ OwnPointer(s.ptr_args[j], j)
  BY <1>11, SizeAssumption DEF IsStack
<1>2. Printed(s, i, v) = WithVarargs(s, varargs, ptrs)
  BY DEF Printed, WithVarargs
<1>3. /\ varargs = [j \in 1..s.capacity |-> varargs[j]] /\ varargs[i] = Text(v)
      /\ \A j \in 1..s.capacity : j # i => varargs[j] = s.varargs[j]
  BY <1>1
<1>4. /\ ptrs = [j \in 1..s.capacity |-> ptrs[j]] /\ ptrs[i] = ToVararg(i)
      /\ \A j \in 1..s.capacity : j # i => ptrs[j] = s.ptr_args[j]
  BY <1>1
<1> HIDE DEF varargs, ptrs, t
<1>5. t = [args |-> s.args, varargs |-> varargs, ptr_args |-> ptrs, size |-> s.size, capacity |-> s.capacity]
  BY <1>2, StackReplaced DEF t
<1>6. /\ t.args = s.args /\ t.varargs = varargs /\ t.ptr_args = ptrs
      /\ t.size = s.size /\ t.capacity = s.capacity
  BY <1>5
<1>7. \A j \in 1..s.capacity : OwnPointer(ptrs[j], j)
  BY <1>1, <1>4, Points
<1>8. IsStack(t)
  BY <1>1, <1>3, <1>4, <1>5, <1>6, <1>7, <1>11 DEF IsStack
<1>9. Argument(t, i) = Text(v)
  BY <1>3, <1>4, <1>6, Points, ZenonT(30)
<1>10. ASSUME NEW j \in 1..s.capacity, j # i PROVE Argument(t, j) = Argument(s, j)
  <2>1. OwnPointer(s.ptr_args[j], j)
    BY <1>1, <1>10
  <2>2. t.ptr_args[j] = s.ptr_args[j] /\ t.args[j] = s.args[j] /\ t.varargs[j] = s.varargs[j]
    BY <1>3, <1>4, <1>6, <1>10
  <2> QED BY <2>1, <2>2 DEF OwnPointer, Argument
<1> QED BY <1>6, <1>8, <1>9, <1>10 DEF Replaces, t
----------------------------------------------------------------------------
(* The invariant, of the frames fs of an OS thread, what is passed (ps) and   *)
(* the argument stacks (ss).                                                  *)

Passings == [size : Nat, next : Nat \ {0}, lost : SUBSET Nat, interrupted : BOOLEAN]

\* The positions that a native filled and nothing took from it since hold what
\* they ought to, unless it is refused; a native that has not called the engine yet
\* is print.
Sound(fr, p, s) ==
  /\ Filled(fr, p) \subseteq 1..s.capacity
  /\ fr.step # "refused" =>
       \A i \in Filled(fr, p) \ p.lost : i <= Count(fr.call) => Argument(s, i) = Wanted(fr.call, i)
  /\ IF fr.step = "fill"
     THEN /\ Natives[fr.call.f].kind = "print"
          /\ p.next - 1 <= Count(fr.call) /\ Count(fr.call) <= s.capacity
          /\ ~p.interrupted => s.size = Count(fr.call)
     ELSE fr.step # "refused" /\ ~p.interrupted => p.size = Count(fr.call)

SoundIn(fs, ps, ss) ==
  \A i \in DOMAIN fs : fs[i].kind = "native" =>
    IF UsesStack(fs[i].call.f) THEN Sound(fs[i], ps[i], ss[fs[i].vm])
    ELSE fs[i].step # "fill" /\ ps[i].size = 0

\* What print is yet to write was taken from the natives below it.
CoverIn(fs, ps) ==
  \A i, j \in DOMAIN fs :
    /\ i < j /\ fs[i].kind = "native" /\ fs[j].kind = "native" /\ fs[i].vm = fs[j].vm
    /\ fs[j].step = "fill"
    => (1..Count(fs[j].call)) \cap Filled(fs[i], ps[i]) \subseteq ps[i].lost

\* __tostring is called for one of the arguments of print.
CalledIn(fs, ps) ==
  \A i \in DOMAIN fs : fs[i].kind = "tostring" =>
    /\ i - 1 \in DOMAIN fs /\ fs[i - 1].kind = "native"
    /\ ps[i - 1].next <= Count(fs[i - 1].call)

PassedIn(fs, ps, ss) ==
  /\ ps \in Seq(Passings) /\ Len(ps) = Len(fs)
  /\ SoundIn(fs, ps, ss) /\ CoverIn(fs, ps) /\ CalledIn(fs, ps)

PassedInv ==
  /\ stack = [v \in VMs |-> stack[v]] /\ \A v \in VMs : IsStack(stack[v])
  /\ passed = [o \in OSThreads |-> passed[o]]
  /\ \A o \in OSThreads : PassedIn(frames[o], passed[o], stack)

LEMMA PassedFacts ==
  ASSUME NEW fs \in Seq(AnyFrame), NEW ps, NEW ss, PassedIn(fs, ps, ss)
  PROVE  /\ Len(fs) \in Nat /\ DOMAIN fs = 1..Len(fs) /\ DOMAIN ps = 1..Len(fs)
         /\ \A i \in 1..Len(fs) : fs[i] \in AnyFrame /\ ps[i] \in Passings
         /\ \A i \in 1..Len(fs) : fs[i].kind = "native" => fs[i].vm \in VMs /\ fs[i].call \in AllCalls
<1>1. /\ Len(fs) \in Nat /\ DOMAIN fs = 1..Len(fs) /\ DOMAIN ps = 1..Len(fs)
      /\ ps \in Seq(Passings)
  BY LenProperties DEF PassedIn
<1>2. \A i \in 1..Len(fs) : fs[i] \in AnyFrame /\ ps[i] \in Passings
  BY <1>1, ElementOfSeq DEF PassedIn
<1>3. \A i \in 1..Len(fs) : fs[i].kind = "native" => fs[i].vm \in VMs /\ fs[i].call \in AllCalls
  BY <1>2 DEF AnyFrame, LuaFrames, NativeFrames
<1> QED BY <1>1, <1>2, <1>3

LEMMA CountIs ==
  ASSUME NEW c \in AllCalls
  PROVE  Natives[c.f].kind # "ctor" => Count(c) \in Nat
<1> SUFFICES ASSUME Natives[c.f].kind # "ctor" PROVE Count(c) \in Nat
  OBVIOUS
<1>1. Len(c.given) \in Nat /\ Len(Arguments(c)) \in Nat
  BY CallFacts, SequenceFacts
<1>2. Declared(c) = Natives[c.f].arguments /\ Declares(Natives[c.f].arguments)
  BY CallFacts, NativeAssumption DEF Declared
<1>3. Len(Declared(c)) \in Nat
  BY <1>2, SequenceFacts DEF Declares
<1> QED BY <1>1, <1>3 DEF Count, Largest

\* A frame that another may stand for.
Same(g, f) ==
  /\ g.kind = f.kind /\ g.vm = f.vm
  /\ f.kind = "native" =>
       g.call = f.call /\ \A step \in {"fill", "refused"} : g.step = step <=> f.step = step

\* Frames are popped, or go on, or one is pushed that has nothing in the stack.
LEMMA QuietPassed ==
  ASSUME NEW fs \in Seq(AnyFrame), NEW ps, NEW ss, PassedIn(fs, ps, ss),
         NEW gs \in Seq(AnyFrame), NEW qs \in Seq(Passings), Len(qs) = Len(gs),
         \A i \in DOMAIN gs :
           IF i \in DOMAIN fs THEN Same(gs[i], fs[i]) /\ qs[i] = ps[i]
           ELSE \/ gs[i].kind = "lua"
                \/ /\ gs[i].kind = "tostring" /\ i - 1 \in DOMAIN fs
                   /\ fs[i - 1].kind = "native" /\ ps[i - 1].next <= Count(fs[i - 1].call)
                \/ /\ gs[i].kind = "native" /\ ~UsesStack(gs[i].call.f)
                   /\ gs[i].step # "fill" /\ qs[i].size = 0
  PROVE  PassedIn(gs, qs, ss)
<1>1. /\ DOMAIN gs = 1..Len(gs) /\ Len(gs) \in Nat
      /\ DOMAIN fs = 1..Len(fs) /\ Len(fs) \in Nat
  BY LenProperties
<1>2. SoundIn(gs, qs, ss)
  <2> SUFFICES ASSUME NEW i \in DOMAIN gs, gs[i].kind = "native"
               PROVE  IF UsesStack(gs[i].call.f) THEN Sound(gs[i], qs[i], ss[gs[i].vm])
                      ELSE gs[i].step # "fill" /\ qs[i].size = 0
    BY DEF SoundIn
  <2>1. CASE i \in DOMAIN fs
    <3>1. Same(gs[i], fs[i]) /\ qs[i] = ps[i] /\ fs[i].kind = "native"
      BY <2>1 DEF Same
    <3>2. /\ gs[i].call = fs[i].call /\ gs[i].vm = fs[i].vm /\ (gs[i].step = "fill" <=> fs[i].step = "fill")
          /\ gs[i].step = "refused" <=> fs[i].step = "refused"
      BY <3>1 DEF Same
    <3>3. IF UsesStack(fs[i].call.f) THEN Sound(fs[i], ps[i], ss[fs[i].vm])
          ELSE fs[i].step # "fill" /\ ps[i].size = 0
      BY <2>1, <3>1 DEF PassedIn, SoundIn
    <3>4. Sound(fs[i], ps[i], ss[fs[i].vm]) => Sound(gs[i], qs[i], ss[gs[i].vm])
      BY <3>1, <3>2 DEF Sound, Filled
    <3> QED BY <3>1, <3>2, <3>3, <3>4
  <2>2. CASE i \notin DOMAIN fs
    BY <2>2
  <2> QED BY <2>1, <2>2
<1>3. CoverIn(gs, qs)
  <2> SUFFICES ASSUME NEW i \in DOMAIN gs, NEW j \in DOMAIN gs, i < j, gs[i].kind = "native",
                      gs[j].kind = "native", gs[i].vm = gs[j].vm, gs[j].step = "fill"
               PROVE  (1..Count(gs[j].call)) \cap Filled(gs[i], qs[i]) \subseteq qs[i].lost
    BY DEF CoverIn
  <2>1. j \in DOMAIN fs
    OBVIOUS
  <2>2. i \in DOMAIN fs
    BY <1>1, <2>1
  <2>3. Same(gs[i], fs[i]) /\ Same(gs[j], fs[j]) /\ qs[i] = ps[i]
    BY <2>1, <2>2
  <2>4. /\ fs[i].kind = "native" /\ fs[j].kind = "native" /\ fs[i].vm = fs[j].vm /\ fs[j].step = "fill"
        /\ gs[j].call = fs[j].call /\ (gs[i].step = "fill" <=> fs[i].step = "fill")
    BY <2>3 DEF Same
  <2>5. (1..Count(fs[j].call)) \cap Filled(fs[i], ps[i]) \subseteq ps[i].lost
    BY <2>1, <2>2, <2>4 DEF PassedIn, CoverIn
  <2> QED BY <2>3, <2>4, <2>5 DEF Filled
<1>4. CalledIn(gs, qs)
  <2> SUFFICES ASSUME NEW i \in DOMAIN gs, gs[i].kind = "tostring"
               PROVE  /\ i - 1 \in DOMAIN gs /\ gs[i - 1].kind = "native"
                      /\ qs[i - 1].next <= Count(gs[i - 1].call)
    BY DEF CalledIn
  <2>1. i - 1 \in DOMAIN fs /\ fs[i - 1].kind = "native" /\ ps[i - 1].next <= Count(fs[i - 1].call)
    <3>1. CASE i \in DOMAIN fs
      <4>1. fs[i].kind = "tostring"
        BY <3>1 DEF Same
      <4> QED BY <3>1, <4>1 DEF PassedIn, CalledIn
    <3>2. CASE i \notin DOMAIN fs
      BY <3>2
    <3> QED BY <3>1, <3>2
  <2>2. i - 1 \in DOMAIN gs
    BY <1>1, <2>1
  <2>3. Same(gs[i - 1], fs[i - 1]) /\ qs[i - 1] = ps[i - 1]
    BY <2>1, <2>2
  <2> QED BY <2>1, <2>2, <2>3 DEF Same
<1> QED BY <1>2, <1>3, <1>4 DEF PassedIn

\* Frames are popped, or go on.
LEMMA FewerPassed ==
  ASSUME NEW fs \in Seq(AnyFrame), NEW ps, NEW ss, PassedIn(fs, ps, ss),
         NEW gs \in Seq(AnyFrame), NEW qs \in Seq(Passings), Len(qs) = Len(gs),
         \A i \in DOMAIN gs : i \in DOMAIN fs /\ Same(gs[i], fs[i]) /\ qs[i] = ps[i]
  PROVE  PassedIn(gs, qs, ss)
<1>1. \A i \in DOMAIN gs :
        IF i \in DOMAIN fs THEN Same(gs[i], fs[i]) /\ qs[i] = ps[i]
        ELSE \/ gs[i].kind = "lua"
             \/ /\ gs[i].kind = "tostring" /\ i - 1 \in DOMAIN fs
                /\ fs[i - 1].kind = "native" /\ ps[i - 1].next <= Count(fs[i - 1].call)
             \/ /\ gs[i].kind = "native" /\ ~UsesStack(gs[i].call.f)
                /\ gs[i].step # "fill" /\ qs[i].size = 0
  OBVIOUS
<1> QED BY <1>1, QuietPassed

\* The stack of a VM changes that no native of the frames is in.
LEMMA ElsewherePassed ==
  ASSUME NEW fs, NEW ps, NEW ss, PassedIn(fs, ps, ss), NEW tt, NEW v,
         \A w \in VMs \ {v} : tt[w] = ss[w],
         \A i \in DOMAIN fs : fs[i].kind = "native" => fs[i].vm \in VMs \ {v}
  PROVE  PassedIn(fs, ps, tt)
<1>1. SoundIn(fs, ps, tt)
  <2> SUFFICES ASSUME NEW i \in DOMAIN fs, fs[i].kind = "native"
               PROVE  IF UsesStack(fs[i].call.f) THEN Sound(fs[i], ps[i], tt[fs[i].vm])
                      ELSE fs[i].step # "fill" /\ ps[i].size = 0
    BY DEF SoundIn
  <2>1. tt[fs[i].vm] = ss[fs[i].vm]
    OBVIOUS
  <2>2. IF UsesStack(fs[i].call.f) THEN Sound(fs[i], ps[i], ss[fs[i].vm])
        ELSE fs[i].step # "fill" /\ ps[i].size = 0
    BY DEF PassedIn, SoundIn
  <2> QED BY <2>1, <2>2
<1> QED BY <1>1 DEF PassedIn

\* What a call that fills n positions of the stack of VM v, which had x slots and
\* now has y, leaves of what was passed (p) to frame fr.
Leaves(fr, p, q, v, n, x, y) ==
  /\ q \in Passings /\ q.size = p.size /\ q.next = p.next /\ Filled(fr, q) = Filled(fr, p)
  /\ fr.kind # "native" \/ fr.vm # v => q = p
  /\ fr.kind = "native" /\ fr.vm = v =>
       /\ y > x => q.lost = Filled(fr, p)
       /\ ~(y > x) => q.lost = p.lost \cup ((1..n) \cap Filled(fr, p))
       /\ fr.step = "fill" => q.interrupted
       /\ fr.step # "fill" => q.interrupted = p.interrupted

LEMMA DisturbedLeaves ==
  ASSUME NEW fr \in AnyFrame, NEW p \in Passings, NEW v, NEW n \in Nat, NEW x \in Nat, NEW y \in Nat,
         NEW q, q = Disturbed(fr, p, v, n, y > x)
  PROVE  Leaves(fr, p, q, v, n, x, y)
<1> USE DEF Leaves
<1>1. CASE fr.kind # "native" \/ fr.vm # v
  BY <1>1 DEF Disturbed
<1>2. CASE fr.kind = "native" /\ fr.vm = v
  <2>1. PICK a, b, c, d : /\ p = [size |-> a, next |-> b, lost |-> c, interrupted |-> d]
                          /\ a \in Nat /\ b \in Nat \ {0} /\ c \in SUBSET Nat /\ d \in BOOLEAN
    BY DEF Passings
  <2>2. PICK l : l = IF y > x THEN Filled(fr, p) ELSE p.lost \cup ((1..n) \cap Filled(fr, p))
    OBVIOUS
  <2>3. PICK e \in BOOLEAN : e = (p.interrupted \/ fr.step = "fill")
    OBVIOUS
  <2>4. q = [p EXCEPT !.lost = l, !.interrupted = e]
    BY <1>2, <2>2, <2>3 DEF Disturbed
  <2>5. PICK r : r = [p EXCEPT !.lost = l]
    OBVIOUS
  <2>6. r = [size |-> a, next |-> b, lost |-> l, interrupted |-> d]
    BY <2>1, <2>5
  <2>7. q = [r EXCEPT !.interrupted = e]
    BY <2>4, <2>5
  <2>8. q = [size |-> a, next |-> b, lost |-> l, interrupted |-> e]
    BY <2>6, <2>7
  <2>9. Filled(fr, p) \subseteq Nat
    BY <2>1 DEF Filled
  <2>10. l \subseteq Nat
    BY <2>1, <2>2, <2>9
  <2>11. q \in Passings
    <3>1. a \in Nat /\ b \in Nat \ {0} /\ l \in SUBSET Nat /\ e \in BOOLEAN
      BY <2>1, <2>10
    <3>2. [size |-> a, next |-> b, lost |-> l, interrupted |-> e] \in Passings
      BY <3>1 DEF Passings
    <3> QED BY <2>8, <3>2
  <2>12. q.size = p.size /\ q.next = p.next
    BY <2>1, <2>8
  <2>13. Filled(fr, q) = Filled(fr, p)
    BY <2>12 DEF Filled
  <2>14. fr.step = "fill" => q.interrupted
    <3>1. q.interrupted = e
      BY <2>8
    <3> QED BY <2>3, <3>1, Zenon
  <2>15. fr.step # "fill" => q.interrupted = p.interrupted
    BY <2>1, <2>3, <2>8
  <2> QED BY <1>2, <2>2, <2>8, <2>11, <2>12, <2>13, <2>14, <2>15
<1> QED BY <1>1, <1>2

DisturbedIn(fs, ps, v, n, grows) == [i \in DOMAIN ps |-> Disturbed(fs[i], ps[i], v, n, grows)]

\* A call fills n positions of the stack of VM v, which becomes t.
LEMMA DisturbPassed ==
  ASSUME NEW fs \in Seq(AnyFrame), NEW ps, NEW ss, PassedIn(fs, ps, ss),
         NEW v, NEW s, s = ss[v], IsStack(s), NEW t, NEW n \in Nat, Fills(s, t, n),
         NEW tt, tt[v] = t, \A w \in VMs \ {v} : tt[w] = ss[w],
         NEW qs, qs = DisturbedIn(fs, ps, v, n, t.capacity > s.capacity)
  PROVE  /\ PassedIn(fs, qs, tt)
         /\ \A i \in DOMAIN fs : fs[i].kind = "native" /\ fs[i].vm = v =>
              (1..n) \cap Filled(fs[i], qs[i]) \subseteq qs[i].lost
<1> USE DEF DisturbedIn
<1>1. /\ Len(fs) \in Nat /\ DOMAIN fs = 1..Len(fs) /\ DOMAIN ps = 1..Len(fs)
      /\ \A i \in 1..Len(fs) : fs[i] \in AnyFrame /\ ps[i] \in Passings
      /\ \A i \in 1..Len(fs) : fs[i].kind = "native" => fs[i].vm \in VMs /\ fs[i].call \in AllCalls
  BY PassedFacts
<1> DEFINE grows == t.capacity > s.capacity
<1>2. grows \in BOOLEAN
  OBVIOUS
<1>6. /\ s.capacity \in Nat /\ t.capacity \in Nat /\ t.capacity >= s.capacity
      /\ ~grows => t.capacity = s.capacity
      /\ ~grows => \A i \in 1..s.capacity : i > n => Argument(t, i) = Argument(s, i)
  <2>1. s.capacity \in Nat /\ t.capacity \in Nat /\ t.capacity >= s.capacity
    BY DEF Fills, IsStack, Largest
  <2>2. ~grows => t.capacity = s.capacity
    BY <2>1
  <2>3. t.capacity = s.capacity => \A i \in 1..s.capacity : i > n => Argument(t, i) = Argument(s, i)
    BY DEF Fills
  <2> QED BY <2>1, <2>2, <2>3
<1> HIDE DEF grows
<1>4. \A i \in 1..Len(fs) :
        /\ qs[i] \in Passings /\ qs[i].size = ps[i].size /\ qs[i].next = ps[i].next
        /\ Filled(fs[i], qs[i]) = Filled(fs[i], ps[i])
        /\ fs[i].kind # "native" \/ fs[i].vm # v => qs[i] = ps[i]
        /\ fs[i].kind = "native" /\ fs[i].vm = v =>
             /\ grows => qs[i].lost = Filled(fs[i], ps[i])
             /\ ~grows => qs[i].lost = ps[i].lost \cup ((1..n) \cap Filled(fs[i], ps[i]))
             /\ fs[i].step = "fill" => qs[i].interrupted
             /\ fs[i].step # "fill" => qs[i].interrupted = ps[i].interrupted
  <2> SUFFICES ASSUME NEW i \in 1..Len(fs)
               PROVE  Leaves(fs[i], ps[i], qs[i], v, n, s.capacity, t.capacity)
    BY DEF Leaves, grows
  <2>1. fs[i] \in AnyFrame /\ ps[i] \in Passings /\ s.capacity \in Nat /\ t.capacity \in Nat
    BY <1>1, <1>6
  <2>2. qs[i] = Disturbed(fs[i], ps[i], v, n, t.capacity > s.capacity)
    BY <1>1
  <2> QED BY <2>1, <2>2, DisturbedLeaves, Zenon
<1>5. qs \in Seq(Passings) /\ Len(qs) = Len(fs)
  <2>1. qs \in [1..Len(fs) -> Passings]
    BY <1>1, <1>4
  <2> QED BY <1>1, <2>1, SeqDef, LenProperties
<1>7. SoundIn(fs, qs, tt)
  <2> SUFFICES ASSUME NEW i \in 1..Len(fs), fs[i].kind = "native"
               PROVE  IF UsesStack(fs[i].call.f) THEN Sound(fs[i], qs[i], tt[fs[i].vm])
                      ELSE fs[i].step # "fill" /\ qs[i].size = 0
    BY <1>1 DEF SoundIn
  <2>1. IF UsesStack(fs[i].call.f) THEN Sound(fs[i], ps[i], ss[fs[i].vm])
        ELSE fs[i].step # "fill" /\ ps[i].size = 0
    BY <1>1 DEF PassedIn, SoundIn
  <2>2. CASE fs[i].vm # v
    <3>1. qs[i] = ps[i] /\ tt[fs[i].vm] = ss[fs[i].vm]
      BY <1>1, <1>4, <2>2
    <3> QED BY <2>1, <3>1
  <2>3. CASE fs[i].vm = v /\ ~UsesStack(fs[i].call.f)
    BY <1>4, <2>1, <2>3
  <2>4. CASE fs[i].vm = v /\ UsesStack(fs[i].call.f)
    <3>1. Sound(fs[i], ps[i], s)
      BY <2>1, <2>4
    <3>2. Filled(fs[i], qs[i]) = Filled(fs[i], ps[i])
      BY <1>4
    <3>3. Filled(fs[i], ps[i]) \subseteq 1..s.capacity
      BY <3>1 DEF Sound
    <3>4. \A k \in 1..s.capacity : k \in 1..t.capacity
      BY <1>6
    <3>5. Filled(fs[i], qs[i]) \subseteq 1..t.capacity
      BY <3>2, <3>3, <3>4
    <3>6. ASSUME NEW k \in Filled(fs[i], qs[i]) \ qs[i].lost, k <= Count(fs[i].call), fs[i].step # "refused"
          PROVE  Argument(t, k) = Wanted(fs[i].call, k)
      <4>1. ~grows /\ k \notin 1..n /\ k \in Filled(fs[i], ps[i]) \ ps[i].lost
        <5>1. k \in Filled(fs[i], ps[i]) /\ k \notin qs[i].lost
          BY <3>2, <3>6
        <5>2. grows => qs[i].lost = Filled(fs[i], ps[i])
          BY <1>4, <2>4
        <5>3. ~grows
          BY <5>1, <5>2
        <5>4. qs[i].lost = ps[i].lost \cup ((1..n) \cap Filled(fs[i], ps[i]))
          BY <1>4, <2>4, <5>3
        <5> QED BY <5>1, <5>3, <5>4
      <4>2. k \in 1..s.capacity
        BY <3>3, <4>1
      <4>3. k > n
        BY <1>6, <4>1, <4>2
      <4>4. Argument(s, k) = Wanted(fs[i].call, k)
        BY <3>1, <3>6, <4>1 DEF Sound
      <4> QED BY <1>6, <4>1, <4>2, <4>3, <4>4
    <3>7. CASE fs[i].step = "fill"
      <4>1. qs[i].interrupted /\ qs[i].next = ps[i].next
        BY <1>4, <2>4, <3>7
      <4>2. /\ Natives[fs[i].call.f].kind = "print"
            /\ ps[i].next - 1 <= Count(fs[i].call) /\ Count(fs[i].call) <= s.capacity
        BY <3>1, <3>7 DEF Sound
      <4>3. Count(fs[i].call) \in Nat
        BY <1>1, <4>2, CountIs
      <4>4. Count(fs[i].call) <= t.capacity
        BY <1>6, <4>2, <4>3
      <4>5. Sound(fs[i], qs[i], t)
        BY <3>5, <3>6, <3>7, <4>1, <4>2, <4>4 DEF Sound
      <4> QED BY <2>4, <4>5
    <3>8. CASE fs[i].step # "fill"
      <4>1. qs[i].interrupted = ps[i].interrupted /\ qs[i].size = ps[i].size
        BY <1>4, <2>4, <3>8
      <4>2. fs[i].step # "refused" /\ ~ps[i].interrupted => ps[i].size = Count(fs[i].call)
        BY <3>1, <3>8 DEF Sound
      <4>3. Sound(fs[i], qs[i], t)
        BY <3>5, <3>6, <3>8, <4>1, <4>2 DEF Sound
      <4> QED BY <2>4, <4>3
    <3> QED BY <3>7, <3>8
  <2> QED BY <2>2, <2>3, <2>4
<1>8. CoverIn(fs, qs)
  <2> SUFFICES ASSUME NEW i \in 1..Len(fs), NEW j \in 1..Len(fs), i < j, fs[i].kind = "native",
                      fs[j].kind = "native", fs[i].vm = fs[j].vm, fs[j].step = "fill"
               PROVE  (1..Count(fs[j].call)) \cap Filled(fs[i], qs[i]) \subseteq qs[i].lost
    BY <1>1 DEF CoverIn
  <2>1. (1..Count(fs[j].call)) \cap Filled(fs[i], ps[i]) \subseteq ps[i].lost
    BY <1>1 DEF PassedIn, CoverIn
  <2>2. Filled(fs[i], qs[i]) = Filled(fs[i], ps[i])
    BY <1>4
  <2>3. qs[i] = ps[i] \/ qs[i].lost = Filled(fs[i], ps[i])
        \/ qs[i].lost = ps[i].lost \cup ((1..n) \cap Filled(fs[i], ps[i]))
    BY <1>4
  <2> QED BY <2>1, <2>2, <2>3
<1>9. CalledIn(fs, qs)
  <2> SUFFICES ASSUME NEW i \in 1..Len(fs), fs[i].kind = "tostring"
               PROVE  /\ i - 1 \in DOMAIN fs /\ fs[i - 1].kind = "native"
                      /\ qs[i - 1].next <= Count(fs[i - 1].call)
    BY <1>1 DEF CalledIn
  <2>1. /\ i - 1 \in 1..Len(fs) /\ fs[i - 1].kind = "native"
        /\ ps[i - 1].next <= Count(fs[i - 1].call)
    BY <1>1 DEF PassedIn, CalledIn
  <2> QED BY <1>1, <1>4, <2>1
<1>10. ASSUME NEW i \in 1..Len(fs), fs[i].kind = "native", fs[i].vm = v
       PROVE  (1..n) \cap Filled(fs[i], qs[i]) \subseteq qs[i].lost
  <2>1. Filled(fs[i], qs[i]) = Filled(fs[i], ps[i])
    BY <1>4, <1>10
  <2>2. qs[i].lost = Filled(fs[i], ps[i])
        \/ qs[i].lost = ps[i].lost \cup ((1..n) \cap Filled(fs[i], ps[i]))
    BY <1>4, <1>10
  <2> QED BY <2>1, <2>2
<1> QED BY <1>1, <1>5, <1>7, <1>8, <1>9, <1>10 DEF PassedIn

\* The frame of a native is pushed that has its arguments in the stack.
LEMMA NativePassed ==
  ASSUME NEW fs \in Seq(AnyFrame), NEW ps, NEW ss, PassedIn(fs, ps, ss),
         NEW fr \in AnyFrame, NEW p \in Passings, fr.kind = "native", UsesStack(fr.call.f),
         Sound(fr, p, ss[fr.vm]),
         fr.step = "fill" =>
           \A i \in DOMAIN fs : fs[i].kind = "native" /\ fs[i].vm = fr.vm =>
             (1..Count(fr.call)) \cap Filled(fs[i], ps[i]) \subseteq ps[i].lost
  PROVE  PassedIn(Append(fs, fr), Append(ps, p), ss)
<1>1. /\ Len(fs) \in Nat /\ DOMAIN fs = 1..Len(fs) /\ DOMAIN ps = 1..Len(fs)
  BY PassedFacts
<1>2. PICK gs, qs : gs = Append(fs, fr) /\ qs = Append(ps, p)
  OBVIOUS
<1>3. /\ DOMAIN gs = 1..(Len(fs) + 1) /\ Len(gs) = Len(fs) + 1 /\ gs[Len(fs) + 1] = fr
      /\ \A i \in 1..Len(fs) : gs[i] = fs[i]
  BY <1>2, AppendProperties
<1>4. /\ qs \in Seq(Passings) /\ Len(qs) = Len(fs) + 1 /\ qs[Len(fs) + 1] = p
      /\ \A i \in 1..Len(fs) : qs[i] = ps[i]
  <2>1. ps \in Seq(Passings) /\ Len(ps) = Len(fs)
    BY DEF PassedIn
  <2> QED BY <1>2, <2>1, AppendProperties
<1>5. SoundIn(gs, qs, ss)
  <2> SUFFICES ASSUME NEW i \in 1..(Len(fs) + 1), gs[i].kind = "native"
               PROVE  IF UsesStack(gs[i].call.f) THEN Sound(gs[i], qs[i], ss[gs[i].vm])
                      ELSE gs[i].step # "fill" /\ qs[i].size = 0
    BY <1>3 DEF SoundIn
  <2>1. CASE i = Len(fs) + 1
    BY <1>3, <1>4, <2>1
  <2>2. CASE i \in 1..Len(fs)
    <3>1. gs[i] = fs[i] /\ qs[i] = ps[i] /\ i \in DOMAIN fs
      BY <1>1, <1>3, <1>4, <2>2
    <3> QED BY <3>1 DEF PassedIn, SoundIn
  <2> QED BY <1>1, <2>1, <2>2
<1>6. CoverIn(gs, qs)
  <2> SUFFICES ASSUME NEW i \in 1..(Len(fs) + 1), NEW j \in 1..(Len(fs) + 1), i < j,
                      gs[i].kind = "native", gs[j].kind = "native", gs[i].vm = gs[j].vm,
                      gs[j].step = "fill"
               PROVE  (1..Count(gs[j].call)) \cap Filled(gs[i], qs[i]) \subseteq qs[i].lost
    BY <1>3 DEF CoverIn
  <2>1. i \in 1..Len(fs)
    BY <1>1
  <2>2. gs[i] = fs[i] /\ qs[i] = ps[i] /\ i \in DOMAIN fs
    BY <1>1, <1>3, <1>4, <2>1
  <2>3. CASE j = Len(fs) + 1
    BY <1>3, <2>2, <2>3
  <2>4. CASE j \in 1..Len(fs)
    <3>1. gs[j] = fs[j] /\ j \in DOMAIN fs
      BY <1>1, <1>3, <2>4
    <3> QED BY <2>2, <3>1 DEF PassedIn, CoverIn
  <2> QED BY <1>1, <2>3, <2>4
<1>7. CalledIn(gs, qs)
  <2> SUFFICES ASSUME NEW i \in 1..(Len(fs) + 1), gs[i].kind = "tostring"
               PROVE  /\ i - 1 \in DOMAIN gs /\ gs[i - 1].kind = "native"
                      /\ qs[i - 1].next <= Count(gs[i - 1].call)
    BY <1>3 DEF CalledIn
  <2>1. i \in 1..Len(fs)
    BY <1>1, <1>3
  <2>2. gs[i] = fs[i] /\ i \in DOMAIN fs
    BY <1>1, <1>3, <2>1
  <2>3. i - 1 \in DOMAIN fs /\ fs[i - 1].kind = "native" /\ ps[i - 1].next <= Count(fs[i - 1].call)
    BY <2>2 DEF PassedIn, CalledIn
  <2>4. i - 1 \in 1..Len(fs) /\ i - 1 \in DOMAIN gs
    BY <1>1, <1>3, <2>3
  <2> QED BY <1>3, <1>4, <2>3, <2>4
<1> QED BY <1>2, <1>3, <1>4, <1>5, <1>6, <1>7 DEF PassedIn

OneFurther(ps, n) == [ps EXCEPT ![n].next = @ + 1]

\* print writes its next argument.
LEMMA PrintPassed ==
  ASSUME NEW fs \in Seq(AnyFrame), NEW ps, NEW ss, PassedIn(fs, ps, ss), fs # << >>,
         NEW n, n = Len(fs), fs[n].kind = "native", fs[n].step = "fill",
         NEW k, k = ps[n].next, k <= Count(fs[n].call),
         NEW v, v = fs[n].vm, NEW s, s = ss[v], IsStack(s), ~Gone(s),
         NEW t, t = Printed(s, k, fs[n].call.given[k]),
         NEW tt, tt[v] = t, \A w \in VMs \ {v} : tt[w] = ss[w],
         NEW qs, qs = OneFurther(ps, n)
  PROVE  PassedIn(fs, qs, tt) /\ IsStack(t)
<1>1. /\ n \in Nat /\ DOMAIN fs = 1..n /\ DOMAIN ps = 1..n /\ n \in 1..n
      /\ \A i \in 1..n : fs[i] \in AnyFrame /\ ps[i] \in Passings
      /\ \A i \in 1..n : fs[i].kind = "native" => fs[i].vm \in VMs /\ fs[i].call \in AllCalls
  BY PassedFacts, EmptySeq
<1>2. PICK c : c = fs[n].call
  OBVIOUS
<1>3. UsesStack(c.f) /\ Sound(fs[n], ps[n], s)
  BY <1>1, <1>2 DEF PassedIn, SoundIn
<1>4. c \in AllCalls /\ Natives[c.f].kind = "print" /\ Count(c) \in Nat
  BY <1>1, <1>2, <1>3, CountIs, Zenon DEF Sound
<1>5. k \in Nat \ {0}
  BY <1>1 DEF Passings
<1>6. k \in 1..Count(c) /\ k \in 1..s.capacity
  <2>2. s.capacity \in Nat
    BY StackFacts
  <2>1. Count(c) <= s.capacity /\ s.capacity \in Nat
    BY <1>2, <1>3, <2>2, Zenon DEF Sound
  <2> QED BY <1>2, <1>4, <1>5, <2>1
<1>7. /\ IsStack(t) /\ t.size = s.size /\ t.capacity = s.capacity
      /\ Argument(t, k) = Text(c.given[k])
      /\ \A j \in 1..s.capacity : j # k => Argument(t, j) = Argument(s, j)
  <2>1. PICK x : x = c.given[k]
    OBVIOUS
  <2>2. t = Printed(s, k, x)
    BY <1>2, <2>1
  <2>3. IsStack(s) /\ ~Gone(s) /\ k \in 1..s.capacity
    BY <1>6
  <2>4. Replaces(t, s, k, Text(x))
    BY <2>2, <2>3, PrintsOne
  <2> QED BY <2>1, <2>4, Zenon DEF Replaces
<1>8. /\ \A i \in 1..n : i # n => qs[i] = ps[i]
      /\ qs[n] = [ps[n] EXCEPT !.next = k + 1] /\ DOMAIN qs = 1..n
      /\ qs = [i \in 1..n |-> qs[i]]
  BY <1>1 DEF OneFurther
<1>9. /\ qs[n] \in Passings /\ qs[n].next = k + 1 /\ qs[n].lost = ps[n].lost
      /\ qs[n].interrupted = ps[n].interrupted
  <2>1. PICK p \in Passings : p = ps[n]
    BY <1>1
  <2>2. PICK l : l = k + 1
    OBVIOUS
  <2>3. l \in Nat \ {0}
    BY <1>5, <2>2
  <2>4. qs[n] = [p EXCEPT !.next = l]
    BY <1>8, <2>1, <2>2
  <2>5. /\ qs[n] \in Passings /\ qs[n].next = l /\ qs[n].lost = p.lost
        /\ qs[n].interrupted = p.interrupted
    BY <2>3, <2>4 DEF Passings
  <2> QED BY <2>1, <2>2, <2>5
<1>10. qs \in Seq(Passings) /\ Len(qs) = n
  <2>1. \A i \in 1..n : qs[i] \in Passings
    BY <1>1, <1>8, <1>9
  <2>2. qs \in [1..n -> Passings]
    BY <1>8, <2>1
  <2> QED BY <1>1, <2>2, SeqDef, LenProperties
<1>11. SoundIn(fs, qs, tt)
  <2> SUFFICES ASSUME NEW i \in 1..n, fs[i].kind = "native"
               PROVE  IF UsesStack(fs[i].call.f) THEN Sound(fs[i], qs[i], tt[fs[i].vm])
                      ELSE fs[i].step # "fill" /\ qs[i].size = 0
    BY <1>1 DEF SoundIn
  <2>1. IF UsesStack(fs[i].call.f) THEN Sound(fs[i], ps[i], ss[fs[i].vm])
        ELSE fs[i].step # "fill" /\ ps[i].size = 0
    BY <1>1 DEF PassedIn, SoundIn
  <2>2. CASE i = n
    <3>1. Filled(fs[n], ps[n]) = 1..(k - 1)
      BY DEF Filled
    <3>2. Filled(fs[n], qs[n]) = 1..k
      BY <1>5, <1>9 DEF Filled
    <3>3. 1..k \subseteq 1..s.capacity
      <4>1. s.capacity \in Nat /\ k \in 1..s.capacity
        BY <1>6, StackFacts
      <4> QED BY <4>1
    <3>4. ASSUME NEW j \in 1..k, j \notin ps[n].lost PROVE Argument(t, j) = Wanted(c, j)
      <4>1. CASE j = k
        BY <1>4, <1>7, <4>1, Zenon DEF Wanted
      <4>2. CASE j # k
        <5>1. j \in 1..(k - 1) /\ j \in 1..s.capacity /\ j <= Count(c)
          <6>1. j \in 1..k /\ j # k /\ k \in 1..Count(c) /\ Count(c) \in Nat
            BY <1>4, <1>6, <4>2, Zenon
          <6>2. j \in 1..s.capacity
            BY <3>3, Zenon
          <6> QED BY <6>1, <6>2
        <5>2. Argument(s, j) = Wanted(c, j)
          <6>1. fs[n].step # "refused"
            OBVIOUS
          <6> QED BY <1>2, <1>3, <3>1, <3>4, <5>1, <6>1, Zenon DEF Sound
        <5> QED BY <1>7, <4>2, <5>1, <5>2, Zenon
      <4> QED BY <4>1, <4>2, Zenon
    <3>5. /\ Count(c) <= s.capacity
          /\ ~ps[n].interrupted => s.size = Count(c)
      BY <1>2, <1>3, Zenon DEF Sound
    <3>6. qs[n].next - 1 = k /\ k <= Count(c)
      BY <1>2, <1>5, <1>9
    <3>7. Filled(fs[n], qs[n]) \subseteq 1..t.capacity
      BY <1>7, <3>2, <3>3, Zenon
    <3>8. \A j \in Filled(fs[n], qs[n]) \ qs[n].lost :
            j <= Count(fs[n].call) => Argument(t, j) = Wanted(fs[n].call, j)
      BY <1>2, <1>9, <3>2, <3>4, Zenon
    <3>9. /\ Natives[fs[n].call.f].kind = "print"
          /\ qs[n].next - 1 <= Count(fs[n].call) /\ Count(fs[n].call) <= t.capacity
          /\ ~qs[n].interrupted => t.size = Count(fs[n].call)
      BY <1>2, <1>4, <1>7, <1>9, <3>5, <3>6, Zenon
    <3>10. Sound(fs[n], qs[n], t)
      BY <3>7, <3>8, <3>9, Zenon DEF Sound
    <3> QED BY <1>2, <1>3, <2>2, <3>10, Zenon
  <2>3. CASE i # n /\ fs[i].vm # v
    BY <1>1, <1>8, <2>1, <2>3
  <2>4. CASE i # n /\ fs[i].vm = v /\ ~UsesStack(fs[i].call.f)
    BY <1>8, <2>1, <2>4
  <2>5. CASE i # n /\ fs[i].vm = v /\ UsesStack(fs[i].call.f)
    <3>1. qs[i] = ps[i] /\ Sound(fs[i], ps[i], s) /\ i < n
      BY <1>1, <1>8, <2>1, <2>5
    <3>2. (1..Count(c)) \cap Filled(fs[i], ps[i]) \subseteq ps[i].lost
      BY <1>1, <1>2, <2>5, <3>1, Zenon DEF PassedIn, CoverIn
    <3>3. ASSUME NEW j \in Filled(fs[i], ps[i]) \ ps[i].lost, j <= Count(fs[i].call), fs[i].step # "refused"
          PROVE  Argument(t, j) = Wanted(fs[i].call, j)
      <4>1. j # k
        BY <1>6, <3>2, <3>3, Zenon
      <4>2. j \in 1..s.capacity /\ Argument(s, j) = Wanted(fs[i].call, j)
        BY <3>1, <3>3, Zenon DEF Sound
      <4> QED BY <1>7, <4>1, <4>2, Zenon
    <3>4. Sound(fs[i], qs[i], t)
      BY <1>7, <3>1, <3>3, Zenon DEF Sound
    <3> QED BY <2>5, <3>4, Zenon
  <2> QED BY <2>2, <2>3, <2>4, <2>5
<1>12. CoverIn(fs, qs)
  <2> SUFFICES ASSUME NEW i \in 1..n, NEW j \in 1..n, i < j, fs[i].kind = "native",
                      fs[j].kind = "native", fs[i].vm = fs[j].vm, fs[j].step = "fill"
               PROVE  (1..Count(fs[j].call)) \cap Filled(fs[i], qs[i]) \subseteq qs[i].lost
    BY <1>1 DEF CoverIn
  <2>1. qs[i] = ps[i]
    BY <1>1, <1>8
  <2> QED BY <1>1, <2>1 DEF PassedIn, CoverIn
<1>13. CalledIn(fs, qs)
  <2> SUFFICES ASSUME NEW i \in 1..n, fs[i].kind = "tostring"
               PROVE  /\ i - 1 \in DOMAIN fs /\ fs[i - 1].kind = "native"
                      /\ qs[i - 1].next <= Count(fs[i - 1].call)
    BY <1>1 DEF CalledIn
  <2>1. /\ i - 1 \in 1..n /\ fs[i - 1].kind = "native"
        /\ ps[i - 1].next <= Count(fs[i - 1].call)
    BY <1>1 DEF PassedIn, CalledIn
  <2>2. qs[i - 1] = ps[i - 1]
    BY <1>1, <1>8, <2>1
  <2> QED BY <1>1, <2>1, <2>2
<1> QED BY <1>7, <1>10, <1>11, <1>12, <1>13, Zenon DEF PassedIn

\* print, which has written all its arguments, calls the engine.
LEMMA CallsPassed ==
  ASSUME NEW fs \in Seq(AnyFrame), NEW ps, NEW ss, PassedIn(fs, ps, ss), fs # << >>,
         NEW n, n = Len(fs), fs[n].kind = "native", fs[n].step = "fill",
         ps[n].next > Count(fs[n].call), NEW s, s = ss[fs[n].vm], IsStack(s),
         NEW gs, gs = [fs EXCEPT ![n].step = "engine"],
         NEW qs, qs = [ps EXCEPT ![n].size = s.size]
  PROVE  PassedIn(gs, qs, ss)
<1>1. /\ n \in Nat /\ DOMAIN fs = 1..n /\ DOMAIN ps = 1..n /\ n \in 1..n
      /\ \A i \in 1..n : fs[i] \in AnyFrame /\ ps[i] \in Passings
      /\ \A i \in 1..n : fs[i].kind = "native" => fs[i].vm \in VMs /\ fs[i].call \in AllCalls
  BY PassedFacts, EmptySeq
<1>2. PICK c, k : c = fs[n].call /\ k = ps[n].next
  OBVIOUS
<1>3. UsesStack(c.f) /\ Sound(fs[n], ps[n], s)
  BY <1>1, <1>2 DEF PassedIn, SoundIn
<1>4. c \in AllCalls /\ Natives[c.f].kind = "print" /\ Count(c) \in Nat /\ k \in Nat /\ k > Count(c)
  <2>1. c \in AllCalls /\ Natives[c.f].kind = "print" /\ k \in Nat /\ k > Count(c)
    BY <1>1, <1>2, <1>3 DEF Sound, Passings
  <2> QED BY <2>1, CountIs
<1>5. /\ \A i \in 1..n : i # n => qs[i] = ps[i] /\ gs[i] = fs[i]
      /\ qs[n] = [ps[n] EXCEPT !.size = s.size] /\ gs[n] = [fs[n] EXCEPT !.step = "engine"]
      /\ DOMAIN gs = 1..n
  BY <1>1
<1>6. s.size \in Nat /\ s.capacity \in Nat /\ s.size <= s.capacity
  BY StackFacts
<1>7. /\ qs[n] \in Passings /\ qs[n].size = s.size /\ qs[n].lost = ps[n].lost
      /\ qs[n].interrupted = ps[n].interrupted
  <2>1. PICK p \in Passings : p = ps[n]
    BY <1>1
  <2>2. PICK l \in Nat : l = s.size
    BY <1>6
  <2>3. qs[n] = [p EXCEPT !.size = l]
    BY <1>5, <2>1, <2>2
  <2>4. /\ qs[n] \in Passings /\ qs[n].size = l /\ qs[n].lost = p.lost
        /\ qs[n].interrupted = p.interrupted
    BY <2>2, <2>3 DEF Passings
  <2> QED BY <2>1, <2>2, <2>4
<1>8. /\ gs[n].step = "engine" /\ gs[n].kind = "native" /\ gs[n].vm = fs[n].vm /\ gs[n].call = c
  <2>1. PICK fr \in NativeFrames : fr = fs[n]
    BY <1>1 DEF AnyFrame, LuaFrames
  <2>2. gs[n] = [fr EXCEPT !.step = "engine"]
    BY <1>5, <2>1
  <2>3. /\ gs[n].step = "engine" /\ gs[n].kind = fr.kind /\ gs[n].vm = fr.vm /\ gs[n].call = fr.call
    BY <2>2 DEF NativeFrames
  <2> QED BY <1>2, <2>1, <2>3
<1>9. qs \in Seq(Passings) /\ Len(qs) = n
  <2>1. \A i \in 1..n : qs[i] \in Passings
    BY <1>1, <1>5, <1>7
  <2>2. qs \in [1..n -> Passings]
    BY <1>1, <1>5, <2>1
  <2> QED BY <1>1, <2>2, SeqDef, LenProperties
<1>10. SoundIn(gs, qs, ss)
  <2> SUFFICES ASSUME NEW i \in 1..n, gs[i].kind = "native"
               PROVE  IF UsesStack(gs[i].call.f) THEN Sound(gs[i], qs[i], ss[gs[i].vm])
                      ELSE gs[i].step # "fill" /\ qs[i].size = 0
    BY <1>5 DEF SoundIn
  <2>1. CASE i # n
    BY <1>1, <1>5, <2>1 DEF PassedIn, SoundIn
  <2>2. CASE i = n
    <3>1. Filled(gs[n], qs[n]) = 1..s.size
      BY <1>7, <1>8 DEF Filled
    <3>2. 1..s.size \subseteq 1..s.capacity
      BY <1>6
    <3>3. Filled(fs[n], ps[n]) = 1..(k - 1)
      BY <1>2 DEF Filled
    <3>4. ASSUME NEW j \in 1..s.size, j \notin ps[n].lost, j <= Count(c)
          PROVE  Argument(s, j) = Wanted(c, j)
      <4>1. j \in 1..(k - 1)
        BY <1>4, <1>6, <3>4
      <4> QED BY <1>2, <1>3, <3>3, <3>4, <4>1 DEF Sound
    <3>5. ~ps[n].interrupted => s.size = Count(c)
      BY <1>2, <1>3 DEF Sound
    <3>6. Sound(gs[n], qs[n], s)
      BY <1>7, <1>8, <3>1, <3>2, <3>4, <3>5 DEF Sound
    <3> QED BY <1>3, <1>8, <2>2, <3>6
  <2> QED BY <2>1, <2>2
<1>11. CoverIn(gs, qs)
  <2>1. DOMAIN gs = 1..n
    BY <1>5, Zenon
  <2>2. CoverIn(fs, ps) /\ DOMAIN fs = 1..n
    BY <1>1, Zenon DEF PassedIn
  <2>3. \A i, j \in DOMAIN gs :
          /\ i < j /\ gs[i].kind = "native" /\ gs[j].kind = "native" /\ gs[i].vm = gs[j].vm
          /\ gs[j].step = "fill"
          => (1..Count(gs[j].call)) \cap Filled(gs[i], qs[i]) \subseteq qs[i].lost
    <3> TAKE i, j \in DOMAIN gs
    <3> HAVE /\ i < j /\ gs[i].kind = "native" /\ gs[j].kind = "native" /\ gs[i].vm = gs[j].vm
             /\ gs[j].step = "fill"
    <3>1. i \in 1..n /\ j \in 1..n
      BY <2>1
    <3>2. i # n /\ j # n
      BY <1>1, <1>8, <3>1
    <3>3. qs[i] = ps[i] /\ gs[i] = fs[i] /\ gs[j] = fs[j]
      BY <1>5, <3>1, <3>2
    <3>4. i \in DOMAIN fs /\ j \in DOMAIN fs
      BY <2>2, <3>1, Zenon
    <3> QED BY <2>2, <3>3, <3>4, ZenonT(30) DEF CoverIn
  <2> QED BY <2>3, Zenon DEF CoverIn
<1>12. CalledIn(gs, qs)
  <2> SUFFICES ASSUME NEW i \in 1..n, gs[i].kind = "tostring"
               PROVE  /\ i - 1 \in DOMAIN gs /\ gs[i - 1].kind = "native"
                      /\ qs[i - 1].next <= Count(gs[i - 1].call)
    BY <1>5 DEF CalledIn
  <2>1. gs[i] = fs[i]
    BY <1>5, <1>8
  <2>2. /\ i - 1 \in 1..n /\ fs[i - 1].kind = "native"
        /\ ps[i - 1].next <= Count(fs[i - 1].call)
    BY <1>1, <2>1 DEF PassedIn, CalledIn
  <2>3. qs[i - 1] = ps[i - 1] /\ gs[i - 1] = fs[i - 1]
    BY <1>1, <1>5, <2>2
  <2> QED BY <1>5, <2>2, <2>3
<1>13. Len(gs) = n
  BY <1>5, <1>1, LenProperties
<1> QED BY <1>9, <1>10, <1>11, <1>12, <1>13 DEF PassedIn

----------------------------------------------------------------------------
(* Every step keeps it.                                                       *)

\* OS thread o moves, and no argument stack changes.
LEMMA QuietStep ==
  ASSUME Inv, PassedInv, NEW o \in OSThreads, NEW gs, NEW qs,
         frames'[o] = gs, \A p \in OSThreads \ {o} : frames'[p] = frames[p],
         passed' = [passed EXCEPT ![o] = qs], UNCHANGED stack, PassedIn(gs, qs, stack)
  PROVE  PassedInv'
<1>1. /\ passed' = [p \in OSThreads |-> passed'[p]] /\ passed'[o] = qs
      /\ \A p \in OSThreads \ {o} : passed'[p] = passed[p]
  BY DEF PassedInv
<1>2. \A p \in OSThreads : PassedIn(frames'[p], passed'[p], stack)
  BY <1>1 DEF PassedInv
<1> QED BY <1>1, <1>2 DEF PassedInv

\* The stack of VM v, which o holds, changes: no native of another is in v.
LEMMA StackStep ==
  ASSUME Inv, PassedInv, NEW o \in OSThreads, NEW gs, NEW qs,
         frames'[o] = gs, \A p \in OSThreads \ {o} : frames'[p] = frames[p],
         passed' = [passed EXCEPT ![o] = qs],
         NEW v \in VMs, HeldIn(frames[o], v) # {}, NEW t, IsStack(t),
         stack' = [stack EXCEPT ![v] = t], PassedIn(gs, qs, stack')
  PROVE  PassedInv'
<1>1. /\ passed' = [p \in OSThreads |-> passed'[p]] /\ passed'[o] = qs
      /\ \A p \in OSThreads \ {o} : passed'[p] = passed[p]
  BY DEF PassedInv
<1>2. /\ stack' = [w \in VMs |-> stack'[w]] /\ \A w \in VMs : IsStack(stack'[w])
      /\ \A w \in VMs \ {v} : stack'[w] = stack[w]
  BY DEF PassedInv
<1>3. vm_lock[v].owner = o
  BY DEF Inv, Agrees, Holders
<1>4. ASSUME NEW p \in OSThreads \ {o} PROVE PassedIn(frames[p], passed[p], stack')
  <2>1. PassedIn(frames[p], passed[p], stack)
    BY DEF PassedInv
  <2>2. ASSUME NEW i \in DOMAIN frames[p], frames[p][i].kind = "native"
        PROVE  frames[p][i].vm \in VMs \ {v}
    <3>1. frames[p][i] \in NativeFrames
      <4>1. frames[p] \in Seq(AnyFrame)
        BY DEF Inv
      <4>2. DOMAIN frames[p] = 1..Len(frames[p])
        BY <4>1, LenProperties
      <4>3. frames[p][i] \in AnyFrame
        BY <2>2, <4>1, <4>2, ElementOfSeq
      <4> QED BY <2>2, <4>3 DEF AnyFrame, LuaFrames
    <3>2. frames[p][i].vm \in VMs /\ frames[p][i].step # "wait"
      BY <3>1 DEF NativeFrames
    <3>3. ~Runs(p, v)
      BY <1>3, RunsHolds
    <3> QED BY <3>2, <3>3 DEF Runs
  <2>3. \A w \in VMs \ {v} : stack'[w] = stack[w]
    BY <1>2, Zenon
  <2> QED BY <2>1, <2>2, <2>3, ElsewherePassed, ZenonT(30)
<1>5. \A p \in OSThreads : PassedIn(frames'[p], passed'[p], stack')
  BY <1>1, <1>4
<1> QED BY <1>1, <1>2, <1>5 DEF PassedInv

LEMMA ThreadFacts ==
  ASSUME Inv, PassedInv, NEW o \in OSThreads
  PROVE  /\ frames[o] \in Seq(AnyFrame) /\ PassedIn(frames[o], passed[o], stack)
         /\ passed[o] \in Seq(Passings) /\ Len(passed[o]) = Len(frames[o])
         /\ Len(frames[o]) \in Nat /\ DOMAIN frames[o] = 1..Len(frames[o])
<1>1. frames[o] \in Seq(AnyFrame) /\ PassedIn(frames[o], passed[o], stack)
  BY DEF Inv, PassedInv
<1>2. passed[o] \in Seq(Passings) /\ Len(passed[o]) = Len(frames[o])
  BY <1>1 DEF PassedIn
<1> QED BY <1>1, <1>2, LenProperties

\* A frame is pushed that has nothing in the stack.
LEMMA PushKeeps ==
  ASSUME Inv, PassedInv, NEW o \in OSThreads, NEW fr \in AnyFrame,
         Push(o, fr, NotPassed), UNCHANGED stack,
         \/ fr.kind = "lua"
         \/ /\ fr.kind = "tostring" /\ Busy(o) /\ Top(o).kind = "native"
            /\ Nth(o) <= Count(Top(o).call)
         \/ fr.kind = "native" /\ ~UsesStack(fr.call.f) /\ fr.step # "fill"
  PROVE  PassedInv'
<1>1. PICK fs, ps, gs, qs : /\ fs = frames[o] /\ ps = passed[o]
                            /\ gs = Append(fs, fr) /\ qs = Append(ps, NotPassed)
  OBVIOUS
<1>2. /\ frames'[o] = gs /\ \A p \in OSThreads \ {o} : frames'[p] = frames[p]
      /\ passed' = [passed EXCEPT ![o] = qs]
  BY <1>1 DEF Push, Inv
<1>3. /\ fs \in Seq(AnyFrame) /\ PassedIn(fs, ps, stack) /\ ps \in Seq(Passings) /\ Len(ps) = Len(fs)
      /\ Len(fs) \in Nat /\ DOMAIN fs = 1..Len(fs)
  BY <1>1, ThreadFacts
<1>4. NotPassed \in Passings /\ NotPassed.size = 0
  BY DEF NotPassed, Passed, Passings
<1>5. /\ gs \in Seq(AnyFrame) /\ DOMAIN gs = 1..(Len(fs) + 1) /\ Len(gs) = Len(fs) + 1
      /\ gs[Len(fs) + 1] = fr /\ \A i \in 1..Len(fs) : gs[i] = fs[i]
  BY <1>1, <1>3, AppendProperties
<1>6. /\ qs \in Seq(Passings) /\ Len(qs) = Len(fs) + 1 /\ qs[Len(fs) + 1] = NotPassed
      /\ \A i \in 1..Len(fs) : qs[i] = ps[i]
  BY <1>1, <1>3, <1>4, AppendProperties
<1>7. ASSUME NEW i \in DOMAIN gs
      PROVE  IF i \in DOMAIN fs THEN Same(gs[i], fs[i]) /\ qs[i] = ps[i]
             ELSE \/ gs[i].kind = "lua"
                  \/ /\ gs[i].kind = "tostring" /\ i - 1 \in DOMAIN fs
                     /\ fs[i - 1].kind = "native" /\ ps[i - 1].next <= Count(fs[i - 1].call)
                  \/ /\ gs[i].kind = "native" /\ ~UsesStack(gs[i].call.f)
                     /\ gs[i].step # "fill" /\ qs[i].size = 0
  <2>1. CASE i \in 1..Len(fs)
    BY <1>3, <1>5, <1>6, <2>1 DEF Same
  <2>2. CASE i = Len(fs) + 1
    <3>1. i \notin DOMAIN fs /\ gs[i] = fr /\ qs[i].size = 0
      BY <1>3, <1>4, <1>5, <1>6, <2>2
    <3>2. ASSUME fr.kind = "tostring", Busy(o), Top(o).kind = "native", Nth(o) <= Count(Top(o).call)
          PROVE  /\ i - 1 \in DOMAIN fs /\ fs[i - 1].kind = "native"
                 /\ ps[i - 1].next <= Count(fs[i - 1].call)
      <4>1. i - 1 = Len(fs) /\ Len(fs) \in 1..Len(fs)
        <5>1. Len(fs) # 0
          BY <1>1, <1>3, <3>2, EmptySeq DEF Busy
        <5> QED BY <1>3, <2>2, <5>1
      <4>2. Top(o) = fs[Len(fs)] /\ Nth(o) = ps[Len(fs)].next
        BY <1>1, <1>3 DEF Top, Nth, Last
      <4> QED BY <1>3, <3>2, <4>1, <4>2
    <3> QED BY <3>1, <3>2
  <2> QED BY <1>3, <1>5, <2>1, <2>2
<1>8. Len(qs) = Len(gs)
  BY <1>5, <1>6
<1>9. PassedIn(gs, qs, stack)
  BY <1>3, <1>5, <1>6, <1>7, <1>8, QuietPassed
<1> QED BY <1>2, <1>9, QuietStep

\* The innermost m frames are popped.
LEMMA PopKeeps ==
  ASSUME Inv, PassedInv, NEW o \in OSThreads, NEW m \in Nat, m <= Len(frames[o])
  PROVE  /\ PassedIn(Without(frames[o], m), Without(passed[o], m), stack)
         /\ Without(frames[o], m) \in Seq(AnyFrame) /\ Len(Without(frames[o], m)) = Len(frames[o]) - m
         /\ DOMAIN Without(frames[o], m) = 1..(Len(frames[o]) - m)
         /\ Len(frames[o]) \in Nat /\ Len(passed[o]) = Len(frames[o])
         /\ \A i \in 1..(Len(frames[o]) - m) :
              Without(frames[o], m)[i] = frames[o][i] /\ Without(passed[o], m)[i] = passed[o][i]
<1>1. PICK fs, ps : fs = frames[o] /\ ps = passed[o]
  OBVIOUS
<1>2. /\ fs \in Seq(AnyFrame) /\ PassedIn(fs, ps, stack) /\ ps \in Seq(Passings) /\ Len(ps) = Len(fs)
      /\ Len(fs) \in Nat /\ DOMAIN fs = 1..Len(fs)
  BY <1>1, ThreadFacts
<1>3. PICK n \in Nat : Len(fs) = n + m /\ n = Len(fs) - m
  <2>1. Len(fs) - m \in Nat /\ Len(fs) = (Len(fs) - m) + m
    BY <1>1, <1>2
  <2> QED BY <2>1, Zenon
<1>4. PICK gs, qs : gs = Without(fs, m) /\ qs = Without(ps, m)
  OBVIOUS
<1>5. gs = SubSeq(fs, 1, n) /\ qs = SubSeq(ps, 1, n)
  BY <1>4, <1>2, <1>3 DEF Without
<1>12. n \in 0..Len(fs)
  BY <1>3
<1>6. /\ gs \in Seq(AnyFrame) /\ Len(gs) = n /\ DOMAIN gs = 1..n
      /\ \A i \in 1..n : gs[i] = fs[i]
  BY <1>2, <1>12, <1>5, SubSeqProperties, LenProperties
<1>7. /\ qs \in Seq(Passings) /\ Len(qs) = n
      /\ \A i \in 1..n : qs[i] = ps[i]
  BY <1>2, <1>12, <1>5, SubSeqProperties, LenProperties
<1>8. ASSUME NEW i \in 1..n PROVE i \in DOMAIN fs /\ Same(gs[i], fs[i]) /\ qs[i] = ps[i]
  <2>1. i \in DOMAIN fs
    BY <1>2, <1>3
  <2>2. gs[i] = fs[i] /\ qs[i] = ps[i]
    BY <1>6, <1>7
  <2> QED BY <2>1, <2>2 DEF Same
<1>9. Len(qs) = Len(gs)
  BY <1>6, <1>7
<1>10. PassedIn(gs, qs, stack)
  <2>1. \A i \in DOMAIN gs : i \in DOMAIN fs /\ Same(gs[i], fs[i]) /\ qs[i] = ps[i]
    BY <1>6, <1>8
  <2> QED BY <1>2, <1>6, <1>7, <1>9, <2>1, FewerPassed
<1> QED BY <1>4, <1>1, <1>2, <1>3, <1>6, <1>7, <1>10

\* The innermost frame goes on to a step that reads and writes nothing.
LEMMA GoesOn ==
  ASSUME Inv, PassedInv, NEW o \in OSThreads, Busy(o), Top(o).step \notin {"fill", "refused"},
         NEW x \in {"run", "engine"}, ToStep(o, x), Inv', UNCHANGED <<passed, stack>>
  PROVE  PassedInv'
<1>1. PICK fs, ps, gs : fs = frames[o] /\ ps = passed[o] /\ gs = [fs EXCEPT ![Len(fs)].step = x]
  OBVIOUS
<1>2. /\ frames'[o] = gs /\ \A p \in OSThreads \ {o} : frames'[p] = frames[p]
      /\ passed' = [passed EXCEPT ![o] = ps]
  BY <1>1 DEF ToStep, Inv, PassedInv
<1>3. /\ fs \in Seq(AnyFrame) /\ PassedIn(fs, ps, stack) /\ ps \in Seq(Passings) /\ Len(ps) = Len(fs)
      /\ Len(fs) \in Nat /\ DOMAIN fs = 1..Len(fs)
      /\ gs \in Seq(AnyFrame)
  <2>1. frames' \in [OSThreads -> Seq(AnyFrame)]
    BY DEF Inv
  <2>2. gs \in Seq(AnyFrame)
    BY <1>2, <2>1
  <2> QED BY <1>1, <2>2, ThreadFacts
<1>4. DOMAIN gs = DOMAIN fs /\ \A i \in DOMAIN fs : i # Len(fs) => gs[i] = fs[i]
  BY <1>1
<1>5. Len(gs) = Len(fs)
  BY <1>3, <1>4, LenProperties
<1>6. ASSUME NEW i \in DOMAIN gs PROVE Same(gs[i], fs[i])
  <2>1. CASE i # Len(fs)
    BY <1>4, <2>1 DEF Same
  <2>2. CASE i = Len(fs)
    <3>1. PICK fr \in AnyFrame : fr = fs[i]
      BY <1>3, <1>4, ElementOfSeq
    <3>2. gs[i] = [fr EXCEPT !.step = x] /\ fr.step \notin {"fill", "refused"} /\ x \notin {"fill", "refused"}
      BY <1>1, <1>4, <2>2, <3>1 DEF Top
    <3> QED BY <3>1, <3>2 DEF Same, AnyFrame, LuaFrames, NativeFrames
  <2> QED BY <2>1, <2>2
<1>7. PassedIn(gs, ps, stack)
  BY <1>3, <1>4, <1>5, <1>6, FewerPassed
<1> QED BY <1>2, <1>7, QuietStep

\* A call of Lua code fills n positions of the stack, which becomes t.
LEMMA CallDisturbs ==
  ASSUME Inv, PassedInv, NEW o \in OSThreads, InLua(o), NEW n \in 0..SizeMax,
         NEW t, Fills(stack[Top(o).vm], t, n),
         stack'[Top(o).vm] = t, \A w \in VMs \ {Top(o).vm} : stack'[w] = stack[w]
  PROVE  /\ Top(o).vm \in VMs /\ HeldIn(frames[o], Top(o).vm) # {} /\ IsStack(t)
         /\ frames[o] \in Seq(AnyFrame) /\ PassedIn(frames[o], AllDisturbed(o, t), stack')
         /\ \A i \in DOMAIN frames[o] : frames[o][i].kind = "native" /\ frames[o][i].vm = Top(o).vm =>
              (1..n) \cap Filled(frames[o][i], AllDisturbed(o, t)[i]) \subseteq AllDisturbed(o, t)[i].lost
<1>1. PICK v, fs, ps, s, tt, qs :
        /\ v = Top(o).vm /\ fs = frames[o] /\ ps = passed[o] /\ s = stack[v] /\ tt = stack'
        /\ qs = DisturbedIn(fs, ps, v, n, t.capacity > s.capacity)
  OBVIOUS
<1>2. v \in VMs /\ HeldIn(fs, v) # {}
  BY <1>1, TopFacts, LuaHolds DEF InLua
<1>3. IsStack(t) /\ t.size = n
  BY DEF Fills
<1>4. IsStack(s) /\ Fills(s, t, n)
  BY <1>1, <1>2 DEF PassedInv
<1>5. tt[v] = t /\ \A w \in VMs \ {v} : tt[w] = stack[w]
  BY <1>1
<1>6. fs \in Seq(AnyFrame) /\ PassedIn(fs, ps, stack)
  BY <1>1, ThreadFacts
<1>7. qs = AllDisturbed(o, t)
  BY <1>1, <1>3 DEF AllDisturbed, DisturbedIn
<1>8. s = stack[v] /\ qs = DisturbedIn(fs, ps, v, n, t.capacity > s.capacity)
  BY <1>1
<1>10. n \in Nat
  BY SizeAssumption
<1>9. /\ PassedIn(fs, qs, tt)
      /\ \A i \in DOMAIN fs : fs[i].kind = "native" /\ fs[i].vm = v =>
           (1..n) \cap Filled(fs[i], qs[i]) \subseteq qs[i].lost
  BY <1>4, <1>5, <1>6, <1>8, <1>10, DisturbPassed
<1> QED BY <1>1, <1>2, <1>3, <1>6, <1>7, <1>9

LEMMA StackChanges ==
  ASSUME Inv, PassedInv, NEW o \in OSThreads, InLua(o), NEW t,
         stack' = [stack EXCEPT ![Top(o).vm] = t]
  PROVE  /\ stack'[Top(o).vm] = t /\ \A w \in VMs \ {Top(o).vm} : stack'[w] = stack[w]
BY TopFacts DEF InLua, PassedInv

LEMMA RaisedKeeps ==
  ASSUME Inv, PassedInv, NEW o \in OSThreads, InLua(o), NEW n \in 0..SizeMax,
         NEW t, Fills(stack[Top(o).vm], t, n), Raised(o, t)
  PROVE  PassedInv'
<1>1. /\ stack' = [stack EXCEPT ![Top(o).vm] = t] /\ frames' = frames
      /\ stack'[Top(o).vm] = t /\ \A w \in VMs \ {Top(o).vm} : stack'[w] = stack[w]
  BY StackChanges DEF Raised
<1>2. PICK v, fs, qs :
        v = Top(o).vm /\ fs = frames[o] /\ qs = AllDisturbed(o, t)
  OBVIOUS
<1>3. v \in VMs /\ HeldIn(fs, v) # {} /\ IsStack(t) /\ PassedIn(fs, qs, stack')
  BY <1>1, <1>2, CallDisturbs
<1>4. passed' = [passed EXCEPT ![o] = qs] /\ stack' = [stack EXCEPT ![v] = t]
  BY <1>2 DEF Raised
<1> QED BY <1>1, <1>2, <1>4, <1>3, StackStep

LEMMA CalledKeeps ==
  ASSUME Inv, PassedInv, NEW o \in OSThreads, InLua(o), NEW n \in 0..SizeMax,
         NEW t, Fills(stack[Top(o).vm], t, n), NEW c \in AllCalls, UsesStack(c.f),
         NEW step \in {"lock", "fill", "engine", "refused"}, Called(o, c, t, step),
         Sound(Native(Top(o).vm, c, step), Passed(t.size), t),
         step = "fill" => Count(c) = n
  PROVE  PassedInv'
<1>1. /\ stack' = [stack EXCEPT ![Top(o).vm] = t]
      /\ stack'[Top(o).vm] = t /\ \A w \in VMs \ {Top(o).vm} : stack'[w] = stack[w]
  BY StackChanges DEF Called
<1>2. PICK v, fs, qs :
        v = Top(o).vm /\ fs = frames[o] /\ qs = AllDisturbed(o, t)
  OBVIOUS
<1>3. /\ v = Top(o).vm /\ fs = frames[o] /\ qs = AllDisturbed(o, t)
      /\ v \in VMs /\ HeldIn(fs, v) # {} /\ IsStack(t)
      /\ stack'[v] = t /\ fs \in Seq(AnyFrame) /\ PassedIn(fs, qs, stack')
      /\ \A i \in DOMAIN fs : fs[i].kind = "native" /\ fs[i].vm = v =>
           (1..n) \cap Filled(fs[i], qs[i]) \subseteq qs[i].lost
  BY <1>1, <1>2, CallDisturbs
<1>4. PICK fr, p : fr = Native(v, c, step) /\ p = Passed(t.size)
  OBVIOUS
<1>5. /\ passed' = [passed EXCEPT ![o] = Append(qs, p)]
      /\ frames' = [frames EXCEPT ![o] = Append(fs, fr)]
      /\ stack' = [stack EXCEPT ![v] = t]
  BY <1>4, <1>1, <1>3 DEF Called
<1>6. fr \in AnyFrame /\ fr.kind = "native" /\ fr.vm = v /\ fr.step = step /\ fr.call = c
  BY <1>4, <1>3 DEF Native, AnyFrame, NativeFrames
<1>7. p \in Passings
  BY <1>4, <1>3 DEF Passed, Passings, IsStack
<1>8. Sound(fr, p, stack'[fr.vm])
  BY <1>4, <1>3, <1>6
<1>9. PassedIn(Append(fs, fr), Append(qs, p), stack')
  BY <1>3, <1>6, <1>7, <1>8, NativePassed
<1>10. frames'[o] = Append(fs, fr) /\ \A q \in OSThreads \ {o} : frames'[q] = frames[q]
  BY <1>5, OneMoves
<1> QED BY <1>5, <1>3, <1>9, <1>10, StackStep

\* A native whose arguments were read is called, or an error ends the call.
LEMMA OutcomeKeeps ==
  ASSUME Inv, PassedInv, NEW o \in OSThreads, InLua(o), NEW c \in AllCalls,
         Natives[c.f].kind \in {"class", "builtin", "method", "utility", "ctor"},
         NEW r, Outcome(o, c, r), 
         \E n \in 0..SizeMax :
           Fills(stack[Top(o).vm], r.stack, n) /\ (Natives[c.f].kind # "ctor" /\ ~Counted(c) => n = SizeMax),
         ~r.raised /\ Counted(c) =>
           /\ r.stack.size = Count(c)
           /\ \A i \in 1..Count(c) : Argument(r.stack, i) = Wanted(c, i),
         Natives[c.f].kind = "class" => ChecksBefore(c)
  PROVE  PassedInv'
<1>1. PICK n \in 0..SizeMax :
        Fills(stack[Top(o).vm], r.stack, n) /\ (Natives[c.f].kind # "ctor" /\ ~Counted(c) => n = SizeMax)
  OBVIOUS
<1>2. CASE Raised(o, r.stack)
  BY <1>1, <1>2, RaisedKeeps
<1>3. CASE ~r.raised /\ ChecksAfter(c) /\ Called(o, c, r.stack, FirstStep(c.f, r.stack.size))
  <2>1. PICK t, step, fr :
          t = r.stack /\ step = FirstStep(c.f, r.stack.size) /\ fr = Native(Top(o).vm, c, step)
    OBVIOUS
  <2>2. step \in {"lock", "engine", "refused"}
    BY <2>1, FirstStepFacts
  <2>10. IsStack(t) /\ t.size = n
    BY <1>1, <2>1 DEF Fills
  <2>11. t.size \in Nat /\ t.capacity \in Nat /\ t.size <= t.capacity
    BY <2>10, StackFacts
  <2>12. step # "refused" => Counted(c)
    <3>1. Natives[c.f].kind # "method" => Counted(c)
      <4>1. c.f \in DOMAIN Natives
        BY CallFacts
      <4>2. Natives[c.f].kind \in {"ctor", "utility"} => Natives[c.f].static
        BY <4>1, NativeAssumption
      <4>3. Natives[c.f].kind \in {"class", "builtin"} => IsSelf(c)
        BY <1>3 DEF ChecksBefore, ChecksAfter
      <4> QED BY <4>2, <4>3 DEF IsSelf, Counted
    <3>2. ASSUME Natives[c.f].kind = "method", ~Counted(c) PROVE step = "refused"
      <4>1. t.size = SizeMax
        BY <1>1, <2>10, <3>2
      <4>2. Required(Natives[c.f]) \in Nat
        <5>1. c.f \in DOMAIN Natives
          BY CallFacts
        <5>2. /\ Declares(Natives[c.f].arguments) /\ IsSequence(Natives[c.f].defaults)
              /\ Len(Natives[c.f].defaults) <= Len(Natives[c.f].arguments)
          BY <5>1, NativeAssumption
        <5>3. Len(Natives[c.f].arguments) \in Nat /\ Len(Natives[c.f].defaults) \in Nat
          BY <5>2, SequenceFacts DEF Declares
        <5> QED BY <5>2, <5>3 DEF Required
      <4>3. Signed(SizeMax) = -1
        BY DEF Signed
      <4>4. ~Takes(Natives[c.f], t.size)
        <5>1. \A q : -1 \notin Required(Natives[c.f])..q
          BY <4>2
        <5> QED BY <4>1, <4>3, <5>1 DEF Takes
      <4> QED BY <2>1, <3>2, <4>4 DEF FirstStep
    <3> QED BY <3>1, <3>2
  <2>3. step # "refused" =>
          t.size = Count(c) /\ \A i \in 1..t.size : Argument(t, i) = Wanted(c, i)
    BY <1>3, <2>1, <2>12
  <2>4. fr.step = step /\ fr.call = c
    BY <2>1 DEF Native
  <2>5. /\ Passed(t.size).size = t.size /\ Passed(t.size).lost = {}
    BY DEF Passed
  <2>6. Filled(fr, Passed(t.size)) = 1..t.size
    BY <2>2, <2>4, <2>5 DEF Filled
  <2>7. 1..t.size \subseteq 1..t.capacity
    BY <2>11
  <2>8. Sound(fr, Passed(t.size), t)
    BY <2>2, <2>3, <2>4, <2>5, <2>6, <2>7 DEF Sound
  <2>9. UsesStack(c.f)
    BY DEF UsesStack
  <2> QED BY <1>1, <1>3, <2>1, <2>2, <2>8, <2>9, CalledKeeps
<1> QED BY <1>2, <1>3 DEF Outcome

\* print finds room for its arguments.
LEMMA PrintKeeps ==
  ASSUME Inv, PassedInv, NEW o \in OSThreads, InLua(o), NEW c \in AllCalls, CallPrint(o, c)
  PROVE  PassedInv'
<1>1. PICK v, s, n, t : /\ v = Top(o).vm /\ s = stack[v] /\ n = Len(c.given) /\ t = resize(s, n)
  OBVIOUS
<1>2. Natives[c.f].kind = "print" /\ Called(o, c, t, "fill")
  BY <1>1 DEF CallPrint
<1>3. n \in 0..SizeMax /\ n \in Nat /\ n = Count(c)
  BY <1>1, <1>2, CallFacts, SizeAssumption DEF Count
<1>4. v \in VMs /\ IsStack(s)
  BY <1>1, TopFacts DEF InLua, PassedInv
<1>5. Fills(s, t, n)
  BY <1>1, <1>3, <1>4, Resized
<1>6. PICK fr, p : fr = Native(v, c, "fill") /\ p = Passed(t.size)
  OBVIOUS
<1>7. /\ fr.step = "fill" /\ fr.call = c /\ p.next = 1 /\ p.lost = {}
  BY <1>6 DEF Native, Passed
<1>8. Filled(fr, p) = {}
  BY <1>7 DEF Filled
<1>9. t.size = n /\ t.size <= t.capacity
  BY <1>5 DEF Fills, IsStack
<1>10. p.next - 1 <= Count(c) /\ Count(c) <= t.capacity
  BY <1>3, <1>7, <1>9
<1>11. Sound(fr, p, t)
  BY <1>2, <1>3, <1>7, <1>8, <1>9, <1>10 DEF Sound
<1>12. UsesStack(c.f)
  BY <1>2 DEF UsesStack
<1> QED BY <1>1, <1>2, <1>3, <1>5, <1>6, <1>11, <1>12, CalledKeeps

LEMMA CallKeeps ==
  ASSUME Inv, PassedInv, NEW o \in OSThreads, Call(o) PROVE PassedInv'
<1>1. PICK c \in Programs[program].calls[Top(o).vm] :
        /\ ~Faults(o, c)
        /\ CallMethod(o, c) \/ Construct(o, c) \/ CallLocal(o, c) \/ CallPrint(o, c)
  BY DEF Call
<1>2. InLua(o) /\ Top(o).vm \in VMs
  BY TopFacts DEF Call, InLua
<1>3. c \in AllCalls
  BY <1>1, <1>2 DEF Inv, AllCalls
<1>4. IsStack(stack[Top(o).vm])
  BY <1>2 DEF PassedInv
<1>5. ASSUME UNCHANGED <<frames, passed, stack>> PROVE PassedInv'
  BY <1>5 DEF PassedInv
<1>6. CASE CallMethod(o, c)
  <2>1. PICK r : r = get_arguments(stack[Top(o).vm], Natives[c.f], c.given)
    OBVIOUS
  <2>2. CASE ChecksBefore(c) /\ Outcome(o, c, r)
    <3>1. Natives[c.f].kind \in {"class", "builtin", "method", "utility"}
      BY <1>6 DEF CallMethod
    <3>2. ~(Gone(stack[Top(o).vm]) /\ get_arguments_writes(Natives[c.f], c.given) # {})
      BY <1>1, <2>2, <3>1 DEF Faults, Writes
    <3>3. /\ \E n \in 0..SizeMax : Fills(stack[Top(o).vm], r.stack, n) /\ (~Counted(c) => n = SizeMax)
          /\ ~r.raised /\ Counted(c) =>
               /\ r.stack.size = Count(c)
               /\ \A i \in 1..Count(c) : Argument(r.stack, i) = Wanted(c, i)
      BY <1>3, <1>4, <2>1, <3>1, <3>2, ReadsArguments
    <3> QED BY <1>2, <1>3, <2>2, <3>1, <3>3, OutcomeKeeps
  <2> QED BY <1>5, <1>6, <2>1, <2>2 DEF CallMethod
<1>7. CASE Construct(o, c)
  <2>1. PICK r : r = builtin_ctor(stack[Top(o).vm], Natives[c.f], Arguments(c))
    OBVIOUS
  <2>2. Natives[c.f].kind = "ctor" /\ Outcome(o, c, r)
    BY <1>7, <2>1 DEF Construct
  <2>4. ~(Gone(stack[Top(o).vm]) /\ Written(Natives[c.f], Arguments(c)) # {})
    BY <1>1, <2>2 DEF Faults, Writes
  <2>3. /\ \E n \in 0..SizeMax : Fills(stack[Top(o).vm], r.stack, n)
        /\ ~r.raised => /\ r.stack.size = Count(c)
                        /\ \A i \in 1..Count(c) : Argument(r.stack, i) = Wanted(c, i)
    BY <1>3, <1>4, <2>1, <2>2, <2>4, Constructs
  <2> QED BY <1>2, <1>3, <2>2, <2>3, OutcomeKeeps
<1>8. CASE CallLocal(o, c)
  <2>1. Natives[c.f].kind = "local" /\ UNCHANGED stack
    BY <1>8 DEF CallLocal
  <2>2. CASE Push(o, Native(Top(o).vm, c, FirstStep(c.f, 0)), NotPassed)
    <3>1. PICK fr : fr = Native(Top(o).vm, c, FirstStep(c.f, 0))
      OBVIOUS
    <3>2. /\ fr \in AnyFrame /\ fr.kind = "native" /\ fr.step # "fill" /\ fr.call = c
      BY <1>2, <1>3, <3>1, FirstStepFacts DEF Native, AnyFrame, NativeFrames
    <3>3. ~UsesStack(fr.call.f)
      BY <2>1, <3>2 DEF UsesStack
    <3>4. Push(o, fr, NotPassed)
      BY <2>2, <3>1
    <3> QED BY <2>1, <3>2, <3>3, <3>4, PushKeeps
  <2> QED BY <1>5, <1>8, <2>2 DEF CallLocal
<1>9. CASE CallPrint(o, c)
  BY <1>2, <1>3, <1>9, PrintKeeps
<1> QED BY <1>1, <1>6, <1>7, <1>8, <1>9

\* The engine calls into Lua.
LEMMA EnterKeeps ==
  ASSUME Inv, PassedInv, NEW o \in OSThreads, Enter(o) \/ CallBack(o) PROVE PassedInv'
<1>1. PICK v \in VMs : Push(o, LuaFrame(v), NotPassed)
  <2>1. CASE Enter(o)
    BY <2>1, ProgramAssumption DEF Inv, Enter
  <2>2. CASE CallBack(o)
    <3>1. Busy(o) /\ Top(o).kind = "native"
      BY <2>2 DEF CallBack, InEngine, InNative
    <3>2. Top(o).call \in AllCalls
      BY <3>1, TopFacts DEF AnyFrame, LuaFrames, NativeFrames
    <3>3. Top(o).call.back \subseteq VMs
      BY <3>2, ProgramAssumption DEF AllCalls
    <3> QED BY <2>2, <3>3 DEF CallBack
  <2> QED BY <2>1, <2>2
<1>2. LuaFrame(v) \in AnyFrame /\ LuaFrame(v).kind = "lua"
  BY DEF LuaFrame, AnyFrame, LuaFrames
<1>3. UNCHANGED stack
  BY DEF Enter, CallBack
<1> QED BY <1>1, <1>2, <1>3, PushKeeps

\* Lua code or a native returns.
LEMMA PopsKeep ==
  ASSUME Inv, PassedInv, NEW o \in OSThreads, Leave(o) \/ Return(o) \/ ReturnRefused(o)
  PROVE  PassedInv'
<1>1. Busy(o) /\ Pop(o) /\ UNCHANGED stack
  BY DEF Leave, Return, ReturnRefused, InLua, InEngine, InNative
<1>2. PICK gs, qs : gs = Without(frames[o], 1) /\ qs = Without(passed[o], 1)
  OBVIOUS
<1>3. PassedIn(gs, qs, stack)
  <2>1. 1 <= Len(frames[o])
    BY <1>1, TopFacts
  <2> QED BY <1>2, <2>1, PopKeeps
<1>4. frames' = [frames EXCEPT ![o] = gs] /\ passed' = [passed EXCEPT ![o] = qs]
  BY <1>1, <1>2 DEF Pop, Without
<1> QED BY <1>1, <1>3, <1>4, OneMoves, QuietStep

\* An error in __tostring ends print.
LEMMA ToStringRaisesKeeps ==
  ASSUME Inv, PassedInv, NEW o \in OSThreads, ToStringRaises(o) PROVE PassedInv'
<1>1. /\ Busy(o) /\ Top(o).kind = "tostring" /\ UNCHANGED stack
      /\ frames' = [frames EXCEPT ![o] = Without(frames[o], 2)]
      /\ passed' = [passed EXCEPT ![o] = Without(passed[o], 2)]
  BY DEF ToStringRaises, InLua, Without
<1>2. PICK gs, qs : gs = Without(frames[o], 2) /\ qs = Without(passed[o], 2)
  OBVIOUS
<1>3. PassedIn(gs, qs, stack)
  <2>1. 2 <= Len(frames[o])
    BY <1>1, TopFacts DEF OnPrint
  <2> QED BY <1>2, <2>1, PopKeeps
<1>4. frames' = [frames EXCEPT ![o] = gs] /\ passed' = [passed EXCEPT ![o] = qs]
  BY <1>1, <1>2
<1> QED BY <1>1, <1>3, <1>4, OneMoves, QuietStep

\* A lock is taken.
LEMMA LockKeeps ==
  ASSUME Inv, PassedInv, NEW o \in OSThreads, Acquire(o) \/ set_call_stack(o) PROVE PassedInv'
<1>1. /\ Busy(o) /\ Top(o).step \notin {"fill", "refused"} /\ UNCHANGED <<passed, stack>>
      /\ ToStep(o, "run") \/ ToStep(o, "engine")
  BY DEF Acquire, set_call_stack, InNative
<1>2. Inv'
  BY AcquireInv, SetCallStackInv
<1> QED BY <1>1, <1>2, GoesOn

\* print goes on to its next argument, or turns it to a string first.
LEMMA PrintNextKeeps ==
  ASSUME Inv, PassedInv, NEW o \in OSThreads, PrintNext(o) PROVE PassedInv'
<1>1. PICK fs, ps, n, v, k :
        fs = frames[o] /\ ps = passed[o] /\ n = Len(fs) /\ v = Top(o).vm /\ k = Nth(o)
  OBVIOUS
<1>2. /\ Busy(o) /\ Top(o).kind = "native" /\ Top(o).step = "fill" /\ k <= Len(Top(o).call.given)
      /\ Top(o) = fs[n]
  BY <1>1 DEF PrintNext, InNative, Given, Top
<1>3. /\ fs \in Seq(AnyFrame) /\ PassedIn(fs, ps, stack) /\ ps \in Seq(Passings) /\ Len(ps) = n
      /\ n \in Nat /\ DOMAIN fs = 1..n /\ n \in 1..n /\ fs # << >>
  BY <1>1, <1>2, PassedFacts, TopFacts DEF Inv, PassedInv, PassedIn, Busy
<1>4. k = ps[n].next
  BY <1>1, <1>3 DEF Nth, Last
<1>5. v \in VMs /\ IsStack(stack[v])
  BY <1>1, <1>2, TopFacts DEF PassedInv
<1>6. k <= Count(fs[n].call)
  <2>1. Sound(fs[n], ps[n], stack[v])
    BY <1>1, <1>2, <1>3 DEF PassedIn, SoundIn
  <2>2. Natives[fs[n].call.f].kind = "print"
    BY <1>2, <2>1 DEF Sound
  <2> QED BY <1>2, <2>2 DEF Count
<1>7. CASE Push(o, ToStringFrame(Top(o).vm), NotPassed) /\ UNCHANGED stack
  <2>1. PICK fr : fr = ToStringFrame(v)
    OBVIOUS
  <2>2. fr \in AnyFrame /\ fr.kind = "tostring"
    BY <1>5, <2>1 DEF ToStringFrame, AnyFrame, LuaFrames
  <2>3. Push(o, fr, NotPassed)
    BY <1>1, <1>7, <2>1
  <2>4. Nth(o) <= Count(Top(o).call)
    BY <1>1, <1>2, <1>6
  <2> QED BY <1>2, <1>7, <2>2, <2>3, <2>4, PushKeeps
<1>8. CASE FillPrint(o, n) /\ UNCHANGED frames
  <2>1. PICK t : t = Printed(stack[v], k, fs[n].call.given[k])
    OBVIOUS
  <2>2. PICK qs : qs = OneFurther(ps, n)
    OBVIOUS
  <2>3. SubSeq(ps, 1, n) = ps
    BY <1>3, SubSeqFull
  <2>4. passed' = [passed EXCEPT ![o] = qs]
    BY <1>1, <1>8, <2>2, <2>3, Zenon DEF FillPrint, OneFurther
  <2>5. stack' = [stack EXCEPT ![v] = t]
    BY <1>1, <1>2, <1>4, <1>8, <2>1, Zenon DEF FillPrint
  <2>6. stack'[v] = t /\ \A w \in VMs \ {v} : stack'[w] = stack[w]
    BY <1>5, <2>5 DEF PassedInv
  <2>7. PassedIn(fs, qs, stack') /\ IsStack(t)
    <3>2. ~Gone(stack[v])
      BY <1>1, <1>2, <1>8 DEF FillPrint
    <3>1. /\ n = Len(fs) /\ fs[n].kind = "native" /\ fs[n].step = "fill"
          /\ v = fs[n].vm /\ stack[v] = stack[v]
      BY <1>1, <1>2
    <3> QED BY <1>3, <1>4, <1>5, <1>6, <2>1, <2>2, <2>6, <3>1, <3>2, PrintPassed
  <2>8. HeldIn(frames[o], v) # {}
    BY <1>1, <1>2, TopFacts
  <2> QED BY <1>1, <1>5, <1>8, <2>4, <2>5, <2>7, <2>8, StackStep
<1> QED BY <1>1, <1>7, <1>8 DEF PrintNext

\* __tostring returns to print, which writes what it returned.
LEMMA ToStringKeeps ==
  ASSUME Inv, ShapeInv, PassedInv, NEW o \in OSThreads, ToStringReturns(o) PROVE PassedInv'
<1>1. PICK fs, ps, m, gs, ws : /\ fs = frames[o] /\ ps = passed[o] /\ m = Len(fs) - 1
                               /\ gs = Without(fs, 1) /\ ws = Without(ps, 1)
  OBVIOUS
<1>2. /\ Busy(o) /\ Top(o).kind = "tostring"
      /\ frames' = [frames EXCEPT ![o] = gs] /\ FillPrint(o, m)
  BY <1>1 DEF ToStringReturns, InLua, Without
<1>3. /\ PassedIn(gs, ws, stack) /\ gs \in Seq(AnyFrame) /\ Len(gs) = m
      /\ Len(fs) \in Nat \ {0} /\ DOMAIN gs = 1..m
      /\ \A i \in 1..m : gs[i] = fs[i] /\ ws[i] = ps[i]
      /\ ws = SubSeq(ps, 1, m)
  <2>1. 1 <= Len(frames[o]) /\ Len(frames[o]) # 0
    BY <1>2, TopFacts
  <2> QED BY <1>1, <2>1, PopKeeps DEF Without
<1>4. /\ Top(o) = fs[m + 1] /\ DOMAIN fs = 1..(m + 1) /\ m \in Nat /\ m + 1 \in 1..(m + 1)
      /\ Top(o).vm \in VMs /\ HeldIn(frames[o], Top(o).vm) # {}
  <2>1. Len(fs) = m + 1 /\ m \in Nat
    BY <1>1, <1>3
  <2> QED BY <1>1, <1>2, <2>1, TopFacts
<1>5. m # 0 /\ Above(fs[m], fs[m + 1])
  <2>1. IF m + 1 = 1 THEN fs[m + 1].kind = "lua" ELSE Above(fs[(m + 1) - 1], fs[m + 1])
    BY <1>1, <1>4 DEF ShapeInv, ShapeIn
  <2>2. (m + 1) - 1 = m /\ (m + 1 = 1 <=> m = 0)
    BY <1>4
  <2> QED BY <1>2, <1>4, <2>1, <2>2
<1>6. PICK v, k : v = Top(o).vm /\ k = ps[m].next
  OBVIOUS
<1>7. fs[m].kind = "native" /\ fs[m].step = "fill" /\ fs[m].vm = v
  BY <1>2, <1>4, <1>5, <1>6 DEF Above
<1>8. m \in 1..m /\ gs[m] = fs[m] /\ ws[m] = ps[m] /\ gs # << >>
  BY <1>3, <1>4, <1>5
<1>9. k <= Count(fs[m].call)
  <2>1. PassedIn(fs, ps, stack)
    BY <1>1 DEF PassedInv
  <2>2. ps[(m + 1) - 1].next <= Count(fs[(m + 1) - 1].call)
    BY <1>2, <1>4, <2>1 DEF PassedIn, CalledIn
  <2>3. (m + 1) - 1 = m
    BY <1>4
  <2> QED BY <1>6, <2>2, <2>3
<1>10. PICK t, qs : /\ t = Printed(stack[v], k, gs[m].call.given[k])
                    /\ qs = OneFurther(ws, m)
  OBVIOUS
<1>11. passed' = [passed EXCEPT ![o] = qs]
  BY <1>1, <1>2, <1>3, <1>10, Zenon DEF FillPrint, OneFurther
<1>12. stack' = [stack EXCEPT ![v] = t]
  BY <1>1, <1>2, <1>6, <1>7, <1>8, <1>10, Zenon DEF FillPrint
<1>13. /\ IsStack(stack[v])
       /\ stack'[v] = t /\ \A w \in VMs \ {v} : stack'[w] = stack[w]
  BY <1>4, <1>6, <1>12 DEF PassedInv
<1>14. PassedIn(gs, qs, stack') /\ IsStack(t)
  <2>1. /\ m = Len(gs) /\ gs[m].kind = "native" /\ gs[m].step = "fill"
        /\ k = ws[m].next /\ k <= Count(gs[m].call)
        /\ v = gs[m].vm /\ stack[v] = stack[v]
    BY <1>3, <1>6, <1>7, <1>8, <1>9
  <2>2. gs \in Seq(AnyFrame) /\ PassedIn(gs, ws, stack) /\ gs # << >>
    BY <1>3, <1>8
  <2>3. ~Gone(stack[v])
    BY <1>1, <1>2, <1>6, <1>7 DEF FillPrint
  <2> QED BY <1>10, <1>13, <2>1, <2>2, <2>3, PrintPassed
<1>15. frames'[o] = gs /\ \A p \in OSThreads \ {o} : frames'[p] = frames[p]
  BY <1>2, OneMoves
<1> QED BY <1>4, <1>6, <1>11, <1>12, <1>14, <1>15, StackStep

\* print, which has written all its arguments, calls the engine.
LEMMA PrintCallsKeeps ==
  ASSUME Inv, PassedInv, NEW o \in OSThreads, PrintCalls(o) PROVE PassedInv'
<1>1. PICK fs, ps, n, s, gs, qs :
        /\ fs = frames[o] /\ ps = passed[o] /\ n = Len(fs) /\ s = stack[Top(o).vm]
        /\ gs = [fs EXCEPT ![n].step = "engine"] /\ qs = [ps EXCEPT ![n].size = s.size]
  OBVIOUS
<1>2. /\ Busy(o) /\ Top(o).kind = "native" /\ Top(o).step = "fill" /\ Top(o) = fs[n]
      /\ Nth(o) > Len(Top(o).call.given) /\ ToStep(o, "engine") /\ UNCHANGED stack
      /\ passed' = [passed EXCEPT ![o][Len(passed[o])].size = s.size]
  BY <1>1 DEF PrintCalls, InNative, Given, Top
<1>3. /\ fs \in Seq(AnyFrame) /\ PassedIn(fs, ps, stack) /\ Len(ps) = n
      /\ DOMAIN fs = 1..n /\ n \in 1..n /\ fs # << >>
  BY <1>1, <1>2, PassedFacts, TopFacts DEF Inv, PassedInv, PassedIn, Busy
<1>4. /\ frames'[o] = gs /\ \A p \in OSThreads \ {o} : frames'[p] = frames[p]
      /\ passed' = [passed EXCEPT ![o] = qs]
  BY <1>1, <1>2, <1>3 DEF ToStep, Inv
<1>5. Nth(o) = ps[n].next /\ IsStack(s) /\ s = stack[fs[n].vm]
  BY <1>1, <1>2, <1>3, TopFacts DEF Nth, Last, PassedInv
<1>6. ps[n].next > Count(fs[n].call)
  <2>1. Sound(fs[n], ps[n], s)
    BY <1>1, <1>2, <1>3, <1>5 DEF PassedIn, SoundIn
  <2>2. Natives[fs[n].call.f].kind = "print"
    BY <1>2, <2>1 DEF Sound
  <2> QED BY <1>2, <1>5, <2>2 DEF Count
<1>7. PassedIn(gs, qs, stack)
  BY <1>1, <1>2, <1>3, <1>5, <1>6, CallsPassed
<1> QED BY <1>2, <1>4, <1>7, QuietStep

----------------------------------------------------------------------------
(* The theorems.                                                              *)

\* So the process begins.
FreshPassed == frames = NoFrames /\ passed = NoFrames /\ stack = NewStacks

LEMMA FreshPassedInv == FreshPassed => PassedInv
<1> SUFFICES ASSUME FreshPassed PROVE PassedInv
  OBVIOUS
<1>1. /\ stack = [v \in VMs |-> stack[v]] /\ \A v \in VMs : stack[v] = Allocated(InitialCapacity)
      /\ passed = [o \in OSThreads |-> passed[o]]
      /\ \A o \in OSThreads : frames[o] = << >> /\ passed[o] = << >>
  BY DEF FreshPassed, NoFrames, NewStacks
<1>2. PICK s : s = Allocated(InitialCapacity)
  OBVIOUS
<1>3. /\ s.args = [i \in Places(InitialCapacity) |-> LuauVariant]
      /\ s.varargs = [i \in Places(InitialCapacity) |-> NilVariant]
      /\ s.ptr_args = [i \in Places(InitialCapacity) |-> Unset]
      /\ s.size = InitialCapacity /\ s.capacity = InitialCapacity
      /\ s = [args |-> s.args, varargs |-> s.varargs, ptr_args |-> s.ptr_args,
              size |-> s.size, capacity |-> s.capacity]
  BY <1>2 DEF Allocated
<1>4. IsSlot(LuauVariant) /\ \A i : OwnPointer(Unset, i)
  BY DEF IsSlot, LuauVariant, OwnPointer, Unset
<1>5. IsStack(s)
  BY <1>3, <1>4, CapacityAssumption, SizeAssumption DEF IsStack
<1>6. ASSUME NEW ss PROVE PassedIn(<< >>, << >>, ss)
  BY EmptySeq DEF PassedIn, SoundIn, CoverIn, CalledIn
<1> QED BY <1>1, <1>2, <1>5, <1>6 DEF PassedInv

LEMMA InitPassed == Init => PassedInv
BY FreshPassedInv DEF Init, FreshPassed

LEMMA CrashPassed ==
  ASSUME NEW o \in OSThreads, Crash(o) PROVE PassedInv'
<1>1. FreshPassed'
  BY DEF Crash, FreshPassed
<1>2. FreshPassed' => PassedInv'
  BY FreshPassedInv, PTL
<1> QED BY <1>1, <1>2

LEMMA NextPassed == Inv /\ ShapeInv /\ PassedInv /\ [Next]_vars => PassedInv'
<1> SUFFICES ASSUME Inv, ShapeInv, PassedInv, [Next]_vars PROVE PassedInv'
  OBVIOUS
<1>1. CASE UNCHANGED vars
  BY <1>1 DEF vars, PassedInv
<1>2. ASSUME NEW o \in OSThreads, Step(o) PROVE PassedInv'
  BY <1>2, EnterKeeps, CallKeeps, PopsKeep, LockKeeps, PrintNextKeeps, ToStringKeeps,
     ToStringRaisesKeeps, PrintCallsKeeps DEF Step
<1> QED BY <1>1, <1>2, CrashPassed DEF Next

LEMMA SpecPassed == Spec => []PassedInv
BY InitPassed, NextPassed, SpecInv, SpecShape, PTL DEF Spec

\* Whatever the natives, the programs and the number of OS threads and VMs: what
\* the engine finds at the end of the pointers that a call gave it, for as long
\* as it runs, is what Lua code gave the call, or the defaults the function
\* declares, but for what calls nested in it overwrote or freed
\* (godot_bindings.cpp, godot_builtin_bindings.cpp, stack.cpp).
THEOREM ArgumentsSeenHolds == Spec => []ArgumentsSeen
<1>1. PassedInv /\ Inv => ArgumentsSeen
  <2> SUFFICES ASSUME PassedInv, Inv, NEW o \in OSThreads, NEW n \in NativesOf(o),
                      frames[o][n].step = "engine", UsesStack(frames[o][n].call.f)
               PROVE  Seen(frames[o][n].call, passed[o][n], stack[frames[o][n].vm])
    BY DEF ArgumentsSeen
  <2>1. PICK fr, p, s, c : /\ fr = frames[o][n] /\ p = passed[o][n] /\ s = stack[fr.vm]
                           /\ c = fr.call
    OBVIOUS
  <2>2. n \in DOMAIN frames[o] /\ fr.kind = "native" /\ fr.step = "engine"
    BY <2>1 DEF NativesOf
  <2>3. Sound(fr, p, s)
    BY <2>1, <2>2 DEF PassedInv, PassedIn, SoundIn
  <2>4. ~p.interrupted => p.size = Count(c)
    BY <2>1, <2>2, <2>3 DEF Sound
  <2>5. ASSUME NEW i \in 1..Count(c), i <= p.size, i \notin p.lost
        PROVE  Argument(s, i) = Wanted(c, i)
    <3>1. p \in Passings /\ DOMAIN frames[o] = 1..Len(frames[o])
      BY <2>1, <2>2, PassedFacts, ZenonT(30) DEF PassedInv, Inv
    <3>2. i \in 1..p.size
      BY <2>5, <3>1 DEF Passings
    <3>3. i \in Filled(fr, p)
      BY <2>2, <3>2 DEF Filled
    <3> QED BY <2>1, <2>3, <2>5, <3>3 DEF Sound
  <2> QED BY <2>1, <2>4, <2>5 DEF Seen
<1> QED BY <1>1, SpecPassed, SpecInv, PTL

\* Whatever the natives and programs, the state is one the code can be in: a
\* slot of an argument stack holds a value of a type, a frame that waits is the
\* innermost, a native lies on Lua code of its own VM.
THEOREM TypeCorrect == Spec => []TypeOK
<1>1. Inv /\ ShapeInv /\ PassedInv => TypeOK
  <2> SUFFICES ASSUME Inv, ShapeInv, PassedInv PROVE TypeOK
    OBVIOUS
  <2>1. ASSUME NEW v \in VMs
        PROVE  /\ stack[v].size <= stack[v].capacity
               /\ DOMAIN stack[v].args = Places(stack[v].capacity)
               /\ \A i \in DOMAIN stack[v].args : stack[v].args[i].type \in Types \cup {None}
               /\ vm_lock[v].owner \in OSThreads \cup {None}
    <3>1. PICK s : s = stack[v] /\ IsStack(s)
      BY DEF PassedInv
    <3>2. /\ s.size <= s.capacity /\ DOMAIN s.args = Places(s.capacity)
          /\ \A i \in Places(s.capacity) : s.args[i].type \in Types \cup {None}
      BY <3>1 DEF IsStack, IsSlot
    <3>3. vm_lock[v].owner \in OSThreads \cup {None}
      BY DEF Inv, Agrees, Locks
    <3> QED BY <3>1, <3>2, <3>3
  <2>2. ASSUME NEW o \in OSThreads, NEW i \in DOMAIN frames[o]
        PROVE  /\ frames[o][i].step \in {"wait", "lock", "fill", "refused"} =>
                    i = Len(frames[o]) \/ frames[o][i + 1].kind = "tostring"
               /\ frames[o][i].kind = "native" =>
                    i > 1 /\ frames[o][i - 1].kind # "native" /\ frames[o][i - 1].vm = frames[o][i].vm
    <3>1. PICK fs : fs = frames[o]
      OBVIOUS
    <3>2. Len(fs) \in Nat /\ DOMAIN fs = 1..Len(fs)
      BY <3>1, LenProperties DEF Inv
    <3>3. \A j \in 1..Len(fs) : IF j = 1 THEN fs[j].kind = "lua" ELSE Above(fs[j - 1], fs[j])
      BY <3>1, <3>2 DEF ShapeInv, ShapeIn
    <3>4. ASSUME fs[i].step \in {"wait", "lock", "fill", "refused"}, i # Len(fs)
          PROVE  fs[i + 1].kind = "tostring"
      <4>1. i + 1 \in 1..Len(fs) /\ i + 1 # 1 /\ (i + 1) - 1 = i
        BY <3>1, <3>2, <3>4
      <4>2. Above(fs[i], fs[i + 1])
        BY <3>3, <4>1
      <4> QED BY <3>4, <4>2 DEF Above
    <3>5. ASSUME fs[i].kind = "native"
          PROVE  i > 1 /\ fs[i - 1].kind # "native" /\ fs[i - 1].vm = fs[i].vm
      <4>1. i # 1 /\ i \in 1..Len(fs)
        BY <3>1, <3>2, <3>3, <3>5
      <4>2. Above(fs[i - 1], fs[i])
        BY <3>3, <4>1
      <4>3. i > 1
        BY <3>2, <4>1
      <4> QED BY <3>5, <4>2, <4>3 DEF Above
    <3> QED BY <3>1, <3>4, <3>5
  <2>3. program \in DOMAIN Programs
    BY DEF Inv
  <2> QED BY <2>1, <2>2, <2>3 DEF TypeOK
<1> QED BY <1>1, SpecInv, SpecShape, SpecPassed, PTL
=============================================================================
