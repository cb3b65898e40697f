----------------------------- MODULE EngineCalls -----------------------------
(* Calls from Lua to the engine and back: OS threads enter the VMs under      *)
(* their locks, Lua code calls natives, which read their arguments into the   *)
(* argument stack of the VM, tell the debugger where they were called from,   *)
(* and call the engine; the engine may call into Lua again.                   *)
EXTENDS ArgumentStack, FiniteSets

CONSTANTS OSThreads, VMs, InitialCapacity,
          MaxDepth,    \* bound: frames of an OS thread
          Natives,     \* the functions that Lua code calls, by their names
          Programs     \* what runs, by its name

IsSequence(s) == s \in Seq(ToSet(s))

\* What a native declares. Defaults of arguments that are objects are null.
Declares(arguments) ==
  /\ IsSequence(arguments) /\ Len(arguments) < SizeMax
  /\ \A i \in DOMAIN arguments :
       /\ arguments[i].type \in Types
       /\ arguments[i].type = "Object" => arguments[i].default \in {None, NullObject}

ASSUME NativeAssumption ==
  \A f \in DOMAIN Natives :
    LET n == Natives[f] IN
    /\ n.kind \in {"class", "builtin", "method", "utility", "ctor", "local", "print"}
    /\ {n.static, n.vararg, n.call_stack} \subseteq BOOLEAN
    /\ Declares(n.arguments)
    /\ IsSequence(n.defaults) /\ Len(n.defaults) <= Len(n.arguments)
    /\ IsSequence(n.constructors) /\ \A k \in DOMAIN n.constructors : Declares(n.constructors[k])
    /\ n.kind = "ctor" => ~n.vararg
    /\ n.kind \in {"ctor", "utility", "print"} => n.static
    /\ n.kind = "method" => n.vararg /\ ~n.static

\* What runs: the VMs that each OS thread is made to enter, and the calls that
\* Lua code of each VM makes: a native f, what it is given, self first unless
\* it is missing, and the VMs (back) that the engine may call into on its behalf.
ASSUME ProgramAssumption ==
  \A p \in DOMAIN Programs :
    /\ Programs[p].enters \in [OSThreads -> SUBSET VMs]
    /\ \A v \in VMs : \A c \in Programs[p].calls[v] :
         /\ c.f \in DOMAIN Natives /\ c.back \subseteq VMs
         /\ IsSequence(c.given) /\ Len(c.given) < SizeMax

ASSUME CapacityAssumption == InitialCapacity \in 0..(SizeMax - 1)

\* print and the methods of scripts are called without SET_CALL_STACK.
ASSUME PrintAssumption ==
  \A f \in DOMAIN Natives : Natives[f].kind \in {"print", "method"} => ~Natives[f].call_stack

ASSUME NoneAssumption == None \notin OSThreads

VARIABLES program,
          frames,      \* of each OS thread: Lua code and natives, innermost last
          passed,      \* of each frame: what became of the arguments of a native
          vm_lock,     \* the mutex of each VM
          call_lock, call_stack,   \* of the debugger: the call it describes
          stack        \* of each VM: GDThreadStack

vars == <<program, frames, passed, vm_lock, call_lock, call_stack, stack>>

----------------------------------------------------------------------------
(* Mutexes are recursive.                                                     *)

Unlocked == [owner |-> None, depth |-> 0]
CanLock(l, o) == l.owner \in {None, o}
Locked(l, o) == [owner |-> o, depth |-> l.depth + 1]
\* Mutant: one unlock undoes all locks.
ReleasedAtOnce(l) == Unlocked
Released(l) == IF l.depth = 1 THEN Unlocked ELSE [l EXCEPT !.depth = @ - 1]

----------------------------------------------------------------------------
(* Frames. Lua code that the engine called holds a ThreadHandle; Lua code     *)
(* that print called (__tostring) does not.                                   *)

LuaFrame(v) == [kind |-> "lua", vm |-> v, step |-> "wait"]
ToStringFrame(v) == [kind |-> "tostring", vm |-> v, step |-> "run"]
Native(v, c, step) == [kind |-> "native", vm |-> v, step |-> step, call |-> c]

Arguments(c) == Parameters(Natives[c.f], c.given)
IsSelf(c) ==
  Natives[c.f].static \/ (c.given # << >> /\ lua_is(c.given[1], Natives[c.f].self))

Top(o) == frames[o][Len(frames[o])]
Busy(o) == frames[o] # << >>
InLua(o) == Busy(o) /\ Top(o).kind \in {"lua", "tostring"} /\ Top(o).step = "run"
InNative(o, step) == Busy(o) /\ Top(o).kind = "native" /\ Top(o).step = step
InEngine(o) == InNative(o, "engine")
Room(o) == Len(frames[o]) < MaxDepth

\* size: how many arguments the engine is told of; next: which print turns to
\* a string; lost: the positions that a call within this one overwrote or
\* freed; interrupted: a native ran while print was filling the stack.
Passed(n) == [size |-> n, next |-> 1, lost |-> {}, interrupted |-> FALSE]
NotPassed == Passed(0)

Push(o, fr, p) ==
  /\ frames' = [frames EXCEPT ![o] = Append(@, fr)]
  /\ passed' = [passed EXCEPT ![o] = Append(@, p)]
Pop(o) ==
  /\ frames' = [frames EXCEPT ![o] = SubSeq(@, 1, Len(@) - 1)]
  /\ passed' = [passed EXCEPT ![o] = SubSeq(@, 1, Len(@) - 1)]
ToStep(o, step) == frames' = [frames EXCEPT ![o][Len(frames[o])].step = step]

\* What a native that fills n positions of the stack of v does to a frame.
Filled(fr, p) == IF fr.step = "fill" THEN 1..(p.next - 1) ELSE 1..p.size
Disturbed(fr, p, v, n, grows) ==
  IF fr.kind # "native" \/ fr.vm # v THEN p
  ELSE [p EXCEPT !.lost = IF grows THEN Filled(fr, p) ELSE @ \cup ((1..n) \cap Filled(fr, p)),
                 !.interrupted = @ \/ fr.step = "fill"]
AllDisturbed(o, s) ==
  [i \in DOMAIN passed[o] |->
     Disturbed(frames[o][i], passed[o][i], Top(o).vm, s.size,
               s.capacity > stack[Top(o).vm].capacity)]

----------------------------------------------------------------------------

NoFrames == [o \in OSThreads |-> << >>]
NoLocks == [v \in VMs |-> Unlocked]
NewStacks == [v \in VMs |-> Allocated(InitialCapacity)]

Init ==
  /\ program \in DOMAIN Programs
  /\ frames = NoFrames /\ passed = NoFrames
  /\ vm_lock = NoLocks /\ call_lock = Unlocked /\ call_stack = None
  /\ stack = NewStacks

\* The engine calls into Lua, of itself or from within a call (CallBack).
Enter(o) ==
  /\ ~Busy(o)
  /\ \E v \in Programs[program].enters[o] : Push(o, LuaFrame(v), NotPassed)
  /\ UNCHANGED <<program, vm_lock, call_lock, call_stack, stack>>

CallBack(o) ==
  /\ InEngine(o) /\ Room(o)
  /\ \E v \in Top(o).call.back : Push(o, LuaFrame(v), NotPassed)
  /\ UNCHANGED <<program, vm_lock, call_lock, call_stack, stack>>

\* ThreadHandle
Acquire(o) ==
  /\ Busy(o) /\ Top(o).kind = "lua" /\ Top(o).step = "wait"
  /\ CanLock(vm_lock[Top(o).vm], o)
  /\ vm_lock' = [vm_lock EXCEPT ![Top(o).vm] = Locked(@, o)]
  /\ ToStep(o, "run")
  /\ UNCHANGED <<program, passed, call_lock, call_stack, stack>>

Leave(o) ==
  /\ InLua(o) /\ Top(o).kind = "lua"
  /\ vm_lock' = [vm_lock EXCEPT ![Top(o).vm] = Released(@)]
  /\ Pop(o)
  /\ UNCHANGED <<program, call_lock, call_stack, stack>>

----------------------------------------------------------------------------
(* Lua code calls a native. An error is Lua's to catch: it leaves only what   *)
(* was written to the argument stack.                                         *)

\* The checks before the arguments are read, and those that come after.
ChecksBefore(c) ==
  IF Natives[c.f].kind \in {"class", "local"}
  THEN Natives[c.f].allowed /\ IsSelf(c)
  ELSE TRUE
ChecksAfter(c) == Natives[c.f].kind = "builtin" => IsSelf(c)

\* LuauScriptInstance::call, whose count is signed, takes as many arguments as the
\* method does. Otherwise it reports an error, which the caller does not look at.
Signed(size) == IF size = SizeMax THEN -1 ELSE size
Takes(f, size) == Signed(size) \in Required(f)..Len(f.arguments)

FirstStep(f, size) ==
  IF Natives[f].kind = "method" /\ ~Takes(Natives[f], size) THEN "refused"
  ELSE IF Natives[f].call_stack THEN "lock" ELSE "engine"

\* The stack is now s: a call goes on, with size arguments; an error ends it.
Called(o, c, s, step) ==
  /\ frames' = [frames EXCEPT ![o] = Append(@, Native(Top(o).vm, c, step))]
  /\ passed' = [passed EXCEPT ![o] = Append(AllDisturbed(o, s), Passed(s.size))]
  /\ stack' = [stack EXCEPT ![Top(o).vm] = s]
Raised(o, s) ==
  /\ passed' = [passed EXCEPT ![o] = AllDisturbed(o, s)]
  /\ stack' = [stack EXCEPT ![Top(o).vm] = s]
  /\ UNCHANGED frames

Outcome(o, c, r) ==
  IF r.raised \/ ~ChecksAfter(c) THEN Raised(o, r.stack)
  ELSE Called(o, c, r.stack, FirstStep(c.f, r.stack.size))

\* A method of a class, a builtin or a script of another VM, and a utility.
CallMethod(o, c) ==
  /\ Natives[c.f].kind \in {"class", "builtin", "method", "utility"}
  /\ IF ChecksBefore(c)
     THEN Outcome(o, c, get_arguments(stack[Top(o).vm], Natives[c.f], c.given))
     ELSE UNCHANGED <<frames, passed, stack>>

Construct(o, c) ==
  /\ Natives[c.f].kind = "ctor"
  /\ Outcome(o, c, builtin_ctor(stack[Top(o).vm], Natives[c.f], Arguments(c)))

\* Setters, getters and operators, whose arguments are variables of their own.
CallLocal(o, c) ==
  /\ Natives[c.f].kind = "local" /\ UNCHANGED stack
  /\ IF ChecksBefore(c)
     THEN Push(o, Native(Top(o).vm, c, FirstStep(c.f, 0)), NotPassed)
     ELSE UNCHANGED <<frames, passed>>

CallPrint(o, c) ==
  /\ Natives[c.f].kind = "print"
  /\ Called(o, c, resize(stack[Top(o).vm], Len(c.given)), "fill")

\* The positions of the arrays that a call writes before the engine is called.
Writes(c) ==
  CASE Natives[c.f].kind = "ctor" -> Written(Natives[c.f], Arguments(c))
    [] Natives[c.f].kind \in {"local", "print"} -> {}
    [] OTHER -> IF ChecksBefore(c) THEN get_arguments_writes(Natives[c.f], c.given) ELSE {}
Faults(o, c) == Gone(stack[Top(o).vm]) /\ Writes(c) # {}

Call(o) ==
  /\ InLua(o) /\ Room(o)
  /\ \E c \in Programs[program].calls[Top(o).vm] :
       /\ ~Faults(o, c)
       /\ CallMethod(o, c) \/ Construct(o, c) \/ CallLocal(o, c) \/ CallPrint(o, c)
  /\ UNCHANGED <<program, vm_lock, call_lock, call_stack>>

----------------------------------------------------------------------------
(* print goes through its arguments one by one; what is no Variant is turned  *)
(* to a string, by Lua code if it has __tostring.                             *)

Text(v) == IF get_type(v) = None THEN Boxed("String", v) ELSE Boxed(get_type(v), v)

Printed(s, i, v) ==
  [s EXCEPT !.varargs[i] = Text(v), !.ptr_args[i] = ToVararg(i)]

FillPrint(o, n) ==
  /\ ~Gone(stack[frames[o][n].vm])
  /\ passed' = [passed EXCEPT ![o] = [SubSeq(passed[o], 1, n) EXCEPT ![n].next = @ + 1]]
  /\ stack' = [stack EXCEPT ![frames[o][n].vm] =
                  Printed(@, passed[o][n].next, frames[o][n].call.given[passed[o][n].next])]

Given(o) == Top(o).call.given
Nth(o) == Last(passed[o]).next

ToStringNext(o) == get_type(Given(o)[Nth(o)]) = None /\ Room(o)

PrintNext(o) ==
  /\ InNative(o, "fill") /\ Nth(o) <= Len(Given(o))
  /\ IF ToStringNext(o)
     THEN Push(o, ToStringFrame(Top(o).vm), NotPassed) /\ UNCHANGED stack
     ELSE FillPrint(o, Len(frames[o])) /\ UNCHANGED frames
  /\ UNCHANGED <<program, vm_lock, call_lock, call_stack>>

ToStringReturns(o) ==
  /\ InLua(o) /\ Top(o).kind = "tostring"
  /\ frames' = [frames EXCEPT ![o] = SubSeq(@, 1, Len(@) - 1)]
  /\ FillPrint(o, Len(frames[o]) - 1)
  /\ UNCHANGED <<program, vm_lock, call_lock, call_stack>>

\* An error in __tostring is one of print: the engine is not called.
ToStringRaises(o) ==
  /\ InLua(o) /\ Top(o).kind = "tostring"
  /\ frames' = [frames EXCEPT ![o] = SubSeq(@, 1, Len(@) - 2)]
  /\ passed' = [passed EXCEPT ![o] = SubSeq(@, 1, Len(@) - 2)]
  /\ UNCHANGED <<program, vm_lock, call_lock, call_stack, stack>>

\* The engine is given stack.ptr_args and stack.size as they are now.
PrintCalls(o) ==
  /\ InNative(o, "fill") /\ Nth(o) > Len(Given(o))
  /\ ToStep(o, "engine")
  /\ passed' = [passed EXCEPT ![o][Len(passed[o])].size = stack[Top(o).vm].size]
  /\ UNCHANGED <<program, vm_lock, call_lock, call_stack, stack>>

----------------------------------------------------------------------------
(* SET_CALL_STACK and CLEAR_CALL_STACK around the call of the engine.         *)

Id(o) == <<o, Len(frames[o])>>

\* Mutant: without the lock.
set_call_stack_unlocked(o) ==
  /\ InNative(o, "lock")
  /\ call_lock' = Locked(call_lock, o) /\ call_stack' = Id(o)
  /\ ToStep(o, "engine")
  /\ UNCHANGED <<program, passed, vm_lock, stack>>
set_call_stack(o) ==
  /\ InNative(o, "lock")
  /\ CanLock(call_lock, o)
  /\ call_lock' = Locked(call_lock, o) /\ call_stack' = Id(o)
  /\ ToStep(o, "engine")
  /\ UNCHANGED <<program, passed, vm_lock, stack>>

\* Mutants: the stack is not cleared; the lock is kept.
only_unlock == UNCHANGED call_stack /\ call_lock' = Released(call_lock)
only_clear == call_stack' = None /\ UNCHANGED call_lock
clear_call_stack ==
  call_stack' = None /\ call_lock' = Released(call_lock)

Return(o) ==
  /\ InEngine(o)
  /\ Pop(o)
  /\ IF Natives[Top(o).call.f].call_stack THEN clear_call_stack ELSE UNCHANGED <<call_stack, call_lock>>
  /\ UNCHANGED <<program, vm_lock, stack>>

\* A call that the instance refused returns nil.
ReturnRefused(o) ==
  /\ InNative(o, "refused")
  /\ Pop(o)
  /\ UNCHANGED <<program, vm_lock, call_lock, call_stack, stack>>

----------------------------------------------------------------------------
(* What is written to arrays that are not there ends the process. The next    *)
(* one begins as this one did.                                                *)

CallFaults(o) ==
  InLua(o) /\ Room(o) /\ \E c \in Programs[program].calls[Top(o).vm] : Faults(o, c)
PrintFaults(o) ==
  /\ Busy(o) /\ Gone(stack[Top(o).vm])
  /\ \/ InNative(o, "fill") /\ Nth(o) <= Len(Given(o)) /\ ~ToStringNext(o)
     \/ InLua(o) /\ Top(o).kind = "tostring"

Crash(o) ==
  /\ CallFaults(o) \/ PrintFaults(o)
  /\ frames' = NoFrames /\ passed' = NoFrames
  /\ vm_lock' = NoLocks /\ call_lock' = Unlocked /\ call_stack' = None
  /\ stack' = NewStacks
  /\ UNCHANGED program

Step(o) ==
  \/ Enter(o) \/ CallBack(o) \/ Acquire(o) \/ Leave(o) \/ Call(o)
  \/ PrintNext(o) \/ ToStringReturns(o) \/ ToStringRaises(o) \/ PrintCalls(o)
  \/ set_call_stack(o) \/ Return(o) \/ ReturnRefused(o)

Next == \E o \in OSThreads : Step(o) \/ Crash(o)
Spec == Init /\ [][Next]_vars

----------------------------------------------------------------------------
(* Properties.                                                                *)

\* Natives that keep their arguments in the argument stack.
UsesStack(f) == Natives[f].kind # "local"

NativesOf(o) == {i \in DOMAIN frames[o] : frames[o][i].kind = "native"}
Tracked(o) == {i \in NativesOf(o) : frames[o][i].step = "engine" /\ Natives[frames[o][i].call.f].call_stack}

\* The state is one the code can be in: slots of the arrays hold values of
\* types, a frame that waits is the innermost, a native is called by Lua code
\* of its own VM.
TypeOK ==
  /\ program \in DOMAIN Programs
  /\ \A v \in VMs :
       /\ stack[v].size <= stack[v].capacity
       /\ DOMAIN stack[v].args = Places(stack[v].capacity)
       /\ \A i \in DOMAIN stack[v].args : stack[v].args[i].type \in Types \cup {None}
       /\ vm_lock[v].owner \in OSThreads \cup {None}
  /\ \A o \in OSThreads : \A i \in DOMAIN frames[o] :
       /\ frames[o][i].step \in {"wait", "lock", "fill", "refused"} =>
            i = Len(frames[o]) \/ frames[o][i + 1].kind = "tostring"
       /\ frames[o][i].kind = "native" =>
            i > 1 /\ frames[o][i - 1].kind # "native" /\ frames[o][i - 1].vm = frames[o][i].vm

\* What a call ought to pass as argument i, from what it was given and the
\* function's declaration alone.
Declared(c) ==
  IF Natives[c.f].kind = "ctor"
  THEN Natives[c.f].constructors[First(Fitting(Natives[c.f], Arguments(c)))]
  ELSE Natives[c.f].arguments
Count(c) ==
  IF Natives[c.f].kind = "print" THEN Len(c.given)
  ELSE Largest(Len(Arguments(c)), Len(Declared(c)))
Default(c, i) ==
  IF Natives[c.f].kind = "method"
  THEN Reverse(Natives[c.f].defaults)[Len(Declared(c)) - i + 1]
  ELSE Declared(c)[i].default
Wanted(c, i) ==
  IF Natives[c.f].kind = "print" THEN Text(c.given[i])
  ELSE IF i > Len(Arguments(c)) THEN Default(c, i)
  ELSE IF i > Len(Declared(c)) THEN Boxed(get_type(Arguments(c)[i]), Arguments(c)[i])
  ELSE [Converted(Arguments(c)[i], Declared(c)[i].type) EXCEPT !.boxed = @ \/ Natives[c.f].vararg]

\* A call c has arguments in stack s that are those it ought to have.
Seen(c, p, s) ==
  /\ ~p.interrupted => p.size = Count(c)
  /\ \A i \in 1..Count(c) : i <= p.size /\ i \notin p.lost => Argument(s, i) = Wanted(c, i)

\* While a call of the engine runs, and calls back into Lua that calls the
\* engine again, the engine reads each of its arguments as it was given, or
\* as its default; what nested calls can take from it are the positions they
\* fill themselves, or all when they make the stack grow. The number of
\* arguments is its own, unless a call came between print and its arguments.
ArgumentsSeen ==
  \A o \in OSThreads : \A n \in NativesOf(o) :
    frames[o][n].step = "engine" /\ UsesStack(frames[o][n].call.f) =>
      Seen(frames[o][n].call, passed[o][n], stack[frames[o][n].vm])

\* What the engine's error reports show as the stack of calls is that of a call
\* of the engine that has not ended, and of the innermost one of its OS thread.
CallStackTrue ==
  call_stack # None =>
    /\ call_stack[2] \in Tracked(call_stack[1])
    /\ \A i \in Tracked(call_stack[1]) : i <= call_stack[2]

\* A call whose stack is shown loses it only by its own end, or to a call of
\* the engine made from within it: never to another OS thread.
CallStackKept ==
  [][call_stack # None /\ call_stack' # call_stack =>
       \/ call_stack[2] \notin DOMAIN frames'[call_stack[1]]
       \/ call_stack'[1] = call_stack[1] /\ call_stack'[2] > call_stack[2]]_vars

Runs(o, v) ==
  \E i \in DOMAIN frames[o] : frames[o][i].vm = v /\ frames[o][i].step # "wait"

\* No two OS threads are within the same VM, in Lua code or in what it called:
\* the argument stack and the state of the VM are used by one at a time.
MutualExclusion ==
  \A o, p \in OSThreads : \A v \in VMs : Runs(o, v) /\ Runs(p, v) => o = p

\* The OS thread that o waits for.
WaitsFor(o) ==
  IF ~Busy(o) THEN {}
  ELSE IF Top(o).step = "wait" /\ ~CanLock(vm_lock[Top(o).vm], o) THEN {vm_lock[Top(o).vm].owner}
  ELSE IF Top(o).step = "lock" /\ ~CanLock(call_lock, o) THEN {call_lock.owner}
  ELSE {}

\* Programs whose calls cross VMs down a rank, and from no native that holds the
\* lock of the call stack; and those that one OS thread alone runs.
CrossesDown(q, rank) ==
  \A v \in VMs : \A c \in q.calls[v] :
    /\ \A w \in c.back \ {v} : rank[w] < rank[v]
    /\ Natives[c.f].call_stack /\ c.back # {} => \A d \in q.calls[v] : d.back \subseteq {v}
OneEnters(q) == \E o \in OSThreads : \A p \in OSThreads \ {o} : q.enters[p] = {}

\* OS threads never wait for each other in a circle, by the locks of VMs and the
\* lock of the call stack: given that calls that cross VMs go one way only,
\* and from natives that do not hold the lock of the call stack.
NoCircularWait ==
  \A S \in (SUBSET OSThreads) \ {{}} : \E o \in S : WaitsFor(o) \cap S = {}

\* variant.h: from_luau "forces the value to refer to a Luau userdata pointer".
FromLuauRefers ==
  \A v \in VMs : \A i \in DOMAIN stack[v].args :
    LET lv == stack[v].args[i] IN
    lv.type # None /\ lv.from_luau => lv.data = "pointer"

=============================================================================
