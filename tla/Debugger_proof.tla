--------------------------- MODULE Debugger_proof ---------------------------
(* For any OS threads, VMs, programs and limits: a script has the same         *)
(* breakpoints in every VM, and no thread is ended before its time.            *)
EXTENDS Debugger, SequenceLemmas, SequenceTheorems, TLAPS

----------------------------------------------------------------------------
(* Every VM has the breakpoints of the script.                                 *)

ArmedInv == DOMAIN armed = VMs /\ loaded \subseteq VMs /\ ArmedAgree

\* The breakpoints of a script are in the function of each VM that loaded it.
THEOREM ArmedAgreeHolds == Spec => []ArmedAgree
<1>1. Init => ArmedInv
  BY DEF Init, ArmedInv, ArmedAgree
<1>2. ArmedInv /\ [Next]_vars => ArmedInv'
  <2> SUFFICES ASSUME ArmedInv, [Next]_vars PROVE ArmedInv'
    OBVIOUS
  <2> USE DEF ArmedInv, ArmedAgree
  <2>1. ASSUME NEW v \in VMs, ref_thread(v) PROVE ArmedInv'
    BY <2>1 DEF ref_thread
  <2>2. ASSUME NEW o \in OSThreads, Exec(o) PROVE ArmedInv'
    <3>1. CASE UNCHANGED <<breakpoints, armed>>
      BY <2>2, <3>1 DEF Exec
    <3>2. CASE \E l : insert_breakpoint(l)
      <4>1. PICK l : insert_breakpoint(l)
        BY <3>2
      <4>2. loaded' = loaded /\ armed' = [v \in VMs |-> armed'[v]]
        BY <2>2, <4>1 DEF Exec, insert_breakpoint
      <4>3. ASSUME NEW v \in loaded PROVE armed'[v] = breakpoints'
        BY <4>1 DEF insert_breakpoint
      <4> QED BY <4>2, <4>3
    <3> QED BY <2>2, <3>1, <3>2 DEF Exec
  <2>3. CASE UNCHANGED <<breakpoints, loaded, armed>>
    BY <2>3
  <2>4. ASSUME NEW o \in OSThreads, Step(o), ~Exec(o) PROVE UNCHANGED <<breakpoints, loaded, armed>>
    <3>1. Start(o) => UNCHANGED <<breakpoints, loaded, armed>>
      BY Zenon DEF Start
    <3>2. lua_debugstep(o) => UNCHANGED <<breakpoints, loaded, armed>>
      BY Zenon DEF lua_debugstep
    <3>3. lua_debugbreak(o) => UNCHANGED <<breakpoints, loaded, armed>>
      BY Zenon DEF lua_debugbreak
    <3>4. NoBreakpoint(o) => UNCHANGED <<breakpoints, loaded, armed>>
      BY Zenon DEF NoBreakpoint
    <3>5. WalkLevel(o) => UNCHANGED <<breakpoints, loaded, armed>>
      BY Zenon DEF WalkLevel
    <3>6. WalkEnds(o) => UNCHANGED <<breakpoints, loaded, armed>>
      BY Zenon DEF WalkEnds
    <3>7. DebugEnds(o) => UNCHANGED <<breakpoints, loaded, armed>>
      BY Zenon DEF DebugEnds
    <3>8. HandleError(o) => UNCHANGED <<breakpoints, loaded, armed>>
      BY Zenon DEF HandleError
    <3> QED BY <2>4, <3>1, <3>2, <3>3, <3>4, <3>5, <3>6, <3>7, <3>8 DEF Step
  <2>5. Tick => UNCHANGED <<breakpoints, loaded, armed>>
    BY DEF Tick
  <2> QED BY <2>1, <2>2, <2>3, <2>4, <2>5 DEF Next, vars
<1>3. ArmedInv => ArmedAgree
  BY DEF ArmedInv
<1> QED BY <1>1, <1>2, <1>3, PTL DEF Spec

----------------------------------------------------------------------------
(* No thread is ended before its time.                                         *)

\* What ended runs no more.
Rests(r) == r.at \in {"dead", "walk", "debug"} /\ (r.at = "walk" => ~r.step)

\* A thread r at time t, where deadlines before w are void: one that counts
\* gives it all of its time, and it was not ended before it had it.
ClockedAt(r, t, w) ==
  /\ {"deadline", "since", "error", "at", "step"} \subseteq DOMAIN r
  /\ r.error # None => Rests(r)
  /\ r.deadline \in Int /\ r.since \in Int /\ r.since <= t
  /\ r.deadline # 0 /\ r.deadline >= w => r.deadline >= r.since + Timeout
  /\ r.error = "timeout" => t - r.since > Timeout

AllAt(s, t, w) == \E S : s \in Seq(S) /\ \A r \in S : ClockedAt(r, t, w)

ClockInv ==
  /\ now \in Int /\ interrupt_reset \in Int
  /\ DOMAIN runs = OSThreads
  /\ \A o \in OSThreads : AllAt(runs[o], now, interrupt_reset)

\* None is no error for the time.
LEMMA NoneIsNoTimeout == None # "timeout"
BY NoneAssumption

\* Sequences of such threads: what is pushed and popped.
LEMMA AppendAll ==
  ASSUME NEW s, NEW t, NEW w, NEW r, AllAt(s, t, w), ClockedAt(r, t, w)
  PROVE  AllAt(Append(s, r), t, w)
<1>1. PICK S : s \in Seq(S) /\ \A x \in S : ClockedAt(x, t, w)
  BY DEF AllAt
<1>2. s \in Seq(S \cup {r})
  BY <1>1
<1>3. Append(s, r) \in Seq(S \cup {r})
  BY <1>2
<1>4. \A x \in S \cup {r} : ClockedAt(x, t, w)
  BY <1>1
<1> QED BY <1>3, <1>4 DEF AllAt

\* An OS thread that runs nothing has none.
LEMMA EmptyAll == ASSUME NEW t, NEW w PROVE AllAt(<< >>, t, w)
<1>1. PICK S : S = {}
  OBVIOUS
<1>2. << >> \in Seq(S) /\ \A r \in S : ClockedAt(r, t, w)
  BY <1>1
<1> QED BY <1>2 DEF AllAt

\* What is under the innermost thread, and that thread.
LEMMA FrontAll ==
  ASSUME NEW s, NEW t, NEW w, AllAt(s, t, w), s # << >>
  PROVE  AllAt(Front(s), t, w) /\ ClockedAt(Last(s), t, w)
<1>1. PICK S : s \in Seq(S) /\ \A x \in S : ClockedAt(x, t, w)
  BY DEF AllAt
<1>2. Front(s) \in Seq(S) /\ Last(s) \in S
  BY <1>1, FrontFacts
<1> QED BY <1>1, <1>2 DEF AllAt

\* The innermost thread in another state.
LEMMA WithTopAll ==
  ASSUME NEW s, NEW t, NEW w, NEW r, AllAt(s, t, w), s # << >>, ClockedAt(r, t, w)
  PROVE  AllAt(WithTop(s, r), t, w)
<1> QED BY FrontAll, AppendAll DEF WithTop

\* What has the clock of a thread of this kind is one.
LEMMA SameClock ==
  ASSUME NEW r, NEW q, NEW t, NEW w, ClockedAt(r, t, w), DOMAIN q = DOMAIN r,
         q.deadline = r.deadline, q.since = r.since, q.error = r.error, r.error # None => Rests(q)
  PROVE  ClockedAt(q, t, w)
<1> QED BY DEF ClockedAt

\* A thread goes on to its next instruction.
LEMMA AdvancedAll ==
  ASSUME NEW r, NEW t, NEW w, ClockedAt(r, t, w), r.error = None
  PROVE  ClockedAt(Advanced(r), t, w)
<1> DEFINE q == Advanced(r)
<1>1. {"deadline", "since", "error", "at", "step"} \subseteq DOMAIN r
  BY DEF ClockedAt
<1>2. DOMAIN q = DOMAIN r
  BY DEF Advanced
<1>3. q.deadline = r.deadline /\ q.since = r.since /\ q.error = r.error
  BY <1>1 DEF Advanced
<1> QED BY <1>2, <1>3, SameClock

\* What called a thread that is done: it goes on, or raises an error.
LEMMA WokenAll ==
  ASSUME NEW r, NEW d, NEW t, NEW w, ClockedAt(r, t, w)
  PROVE  ClockedAt(Woken(r, d), t, w)
<1> DEFINE q == [Advanced(r) EXCEPT !.broke = TRUE]
           e == Raised(r, "break in C")
<1>1. {"deadline", "since", "error", "at", "step"} \subseteq DOMAIN r
  BY DEF ClockedAt
<1>2. r.at = "wait" => r.error = None
  BY DEF ClockedAt, Rests
<1>3. ASSUME r.error = None PROVE ClockedAt(q, t, w)
  <2>1. ClockedAt(Advanced(r), t, w) /\ {"deadline", "since", "error", "at", "step"} \subseteq DOMAIN Advanced(r)
    BY <1>3, AdvancedAll DEF ClockedAt
  <2>2. Advanced(r).error = None
    BY <1>1, <1>3 DEF Advanced
  <2> DEFINE x == Advanced(r)
  <2> HIDE DEF x
  <2>3. /\ DOMAIN [x EXCEPT !.broke = TRUE] = DOMAIN x
        /\ [x EXCEPT !.broke = TRUE].deadline = x.deadline /\ [x EXCEPT !.broke = TRUE].since = x.since
        /\ [x EXCEPT !.broke = TRUE].error = x.error
    BY <2>1 DEF x
  <2> QED BY <2>1, <2>2, <2>3, SameClock DEF x
<1>4. ClockedAt(e, t, w)
  <2>1. DOMAIN e = DOMAIN r /\ e.deadline = r.deadline /\ e.since = r.since /\ e.error = "break in C" /\ e.at = "dead"
    BY <1>1 DEF Raised
  <2> HIDE DEF e
  <2>2. "break in C" # "timeout"
    OBVIOUS
  <2> QED BY <2>1, <2>2, ZenonT(30) DEF ClockedAt, Rests
<1>5. r.at = "wait" => ClockedAt(Interrupted(r), t, w) /\ ClockedAt(Advanced(r), t, w)
  BY <1>2, <1>3, <1>4, AdvancedAll DEF Interrupted
<1> QED BY <1>5 DEF Woken

\* The innermost thread is done, and the one that called it goes on.
LEMMA PoppedAll ==
  ASSUME NEW s, NEW t, NEW w, AllAt(s, t, w), s # << >>
  PROVE  AllAt(Popped(s), t, w)
<1>1. CASE Len(s) = 1
  BY <1>1, EmptyAll DEF Popped
<1>2. CASE Len(s) # 1
  <2> DEFINE below == s[Len(s) - 1]
  <2>1. PICK S : s \in Seq(S) /\ \A x \in S : ClockedAt(x, t, w)
    BY DEF AllAt
  <2>2. Len(s) \in Nat /\ Len(s) >= 1 /\ Len(Front(s)) = Len(s) - 1
    BY <2>1, FrontFacts
  <2>3. Len(s) >= 2 /\ Len(s) - 1 \in 1..Len(s)
    BY <1>2, <2>2
  <2>4. ClockedAt(below, t, w)
    BY <2>1, <2>3
  <2>5. Front(s) # << >> /\ AllAt(Front(s), t, w)
    BY <2>2, <2>3, FrontAll, Len(<< >>) = 0
  <2>6. ClockedAt(Woken(below, Last(s)), t, w)
    BY <2>4, WokenAll
  <2>7. Popped(s) = WithTop(Front(s), Woken(below, Last(s)))
    BY <1>2 DEF Popped
  <2> QED BY <2>5, <2>6, <2>7, WithTopAll
<1> QED BY <1>1, <1>2

\* The innermost function returns.
LEMMA ReturnedAll ==
  ASSUME NEW s, NEW t, NEW w, AllAt(s, t, w), s # << >>, NEW r, ClockedAt(r, t, w), r.error = None
  PROVE  AllAt(Returned(s, r), t, w)
<1> DEFINE q == [r EXCEPT !.frames = Front(@)]
<1>1. DOMAIN q = DOMAIN r /\ q.deadline = r.deadline /\ q.since = r.since /\ q.error = r.error
  BY DEF ClockedAt
<1>2. ClockedAt(Advanced(q), t, w)
  BY <1>1, SameClock, AdvancedAll
<1>3. Returned(s, r) = IF Depth(r) = 1 THEN Popped(s) ELSE WithTop(s, Advanced(q))
  BY DEF Returned
<1> QED BY <1>2, <1>3, PoppedAll, WithTopAll

----------------------------------------------------------------------------
(* What a step makes of the threads of one OS thread.                          *)

KeepsClock(o) ==
  \E s : AllAt(s, now, interrupt_reset) /\ runs' = [runs EXCEPT ![o] = s]

\* A step that changes the threads of one OS thread only.
LEMMA StepKeeps ==
  ASSUME ClockInv, NEW o \in OSThreads, KeepsClock(o), UNCHANGED <<now, interrupt_reset>>
  PROVE  ClockInv'
<1>1. PICK s : AllAt(s, now, interrupt_reset) /\ runs' = [runs EXCEPT ![o] = s]
  BY DEF KeepsClock
<1> QED BY <1>1 DEF ClockInv

\* The innermost thread of an OS thread has the clock of the invariant.
LEMMA TopClocked ==
  ASSUME ClockInv, NEW o \in OSThreads, Busy(o)
  PROVE  /\ AllAt(runs[o], now, interrupt_reset)
         /\ ClockedAt(Top(o), now, interrupt_reset)
<1> QED BY FrontAll DEF ClockInv, Busy, Top

\* A step of the innermost thread only.
LEMMA TopKept ==
  ASSUME ClockInv, NEW o \in OSThreads, Busy(o), NEW q, ClockedAt(q, now, interrupt_reset)
  PROVE  AllAt(WithTop(runs[o], q), now, interrupt_reset) /\ (SetTop(o, q) => KeepsClock(o))
<1>1. AllAt(WithTop(runs[o], q), now, interrupt_reset)
  BY TopClocked, WithTopAll DEF Busy
<1>2. SetTop(o, q) => runs' = [runs EXCEPT ![o] = WithTop(runs[o], q)]
  BY DEF SetTop, ClockInv
<1> QED BY <1>1, <1>2 DEF KeepsClock

\* A new thread has all of its time.
LEMMA NewRunClocked ==
  ASSUME ClockInv, NEW t, NEW v, NEW k, NEW f
  PROVE  ClockedAt(NewRun(t, v, k, f), now, interrupt_reset)
<1> QED BY NoneIsNoTimeout, TimeAssumption DEF NewRun, ClockInv, ClockedAt

\* So does one whose deadline is renewed, and one that ends for its time had it.
LEMMA RenewedClocked ==
  ASSUME ClockInv, NEW r, ClockedAt(r, now, interrupt_reset)
  PROVE  /\ r.error = None => ClockedAt(Renewed(r), now, interrupt_reset) /\ Renewed(r).error = None
         /\ Expired(r) => ClockedAt(Raised(r, "timeout"), now, interrupt_reset)
         /\ \A e : e # "timeout" => ClockedAt(Raised(r, e), now, interrupt_reset)
<1>1. now \in Int /\ interrupt_reset \in Int /\ Timeout \in Nat
  BY TimeAssumption DEF ClockInv
<1>2. ASSUME r.error = None PROVE ClockedAt(Renewed(r), now, interrupt_reset) /\ Renewed(r).error = None
  <2>1. CASE r.deadline # 0 /\ r.deadline < interrupt_reset
    BY <1>1, <1>2, <2>1, NoneIsNoTimeout DEF Renewed, ClockedAt
  <2>2. CASE ~(r.deadline # 0 /\ r.deadline < interrupt_reset)
    BY <1>2, <2>2 DEF Renewed
  <2> QED BY <2>1, <2>2
<1>3. Expired(r) => ClockedAt(Raised(r, "timeout"), now, interrupt_reset)
  BY <1>1 DEF Expired, Raised, ClockedAt, Rests
<1>4. \A e : e # "timeout" => ClockedAt(Raised(r, e), now, interrupt_reset)
  BY <1>1 DEF Raised, ClockedAt, Rests
<1> QED BY <1>2, <1>3, <1>4

\* A break that begins or is refused (debug_break).
LEMMA BreakKeeps ==
  ASSUME ClockInv, NEW o \in OSThreads, Busy(o), NEW r, ClockedAt(r, now, interrupt_reset),
         NEW is, NEW single, NEW passed, AllAt(passed, now, interrupt_reset),
         r.error # None => ~is, debug_break(o, r, is, single, passed)
  PROVE  KeepsClock(o)
<1> DEFINE q == [r EXCEPT !.at = "walk", !.step = is]
<1>1. DOMAIN q = DOMAIN r /\ q.deadline = r.deadline /\ q.since = r.since /\ q.error = r.error
      /\ (r.error # None => Rests(q))
  BY DEF ClockedAt, Rests
<1>2. ClockedAt(q, now, interrupt_reset)
  BY <1>1, SameClock
<1>3. SetTop(o, q) => KeepsClock(o)
  BY <1>2, TopKept
<1>4. CASE debugging
  BY <1>4 DEF debug_break, KeepsClock
<1>5. CASE ~debugging
  BY <1>3, <1>5 DEF debug_break
<1> QED BY <1>4, <1>5

----------------------------------------------------------------------------
(* Each action.                                                                *)

\* The hooks before an instruction change no clock.
LEMMA HooksKeep ==
  ASSUME ClockInv, NEW o \in OSThreads
  PROVE  /\ lua_debugstep(o) => KeepsClock(o)
         /\ lua_debugbreak(o) => KeepsClock(o)
         /\ NoBreakpoint(o) => KeepsClock(o)
<1> DEFINE r == Top(o)
           on(x) == [r EXCEPT !.at = x]
           q == [r EXCEPT !.hooked = TRUE]
           qon == [q EXCEPT !.at = "exec"]
<1>1. ASSUME At(o, "step") \/ At(o, "break")
      PROVE  /\ Busy(o) /\ r.error = None /\ ClockedAt(q, now, interrupt_reset)
             /\ ClockedAt(qon, now, interrupt_reset) /\ q.error = None
             /\ \A x : ClockedAt(on(x), now, interrupt_reset)
  <2>1. Busy(o) /\ ClockedAt(r, now, interrupt_reset) /\ r.at \in {"step", "break"}
    BY <1>1, TopClocked DEF At
  <2>2. r.error = None
    BY <2>1 DEF ClockedAt, Rests
  <2>3. q.error = None /\ qon.error = None /\ \A x : on(x).error = None
    BY <2>1, <2>2 DEF ClockedAt
  <2>4. ClockedAt(q, now, interrupt_reset)
    BY <2>1, <2>2, NoneIsNoTimeout DEF ClockedAt
  <2>5. ClockedAt(qon, now, interrupt_reset)
    BY <2>4, <2>3, NoneIsNoTimeout DEF ClockedAt
  <2>6. ASSUME NEW x PROVE ClockedAt(on(x), now, interrupt_reset)
    BY <2>1, <2>2, NoneIsNoTimeout DEF ClockedAt
  <2> QED BY <2>1, <2>2, <2>3, <2>4, <2>5, <2>6
<1> HIDE DEF q, qon, on, r
<1>2. ASSUME lua_debugstep(o) PROVE KeepsClock(o)
  <2>1. At(o, "step")
    BY <1>2 DEF lua_debugstep
  <2>2. /\ Busy(o) /\ r.error = None /\ ClockedAt(r, now, interrupt_reset)
        /\ AllAt(WithTop(runs[o], on("break")), now, interrupt_reset)
        /\ SetTop(o, on("break")) => KeepsClock(o)
    BY <1>1, <2>1, TopClocked, TopKept DEF r
  <2>3. SetTop(o, on("break")) \/ debug_break(o, r, TRUE, singlestep \ {r.thread}, WithTop(runs[o], on("break")))
    BY <1>2 DEF lua_debugstep, r, on
  <2> QED BY <2>2, <2>3, BreakKeeps
<1>3. ASSUME lua_debugbreak(o) PROVE KeepsClock(o)
  <2>1. At(o, "break")
    BY <1>3 DEF lua_debugbreak
  <2>2. /\ Busy(o) /\ q.error = None /\ ClockedAt(q, now, interrupt_reset)
        /\ AllAt(WithTop(runs[o], qon), now, interrupt_reset)
        /\ SetTop(o, qon) => KeepsClock(o)
    BY <1>1, <2>1, TopKept
  <2>3. SetTop(o, qon) \/ debug_break(o, q, FALSE, singlestep, WithTop(runs[o], qon))
    BY <1>3 DEF lua_debugbreak, r, q, qon
  <2> QED BY <2>2, <2>3, BreakKeeps
<1>4. ASSUME NoBreakpoint(o) PROVE KeepsClock(o)
  <2>1. At(o, "break") /\ SetTop(o, on("exec"))
    BY <1>4 DEF NoBreakpoint, r, on
  <2> QED BY <1>1, <2>1, TopKept
<1> QED BY <1>2, <1>3, <1>4

\* Collecting the stack changes no clock, and what Lua code it runs has its own.
LEMMA WalkKeeps ==
  ASSUME ClockInv, NEW o \in OSThreads
  PROVE  /\ WalkLevel(o) => KeepsClock(o)
         /\ WalkEnds(o) => KeepsClock(o)
<1> DEFINE r == Top(o)
<1>1. ASSUME At(o, "walk")
      PROVE  /\ Busy(o) /\ ClockedAt(r, now, interrupt_reset) /\ r.at = "walk"
             /\ {"deadline", "since", "error", "at", "step"} \subseteq DOMAIN r
             /\ (r.error # None => ~r.step)
  BY <1>1, TopClocked DEF At, ClockedAt, Rests
<1>2. ASSUME WalkLevel(o) PROVE KeepsClock(o)
  <2> DEFINE fr == r.frames[Depth(r) - r.level]
             q == [r EXCEPT !.got = TRUE]
             n == NewRun(FreeThread, r.vm, "resume", Programs[program].getter)
             u == [r EXCEPT !.level = @ + 1, !.got = FALSE,
                            !.found = @ \/ (r.step /\ fr.f = debug.base)]
  <2>1. At(o, "walk")
    BY <1>2 DEF WalkLevel
  <2>2. ClockedAt(q, now, interrupt_reset)
    <3>1. DOMAIN q = DOMAIN r /\ q.deadline = r.deadline /\ q.since = r.since /\ q.error = r.error
          /\ q.at = r.at /\ q.step = r.step
      BY <1>1, <2>1
    <3>2. q.error # None => Rests(q)
      BY <1>1, <2>1, <3>1 DEF Rests
    <3> QED BY <1>1, <2>1, <3>1, <3>2, SameClock
  <2>3. ClockedAt(u, now, interrupt_reset)
    <3>1. DOMAIN u = DOMAIN r /\ u.deadline = r.deadline /\ u.since = r.since /\ u.error = r.error
          /\ u.at = r.at /\ u.step = r.step
      BY <1>1, <2>1
    <3>2. u.error # None => Rests(u)
      BY <1>1, <2>1, <3>1 DEF Rests
    <3> QED BY <1>1, <2>1, <3>1, <3>2, SameClock
  <2>4. AllAt(Append(WithTop(runs[o], q), n), now, interrupt_reset)
    BY <1>1, <2>1, <2>2, TopKept, NewRunClocked, AppendAll
  <2>5. SetTop(o, u) => KeepsClock(o)
    BY <1>1, <2>1, <2>3, TopKept
  <2>6. \/ runs' = [runs EXCEPT ![o] = Append(WithTop(@, q), n)]
        \/ SetTop(o, u)
    BY <1>2 DEF WalkLevel
  <2>7. runs' = [runs EXCEPT ![o] = Append(WithTop(@, q), n)] => KeepsClock(o)
    BY <2>4 DEF KeepsClock, ClockInv
  <2> QED BY <2>5, <2>6, <2>7
<1>3. ASSUME WalkEnds(o) PROVE KeepsClock(o)
  <2> DEFINE q == [r EXCEPT !.level = 0, !.found = FALSE]
             a == [q EXCEPT !.at = "break", !.step = FALSE]
             d == [q EXCEPT !.at = "debug", !.broke = TRUE, !.stops = IF r.step \/ r.error # None THEN @ ELSE @ + 1]
             to == IF left_base(r) THEN a ELSE IF InC(r) THEN Raised(q, "break in C") ELSE d
  <2>1. At(o, "walk") /\ SetTop(o, to)
    BY <1>3 DEF WalkEnds
  <2>2. /\ DOMAIN q = DOMAIN r /\ q.deadline = r.deadline /\ q.since = r.since /\ q.error = r.error
        /\ q.at = r.at /\ q.step = r.step
    BY <1>1, <2>1
  <2>3. ClockedAt(q, now, interrupt_reset)
    <3>1. q.error # None => Rests(q)
      BY <1>1, <2>1, <2>2 DEF Rests
    <3> QED BY <1>1, <2>1, <2>2, <3>1, SameClock
  <2>4. ASSUME left_base(r) PROVE ClockedAt(a, now, interrupt_reset)
    <3>1. r.error = None
      BY <1>1, <2>1, <2>4 DEF left_base
    <3> QED BY <2>2, <2>3, <3>1, NoneIsNoTimeout DEF ClockedAt
  <2>5. ClockedAt(Raised(q, "break in C"), now, interrupt_reset)
    BY <2>3, RenewedClocked
  <2>6. ClockedAt(d, now, interrupt_reset)
    <3>1. DOMAIN d = DOMAIN q /\ d.deadline = q.deadline /\ d.since = q.since /\ d.error = q.error
          /\ d.at = "debug"
      BY <1>1, <2>1, <2>2
    <3>2. PICK x : x = d
      OBVIOUS
    <3>3. /\ DOMAIN x = DOMAIN q /\ x.deadline = q.deadline /\ x.since = q.since /\ x.error = q.error
          /\ Rests(x)
      BY <3>1, <3>2 DEF Rests
    <3>4. ClockedAt(x, now, interrupt_reset)
      BY <2>3, <3>3, SameClock
    <3> QED BY <3>2, <3>4
  <2>7. ClockedAt(to, now, interrupt_reset)
    BY <2>4, <2>5, <2>6
  <2> QED BY <1>1, <2>1, <2>7, TopKept
<1> QED BY <1>2, <1>3

\* What a thread does that has not ended.
LEMMA DoesKeep ==
  ASSUME ClockInv, NEW o \in OSThreads, Busy(o), Top(o).error = None,
         NEW r, ClockedAt(r, now, interrupt_reset), r.error = None, NEW i, Does(o, r, i)
  PROVE  KeepsClock(o)
<1>1. \A q : ClockedAt(q, now, interrupt_reset) /\ SetTop(o, q) => KeepsClock(o)
  BY TopKept
<1>2. {"deadline", "since", "error", "at", "step"} \subseteq DOMAIN r
  BY DEF ClockedAt
<1>3. ASSUME SetTop(o, Advanced(r)) PROVE KeepsClock(o)
  BY <1>1, <1>3, AdvancedAll
<1>4. ASSUME NEW f, SetTop(o, [r EXCEPT !.frames = f, !.at = "step", !.hooked = FALSE, !.stops = 0])
      PROVE  KeepsClock(o)
  <2> DEFINE q == [r EXCEPT !.frames = f, !.at = "step", !.hooked = FALSE, !.stops = 0]
  <2>1. DOMAIN q = DOMAIN r /\ q.deadline = r.deadline /\ q.since = r.since /\ q.error = r.error
    BY <1>2
  <2>2. ClockedAt(q, now, interrupt_reset)
    BY <2>1, SameClock
  <2> QED BY <1>1, <1>4, <2>2
<1>5. ASSUME SetTop(o, [r EXCEPT !.frames[Depth(r)].pc = 1, !.at = "step", !.hooked = FALSE, !.stops = 0])
      PROVE  KeepsClock(o)
  <2> DEFINE q == [r EXCEPT !.frames[Depth(r)].pc = 1, !.at = "step", !.hooked = FALSE, !.stops = 0]
  <2>1. DOMAIN q = DOMAIN r /\ q.deadline = r.deadline /\ q.since = r.since /\ q.error = r.error
    BY <1>2
  <2>2. ClockedAt(q, now, interrupt_reset)
    BY <2>1, SameClock
  <2> QED BY <1>1, <1>5, <2>2
<1>6. ASSUME NEW v, NEW k, NEW f, Calls(o, r, v, k, f) PROVE KeepsClock(o)
  <2> DEFINE q == [r EXCEPT !.at = "wait"]
             n == NewRun(FreeThread, v, k, f)
  <2>1. DOMAIN q = DOMAIN r /\ q.deadline = r.deadline /\ q.since = r.since /\ q.error = r.error
    BY <1>2
  <2>2. ClockedAt(q, now, interrupt_reset)
    BY <2>1, SameClock
  <2>3. AllAt(Append(WithTop(runs[o], q), n), now, interrupt_reset)
    BY <2>2, TopKept, NewRunClocked, AppendAll
  <2>4. runs' = [runs EXCEPT ![o] = Append(WithTop(@, q), n)]
    BY <1>6 DEF Calls
  <2> QED BY <2>3, <2>4 DEF KeepsClock, ClockInv
<1>7. ASSUME runs' = [runs EXCEPT ![o] = Returned(@, r)] PROVE KeepsClock(o)
  <2>1. AllAt(Returned(runs[o], r), now, interrupt_reset)
    BY ReturnedAll DEF Busy, ClockInv
  <2> QED BY <1>7, <2>1 DEF KeepsClock, ClockInv
<1>8. ASSUME SetTop(o, Raised(r, "error")) PROVE KeepsClock(o)
  BY <1>1, <1>8, RenewedClocked
<1>9. \/ SetTop(o, Advanced(r))
      \/ \E f : SetTop(o, [r EXCEPT !.frames = f, !.at = "step", !.hooked = FALSE, !.stops = 0])
      \/ SetTop(o, [r EXCEPT !.frames[Depth(r)].pc = 1, !.at = "step", !.hooked = FALSE, !.stops = 0])
      \/ \E v, k, f : Calls(o, r, v, k, f)
      \/ runs' = [runs EXCEPT ![o] = Returned(@, r)]
      \/ SetTop(o, Raised(r, "error"))
  BY Zenon DEF Does
<1> QED BY <1>3, <1>4, <1>5, <1>6, <1>7, <1>8, <1>9

\* An instruction, which may find its thread's time over (lua_interrupt).
LEMMA ExecKeeps ==
  ASSUME ClockInv, NEW o \in OSThreads, Exec(o)
  PROVE  KeepsClock(o)
<1> DEFINE r == Top(o)
           i == Instr(Here(r))
<1>1. At(o, "exec")
  BY DEF Exec
<1>2. Busy(o) /\ ClockedAt(r, now, interrupt_reset) /\ r.error = None
  BY <1>1, TopClocked DEF At, ClockedAt, Rests
<1>3. ASSUME Expired(r), SetTop(o, Raised(r, "timeout")) PROVE KeepsClock(o)
  BY <1>2, <1>3, RenewedClocked, TopKept
<1>4. ASSUME Does(o, r, i) PROVE KeepsClock(o)
  BY <1>2, <1>4, DoesKeep
<1>5. ASSUME Does(o, Renewed(r), i) PROVE KeepsClock(o)
  BY <1>2, <1>5, RenewedClocked, DoesKeep
<1>6. (Expired(r) /\ SetTop(o, Raised(r, "timeout"))) \/ Does(o, r, i) \/ Does(o, Renewed(r), i)
  BY DEF Exec
<1> QED BY <1>3, <1>4, <1>5, <1>6

\* A thread is begun by the engine, or has ended with an error.
LEMMA OthersKeep ==
  ASSUME ClockInv, NEW o \in OSThreads
  PROVE  /\ Start(o) => KeepsClock(o)
         /\ HandleError(o) => KeepsClock(o)
<1>1. ASSUME Start(o) PROVE KeepsClock(o)
  <2>1. PICK e : runs' = [runs EXCEPT ![o] = <<NewRun(FreeThread, e.vm, e.kind, e.f)>>]
    BY <1>1 DEF Start
  <2> DEFINE n == NewRun(FreeThread, e.vm, e.kind, e.f)
  <2>2. ClockedAt(n, now, interrupt_reset)
    BY NewRunClocked
  <2> HIDE DEF n
  <2>3. AllAt(Append(<< >>, n), now, interrupt_reset)
    BY <2>2, EmptyAll, AppendAll
  <2>4. Append(<< >>, n) = <<n>>
    OBVIOUS
  <2> QED BY <2>1, <2>3, <2>4 DEF KeepsClock, n
<1>2. ASSUME HandleError(o) PROVE KeepsClock(o)
  <2> DEFINE r == Top(o)
  <2>1. At(o, "dead")
    BY <1>2 DEF HandleError
  <2>2. /\ Busy(o) /\ ClockedAt(r, now, interrupt_reset)
        /\ AllAt(Popped(runs[o]), now, interrupt_reset)
    BY <2>1, TopClocked, PoppedAll DEF At, Busy
  <2>3. \/ runs' = [runs EXCEPT ![o] = Popped(@)]
        \/ debug_break(o, r, FALSE, singlestep, Popped(runs[o]))
    BY <1>2 DEF HandleError
  <2>4. runs' = [runs EXCEPT ![o] = Popped(@)] => KeepsClock(o)
    BY <2>2 DEF KeepsClock, ClockInv
  <2> QED BY <2>2, <2>3, <2>4, BreakKeeps
<1> QED BY <1>1, <1>2

\* The break ends: the threads under it have all of their time again, and the
\* deadlines of the others are void until now or give them that.
LEMMA DebugEndsKeeps ==
  ASSUME ClockInv, NEW o \in OSThreads, DebugEnds(o)
  PROVE  ClockInv'
<1> DEFINE r == Top(o)
           s == [i \in DOMAIN runs[o] |-> Rested(runs[o][i])]
           q == [Last(s) EXCEPT !.at = "step", !.step = FALSE]
           w == now + Timeout
<1>1. At(o, "debug") /\ Busy(o) /\ ClockedAt(r, now, interrupt_reset)
  BY TopClocked DEF DebugEnds, At
<1>2. now' = now /\ interrupt_reset' = w /\ now \in Int /\ w \in Int
  BY TimeAssumption DEF DebugEnds, ClockInv, reset_at
<1>3. ASSUME NEW x, ClockedAt(x, now, interrupt_reset)
      PROVE  ClockedAt(x, now, w) /\ ClockedAt(Rested(x), now, w)
  BY <1>2, <1>3, TimeAssumption, NoneIsNoTimeout DEF ClockedAt, Rested, Rests
<1>4. \A p \in OSThreads : AllAt(runs[p], now, w)
  BY <1>3 DEF ClockInv, AllAt
<1>5. PICK S : runs[o] \in Seq(S) /\ \A x \in S : ClockedAt(x, now, interrupt_reset)
  BY DEF ClockInv, AllAt
<1> DEFINE R == {Rested(x) : x \in S}
<1>6. s \in Seq(R) /\ Len(s) = Len(runs[o]) /\ DOMAIN s = 1..Len(runs[o])
  BY <1>5
<1>7. \A x \in R : ClockedAt(x, now, w)
  BY <1>3, <1>5
<1>8. AllAt(s, now, w) /\ s # << >> /\ Last(s) = Rested(r)
  <2>1. Len(runs[o]) \in Nat /\ Len(runs[o]) >= 1 /\ Last(runs[o]) = runs[o][Len(runs[o])]
    BY <1>1, <1>5, FrontFacts DEF Busy
  <2>2. s # << >>
    BY <1>6, <2>1
  <2>3. Last(s) = s[Len(runs[o])]
    BY <1>6, <2>2, FrontFacts
  <2>4. s[Len(runs[o])] = Rested(runs[o][Len(runs[o])])
    BY <1>5, <2>1
  <2> QED BY <1>6, <1>7, <2>1, <2>2, <2>3, <2>4 DEF AllAt, Top
<1>9. r.error = None => ClockedAt(q, now, w)
  <2>1. ClockedAt(Rested(r), now, w) /\ (r.error = None => Rested(r).error = None)
    BY <1>1, <1>3 DEF Rested, ClockedAt
  <2> HIDE DEF r, s
  <2> QED BY <1>8, <2>1, NoneIsNoTimeout DEF ClockedAt
<1>10. AllAt(IF r.error # None THEN Popped(s) ELSE WithTop(s, q), now, w)
  BY <1>8, <1>9, PoppedAll, WithTopAll
<1>11. runs' = [runs EXCEPT ![o] = IF r.error # None THEN Popped(s) ELSE WithTop(s, q)]
  BY DEF DebugEnds
<1> HIDE DEF r, s, q, w
<1> QED BY <1>2, <1>4, <1>10, <1>11 DEF ClockInv

\* A thread ended for its time had all of it since it began or was last seen by the user.
THEOREM TimeoutsFairHolds == Spec => []TimeoutsFair
<1>1. Init => ClockInv
  BY EmptyAll DEF Init, ClockInv
<1>2. ClockInv /\ [Next]_vars => ClockInv'
  <2> SUFFICES ASSUME ClockInv, [Next]_vars PROVE ClockInv'
    OBVIOUS
  <2>1. ASSUME UNCHANGED <<runs, now, interrupt_reset>> PROVE ClockInv'
    BY <2>1 DEF ClockInv
  <2>2. ASSUME Tick PROVE ClockInv'
    <3>1. now' = now + 1 /\ UNCHANGED <<runs, interrupt_reset>> /\ now \in Int
      BY <2>2 DEF Tick, ClockInv
    <3>2. ASSUME NEW x, ClockedAt(x, now, interrupt_reset) PROVE ClockedAt(x, now + 1, interrupt_reset)
      BY <3>1, <3>2, TimeAssumption DEF ClockedAt
    <3>3. \A o \in OSThreads : AllAt(runs[o], now + 1, interrupt_reset)
      BY <3>2 DEF ClockInv, AllAt
    <3> QED BY <3>1, <3>3 DEF ClockInv
  <2>3. ASSUME NEW v \in VMs, ref_thread(v) PROVE ClockInv'
    BY <2>1, <2>3 DEF ref_thread
  <2>4. ASSUME NEW o \in OSThreads, Step(o), ~DebugEnds(o) PROVE ClockInv'
    <3>1. KeepsClock(o)
      BY <2>4, HooksKeep, WalkKeeps, ExecKeeps, OthersKeep DEF Step
    <3>2. UNCHANGED <<now, interrupt_reset>>
      <4>1. Start(o) => UNCHANGED <<now, interrupt_reset>>
        BY Zenon DEF Start
      <4>2. lua_debugstep(o) => UNCHANGED <<now, interrupt_reset>>
        BY Zenon DEF lua_debugstep
      <4>3. lua_debugbreak(o) => UNCHANGED <<now, interrupt_reset>>
        BY Zenon DEF lua_debugbreak
      <4>4. NoBreakpoint(o) => UNCHANGED <<now, interrupt_reset>>
        BY Zenon DEF NoBreakpoint
      <4>5. Exec(o) => UNCHANGED <<now, interrupt_reset>>
        BY Zenon DEF Exec
      <4>6. WalkLevel(o) => UNCHANGED <<now, interrupt_reset>>
        BY Zenon DEF WalkLevel
      <4>7. WalkEnds(o) => UNCHANGED <<now, interrupt_reset>>
        BY Zenon DEF WalkEnds
      <4>8. HandleError(o) => UNCHANGED <<now, interrupt_reset>>
        BY Zenon DEF HandleError
      <4> QED BY <2>4, <4>1, <4>2, <4>3, <4>4, <4>5, <4>6, <4>7, <4>8 DEF Step
    <3> QED BY <3>1, <3>2, StepKeeps
  <2>5. ASSUME NEW o \in OSThreads, DebugEnds(o) PROVE ClockInv'
    BY <2>5, DebugEndsKeeps
  <2>6. CASE UNCHANGED vars
    BY <2>1, <2>6 DEF vars
  <2> QED BY <2>2, <2>3, <2>4, <2>5, <2>6 DEF Next
<1>3. ClockInv => TimeoutsFair
  <2> SUFFICES ASSUME ClockInv, NEW o \in OSThreads, NEW r \in ToSet(runs[o])
               PROVE  r.error = "timeout" => now - r.since > Timeout
    BY DEF TimeoutsFair
  <2>1. PICK S : runs[o] \in Seq(S) /\ \A x \in S : ClockedAt(x, now, interrupt_reset)
    BY DEF ClockInv, AllAt
  <2>2. r \in S
    BY <2>1 DEF ToSet
  <2> QED BY <2>1, <2>2 DEF ClockedAt
<1> QED BY <1>1, <1>2, <1>3, PTL DEF Spec
=============================================================================
