------------------------------- MODULE Waits -------------------------------
(***************************************************************************)
(* What `wait` and `wait_signal` promise the thread that calls them (the   *)
(* declarations in definitions/luauLibTypes.part.d.lua): the call ends at  *)
(* most once, with its own kind of answer, and with `true` exactly when    *)
(* the signal was emitted before the time ran out.  No tasks, no list, no  *)
(* call stack: TaskScheduler is shown to implement this.                   *)
(***************************************************************************)
CONSTANTS Threads, Signals

VARIABLES
  phase,  \* "idle", "running" or "waiting"
  want,   \* what the thread waits for: "time", a signal, or "nothing"
  heard,  \* was the signal it waits for emitted since the call?
  answer  \* what the wait that ended last returned

vars == <<phase, want, heard, answer>>

Init ==
  /\ phase = [t \in Threads |-> "idle"]
  /\ want = [t \in Threads |-> "nothing"]
  /\ heard = [t \in Threads |-> FALSE]
  /\ answer = [t \in Threads |-> "none"]

Begin(t) ==
  /\ phase[t] = "idle"
  /\ phase' = [phase EXCEPT ![t] = "running"]
  /\ UNCHANGED <<want, heard, answer>>

End(t) ==
  /\ phase[t] = "running"
  /\ phase' = [phase EXCEPT ![t] = "idle"]
  /\ answer' = [answer EXCEPT ![t] = "none"]
  /\ UNCHANGED <<want, heard>>

Call(t, w) ==
  /\ phase[t] = "running"
  /\ phase' = [phase EXCEPT ![t] = "waiting"]
  /\ want' = [want EXCEPT ![t] = w]
  /\ answer' = [answer EXCEPT ![t] = "none"]
  /\ UNCHANGED heard

Emitted(s) ==
  /\ heard' = [t \in Threads |-> heard[t] \/ want[t] = s]
  /\ UNCHANGED <<phase, want, answer>>

Return(t, a) ==
  /\ phase[t] = "waiting"
  /\ phase' = [phase EXCEPT ![t] = "running"]
  /\ want' = [want EXCEPT ![t] = "nothing"]
  /\ heard' = [heard EXCEPT ![t] = FALSE]
  /\ answer' = [answer EXCEPT ![t] = a]

\* A thread that heard its signal is told so; it no longer times out.
Signalled(t) == heard[t] /\ Return(t, "signalled")
TimedOut(t) == ~heard[t] /\ Return(t, IF want[t] = "time" THEN "elapsed" ELSE "timed out")

Next ==
  \/ \E t \in Threads :
       \/ Begin(t) \/ End(t) \/ Signalled(t) \/ TimedOut(t)
       \/ \E w \in Signals \cup {"time"} : Call(t, w)
  \/ \E s \in Signals : Emitted(s)

Spec == Init /\ [][Next]_vars

=============================================================================
