------------------------- MODULE TaskSchedulerWaits -------------------------
(***************************************************************************)
(* How TaskScheduler implements Waits: what the tasks, the slots and the   *)
(* emissions on the call stack mean for the thread that called the wait.   *)
(***************************************************************************)
EXTENDS TaskSchedulerInv

\* What a thread waits for is told apart from no signal's name.
ASSUME NamesAssumption == "time" \notin Signals /\ "nothing" \notin Signals

Waiting(t) == status[t] = "waiting"

Phase == [t \in Threads |->
  IF status[t] \in {"new", "dead"} THEN "idle" ELSE status[t]]

Want == [t \in Threads |->
  IF ~Waiting(t) THEN "nothing"
  ELSE IF task[wait[t]].signal = NoSignal THEN "time" ELSE task[wait[t]].signal]

\* An emission in progress has the thread's waiter among the slots to call.
Heard == [t \in Threads |->
  Waiting(t) /\ \E f \in ToSet(stack) : f.kind = "emit" /\ wait[t] \in ToSet(f.queue)]

Promise == INSTANCE Waits WITH phase <- Phase, want <- Want, heard <- Heard

\* wait and wait_signal keep their promise (under the discipline AnswersOwnWait
\* names): every step of the scheduler is a step of Waits or changes nothing there.
KeepsPromise == Promise!Spec

=============================================================================
