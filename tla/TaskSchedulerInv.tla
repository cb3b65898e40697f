-------------------------- MODULE TaskSchedulerInv --------------------------
(***************************************************************************)
(* The inductive invariant behind the safety properties of TaskScheduler.  *)
(* NoLostWakeup alone is not inductive: that freeing a task or ending an   *)
(* on_signal strands nobody depends on what the call stack, the slots and  *)
(* the loop of frame hold at that moment.                                  *)
(***************************************************************************)
EXTENDS TaskScheduler

InList(k) == Contains(tasks, k)

\* Only a resume puts activations above frame; the loop is at an element then.
LoopInv ==
  /\ resuming => pos # 0
  /\ stack # <<>> /\ pos # 0 => resuming

\* No task is in the list twice; each belongs to a thread that is not collected.
ListInv ==
  /\ IsInjective(tasks)
  /\ \A k \in Tasks : InList(k) =>
       task[k].owner \in Threads /\ status[task[k].owner] # "new"

\* A thread is on the stack at most once, and Lua knows that it runs.
StackInv ==
  /\ \A i \in 1..Len(stack) :
       stack[i].kind = "run" => status[stack[i].thread] = "running"
  /\ \A i, j \in 1..Len(stack) :
       stack[i].kind = "run" /\ stack[j].kind = "run" /\ stack[i].thread = stack[j].thread
       => i = j

\* A signal's slots are tasks in the list that wait for that signal, each once.
SlotsInv ==
  \A s \in Signals :
    /\ \A k \in Tasks : Contains(slots[s], k) => InList(k) /\ task[k].signal = s
    /\ IsInjective(slots[s])

\* The waiters an emission will still call, and the one it is calling, exist.
EmissionInv ==
  \A i \in 1..Len(stack) : stack[i].kind = "emit" =>
    /\ stack[i].cur # NoTask => InList(stack[i].cur)
    /\ \A k \in Tasks : Contains(stack[i].queue, k) => InList(k)

\* A suspended thread has an unanswered task of its own, connected if it has a signal.
WaitInv ==
  \A t \in Threads : status[t] = "waiting" =>
    /\ wait[t] \in Tasks /\ InList(wait[t])
    /\ task[wait[t]].owner = t
    /\ ~task[wait[t]].got
    /\ task[wait[t]].signal # NoSignal => Contains(slots[task[wait[t]].signal], wait[t])

\* A task that is being answered is not the one its thread sits in.
AnsweringInv ==
  \A t \in Threads : status[t] = "waiting" =>
    /\ resuming => wait[t] # tasks[pos]
    /\ \A i \in 1..Len(stack) : stack[i].kind = "emit" => wait[t] # stack[i].cur

WakeupInv ==
  /\ TypeOK /\ LoopInv /\ ListInv /\ StackInv
  /\ SlotsInv /\ EmissionInv /\ WaitInv /\ AnsweringInv

----------------------------------------------------------------------------
(* What AnswersOwnWait needs besides, where Lua code keeps to its side. *)

\* The answer in progress at each level of the stack is the one its thread
\* waits for or, once it runs, has last waited for.
OwnInv ==
  /\ AnswersOwnWait
  /\ resuming /\ stack # <<>> =>
       stack[1].kind = "run" /\ stack[1].thread = task[tasks[pos]].owner
  /\ \A i \in 1..Len(stack) : stack[i].kind = "emit" /\ i < Len(stack) /\ stack[i].cur # NoTask =>
       stack[i+1].kind = "run" /\ stack[i+1].thread = task[stack[i].cur].owner

\* No two emissions of one signal; what they hold are waiters for that signal
\* that it has not answered, each once.
EmissionsInv ==
  /\ \A i, j \in 1..Len(stack) :
       stack[i].kind = "emit" /\ stack[j].kind = "emit" /\ stack[i].signal = stack[j].signal
       => i = j
  /\ \A i \in 1..Len(stack) : stack[i].kind = "emit" =>
       /\ stack[i].cur # NoTask => task[stack[i].cur].signal = stack[i].signal
       /\ \A k \in Tasks : Contains(stack[i].queue, k) =>
            task[k].signal = stack[i].signal /\ ~task[k].got /\ k # stack[i].cur
       /\ IsInjective(stack[i].queue)

\* A task that is connected has not been answered by its signal.
ConnectedInv ==
  \A s \in Signals, k \in Tasks : Contains(slots[s], k) => ~task[k].got

\* The thread of a task sits in its wait until the task answers: no task is left
\* that would resume a thread which has gone on to something else.
OpenInv ==
  \A k \in Tasks : InList(k) =>
    \/ status[task[k].owner] = "waiting" /\ wait[task[k].owner] = k
    \/ task[k].got
    \/ resuming /\ k = tasks[pos]
    \/ \E i \in 1..Len(stack) : stack[i].kind = "emit" /\ stack[i].cur = k

\* What a thread was told is forgotten once it has ended.
IdleInv == \A t \in Threads : status[t] \in {"new", "dead"} => answer[t] = "none"

DisciplineInv ==
  WakeupInv /\ OwnInv /\ EmissionsInv /\ ConnectedInv /\ OpenInv /\ IdleInv

=============================================================================
