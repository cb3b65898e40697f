---------------------- MODULE TaskSchedulerWaits_proof ----------------------
(***************************************************************************)
(* Proofs that a thread is only ever told the answer to the wait it sits   *)
(* in, and that TaskScheduler implements Waits, for Lua code that keeps    *)
(* its side: no signal is emitted during its own emission, no thread that  *)
(* sits in a wait is resumed by hand.                                      *)
(***************************************************************************)
EXTENDS TaskSchedulerWaits, TaskScheduler_proof

\* What DisciplineInv adds to WakeupInv.
AnswersInv == OwnInv /\ EmissionsInv /\ ConnectedInv /\ OpenInv /\ IdleInv

----------------------------------------------------------------------------
(* The call stack *)

\* The activations of Lua threads are threads that run.
LEMMA RunsRun ==
  ASSUME WakeupInv
  PROVE  /\ DOMAIN stack = 1..Len(stack) /\ Len(stack) \in Nat
         /\ \A i \in 1..Len(stack) : stack[i].kind = "run" =>
              stack[i].thread \in Threads /\ status[stack[i].thread] = "running"
<1>1. stack \in Seq(Frames)
  BY DEF WakeupInv, TypeOK, Frames
<1>2. \A i \in 1..Len(stack) : stack[i] \in Frames
  BY <1>1, ElementOfSeq
<1> QED BY <1>1, <1>2, LenProperties DEF Frames, RunFrame, EmitFrame, WakeupInv, StackInv

\* No activation of a Lua thread but the one on top is of the thread on top.
LEMMA TopIsAlone ==
  ASSUME WakeupInv, NEW t \in Threads, Running(t), stack' = Front(stack)
  PROVE  LET n == Len(stack) IN
         /\ n \in Nat /\ n >= 1 /\ Len(stack') = n - 1
         /\ stack[n].kind = "run" /\ stack[n].thread = t /\ status[t] = "running"
         /\ \A i \in 1..Len(stack') : i \in 1..n /\ i # n /\ stack'[i] = stack[i]
         /\ \A i \in 1..Len(stack') : stack[i].kind = "run" => stack[i].thread # t
<1>1. TypeOK /\ stack # <<>>
  BY DEF WakeupInv, Running
<1>2. /\ Len(stack) \in Nat /\ Len(stack) >= 1 /\ Len(stack') = Len(stack) - 1
      /\ \A i \in 1..(Len(stack) - 1) : stack'[i] = stack[i]
      /\ Last(stack) = stack[Len(stack)]
  BY <1>1, TopType
<1>3. stack[Len(stack)].kind = "run" /\ stack[Len(stack)].thread = t
  BY <1>2 DEF Running
<1>4. Len(stack) \in 1..Len(stack)
  BY <1>2
<1>5. status[t] = "running"
  BY <1>3, <1>4 DEF WakeupInv, StackInv
<1>6. \A i \in 1..Len(stack') : i \in 1..Len(stack) /\ i # Len(stack) /\ stack'[i] = stack[i]
  BY <1>2
<1>7. \A i \in 1..Len(stack') : stack[i].kind = "run" => stack[i].thread # t
  BY <1>3, <1>4, <1>6 DEF WakeupInv, StackInv
<1> QED BY <1>2, <1>3, <1>5, <1>6, <1>7

\* Taking the first of a queue without repetitions takes out all of it.
LEMMA TailInjective ==
  ASSUME NEW q \in Seq(Tasks), q # <<>>, IsInjective(q)
  PROVE  IsInjective(Tail(q)) /\ ~Contains(Tail(q), Head(q))
<1>1. Tail(q) \in Seq(Tasks) /\ Len(q) \in Nat /\ Len(q) >= 1 /\ Len(Tail(q)) = Len(q) - 1
  BY EmptySeq, HeadTailProperties
<1>2. \A i \in 1..Len(Tail(q)) : Tail(q)[i] = q[i + 1] /\ i + 1 \in 1..Len(q) /\ i + 1 # 1
  BY <1>1, HeadTailProperties
<1>3. Head(q) = q[1] /\ 1 \in 1..Len(q)
  BY <1>1
<1>4. \A i, j \in 1..Len(q) : q[i] = q[j] => i = j
  BY InjectiveFacts
<1>5. \A i, j \in 1..Len(Tail(q)) : Tail(q)[i] = Tail(q)[j] => i = j
  <2> SUFFICES ASSUME NEW i \in 1..Len(Tail(q)), NEW j \in 1..Len(Tail(q)), Tail(q)[i] = Tail(q)[j]
               PROVE  i = j
    OBVIOUS
  <2>1. i + 1 = j + 1
    BY <1>2, <1>4
  <2>2. i \in Nat /\ j \in Nat
    BY <1>1
  <2> QED BY <2>1, <2>2
<1>6. IsInjective(Tail(q))
  BY <1>1, <1>5, InjectiveFacts
<1>7. \A i \in 1..Len(Tail(q)) : Tail(q)[i] # Head(q)
  BY <1>2, <1>3, <1>4
<1> QED BY <1>6, <1>7 DEF Contains

\* It leaves all the others.
LEMMA TailKeeps ==
  ASSUME NEW q \in Seq(Tasks), q # <<>>
  PROVE  \A x : Contains(q, x) /\ x # Head(q) => Contains(Tail(q), x)
<1>1. Len(q) \in Nat /\ Len(q) >= 1 /\ Len(Tail(q)) = Len(q) - 1
  BY EmptySeq, HeadTailProperties
<1>2. \A i \in 1..Len(Tail(q)) : Tail(q)[i] = q[i + 1]
  BY HeadTailProperties
<1> SUFFICES ASSUME NEW i \in 1..Len(q), q[i] # Head(q)
             PROVE  \E j \in 1..Len(Tail(q)) : Tail(q)[j] = q[i]
  BY DEF Contains
<1>3. Head(q) = q[1]
  BY <1>1
<1>4. i # 1
  BY <1>3
<1>5. i - 1 \in 1..Len(Tail(q)) /\ (i - 1) + 1 = i
  BY <1>1, <1>4
<1> QED BY <1>2, <1>5

\* The emissions that go on as they are keep what holds of them.
LEMMA SameEmissions ==
  ASSUME EmissionsInv, task' = task,
         \A i \in 1..Len(stack') : stack'[i].kind = "emit" => i \in 1..Len(stack) /\ stack'[i] = stack[i]
  PROVE  EmissionsInv'
<1>1. \A i, j \in 1..Len(stack') :
        stack'[i].kind = "emit" /\ stack'[j].kind = "emit" /\ stack'[i].signal = stack'[j].signal
        => i = j
  BY DEF EmissionsInv
<1>2. ASSUME NEW i \in 1..Len(stack'), stack'[i].kind = "emit"
      PROVE  /\ stack'[i].cur # NoTask => task'[stack'[i].cur].signal = stack'[i].signal
             /\ \A k \in Tasks : Contains(stack'[i].queue, k) =>
                  task'[k].signal = stack'[i].signal /\ ~task'[k].got /\ k # stack'[i].cur
             /\ IsInjective(stack'[i].queue)
  <2>1. i \in 1..Len(stack) /\ stack'[i] = stack[i] /\ stack[i].kind = "emit"
    BY <1>2
  <2> QED BY <2>1 DEF EmissionsInv
<1> QED BY <1>1, <1>2 DEF EmissionsInv

----------------------------------------------------------------------------
(* The invariant behind AnswersOwnWait: one lemma for each kind of step *)

\* The engine or Lua code calls a Lua function.
LEMMA StartAnswers ==
  ASSUME WakeupInv, TypeOK', AnswersInv, NEW t \in Threads, Start(t)
  PROVE  AnswersInv'
<1> DEFINE n == Len(stack)
<1>1. TypeOK /\ [kind |-> "run", thread |-> t] \in Frames
  BY DEF WakeupInv, RunFrame, Frames
<1>2. /\ n \in Nat /\ Len(stack') = n + 1
      /\ stack'[n + 1] = [kind |-> "run", thread |-> t]
      /\ \A i \in 1..n : stack'[i] = stack[i]
  BY <1>1, PushType DEF Start
<1>3. \A i \in 1..Len(stack') : i \in 1..n \/ i = n + 1
  BY <1>2
<1>4. /\ UNCHANGED <<tasks, task, pos, resuming, slots, wait, answer>>
      /\ status[t] = "new" /\ status'[t] = "running"
      /\ \A u \in Threads : u # t => status'[u] = status[u]
  BY <1>1 DEF Start, frameVars, TypeOK
<1>5. DOMAIN stack' = 1..Len(stack') /\ DOMAIN stack = 1..n
  BY <1>1, LenProperties DEF TypeOK
<1>6. n = 0 => ~resuming
  BY <1>1, EmptySeq DEF Start, MayCall, WakeupInv, LoopInv, TypeOK
<1>7. n # 0 /\ stack[n].kind = "emit" => stack[n].cur = NoTask
  <2>1. n # 0 => stack # <<>>
    BY EmptySeq
  <2>2. stack # <<>> => Last(stack) = stack[n]
    BY <1>1, TopType
  <2> QED BY <2>1, <2>2 DEF Start, MayCall
<1>8. n # 0 => n \in 1..n /\ 1 \in 1..n
  BY <1>2
<1>9. OwnInv'
  <2>1. ASSUME NEW i \in 1..Len(stack'), stack'[i].kind = "run"
        PROVE  /\ i = 1 /\ resuming => wait[stack'[i].thread] = tasks[pos]
               /\ i > 1 /\ stack'[i-1].kind = "emit" /\ stack'[i-1].cur # NoTask =>
                    wait[stack'[i].thread] = stack'[i-1].cur
    <3>1. CASE i \in 1..n
      <4>1. i > 1 => i - 1 \in 1..n
        BY <1>2, <3>1
      <4> QED BY <1>2, <1>5, <2>1, <3>1, <4>1 DEF AnswersInv, OwnInv, AnswersOwnWait
    <3>2. CASE i = n + 1
      <4>1. i > 1 => i - 1 = n /\ n # 0
        BY <1>2, <3>2
      <4>2. i = 1 => n = 0
        BY <1>2, <3>2
      <4> QED BY <1>2, <1>6, <1>7, <1>8, <4>1, <4>2
    <3> QED BY <1>3, <3>1, <3>2
  <2>2. AnswersOwnWait'
    BY <1>4, <1>5, <2>1 DEF AnswersOwnWait
  <2>3. resuming => n # 0 /\ stack # <<>>
    BY <1>6, EmptySeq
  <2>4. ASSUME NEW i \in 1..Len(stack'), stack'[i].kind = "emit", i < Len(stack'), stack'[i].cur # NoTask
        PROVE  stack'[i+1].kind = "run" /\ stack'[i+1].thread = task[stack'[i].cur].owner
    <3>1. i \in 1..n /\ stack'[i] = stack[i]
      BY <1>2, <2>4
    <3>2. i # n
      BY <1>7, <1>2, <2>4, <3>1
    <3>3. i + 1 \in 1..n /\ i < n
      BY <1>2, <3>1, <3>2
    <3> QED BY <1>2, <2>4, <3>1, <3>3 DEF AnswersInv, OwnInv
  <2> QED BY <1>2, <1>4, <1>8, <2>2, <2>3, <2>4 DEF AnswersInv, OwnInv
<1>10. EmissionsInv'
  <2>1. \A i \in 1..Len(stack') : stack'[i].kind = "emit" => i \in 1..n /\ stack'[i] = stack[i]
    BY <1>2, <1>3
  <2> QED BY <1>4, <2>1, SameEmissions DEF AnswersInv
<1>11. ConnectedInv'
  BY <1>4 DEF AnswersInv, ConnectedInv
<1>12. OpenInv'
  <2>1. \A i \in 1..n : i \in 1..Len(stack')
    BY <1>2
  <2>2. \A k \in Tasks : InList(k) => task[k].owner \in Threads
    BY DEF WakeupInv, ListInv
  <2>3. \A k : InList(k)' <=> InList(k)
    BY <1>4 DEF InList
  <2> SUFFICES ASSUME NEW k \in Tasks, InList(k)
               PROVE  \/ status'[task[k].owner] = "waiting" /\ wait[task[k].owner] = k
                      \/ task[k].got
                      \/ resuming /\ k = tasks[pos]
                      \/ \E i \in 1..Len(stack') : stack'[i].kind = "emit" /\ stack'[i].cur = k
    BY <1>4, <2>3 DEF OpenInv
  <2> QED BY <1>2, <1>4, <2>1, <2>2 DEF AnswersInv, OpenInv
<1>13. IdleInv'
  BY <1>4 DEF AnswersInv, IdleInv
<1> QED BY <1>9, <1>10, <1>11, <1>12, <1>13 DEF AnswersInv

\* A thread ends.
LEMMA FinishAnswers ==
  ASSUME WakeupInv, TypeOK', AnswersInv, NEW t \in Threads, Finish(t)
  PROVE  AnswersInv'
<1> DEFINE n == Len(stack)
<1>1. /\ n \in Nat /\ n >= 1 /\ Len(stack') = n - 1
      /\ stack[n].kind = "run" /\ stack[n].thread = t /\ status[t] = "running"
      /\ \A i \in 1..Len(stack') : i \in 1..n /\ i # n /\ stack'[i] = stack[i]
      /\ \A i \in 1..Len(stack') : stack[i].kind = "run" => stack[i].thread # t
  BY TopIsAlone DEF Finish
<1>2. /\ UNCHANGED <<tasks, task, pos, resuming, slots>>
      /\ status'[t] = "dead" /\ answer'[t] = "none"
      /\ \A u \in Threads : u # t =>
           status'[u] = status[u] /\ answer'[u] = answer[u] /\ wait'[u] = wait[u]
  BY DEF Finish, frameVars, TypeOK, WakeupInv
<1>3. DOMAIN stack' = 1..Len(stack') /\ DOMAIN stack = 1..n
  BY LenProperties DEF TypeOK, WakeupInv
<1>4. \A i \in 1..n : stack[i].kind = "run" => stack[i].thread \in Threads
  BY RunsRun
<1>5. OwnInv'
  <2>1. ASSUME NEW i \in 1..Len(stack'), stack'[i].kind = "run"
        PROVE  /\ i = 1 /\ resuming => wait'[stack'[i].thread] = tasks[pos]
               /\ i > 1 /\ stack'[i-1].kind = "emit" /\ stack'[i-1].cur # NoTask =>
                    wait'[stack'[i].thread] = stack'[i-1].cur
    <3>1. i > 1 => i - 1 \in 1..Len(stack')
      BY <1>1
    <3>2. wait'[stack'[i].thread] = wait[stack[i].thread] /\ stack'[i] = stack[i] /\ i \in 1..n
      BY <1>1, <1>2, <1>4, <2>1
    <3>3. i > 1 => stack'[i-1] = stack[i-1]
      BY <1>1, <3>1
    <3> QED BY <1>3, <2>1, <3>2, <3>3 DEF AnswersInv, OwnInv, AnswersOwnWait
  <2>2. AnswersOwnWait'
    BY <1>2, <1>3, <2>1 DEF AnswersOwnWait
  <2>3. stack' # <<>> => 1 \in 1..Len(stack') /\ stack # <<>>
    <3>1. stack' # <<>> => Len(stack') # 0
      BY EmptySeq DEF TypeOK
    <3> QED BY <1>1, <3>1, EmptySeq
  <2>4. ASSUME NEW i \in 1..Len(stack'), i < Len(stack')
        PROVE  i \in 1..n /\ i < n /\ stack'[i] = stack[i] /\ stack'[i+1] = stack[i+1]
    <3>1. i + 1 \in 1..Len(stack') /\ i < n
      <4>1. n \in Nat /\ n >= 1 /\ Len(stack') = n - 1
        BY <1>1
      <4> QED BY <2>4, <4>1
    <3>2. stack'[i+1] = stack[i+1]
      BY <1>1, <3>1
    <3> QED BY <1>1, <3>1, <3>2
  <2>5. resuming /\ stack' # <<>> => stack'[1].kind = "run" /\ stack'[1].thread = task[tasks[pos]].owner
    BY <1>1, <2>3 DEF AnswersInv, OwnInv
  <2>6. \A i \in 1..Len(stack') :
          stack'[i].kind = "emit" /\ i < Len(stack') /\ stack'[i].cur # NoTask =>
          stack'[i+1].kind = "run" /\ stack'[i+1].thread = task[stack'[i].cur].owner
    BY <2>4 DEF AnswersInv, OwnInv
  <2> QED BY <1>2, <2>2, <2>5, <2>6 DEF OwnInv
<1>6. EmissionsInv'
  BY <1>1, <1>2, SameEmissions DEF AnswersInv
<1>7. ConnectedInv'
  BY <1>2 DEF AnswersInv, ConnectedInv
<1>8. OpenInv'
  <2>1. \A i \in 1..n : stack[i].kind = "emit" => i \in 1..Len(stack')
    BY <1>1
  <2>2. \A k \in Tasks : InList(k) => task[k].owner \in Threads
    BY DEF WakeupInv, ListInv
  <2>3. \A k : InList(k)' <=> InList(k)
    BY <1>2 DEF InList
  <2> SUFFICES ASSUME NEW k \in Tasks, InList(k)
               PROVE  \/ status'[task[k].owner] = "waiting" /\ wait'[task[k].owner] = k
                      \/ task[k].got
                      \/ resuming /\ k = tasks[pos]
                      \/ \E i \in 1..Len(stack') : stack'[i].kind = "emit" /\ stack'[i].cur = k
    BY <1>2, <2>3 DEF OpenInv
  <2>4. status[task[k].owner] = "waiting" =>
          /\ status'[task[k].owner] = "waiting"
          /\ wait'[task[k].owner] = wait[task[k].owner]
    BY <1>1, <1>2, <2>2
  <2>5. \A i \in 1..n : stack[i].kind = "emit" => stack'[i] = stack[i] /\ i \in 1..Len(stack')
    BY <1>1, <2>1
  <2> QED BY <2>4, <2>5 DEF AnswersInv, OpenInv
<1>9. IdleInv'
  BY <1>2 DEF AnswersInv, IdleInv
<1> QED BY <1>5, <1>6, <1>7, <1>8, <1>9 DEF AnswersInv

\* A thread is collected.
LEMMA CollectAnswers ==
  ASSUME WakeupInv, TypeOK', AnswersInv, NEW t \in Threads, Collect(t)
  PROVE  AnswersInv'
<1>1. /\ UNCHANGED <<tasks, task, pos, resuming, slots, stack>>
      /\ status[t] # "running" /\ status'[t] = "new" /\ answer'[t] = "none"
      /\ \A u \in Threads : u # t =>
           status'[u] = status[u] /\ answer'[u] = answer[u] /\ wait'[u] = wait[u]
  BY DEF Collect, frameVars, WakeupInv, TypeOK
<1>2. \A k \in Tasks : InList(k) => task[k].owner # t /\ task[k].owner \in Threads
  <2>1. \A k \in Tasks : InList(k) => k \in Live
    BY <1>1, ToSetFacts DEF InList, Contains, Live, TypeOK, WakeupInv
  <2> QED BY <2>1 DEF Collect, WakeupInv, ListInv
<1>3. \A i \in 1..Len(stack) : stack[i].kind = "run" =>
        wait'[stack[i].thread] = wait[stack[i].thread]
  BY <1>1, RunsRun
<1>4. OwnInv'
  BY <1>1, <1>3, RunsRun DEF AnswersInv, OwnInv, AnswersOwnWait
<1>5. EmissionsInv' /\ ConnectedInv'
  BY <1>1 DEF AnswersInv, EmissionsInv, ConnectedInv
<1>6. OpenInv'
  <2>1. \A k : InList(k)' <=> InList(k)
    BY <1>1 DEF InList
  <2> QED BY <1>1, <1>2, <2>1 DEF AnswersInv, OpenInv
<1>7. IdleInv'
  BY <1>1 DEF AnswersInv, IdleInv
<1> QED BY <1>4, <1>5, <1>6, <1>7 DEF AnswersInv

\* A thread calls wait (s is NoSignal) or wait_signal.
LEMMA CallAnswers ==
  ASSUME WakeupInv, TypeOK', AnswersInv, NEW t \in Threads, NEW k \in Tasks, NEW left,
         NEW s \in Signals \cup {NoSignal},
         Running(t), RegisterTask(t, k, s, left), Suspend(t, k, left), UNCHANGED resuming,
         \/ s = NoSignal /\ slots' = slots
         \/ s \in Signals /\ slots' = [slots EXCEPT ![s] = Append(@, k)]
  PROVE  AnswersInv'
<1> DEFINE n == Len(stack)
<1>0. TypeOK
  BY DEF WakeupInv
<1>1. /\ n \in Nat /\ n >= 1 /\ Len(stack') = n - 1
      /\ stack[n].kind = "run" /\ stack[n].thread = t /\ status[t] = "running"
      /\ \A i \in 1..Len(stack') : i \in 1..n /\ i # n /\ stack'[i] = stack[i]
      /\ \A i \in 1..Len(stack') : stack[i].kind = "run" => stack[i].thread # t
  BY TopIsAlone DEF Suspend
<1>2. /\ status'[t] = "waiting" /\ wait'[t] = k
      /\ \A u \in Threads : u # t => status'[u] = status[u] /\ answer'[u] = answer[u] /\ wait'[u] = wait[u]
  BY <1>0 DEF Suspend, TypeOK
<1>3. DOMAIN stack' = 1..Len(stack') /\ DOMAIN stack = 1..n
  BY <1>0, LenProperties DEF TypeOK
<1>4. \A i \in 1..n : stack[i].kind = "run" => stack[i].thread \in Threads
  BY RunsRun
<1>5. ~InList(k) /\ \A x : InList(x)' <=> InList(x) \/ x = k
  BY <1>0, Registered, ZenonT(60) DEF InList
<1>6. /\ \A x \in Tasks : x # k => task'[x] = task[x]
      /\ task'[k].owner = t /\ task'[k].got = FALSE
  BY <1>0 DEF RegisterTask, TypeOK
<1>7. resuming => pos # 0 /\ pos' # 0 /\ tasks'[pos'] = tasks[pos] /\ tasks[pos] \in Tasks /\ InList(tasks[pos])
  <2>1. resuming => pos # 0
    BY DEF WakeupInv, LoopInv
  <2>2. resuming => tasks[pos] \in Tasks /\ InList(tasks[pos])
    BY <1>0, <2>1, AtTaskType DEF InList, Contains
  <2>3. resuming => pos' # 0 /\ tasks'[pos'] = tasks[pos]
    BY <1>0, <2>1, Registered
  <2> QED BY <2>1, <2>2, <2>3
<1>8. \A i \in 1..n : stack[i].kind = "emit" =>
        /\ stack[i].cur # NoTask => stack[i].cur \in Tasks /\ task'[stack[i].cur] = task[stack[i].cur]
        /\ \A x \in Tasks : Contains(stack[i].queue, x) => task'[x] = task[x]
  <2>1. \A i \in 1..n : stack[i] \in Frames
    BY <1>0, ElementOfSeq DEF TypeOK, Frames
  <2>2. \A i \in 1..n : stack[i].kind = "emit" => stack[i] \in EmitFrame
    BY <2>1 DEF Frames, RunFrame, EmitFrame
  <2>3. \A i \in 1..n : stack[i].kind = "emit" => stack[i].cur \in Tasks \cup {NoTask}
    BY <2>2 DEF EmitFrame
  <2> QED BY <1>5, <1>6, <2>3 DEF WakeupInv, EmissionInv
<1>9. OwnInv'
  <2>1. ASSUME NEW i \in 1..Len(stack'), stack'[i].kind = "run"
        PROVE  /\ i = 1 /\ resuming => wait'[stack'[i].thread] = tasks[pos]
               /\ i > 1 /\ stack'[i-1].kind = "emit" /\ stack'[i-1].cur # NoTask =>
                    wait'[stack'[i].thread] = stack'[i-1].cur
    <3>1. i > 1 => i - 1 \in 1..Len(stack')
      BY <1>1
    <3>2. wait'[stack'[i].thread] = wait[stack[i].thread] /\ stack'[i] = stack[i] /\ i \in 1..n
      BY <1>1, <1>2, <1>4, <2>1
    <3>3. i > 1 => stack'[i-1] = stack[i-1]
      BY <1>1, <3>1
    <3> QED BY <1>3, <2>1, <3>2, <3>3 DEF AnswersInv, OwnInv, AnswersOwnWait
  <2>2. AnswersOwnWait'
    BY <1>3, <1>7, <2>1 DEF AnswersOwnWait
  <2>3. stack' # <<>> => 1 \in 1..Len(stack') /\ stack # <<>>
    <3>1. stack' # <<>> => Len(stack') # 0
      BY EmptySeq DEF TypeOK
    <3> QED BY <1>1, <3>1, EmptySeq
  <2>4. ASSUME NEW i \in 1..Len(stack'), i < Len(stack')
        PROVE  i \in 1..n /\ i < n /\ stack'[i] = stack[i] /\ stack'[i+1] = stack[i+1]
    <3>1. i \in Nat /\ i + 1 \in 1..(n - 1) /\ i < n
      <4>1. n \in Nat /\ n >= 1 /\ Len(stack') = n - 1
        BY <1>1
      <4> QED BY <2>4, <4>1
    <3>2. stack'[i+1] = stack[i+1]
      BY <1>1, <3>1
    <3> QED BY <1>1, <3>1, <3>2
  <2>5. resuming /\ stack' # <<>> =>
          stack'[1].kind = "run" /\ stack'[1].thread = task'[tasks'[pos']].owner
    BY <1>1, <1>5, <1>6, <1>7, <2>3 DEF AnswersInv, OwnInv
  <2>6. \A i \in 1..Len(stack') :
          stack'[i].kind = "emit" /\ i < Len(stack') /\ stack'[i].cur # NoTask =>
          stack'[i+1].kind = "run" /\ stack'[i+1].thread = task'[stack'[i].cur].owner
    BY <1>8, <2>4 DEF AnswersInv, OwnInv
  <2> QED BY <2>2, <2>5, <2>6 DEF OwnInv
<1>10. EmissionsInv'
  <2>1. EmissionsInv
    BY DEF AnswersInv
  <2>2. \A i, j \in 1..Len(stack') :
          stack'[i].kind = "emit" /\ stack'[j].kind = "emit" /\ stack'[i].signal = stack'[j].signal
          => i = j
    BY <1>1, <2>1 DEF EmissionsInv
  <2>3. ASSUME NEW i \in 1..Len(stack'), stack'[i].kind = "emit"
        PROVE  /\ stack'[i].cur # NoTask => task'[stack'[i].cur].signal = stack'[i].signal
               /\ \A x \in Tasks : Contains(stack'[i].queue, x) =>
                    task'[x].signal = stack'[i].signal /\ ~task'[x].got /\ x # stack'[i].cur
               /\ IsInjective(stack'[i].queue)
    <3>1. i \in 1..n /\ stack'[i] = stack[i] /\ stack[i].kind = "emit"
      BY <1>1, <2>3
    <3> QED BY <1>8, <2>1, <3>1 DEF EmissionsInv
  <2> QED BY <2>2, <2>3 DEF EmissionsInv
<1>11. ConnectedInv'
  <2>1. \A r \in Signals, x \in Tasks : Contains(slots'[r], x) => Contains(slots[r], x) \/ x = k
    <3>1. CASE s = NoSignal /\ slots' = slots
      BY <3>1
    <3>2. CASE s \in Signals /\ slots' = [slots EXCEPT ![s] = Append(@, k)]
      <4>1. slots[s] \in Seq(Tasks)
        BY <1>0, <3>2 DEF TypeOK
      <4>2. slots'[s] = Append(slots[s], k) /\ \A r \in Signals : r # s => slots'[r] = slots[r]
        BY <1>0, <3>2 DEF TypeOK
      <4>3. \A x : Contains(slots'[s], x) <=> Contains(slots[s], x) \/ x = k
        BY <4>1, <4>2, AppendElements
      <4> QED BY <4>2, <4>3
    <3> QED BY <3>1, <3>2
  <2> QED BY <1>6, <2>1 DEF AnswersInv, ConnectedInv
<1>12. OpenInv'
  <2>1. ASSUME NEW x \in Tasks, InList(x), x # k
        PROVE  \/ status'[task[x].owner] = "waiting" /\ wait'[task[x].owner] = x
               \/ task[x].got
               \/ resuming /\ x = tasks[pos]
               \/ \E i \in 1..Len(stack') : stack'[i].kind = "emit" /\ stack'[i].cur = x
    <3>1. task[x].owner \in Threads
      BY <2>1 DEF WakeupInv, ListInv
    <3>2. status[task[x].owner] = "waiting" =>
            /\ status'[task[x].owner] = "waiting"
            /\ wait'[task[x].owner] = wait[task[x].owner]
      BY <1>1, <1>2, <3>1
    <3>3. \A i \in 1..n : stack[i].kind = "emit" => i \in 1..Len(stack')
      BY <1>1
    <3>4. \A i \in 1..n : stack[i].kind = "emit" => stack'[i] = stack[i] /\ i \in 1..Len(stack')
      BY <1>1, <3>3
    <3> QED BY <2>1, <3>2, <3>4 DEF AnswersInv, OpenInv
  <2> QED BY <1>2, <1>5, <1>6, <1>7, <2>1 DEF OpenInv
<1>13. IdleInv'
  BY <1>2 DEF AnswersInv, IdleInv
<1> QED BY <1>9, <1>10, <1>11, <1>12, <1>13 DEF AnswersInv

\* An emission begins: no other emission of its signal is in progress.
LEMMA EmitAnswers ==
  ASSUME WakeupInv, TypeOK', AnswersInv, ~ReentrantEmit, NEW s \in Signals, Emit(s)
  PROVE  AnswersInv'
<1> DEFINE n == Len(stack)
           f == [kind |-> "emit", signal |-> s, cur |-> NoTask, queue |-> slots[s]]
<1>1. /\ TypeOK /\ f \in Frames
      /\ f.kind = "emit" /\ f.signal = s /\ f.cur = NoTask /\ f.queue = slots[s]
  BY DEF WakeupInv, TypeOK, EmitFrame, Frames
<1>2. /\ n \in Nat /\ Len(stack') = n + 1 /\ stack'[n + 1] = f
      /\ \A i \in 1..n : stack'[i] = stack[i]
  BY <1>1, PushType DEF Emit
<1> HIDE DEF f
<1>3. \A i \in 1..Len(stack') : i \in 1..n \/ i = n + 1
  BY <1>2
<1>4. UNCHANGED <<tasks, task, pos, resuming, slots, status, wait, answer>>
  BY DEF Emit, frameVars
<1>5. DOMAIN stack' = 1..Len(stack') /\ DOMAIN stack = 1..n
  BY <1>1, LenProperties DEF TypeOK
<1>6. n = 0 => ~resuming
  BY <1>1, EmptySeq DEF Emit, MayCall, WakeupInv, LoopInv, TypeOK
<1>7. n # 0 /\ stack[n].kind = "emit" => stack[n].cur = NoTask
  <2>1. n # 0 => stack # <<>>
    BY EmptySeq
  <2>2. stack # <<>> => Last(stack) = stack[n]
    BY <1>1, TopType
  <2> QED BY <2>1, <2>2 DEF Emit, MayCall
<1>8. n # 0 => n \in 1..n /\ 1 \in 1..n
  BY <1>2
<1>9. \A i \in 1..n : stack[i].kind = "emit" => stack[i].signal # s
  <2>1. s \notin Emitting
    BY DEF Emit
  <2>2. \A i \in 1..n : stack[i] \in ToSet(stack)
    BY <1>1, ToSetFacts DEF TypeOK
  <2> QED BY <2>1, <2>2 DEF Emitting
<1>10. OwnInv'
  <2>1. ASSUME NEW i \in 1..Len(stack'), stack'[i].kind = "run"
        PROVE  /\ i = 1 /\ resuming => wait[stack'[i].thread] = tasks[pos]
               /\ i > 1 /\ stack'[i-1].kind = "emit" /\ stack'[i-1].cur # NoTask =>
                    wait[stack'[i].thread] = stack'[i-1].cur
    <3>1. i \in 1..n
      BY <1>1, <1>2, <1>3, <2>1
    <3>2. i > 1 => i - 1 \in 1..n
      BY <1>2, <3>1
    <3> QED BY <1>2, <1>5, <2>1, <3>1, <3>2 DEF AnswersInv, OwnInv, AnswersOwnWait
  <2>2. AnswersOwnWait'
    BY <1>4, <1>5, <2>1 DEF AnswersOwnWait
  <2>3. resuming => n # 0 /\ stack # <<>>
    BY <1>6, EmptySeq
  <2>4. ASSUME NEW i \in 1..Len(stack'), stack'[i].kind = "emit", i < Len(stack'), stack'[i].cur # NoTask
        PROVE  stack'[i+1].kind = "run" /\ stack'[i+1].thread = task[stack'[i].cur].owner
    <3>1. i \in 1..n /\ stack'[i] = stack[i]
      BY <1>2, <2>4
    <3>2. i # n
      BY <1>7, <1>2, <2>4, <3>1
    <3>3. i + 1 \in 1..n /\ i < n
      BY <1>2, <3>1, <3>2
    <3> QED BY <1>2, <2>4, <3>1, <3>3 DEF AnswersInv, OwnInv
  <2> QED BY <1>2, <1>4, <1>8, <2>2, <2>3, <2>4 DEF AnswersInv, OwnInv
<1>11. EmissionsInv'
  <2>1. \A i, j \in 1..Len(stack') :
          stack'[i].kind = "emit" /\ stack'[j].kind = "emit" /\ stack'[i].signal = stack'[j].signal
          => i = j
    BY <1>1, <1>2, <1>3, <1>9 DEF AnswersInv, EmissionsInv
  <2>2. /\ f.cur = NoTask /\ IsInjective(f.queue)
        /\ \A k \in Tasks : Contains(f.queue, k) =>
             task[k].signal = f.signal /\ ~task[k].got /\ k # f.cur
    BY <1>1, SentinelsAssumption DEF AnswersInv, ConnectedInv, WakeupInv, SlotsInv
  <2> QED BY <1>2, <1>3, <1>4, <2>1, <2>2 DEF AnswersInv, EmissionsInv
<1>12. ConnectedInv' /\ IdleInv'
  BY <1>4 DEF AnswersInv, ConnectedInv, IdleInv
<1>13. OpenInv'
  <2>1. \A i \in 1..n : i \in 1..Len(stack')
    BY <1>2
  <2>2. \A k : InList(k)' <=> InList(k)
    BY <1>4 DEF InList
  <2> QED BY <1>2, <1>4, <2>1, <2>2 DEF AnswersInv, OpenInv
<1> QED BY <1>10, <1>11, <1>12, <1>13 DEF AnswersInv

\* An emission ends; it was calling nobody any more.
LEMMA EmitEndAnswers ==
  ASSUME WakeupInv, TypeOK', AnswersInv, EmitEnd
  PROVE  AnswersInv'
<1> DEFINE n == Len(stack)
<1>1. /\ TypeOK /\ stack # <<>> /\ n \in Nat /\ n >= 1 /\ Len(stack') = n - 1
      /\ \A i \in 1..(n - 1) : stack'[i] = stack[i]
      /\ stack[n].kind = "emit" /\ stack[n].cur = NoTask
  BY TopType DEF WakeupInv, EmitEnd, InEmission
<1>2. \A i \in 1..Len(stack') : i \in 1..n /\ i # n /\ stack'[i] = stack[i]
  BY <1>1
<1>3. UNCHANGED <<tasks, task, pos, resuming, slots, status, answer, wait>>
  BY DEF EmitEnd, frameVars
<1>4. DOMAIN stack' = 1..Len(stack') /\ DOMAIN stack = 1..n
  BY <1>1, LenProperties DEF TypeOK
<1>5. OwnInv'
  <2>1. ASSUME NEW i \in 1..Len(stack'), stack'[i].kind = "run"
        PROVE  /\ i = 1 /\ resuming => wait[stack'[i].thread] = tasks[pos]
               /\ i > 1 /\ stack'[i-1].kind = "emit" /\ stack'[i-1].cur # NoTask =>
                    wait[stack'[i].thread] = stack'[i-1].cur
    <3>1. i > 1 => i - 1 \in 1..Len(stack')
      BY <1>1
    <3>2. i > 1 => stack'[i-1] = stack[i-1]
      BY <1>2, <3>1
    <3>3. i \in 1..n /\ stack'[i] = stack[i]
      BY <1>2
    <3>4. /\ i = 1 /\ resuming => wait[stack[i].thread] = tasks[pos]
          /\ i > 1 /\ stack[i-1].kind = "emit" /\ stack[i-1].cur # NoTask =>
               wait[stack[i].thread] = stack[i-1].cur
      BY <1>4, <2>1, <3>3 DEF AnswersInv, OwnInv, AnswersOwnWait
    <3> QED BY <3>2, <3>3, <3>4
  <2>2. AnswersOwnWait'
    BY <1>3, <1>4, <2>1 DEF AnswersOwnWait
  <2>3. stack' # <<>> => 1 \in 1..Len(stack')
    BY <1>1, EmptySeq DEF TypeOK
  <2>4. ASSUME NEW i \in 1..Len(stack'), i < Len(stack')
        PROVE  i \in 1..n /\ i < n /\ stack'[i] = stack[i] /\ stack'[i+1] = stack[i+1]
    <3>1. i + 1 \in 1..Len(stack') /\ i < n
      BY <1>1, <2>4
    <3>2. stack'[i+1] = stack[i+1]
      BY <1>2, <3>1
    <3> QED BY <1>2, <3>1, <3>2
  <2>5. resuming /\ stack' # <<>> => stack'[1].kind = "run" /\ stack'[1].thread = task[tasks[pos]].owner
    BY <1>1, <1>2, <2>3 DEF AnswersInv, OwnInv
  <2>6. \A i \in 1..Len(stack') :
          stack'[i].kind = "emit" /\ i < Len(stack') /\ stack'[i].cur # NoTask =>
          stack'[i+1].kind = "run" /\ stack'[i+1].thread = task[stack'[i].cur].owner
    BY <2>4 DEF AnswersInv, OwnInv
  <2> QED BY <1>3, <2>2, <2>5, <2>6 DEF OwnInv
<1>6. EmissionsInv'
  BY <1>2, <1>3, SameEmissions DEF AnswersInv
<1>7. ConnectedInv' /\ IdleInv'
  BY <1>3 DEF AnswersInv, ConnectedInv, IdleInv
<1>8. OpenInv'
  <2>1. \A i \in 1..n : i # n => i \in 1..Len(stack') /\ stack'[i] = stack[i]
    BY <1>1
  <2>2. \A k \in Tasks : k # stack[n].cur
    BY <1>1, SentinelsAssumption
  <2>3. \A k : InList(k)' <=> InList(k)
    BY <1>3 DEF InList
  <2> QED BY <1>3, <2>1, <2>2, <2>3 DEF AnswersInv, OpenInv
<1> QED BY <1>5, <1>6, <1>7, <1>8 DEF AnswersInv

\* The thread that on_signal resumes sits in the wait on_signal answers.
LEMMA OnSignalOwnWait ==
  ASSUME WakeupInv, AnswersInv, OnSignal
  PROVE  LET k == Head(Last(stack).queue) IN InList(k) /\ wait[task[k].owner] = k
<1> DEFINE n == Len(stack)
           k == Head(Last(stack).queue)
           t == task[k].owner
<1>1. /\ TypeOK /\ n \in Nat /\ n >= 1
      /\ stack[n] \in EmitFrame /\ stack[n].cur = NoTask /\ stack[n].queue # <<>>
      /\ k = Head(stack[n].queue) /\ k \in Tasks
      /\ t \in Threads /\ status[t] = "waiting"
  BY OnSignalStack DEF WakeupInv
<1>2. n \in 1..n /\ stack[n].kind = "emit" /\ stack[n].queue \in Seq(Tasks) /\ stack # <<>>
  BY <1>1, EmptySeq DEF EmitFrame
<1>3. Contains(stack[n].queue, k)
  BY <1>1, <1>2, TailElements
<1> HIDE DEF k, n
<1>4. InList(k) /\ ~task[k].got
  BY <1>1, <1>2, <1>3 DEF WakeupInv, EmissionInv, AnswersInv, EmissionsInv, n
<1>5. k # NoTask
  BY <1>1, SentinelsAssumption
<1>6. CASE resuming /\ k = tasks[pos]
  <2>1. stack[1].kind = "run" /\ stack[1].thread = t
    BY <1>2, <1>6 DEF AnswersInv, OwnInv
  <2>2. 1 \in 1..n
    BY <1>1
  <2> QED BY <1>1, <2>1, <2>2 DEF WakeupInv, StackInv, n
<1>7. CASE \E i \in 1..n : stack[i].kind = "emit" /\ stack[i].cur = k
  <2>1. PICK i \in 1..n : stack[i].kind = "emit" /\ stack[i].cur = k
    BY <1>7
  <2>2. i # n
    BY <1>1, <1>5, <2>1
  <2>3. i < n /\ i + 1 \in 1..n
    BY <1>1, <2>1, <2>2
  <2>4. stack[i+1].kind = "run" /\ stack[i+1].thread = t
    BY <1>5, <2>1, <2>3 DEF AnswersInv, OwnInv, n
  <2> QED BY <1>1, <2>3, <2>4 DEF WakeupInv, StackInv, n
<1> QED BY <1>1, <1>4, <1>6, <1>7 DEF AnswersInv, OpenInv, n, k

\* on_signal resumes the thread of its waiter.
LEMMA OnSignalAnswers ==
  ASSUME WakeupInv, TypeOK', AnswersInv, OnSignal
  PROVE  AnswersInv'
<1> DEFINE n == Len(stack)
           k == Head(Last(stack).queue)
           t == task[k].owner
<1>1. /\ TypeOK /\ n \in Nat /\ n >= 1 /\ Len(stack') = n + 1
      /\ \A i \in 1..(n - 1) : stack'[i] = stack[i]
      /\ stack[n] \in EmitFrame /\ stack[n].cur = NoTask /\ stack[n].queue # <<>>
      /\ k = Head(stack[n].queue) /\ k \in Tasks
      /\ t \in Threads /\ status[t] = "waiting"
      /\ stack'[n] = [stack[n] EXCEPT !.cur = k, !.queue = Tail(@)]
      /\ stack'[n + 1] = [kind |-> "run", thread |-> t]
  BY OnSignalStack DEF WakeupInv
<1>2. InList(k) /\ wait[t] = k
  BY OnSignalOwnWait
<1>3. /\ UNCHANGED <<tasks, task, pos, resuming, slots, wait>> /\ stack # <<>>
      /\ status' = [status EXCEPT ![t] = "running"] /\ answer' = [answer EXCEPT ![t] = "signalled"]
  BY DEF OnSignal, frameVars, Resumed, InEmission
<1> HIDE DEF t
<1>4. /\ status'[t] = "running"
      /\ \A u \in Threads : u # t => status'[u] = status[u] /\ answer'[u] = answer[u]
  BY <1>1, <1>3 DEF TypeOK
<1>5. /\ stack[n].kind = "emit" /\ stack[n].queue \in Seq(Tasks)
      /\ stack'[n].kind = "emit" /\ stack'[n].cur = k /\ stack'[n].signal = stack[n].signal
      /\ stack'[n].queue = Tail(stack[n].queue)
      /\ stack'[n + 1].kind = "run" /\ stack'[n + 1].thread = t
  BY <1>1 DEF EmitFrame
<1>6. n \in 1..n /\ 1..(n - 1) \subseteq 1..n
      /\ \A i \in 1..Len(stack') : i \in 1..(n - 1) \/ i = n \/ i = n + 1
  BY <1>1
<1>7. Contains(stack[n].queue, k) /\ \A x : Contains(stack'[n].queue, x) => Contains(stack[n].queue, x)
  BY <1>1, <1>5, TailElements
<1>8. IsInjective(stack'[n].queue) /\ ~Contains(stack'[n].queue, k)
  <2>1. IsInjective(stack[n].queue)
    BY <1>5, <1>6 DEF AnswersInv, EmissionsInv
  <2> QED BY <1>1, <1>5, <2>1, TailInjective
<1> HIDE DEF k
<1>9. k # NoTask
  BY <1>1, SentinelsAssumption
<1>10. DOMAIN stack' = 1..Len(stack') /\ DOMAIN stack = 1..n
  BY <1>1, LenProperties DEF TypeOK
<1>11. OwnInv'
  <2>1. ASSUME NEW i \in 1..Len(stack'), stack'[i].kind = "run"
        PROVE  /\ i = 1 /\ resuming => wait[stack'[i].thread] = tasks[pos]
               /\ i > 1 /\ stack'[i-1].kind = "emit" /\ stack'[i-1].cur # NoTask =>
                    wait[stack'[i].thread] = stack'[i-1].cur
    <3>1. CASE i \in 1..(n - 1)
      <4>1. i > 1 => i - 1 \in 1..(n - 1)
        BY <1>1, <3>1
      <4>2. stack'[i] = stack[i] /\ (i > 1 => stack'[i-1] = stack[i-1]) /\ i \in 1..n
        BY <1>1, <1>6, <3>1, <4>1
      <4> QED BY <1>10, <2>1, <4>2 DEF AnswersInv, OwnInv, AnswersOwnWait
    <3>2. CASE i = n + 1
      <4>1. i - 1 = n /\ i # 1
        BY <1>1, <3>2
      <4> QED BY <1>2, <1>5, <3>2, <4>1
    <3> QED BY <1>5, <1>6, <2>1, <3>1, <3>2
  <2>2. AnswersOwnWait'
    BY <1>3, <1>10, <2>1 DEF AnswersOwnWait
  <2>3. resuming => stack'[1].kind = "run" /\ stack'[1].thread = task[tasks[pos]].owner
    <3>1. resuming => stack[1].kind = "run" /\ stack[1].thread = task[tasks[pos]].owner
      BY <1>3 DEF AnswersInv, OwnInv
    <3>2. resuming => n # 1
      BY <1>5, <3>1
    <3>3. n # 1 => 1 \in 1..(n - 1)
      <4>1. n \in Nat /\ n >= 1
        BY <1>1
      <4> HIDE DEF n
      <4> QED BY <4>1
    <3>4. n # 1 => stack'[1] = stack[1]
      BY <1>1, <3>3
    <3> QED BY <3>1, <3>2, <3>4
  <2>4. ASSUME NEW i \in 1..Len(stack'), stack'[i].kind = "emit", i < Len(stack'), stack'[i].cur # NoTask
        PROVE  stack'[i+1].kind = "run" /\ stack'[i+1].thread = task[stack'[i].cur].owner
    <3>1. CASE i \in 1..(n - 1)
      <4>1. stack'[i] = stack[i] /\ i < n /\ i + 1 \in 1..n /\ i \in 1..n
        BY <1>1, <3>1
      <4>2. stack[i+1].kind = "run" /\ stack[i+1].thread = task[stack[i].cur].owner
        BY <2>4, <4>1 DEF AnswersInv, OwnInv
      <4>3. i + 1 # n
        BY <1>5, <4>2
      <4>4. stack'[i+1] = stack[i+1]
        BY <1>1, <4>1, <4>3
      <4> QED BY <4>1, <4>2, <4>4
    <3>2. CASE i = n
      BY <1>5, <3>2 DEF t
    <3> QED BY <1>5, <1>6, <2>4, <3>1, <3>2
  <2> QED BY <1>3, <2>2, <2>3, <2>4 DEF OwnInv
<1>12. EmissionsInv'
  <2>0. EmissionsInv
    BY DEF AnswersInv
  <2>1. \A i \in 1..Len(stack') : stack'[i].kind = "emit" =>
          i \in 1..n /\ stack[i].kind = "emit" /\ stack'[i].signal = stack[i].signal
    BY <1>1, <1>5, <1>6
  <2>2. \A i, j \in 1..Len(stack') :
          stack'[i].kind = "emit" /\ stack'[j].kind = "emit" /\ stack'[i].signal = stack'[j].signal
          => i = j
    BY <2>0, <2>1 DEF EmissionsInv
  <2>3. ASSUME NEW i \in 1..Len(stack'), stack'[i].kind = "emit"
        PROVE  /\ stack'[i].cur # NoTask => task[stack'[i].cur].signal = stack'[i].signal
               /\ \A x \in Tasks : Contains(stack'[i].queue, x) =>
                    task[x].signal = stack'[i].signal /\ ~task[x].got /\ x # stack'[i].cur
               /\ IsInjective(stack'[i].queue)
    <3>1. CASE i \in 1..(n - 1)
      BY <1>1, <1>6, <2>0, <2>3, <3>1 DEF EmissionsInv
    <3>2. CASE i = n
      <4>1. \A x \in Tasks : Contains(stack[n].queue, x) =>
              task[x].signal = stack[n].signal /\ ~task[x].got
        BY <1>5, <1>6, <2>0 DEF EmissionsInv
      <4>2. task[k].signal = stack[n].signal
        BY <1>1, <1>7, <4>1
      <4>3. \A x \in Tasks : Contains(stack'[n].queue, x) =>
              task[x].signal = stack[n].signal /\ ~task[x].got /\ x # k
        BY <1>7, <1>8, <4>1
      <4> QED BY <1>5, <1>8, <3>2, <4>2, <4>3
    <3> QED BY <1>5, <1>6, <2>3, <3>1, <3>2
  <2> QED BY <1>3, <2>2, <2>3 DEF EmissionsInv
<1>13. ConnectedInv'
  BY <1>3 DEF AnswersInv, ConnectedInv
<1>14. OpenInv'
  <2> SUFFICES ASSUME NEW x \in Tasks, InList(x)
               PROVE  \/ status'[task[x].owner] = "waiting" /\ wait[task[x].owner] = x
                      \/ task[x].got
                      \/ resuming /\ x = tasks[pos]
                      \/ \E i \in 1..Len(stack') : stack'[i].kind = "emit" /\ stack'[i].cur = x
    <3>1. \A x : InList(x)' <=> InList(x)
      BY <1>3 DEF InList
    <3> QED BY <1>3, <3>1 DEF OpenInv
  <2>1. task[x].owner \in Threads
    BY DEF WakeupInv, ListInv
  <2>2. CASE status[task[x].owner] = "waiting" /\ wait[task[x].owner] = x
    <3>1. CASE task[x].owner = t
      <4>1. x = k /\ n \in 1..Len(stack')
        BY <1>1, <1>2, <2>2, <3>1
      <4> QED BY <1>5, <4>1
    <3>2. CASE task[x].owner # t
      BY <1>4, <2>1, <2>2, <3>2
    <3> QED BY <3>1, <3>2
  <2>3. CASE \E i \in 1..n : stack[i].kind = "emit" /\ stack[i].cur = x
    <3>1. PICK i \in 1..n : stack[i].kind = "emit" /\ stack[i].cur = x
      BY <2>3
    <3>2. i # n
      BY <1>1, <3>1, SentinelsAssumption
    <3>3. i \in 1..(n - 1) /\ i \in 1..Len(stack')
      BY <1>1, <3>1, <3>2
    <3> QED BY <1>1, <3>1, <3>3
  <2> QED BY <2>2, <2>3 DEF AnswersInv, OpenInv
<1>15. IdleInv'
  <2>1. \A u \in Threads : status'[u] \in {"new", "dead"} => u # t
    BY <1>4
  <2> QED BY <1>4, <2>1 DEF AnswersInv, IdleInv
<1> QED BY <1>11, <1>12, <1>13, <1>14, <1>15 DEF AnswersInv

\* The waiter that on_signal is done with: it waits for the signal of the
\* emission on top, which holds it no more.
LEMMA DoneWaiter ==
  ASSUME WakeupInv, AnswersInv, OnSignalReturn \/ OnSignalRefused
  PROVE  LET n == Len(stack) IN
         \E k \in Tasks :
           /\ OnSignalEnd(k) /\ task[k].signal = stack[n].signal
           /\ \A t \in Threads : status[t] = "waiting" => wait[t] # k
           /\ ~Contains(stack'[n].queue, k) /\ IsInjective(stack'[n].queue)
           /\ \A x : Contains(stack'[n].queue, x) => Contains(stack[n].queue, x)
           /\ \A x : Contains(stack[n].queue, x) /\ x # k => Contains(stack'[n].queue, x)
           /\ stack[n].cur # NoTask => k = stack[n].cur
<1> DEFINE n == Len(stack)
<1>1. /\ TypeOK /\ n \in Nat /\ n >= 1 /\ stack[n] \in EmitFrame
      /\ \/ OnSignalReturn /\ stack'[n].queue = stack[n].queue
         \/ OnSignalRefused /\ stack[n].queue # <<>> /\ stack'[n].queue = Tail(stack[n].queue)
  BY OnSignalEndStack DEF WakeupInv
<1>2. stack # <<>> /\ Last(stack) = stack[n]
  BY <1>1, EmptySeq, TopType
<1>3. n \in 1..n
  BY <1>1
<1>4. stack[n].kind = "emit" /\ stack[n].queue \in Seq(Tasks) /\ stack[n].cur \in Tasks \cup {NoTask}
  BY <1>1 DEF EmitFrame
<1>5. /\ stack[n].cur # NoTask => task[stack[n].cur].signal = stack[n].signal
      /\ \A x \in Tasks : Contains(stack[n].queue, x) =>
           task[x].signal = stack[n].signal /\ x # stack[n].cur
      /\ IsInjective(stack[n].queue)
  BY <1>3, <1>4 DEF AnswersInv, EmissionsInv
<1>6. CASE OnSignalReturn /\ stack'[n].queue = stack[n].queue
  <2> DEFINE k == stack[n].cur
  <2>1. k \in Tasks /\ k # NoTask /\ OnSignalEnd(k)
    BY <1>2, <1>4, <1>6 DEF OnSignalReturn
  <2>2. \A t \in Threads : status[t] = "waiting" => wait[t] # k
    BY <1>3, <1>4 DEF WakeupInv, AnsweringInv
  <2>3. ~Contains(stack[n].queue, k)
    BY <1>5, <2>1
  <2> QED BY <1>5, <1>6, <2>1, <2>2, <2>3
<1>7. CASE /\ OnSignalRefused /\ stack[n].queue # <<>>
           /\ stack'[n].queue = Tail(stack[n].queue)
  <2> DEFINE k == Head(stack[n].queue)
  <2>1. k \in Tasks /\ OnSignalEnd(k) /\ ~CanResume(k) /\ stack[n].cur = NoTask
    BY <1>2, <1>4, <1>7, HeadTailProperties DEF OnSignalRefused
  <2>2. \A t \in Threads : status[t] = "waiting" => wait[t] # k
    <3>1. \A t \in Threads : status[t] = "waiting" => task[wait[t]].owner = t
      BY DEF WakeupInv, WaitInv
    <3> QED BY <2>1, <3>1 DEF CanResume
  <2>3. /\ Contains(stack[n].queue, k)
        /\ \A x : Contains(Tail(stack[n].queue), x) => Contains(stack[n].queue, x)
        /\ \A x : Contains(stack[n].queue, x) /\ x # k => Contains(Tail(stack[n].queue), x)
    BY <1>4, <1>7, TailElements, TailKeeps
  <2>4. IsInjective(Tail(stack[n].queue)) /\ ~Contains(Tail(stack[n].queue), k)
    BY <1>4, <1>5, <1>7, TailInjective
  <2>5. task[k].signal = stack[n].signal
    BY <1>5, <2>1, <2>3
  <2> QED BY <1>7, <2>1, <2>2, <2>3, <2>4, <2>5
<1> QED BY <1>1, <1>6, <1>7

\* on_signal ends.
LEMMA OnSignalEndAnswers ==
  ASSUME WakeupInv, TypeOK', AnswersInv, OnSignalReturn \/ OnSignalRefused
  PROVE  AnswersInv'
<1> DEFINE n == Len(stack)
<1>1. /\ TypeOK /\ n \in Nat /\ n >= 1 /\ Len(stack') = n
      /\ \A i \in 1..(n - 1) : stack'[i] = stack[i]
      /\ stack[n] \in EmitFrame
      /\ stack'[n].kind = "emit" /\ stack'[n].cur = NoTask
      /\ stack'[n].signal = stack[n].signal
  BY OnSignalEndStack DEF WakeupInv
<1>2. PICK k \in Tasks :
           /\ OnSignalEnd(k) /\ task[k].signal = stack[n].signal
           /\ \A t \in Threads : status[t] = "waiting" => wait[t] # k
           /\ ~Contains(stack'[n].queue, k) /\ IsInjective(stack'[n].queue)
           /\ \A x : Contains(stack'[n].queue, x) => Contains(stack[n].queue, x)
           /\ stack[n].cur # NoTask => k = stack[n].cur
  BY DoneWaiter
<1>3. /\ UNCHANGED <<tasks, pos, resuming, status, wait, answer>>
      /\ task' = [task EXCEPT ![k].got = TRUE] /\ slots' = Disconnected(k)
  BY <1>2 DEF OnSignalEnd, frameVars
<1>4. /\ \A x \in Tasks : /\ task'[x].owner = task[x].owner /\ task'[x].signal = task[x].signal
                          /\ x # k => task'[x].got = task[x].got
      /\ task'[k].got
  BY <1>1, <1>3 DEF TypeOK, TaskRec
<1>5. stack[n].kind = "emit" /\ stack # <<>> /\ n \in 1..n
  BY <1>1, EmptySeq DEF EmitFrame
<1>6. \A i \in 1..Len(stack') : i \in 1..n /\ (i \in 1..(n - 1) \/ i = n)
  BY <1>1
<1>7. DOMAIN stack' = 1..Len(stack') /\ DOMAIN stack = 1..n
  BY <1>1, LenProperties DEF TypeOK
<1>8. \A i \in 1..n : stack[i].kind = "emit" => stack[i].cur \in Tasks \cup {NoTask}
  <2>1. \A i \in 1..n : stack[i] \in Frames
    BY <1>1, ElementOfSeq DEF TypeOK, Frames
  <2> QED BY <2>1 DEF Frames, RunFrame, EmitFrame
<1>9. \A i \in 1..(n - 1) : i \in 1..n /\ i < n /\ i + 1 \in 1..n /\ (i > 1 => i - 1 \in 1..(n - 1))
  <2>1. n \in Nat
    BY <1>1
  <2> HIDE DEF n
  <2> QED BY <2>1
<1>10. OwnInv'
  <2>1. ASSUME NEW i \in 1..Len(stack'), stack'[i].kind = "run"
        PROVE  /\ i = 1 /\ resuming => wait[stack'[i].thread] = tasks[pos]
               /\ i > 1 /\ stack'[i-1].kind = "emit" /\ stack'[i-1].cur # NoTask =>
                    wait[stack'[i].thread] = stack'[i-1].cur
    <3>1. i \in 1..(n - 1)
      BY <1>1, <1>6, <2>1
    <3>2. stack'[i] = stack[i] /\ (i > 1 => stack'[i-1] = stack[i-1]) /\ i \in 1..n
      BY <1>1, <1>9, <3>1
    <3> QED BY <1>7, <2>1, <3>2 DEF AnswersInv, OwnInv, AnswersOwnWait
  <2>2. AnswersOwnWait'
    BY <1>3, <1>7, <2>1 DEF AnswersOwnWait
  <2>3. resuming => stack'[1].kind = "run" /\ stack'[1].thread = task[tasks[pos]].owner
    <3>1. resuming => stack[1].kind = "run" /\ stack[1].thread = task[tasks[pos]].owner
      BY <1>5 DEF AnswersInv, OwnInv
    <3>2. resuming => n # 1
      BY <1>5, <3>1
    <3>3. n # 1 => 1 \in 1..(n - 1)
      <4>1. n \in Nat /\ n >= 1
        BY <1>1
      <4> HIDE DEF n
      <4> QED BY <4>1
    <3>4. n # 1 => stack'[1] = stack[1]
      BY <1>1, <3>3
    <3> QED BY <3>1, <3>2, <3>4
  <2>4. resuming => tasks[pos] \in Tasks
    BY <1>1, AtTaskType DEF WakeupInv, LoopInv
  <2>5. ASSUME NEW i \in 1..Len(stack'), stack'[i].kind = "emit", i < Len(stack'), stack'[i].cur # NoTask
        PROVE  stack'[i+1].kind = "run" /\ stack'[i+1].thread = task'[stack'[i].cur].owner
    <3>1. i \in 1..(n - 1)
      BY <1>1, <1>6, <2>5
    <3>2. stack'[i] = stack[i] /\ i < n /\ i + 1 \in 1..n /\ i \in 1..n
      BY <1>1, <1>9, <3>1
    <3>3. stack[i+1].kind = "run" /\ stack[i+1].thread = task[stack[i].cur].owner
      BY <2>5, <3>2 DEF AnswersInv, OwnInv
    <3>4. i + 1 # n
      BY <1>5, <3>3
    <3>5. stack'[i+1] = stack[i+1]
      BY <1>1, <1>6, <3>2, <3>4
    <3>6. stack[i].cur \in Tasks
      BY <1>8, <2>5, <3>2
    <3> QED BY <1>4, <3>2, <3>3, <3>5, <3>6
  <2> QED BY <1>3, <1>4, <2>2, <2>3, <2>4, <2>5 DEF OwnInv
<1>11. EmissionsInv'
  <2>0. EmissionsInv
    BY DEF AnswersInv
  <2>1. \A i \in 1..Len(stack') : stack'[i].kind = "emit" =>
          i \in 1..n /\ stack[i].kind = "emit" /\ stack'[i].signal = stack[i].signal
    BY <1>1, <1>5, <1>6
  <2>2. \A i, j \in 1..Len(stack') :
          stack'[i].kind = "emit" /\ stack'[j].kind = "emit" /\ stack'[i].signal = stack'[j].signal
          => i = j
    BY <2>0, <2>1 DEF EmissionsInv
  <2>3. ASSUME NEW i \in 1..Len(stack'), stack'[i].kind = "emit"
        PROVE  /\ stack'[i].cur # NoTask => task'[stack'[i].cur].signal = stack'[i].signal
               /\ \A x \in Tasks : Contains(stack'[i].queue, x) =>
                    task'[x].signal = stack'[i].signal /\ ~task'[x].got /\ x # stack'[i].cur
               /\ IsInjective(stack'[i].queue)
    <3>1. CASE i \in 1..(n - 1)
      <4>1. /\ stack'[i] = stack[i] /\ i \in 1..n /\ stack[i].kind = "emit" /\ i # n
        BY <1>1, <1>9, <2>3, <3>1
      <4>2. /\ stack[i].cur # NoTask => task[stack[i].cur].signal = stack[i].signal
            /\ \A x \in Tasks : Contains(stack[i].queue, x) =>
                 task[x].signal = stack[i].signal /\ ~task[x].got /\ x # stack[i].cur
            /\ IsInjective(stack[i].queue)
        BY <2>0, <4>1 DEF EmissionsInv
      <4>3. stack[i].signal # stack[n].signal
        BY <1>5, <2>0, <4>1 DEF EmissionsInv
      <4>4. \A x \in Tasks : Contains(stack[i].queue, x) => x # k
        BY <1>2, <4>2, <4>3
      <4> QED BY <1>4, <1>8, <4>1, <4>2, <4>4
    <3>2. CASE i = n
      <4>1. \A x \in Tasks : Contains(stack[n].queue, x) =>
              task[x].signal = stack[n].signal /\ ~task[x].got
        BY <1>5, <2>0 DEF EmissionsInv
      <4>2. \A x \in Tasks : Contains(stack'[n].queue, x) =>
              /\ task'[x].signal = stack[n].signal /\ ~task'[x].got
        BY <1>2, <1>4, <4>1
      <4>3. \A x \in Tasks : x # NoTask
        BY SentinelsAssumption
      <4> QED BY <1>1, <1>2, <3>2, <4>2, <4>3
    <3> QED BY <1>6, <3>1, <3>2
  <2> QED BY <2>2, <2>3 DEF EmissionsInv
<1>12. ConnectedInv'
  <2>1. \A s \in Signals, x \in Tasks : Contains(slots'[s], x) => Contains(slots[s], x) /\ x # k
    BY <1>1, <1>3, DisconnectedElements DEF WakeupInv
  <2> QED BY <1>4, <2>1 DEF AnswersInv, ConnectedInv
<1>13. OpenInv'
  <2> SUFFICES ASSUME NEW x \in Tasks, InList(x)
               PROVE  \/ status[task'[x].owner] = "waiting" /\ wait[task'[x].owner] = x
                      \/ task'[x].got
                      \/ resuming /\ x = tasks[pos]
                      \/ \E i \in 1..Len(stack') : stack'[i].kind = "emit" /\ stack'[i].cur = x
    <3>1. \A x : InList(x)' <=> InList(x)
      BY <1>3 DEF InList
    <3> QED BY <1>3, <3>1 DEF OpenInv
  <2>1. task[x].got => task'[x].got
    BY <1>4
  <2>2. CASE \E i \in 1..n : stack[i].kind = "emit" /\ stack[i].cur = x
    <3>1. PICK i \in 1..n : stack[i].kind = "emit" /\ stack[i].cur = x
      BY <2>2
    <3>2. CASE i = n
      BY <1>2, <1>4, <3>1, <3>2, SentinelsAssumption
    <3>3. CASE i # n
      BY <1>1, <1>6, <3>1, <3>3
    <3> QED BY <3>2, <3>3
  <2> QED BY <1>4, <2>1, <2>2 DEF AnswersInv, OpenInv
<1>14. IdleInv'
  BY <1>3 DEF AnswersInv, IdleInv
<1> QED BY <1>10, <1>11, <1>12, <1>13, <1>14 DEF AnswersInv

\* With nothing on the call stack only the list, the slots and the threads matter.
LEMMA EmptyStack ==
  ASSUME TypeOK, stack = <<>>
  PROVE  \A i \in 1..Len(stack) : FALSE
<1>1. Len(stack) = 0
  BY EmptySeq
<1> QED BY <1>1

\* The thread that frame resumes sits in the wait whose time has run out.
LEMMA FrameResumeOwnWait ==
  ASSUME WakeupInv, AnswersInv, FrameResume
  PROVE  InList(tasks[pos]) /\ wait[task[tasks[pos]].owner] = tasks[pos]
<1>1. TypeOK /\ stack = <<>> /\ pos # 0 /\ ~resuming /\ ~task[tasks[pos]].got
  BY DEF WakeupInv, FrameResume, AtTask, ShouldResume
<1>2. tasks[pos] \in Tasks /\ InList(tasks[pos])
  BY <1>1, AtTaskType DEF InList, Contains
<1>3. \A i \in 1..Len(stack) : FALSE
  BY <1>1, EmptyStack
<1> QED BY <1>1, <1>2, <1>3 DEF AnswersInv, OpenInv

\* frame resumes the thread of a task that is due.
LEMMA FrameResumeAnswers ==
  ASSUME WakeupInv, TypeOK', AnswersInv, FrameResume
  PROVE  AnswersInv'
<1> DEFINE k == tasks[pos]
           t == task[k].owner
<1>1. TypeOK /\ stack = <<>> /\ pos # 0 /\ ~resuming /\ k \in Tasks
  BY AtTaskType DEF WakeupInv, FrameResume, AtTask
<1>2. t \in Threads /\ status[t] = "waiting"
  BY DEF FrameResume, CanResume
<1>3. InList(k) /\ wait[t] = k
  BY FrameResumeOwnWait
<1>4. /\ UNCHANGED <<tasks, pos, slots, wait>> /\ resuming' = TRUE
      /\ Push([kind |-> "run", thread |-> t])
      /\ task' = [task EXCEPT ![k].left = Updated]
  BY DEF FrameResume
<1>5. /\ status'[t] = "running"
      /\ \A u \in Threads : u # t => status'[u] = status[u] /\ answer'[u] = answer[u]
  BY <1>1, <1>2 DEF FrameResume, Resumed, TypeOK
<1>6. \A x \in Tasks : /\ task'[x].owner = task[x].owner /\ task'[x].signal = task[x].signal
                       /\ task'[x].got = task[x].got
  BY <1>1, <1>4 DEF TypeOK, TaskRec
<1>7. Len(stack') = 1 /\ stack'[1] = [kind |-> "run", thread |-> t]
  <2>1. [kind |-> "run", thread |-> t] \in Frames
    BY <1>2 DEF RunFrame, Frames
  <2>2. /\ Len(stack') = Len(stack) + 1
        /\ stack'[Len(stack) + 1] = [kind |-> "run", thread |-> t]
    BY <1>1, <1>4, <2>1, PushType
  <2>3. Len(stack) = 0
    BY <1>1, EmptySeq
  <2> QED BY <2>2, <2>3
<1>8. \A i \in 1..Len(stack') : i = 1 /\ stack'[i].kind = "run" /\ stack'[i].thread = t
  BY <1>7
<1>9. DOMAIN stack' = 1..Len(stack')
  BY LenProperties DEF TypeOK
<1>10. \A i \in 1..Len(stack) : FALSE
  BY <1>1, EmptyStack
<1> HIDE DEF k, t
<1>11. OwnInv'
  <2>1. AnswersOwnWait'
    BY <1>3, <1>4, <1>8, <1>9 DEF AnswersOwnWait, k
  <2>2. task'[tasks'[pos']].owner = t
    BY <1>1, <1>4, <1>6 DEF t, k
  <2> QED BY <1>7, <1>8, <2>1, <2>2 DEF OwnInv
<1>12. EmissionsInv'
  BY <1>8 DEF EmissionsInv
<1>13. ConnectedInv'
  BY <1>4, <1>6 DEF AnswersInv, ConnectedInv
<1>14. OpenInv'
  <2> SUFFICES ASSUME NEW x \in Tasks, InList(x)
               PROVE  \/ status'[task'[x].owner] = "waiting" /\ wait[task'[x].owner] = x
                      \/ task'[x].got
                      \/ x = k
    <3>1. \A x : InList(x)' <=> InList(x)
      BY <1>4 DEF InList
    <3> QED BY <1>4, <3>1 DEF OpenInv, k
  <2>1. task[x].owner \in Threads
    BY DEF WakeupInv, ListInv
  <2>2. \/ status[task[x].owner] = "waiting" /\ wait[task[x].owner] = x
        \/ task[x].got
    BY <1>1, <1>10 DEF AnswersInv, OpenInv
  <2> QED BY <1>3, <1>5, <1>6, <2>1, <2>2
<1>15. IdleInv'
  <2>1. \A u \in Threads : status'[u] \in {"new", "dead"} => u # t
    BY <1>5
  <2> QED BY <1>5, <2>1 DEF AnswersInv, IdleInv
<1> QED BY <1>11, <1>12, <1>13, <1>14, <1>15 DEF AnswersInv

\* frame frees the task it is at.
LEMMA RemoveAnswers ==
  ASSUME WakeupInv, TypeOK', AnswersInv, stack = <<>>, pos # 0, RemoveTask
  PROVE  AnswersInv'
<1>1. TypeOK /\ ListInv /\ SlotsInv
  BY DEF WakeupInv
<1>2. /\ \A x : InList(x)' <=> InList(x) /\ x # tasks[pos]
      /\ \A x \in Tasks : x # tasks[pos] => task'[x] = task[x]
      /\ \A s \in Signals, x \in Tasks :
           Contains(slots'[s], x) <=> Contains(slots[s], x) /\ x # tasks[pos]
  BY <1>1, Removed DEF InList
<1>3. UNCHANGED <<status, wait, answer, stack>> /\ resuming' = FALSE
  BY DEF RemoveTask
<1>4. (\A i \in 1..Len(stack) : FALSE) /\ DOMAIN stack = 1..Len(stack)
  BY <1>1, EmptyStack, LenProperties DEF TypeOK
<1>5. OwnInv' /\ EmissionsInv'
  BY <1>3, <1>4 DEF OwnInv, AnswersOwnWait, EmissionsInv
<1>6. ConnectedInv'
  BY <1>2 DEF AnswersInv, ConnectedInv
<1>7. OpenInv'
  BY <1>2, <1>3, <1>4 DEF AnswersInv, OpenInv
<1>8. IdleInv'
  BY <1>3 DEF AnswersInv, IdleInv
<1> QED BY <1>5, <1>6, <1>7, <1>8 DEF AnswersInv

\* The loop of frame moves on, or a frame begins.
LEMMA TimeAnswers ==
  ASSUME WakeupInv, AnswersInv, stack = <<>>, ~resuming,
         UNCHANGED <<tasks, resuming, slots, status, wait, answer, stack>>,
         \A x \in Tasks : /\ task'[x].owner = task[x].owner /\ task'[x].signal = task[x].signal
                          /\ task'[x].got = task[x].got
  PROVE  AnswersInv'
<1>1. (\A i \in 1..Len(stack) : FALSE) /\ DOMAIN stack = 1..Len(stack)
  BY EmptyStack, LenProperties DEF TypeOK, WakeupInv
<1>2. OwnInv' /\ EmissionsInv'
  BY <1>1 DEF OwnInv, AnswersOwnWait, EmissionsInv
<1>3. ConnectedInv' /\ IdleInv'
  BY DEF AnswersInv, ConnectedInv, IdleInv
<1>4. OpenInv'
  <2>1. \A x : InList(x)' <=> InList(x)
    BY DEF InList
  <2> QED BY <1>1, <2>1 DEF AnswersInv, OpenInv
<1> QED BY <1>2, <1>3, <1>4 DEF AnswersInv

----------------------------------------------------------------------------
(* AnswersOwnWait *)

LEMMA InitAnswers == Init => AnswersInv
<1> SUFFICES ASSUME Init PROVE AnswersInv
  OBVIOUS
<1>1. /\ tasks = <<>> /\ stack = <<>> /\ resuming = FALSE
      /\ \A s \in Signals : slots[s] = <<>>
      /\ \A t \in Threads : answer[t] = "none"
  BY DEF Init
<1>2. TypeOK
  BY InitType
<1>3. (\A i \in 1..Len(stack) : FALSE) /\ DOMAIN stack = 1..Len(stack)
  BY <1>1, <1>2, EmptyStack, LenProperties DEF TypeOK
<1>4. \A x : ~Contains(<<>>, x)
  <2>1. \A i \in 1..Len(<<>>) : FALSE
    BY <1>1, <1>3
  <2> QED BY <2>1 DEF Contains
<1>5. OwnInv /\ EmissionsInv
  BY <1>1, <1>3 DEF OwnInv, AnswersOwnWait, EmissionsInv
<1>6. ConnectedInv /\ OpenInv /\ IdleInv
  BY <1>1, <1>4 DEF ConnectedInv, OpenInv, IdleInv, InList
<1> QED BY <1>5, <1>6 DEF AnswersInv

\* Every step keeps the invariant, where Lua code keeps to its side.
LEMMA NextAnswers ==
  ASSUME ~ReentrantEmit, ~CoroutineResume, ~WaitInC, DisciplineInv, [Next]_vars
  PROVE  DisciplineInv'
<1>0. /\ WakeupInv /\ AnswersInv /\ TypeOK
      /\ WakeupInv' /\ TypeOK'
  <2>1. WakeupInv /\ AnswersInv
    BY DEF DisciplineInv, AnswersInv
  <2>2. WakeupInv'
    BY <2>1, NextWakeup
  <2> QED BY <2>1, <2>2 DEF WakeupInv
<1> SUFFICES AnswersInv'
  BY <1>0 DEF DisciplineInv, AnswersInv
<1>1. ASSUME NEW t \in Threads, Start(t) PROVE AnswersInv'
  BY <1>0, <1>1, StartAnswers
<1>2. ASSUME NEW t \in Threads, Finish(t) PROVE AnswersInv'
  BY <1>0, <1>2, FinishAnswers
<1>3. ASSUME NEW t \in Threads, Collect(t) PROVE AnswersInv'
  BY <1>0, <1>3, CollectAnswers
<1>4. ASSUME NEW t \in Threads, ResumeByHand(t) PROVE AnswersInv'
  BY <1>4 DEF ResumeByHand
<1>5. ASSUME NEW t \in Threads, NEW k \in Tasks, NEW d \in Durations, Wait(t, k, d)
      PROVE AnswersInv'
  <2>1. PICK left : RegisterTask(t, k, NoSignal, left) /\ Suspend(t, k, left)
    BY <1>5 DEF Wait, YieldRaises
  <2>2. Running(t) /\ UNCHANGED resuming /\ slots' = slots
    BY <1>5 DEF Wait
  <2> QED BY <1>0, <2>1, <2>2, CallAnswers
<1>6. ASSUME NEW t \in Threads, NEW k \in Tasks, NEW d \in Durations, NEW s \in Signals,
             WaitSignal(t, k, s, d)
      PROVE AnswersInv'
  <2>1. PICK left : RegisterTask(t, k, s, left) /\ Suspend(t, k, left)
    BY <1>6 DEF WaitSignal, YieldRaises
  <2>2. Running(t) /\ UNCHANGED resuming /\ slots' = [slots EXCEPT ![s] = Append(@, k)]
    BY <1>6 DEF WaitSignal
  <2> QED BY <1>0, <2>1, <2>2, CallAnswers
<1>7. ASSUME NEW s \in Signals, Emit(s) PROVE AnswersInv'
  BY <1>0, <1>7, EmitAnswers
<1>8. CASE OnSignal
  BY <1>0, <1>8, OnSignalAnswers
<1>9. CASE OnSignalReturn \/ OnSignalRefused
  BY <1>0, <1>9, OnSignalEndAnswers
<1>10. CASE EmitEnd
  BY <1>0, <1>10, EmitEndAnswers
<1>11. CASE FrameKeep
  <2>1. /\ stack = <<>> /\ ~resuming
        /\ UNCHANGED <<tasks, resuming, slots, status, wait, answer, stack>>
        /\ task' = [task EXCEPT ![tasks[pos]].left = Updated]
    BY <1>11 DEF FrameKeep, AtTask
  <2>2. \A x \in Tasks : /\ task'[x].owner = task[x].owner /\ task'[x].signal = task[x].signal
                         /\ task'[x].got = task[x].got
    BY <1>0, <2>1 DEF TypeOK, TaskRec
  <2> QED BY <1>0, <2>1, <2>2, TimeAnswers
<1>12. CASE FrameResume
  BY <1>0, <1>12, FrameResumeAnswers
<1>13. CASE FrameReturn \/ FrameDrop \/ FrameRefused
  <2>1. stack = <<>> /\ pos # 0 /\ RemoveTask
    BY <1>0, <1>13 DEF FrameReturn, FrameDrop, FrameRefused, AtTask, WakeupInv, LoopInv
  <2> QED BY <1>0, <2>1, RemoveAnswers
<1>14. ASSUME NEW d \in Deltas, FrameBegin(d) PROVE AnswersInv'
  <2>1. /\ stack = <<>> /\ ~resuming
        /\ UNCHANGED <<tasks, task, resuming, slots, status, wait, answer, stack>>
    BY <1>0, <1>14 DEF FrameBegin, WakeupInv, LoopInv
  <2> QED BY <1>0, <2>1, TimeAnswers
<1>15. CASE UNCHANGED vars
  <2>1. UNCHANGED <<tasks, task, pos, resuming, slots, status, answer, wait, stack>>
    BY <1>15 DEF vars
  <2>2. OwnInv' /\ EmissionsInv'
    BY <1>0, <2>1 DEF AnswersInv, OwnInv, AnswersOwnWait, EmissionsInv
  <2>3. ConnectedInv' /\ OpenInv' /\ IdleInv'
    BY <1>0, <2>1 DEF AnswersInv, ConnectedInv, OpenInv, IdleInv, InList
  <2> QED BY <2>2, <2>3 DEF AnswersInv
<1> QED
  BY <1>1, <1>2, <1>3, <1>4, <1>5, <1>6, <1>7, <1>8, <1>9, <1>10, <1>11, <1>12, <1>13,
     <1>14, <1>15 DEF Next, LuaNext, SignalNext, FrameStep

\* Where Lua code keeps to its side, the invariant holds throughout.
THEOREM Discipline ==
  ASSUME ~ReentrantEmit, ~CoroutineResume, ~WaitInC
  PROVE  Spec => []DisciplineInv
<1>1. Init => DisciplineInv
  BY InitWakeup, InitAnswers DEF DisciplineInv, AnswersInv
<1>2. DisciplineInv /\ [Next]_vars => DisciplineInv'
  BY NextAnswers
<1> QED BY <1>1, <1>2, PTL DEF Spec

\* The loop of frame and on_signal never resume a thread with the answer to a
\* wait it has left (AnswersOwnWait).
THEOREM AnswersTheorem ==
  ASSUME ~ReentrantEmit, ~CoroutineResume, ~WaitInC
  PROVE  Spec => []AnswersOwnWait
<1>1. DisciplineInv => AnswersOwnWait
  BY DEF DisciplineInv, OwnInv
<1> QED BY <1>1, Discipline, PTL

----------------------------------------------------------------------------
(* The mapping to Waits, thread by thread *)

\* Some emission in progress will call the waiter of t's last wait.
HeardOf(t) ==
  \E i \in 1..Len(stack) : stack[i].kind = "emit" /\ Contains(stack[i].queue, wait[t])

\* The steps below leave what Waits sees of thread u alone.
SameFor(u) ==
  /\ status'[u] = status[u]
  /\ Waiting(u) =>
       /\ wait'[u] = wait[u]
       /\ task'[wait[u]].signal = task[wait[u]].signal
       /\ HeardOf(u)' <=> HeardOf(u)

\* Members of queues by position.
LEMMA HeardFacts ==
  ASSUME NEW st \in Seq(Frames), NEW k
  PROVE  (\E f \in ToSet(st) : f.kind = "emit" /\ k \in ToSet(f.queue))
           <=> \E i \in 1..Len(st) : st[i].kind = "emit" /\ Contains(st[i].queue, k)
<1>1. ASSUME NEW f \in Frames, f.kind = "emit"
      PROVE  k \in ToSet(f.queue) <=> Contains(f.queue, k)
  <2>1. f.queue \in Seq(Tasks)
    BY <1>1 DEF Frames, RunFrame, EmitFrame
  <2> QED BY <2>1, ToSetFacts DEF Contains
<1>2. \A f : f \in ToSet(st) <=> \E i \in 1..Len(st) : st[i] = f
  BY ToSetFacts
<1>3. \A i \in 1..Len(st) : st[i] \in Frames
  BY ElementOfSeq
<1> QED BY <1>1, <1>2, <1>3

LEMMA HeardMapped ==
  ASSUME TypeOK, TypeOK'
  PROVE  /\ Heard = [t \in Threads |-> Waiting(t) /\ HeardOf(t)]
         /\ Heard' = [t \in Threads |-> Waiting(t)' /\ HeardOf(t)']
<1>1. stack \in Seq(Frames) /\ stack' \in Seq(Frames)
  BY DEF TypeOK, Frames
<1>2. \A t \in Threads :
        (\E f \in ToSet(stack) : f.kind = "emit" /\ wait[t] \in ToSet(f.queue)) <=> HeardOf(t)
  BY <1>1, HeardFacts DEF HeardOf
<1>3. \A t \in Threads :
        (\E f \in ToSet(stack') : f.kind = "emit" /\ wait'[t] \in ToSet(f.queue)) <=> HeardOf(t)'
  BY <1>1, HeardFacts DEF HeardOf
<1> QED BY <1>2, <1>3 DEF Heard

\* A function that differs in one place, or in none.
LEMMA ExceptAt ==
  ASSUME NEW S, NEW f, NEW g, f = [x \in S |-> f[x]], g = [x \in S |-> g[x]],
         NEW t \in S, \A u \in S : u # t => g[u] = f[u]
  PROVE  g = [f EXCEPT ![t] = g[t]]
OBVIOUS

LEMMA SameFunction ==
  ASSUME NEW S, NEW f, NEW g, f = [x \in S |-> f[x]], g = [x \in S |-> g[x]],
         \A u \in S : g[u] = f[u]
  PROVE  g = f
OBVIOUS

\* What Waits sees is a function of the threads.
LEMMA Mapped ==
  /\ Phase = [t \in Threads |-> Phase[t]] /\ Phase' = [t \in Threads |-> Phase'[t]]
  /\ Want = [t \in Threads |-> Want[t]] /\ Want' = [t \in Threads |-> Want'[t]]
  /\ Heard = [t \in Threads |-> Heard[t]] /\ Heard' = [t \in Threads |-> Heard'[t]]
BY DEF Phase, Want, Heard

LEMMA SameMapped ==
  ASSUME TypeOK, TypeOK', NEW u \in Threads, SameFor(u)
  PROVE  Phase'[u] = Phase[u] /\ Want'[u] = Want[u] /\ Heard'[u] = Heard[u]
<1>1. Phase'[u] = Phase[u]
  BY DEF Phase, SameFor
<1>2. Want'[u] = Want[u]
  BY DEF Want, SameFor, Waiting
<1>3. Heard[u] = (Waiting(u) /\ HeardOf(u)) /\ Heard'[u] = (Waiting(u)' /\ HeardOf(u)')
  BY HeardMapped
<1>4. Heard'[u] = Heard[u]
  BY <1>3 DEF SameFor, Waiting
<1> QED BY <1>1, <1>2, <1>4

\* A step that leaves every thread alone is no step of Waits.
LEMMA StutterMapped ==
  ASSUME TypeOK, TypeOK', \A u \in Threads : SameFor(u), answer' = answer
  PROVE  UNCHANGED Promise!vars
<1>1. \A u \in Threads : Phase'[u] = Phase[u] /\ Want'[u] = Want[u] /\ Heard'[u] = Heard[u]
  BY SameMapped
<1>2. Phase' = Phase
  BY <1>1, Mapped, SameFunction
<1>3. Want' = Want
  BY <1>1, Mapped, SameFunction
<1>4. Heard' = Heard
  BY <1>1, Mapped, SameFunction
<1> QED BY <1>2, <1>3, <1>4 DEF Promise!vars

\* A step that leaves every thread but one alone.
LEMMA OneMapped ==
  ASSUME TypeOK, TypeOK', NEW t \in Threads, \A u \in Threads : u # t => SameFor(u)
  PROVE  /\ Phase' = [Phase EXCEPT ![t] = Phase'[t]]
         /\ Want' = [Want EXCEPT ![t] = Want'[t]] /\ (Want'[t] = Want[t] => Want' = Want)
         /\ Heard' = [Heard EXCEPT ![t] = Heard'[t]] /\ (Heard'[t] = Heard[t] => Heard' = Heard)
<1>1. \A u \in Threads : u # t => Phase'[u] = Phase[u] /\ Want'[u] = Want[u] /\ Heard'[u] = Heard[u]
  BY SameMapped
<1>2. Phase' = [Phase EXCEPT ![t] = Phase'[t]]
  BY <1>1, Mapped, ExceptAt
<1>3. Want' = [Want EXCEPT ![t] = Want'[t]]
  BY <1>1, Mapped, ExceptAt
<1>4. Heard' = [Heard EXCEPT ![t] = Heard'[t]]
  BY <1>1, Mapped, ExceptAt
<1>5. Want'[t] = Want[t] => Want' = Want
  BY <1>1, Mapped, SameFunction
<1>6. Heard'[t] = Heard[t] => Heard' = Heard
  BY <1>1, Mapped, SameFunction
<1> QED BY <1>2, <1>3, <1>4, <1>5, <1>6

----------------------------------------------------------------------------
(* Each step of the scheduler is a step of Waits, or leaves what it sees alone *)

\* Pushing a thread, or popping what calls nobody, changes no emission.
LEMMA SameQueues ==
  ASSUME TypeOK,
         \/ /\ Len(stack') = Len(stack) + 1 /\ stack'[Len(stack) + 1].kind = "run"
            /\ \A i \in 1..Len(stack) : stack'[i] = stack[i]
         \/ /\ Len(stack') = Len(stack) - 1 /\ stack # <<>>
            /\ \A i \in 1..(Len(stack) - 1) : stack'[i] = stack[i]
            /\ stack[Len(stack)].kind = "emit" => stack[Len(stack)].queue = <<>>
  PROVE  \A u \in Threads : wait'[u] = wait[u] => (HeardOf(u)' <=> HeardOf(u))
<1> DEFINE n == Len(stack)
<1>1. n \in Nat
  BY LenProperties DEF TypeOK
<1>2. \A x : ~Contains(<<>>, x)
  <2>1. Len(<<>>) = 0
    BY EmptySeq
  <2> QED BY <2>1 DEF Contains
<1>3. CASE /\ Len(stack') = n + 1 /\ stack'[n + 1].kind = "run"
           /\ \A i \in 1..n : stack'[i] = stack[i]
  <2>1. 1..Len(stack') = 1..n \cup {n + 1}
    BY <1>1, <1>3
  <2> QED BY <1>3, <2>1 DEF HeardOf
<1>4. CASE /\ Len(stack') = n - 1 /\ stack # <<>>
           /\ \A i \in 1..(n - 1) : stack'[i] = stack[i]
           /\ stack[n].kind = "emit" => stack[n].queue = <<>>
  <2>1. n # 0
    BY <1>4, EmptySeq DEF TypeOK
  <2>2. 1..n = 1..Len(stack') \cup {n} /\ Len(stack') = n - 1
    BY <1>1, <1>4, <2>1
  <2>3. \A x : ~(stack[n].kind = "emit" /\ Contains(stack[n].queue, x))
    BY <1>2, <1>4
  <2> QED BY <1>4, <2>2, <2>3 DEF HeardOf
<1> QED BY <1>3, <1>4

LEMMA StartMaps ==
  ASSUME WakeupInv, TypeOK', NEW t \in Threads, Start(t)
  PROVE  Promise!Begin(t)
<1>1. TypeOK /\ [kind |-> "run", thread |-> t] \in Frames
  BY DEF WakeupInv, RunFrame, Frames
<1>2. /\ Len(stack') = Len(stack) + 1
      /\ stack'[Len(stack) + 1] = [kind |-> "run", thread |-> t]
      /\ \A i \in 1..Len(stack) : stack'[i] = stack[i]
  BY <1>1, PushType DEF Start
<1>3. /\ UNCHANGED <<task, wait, answer>> /\ status[t] = "new" /\ status'[t] = "running"
      /\ \A u \in Threads : u # t => status'[u] = status[u]
  BY <1>1 DEF Start, TypeOK
<1>4. \A u \in Threads : wait'[u] = wait[u] => (HeardOf(u)' <=> HeardOf(u))
  BY <1>1, <1>2, SameQueues
<1>5. \A u \in Threads : u # t => SameFor(u)
  BY <1>3, <1>4 DEF SameFor
<1>6. Phase[t] = "idle" /\ Phase'[t] = "running"
  BY <1>3 DEF Phase
<1>7. Want'[t] = Want[t] /\ Heard'[t] = Heard[t]
  BY <1>3 DEF Want, Heard, Waiting
<1> QED BY <1>1, <1>3, <1>5, <1>6, <1>7, OneMapped DEF Promise!Begin

LEMMA FinishMaps ==
  ASSUME WakeupInv, TypeOK', NEW t \in Threads, Finish(t)
  PROVE  Promise!End(t)
<1>1. /\ TypeOK /\ stack # <<>> /\ Len(stack') = Len(stack) - 1 /\ stack[Len(stack)].kind = "run"
      /\ \A i \in 1..Len(stack') : stack'[i] = stack[i]
  BY TopIsAlone DEF Finish, WakeupInv, Running
<1>2. status[t] = "running"
  BY TopIsAlone DEF Finish
<1>3. /\ UNCHANGED task /\ status'[t] = "dead" /\ answer' = [answer EXCEPT ![t] = "none"]
      /\ \A u \in Threads : u # t => status'[u] = status[u] /\ wait'[u] = wait[u]
  BY <1>1 DEF Finish, TypeOK
<1>4. \A u \in Threads : wait'[u] = wait[u] => (HeardOf(u)' <=> HeardOf(u))
  BY <1>1, SameQueues
<1>5. \A u \in Threads : u # t => SameFor(u)
  BY <1>3, <1>4 DEF SameFor
<1>6. Phase[t] = "running" /\ Phase'[t] = "idle"
  BY <1>2, <1>3 DEF Phase
<1>7. Want'[t] = Want[t] /\ Heard'[t] = Heard[t]
  BY <1>2, <1>3 DEF Want, Heard, Waiting
<1> QED BY <1>1, <1>3, <1>5, <1>6, <1>7, OneMapped DEF Promise!End

\* A thread that is collected had ended: one that waits has a task.
LEMMA CollectMaps ==
  ASSUME WakeupInv, IdleInv, TypeOK', NEW t \in Threads, Collect(t)
  PROVE  UNCHANGED Promise!vars
<1>1. /\ TypeOK /\ UNCHANGED <<tasks, task, stack>>
      /\ status[t] \in {"waiting", "dead"} /\ status'[t] = "new" /\ answer' = [answer EXCEPT ![t] = "none"]
      /\ \A u \in Threads : u # t => status'[u] = status[u] /\ wait'[u] = wait[u]
  BY DEF Collect, WakeupInv, TypeOK
<1>2. status[t] = "dead"
  <2> SUFFICES ASSUME status[t] = "waiting" PROVE FALSE
    BY <1>1
  <2>1. wait[t] \in Tasks /\ InList(wait[t]) /\ task[wait[t]].owner = t
    BY DEF WakeupInv, WaitInv
  <2>2. wait[t] \in Live
    BY <1>1, <2>1, ToSetFacts DEF InList, Contains, Live, TypeOK
  <2> QED BY <2>1, <2>2 DEF Collect
<1>3. answer' = answer
  BY <1>1, <1>2 DEF IdleInv, TypeOK
<1>4. \A u \in Threads : u # t => SameFor(u)
  BY <1>1 DEF SameFor, HeardOf
<1>5. Phase'[t] = Phase[t] /\ Want'[t] = Want[t] /\ Heard'[t] = Heard[t]
  BY <1>1, <1>2 DEF Phase, Want, Heard, Waiting
<1>6. Phase' = Phase
  BY <1>1, <1>4, <1>5, SameMapped, Mapped, SameFunction
<1> QED BY <1>1, <1>3, <1>4, <1>5, <1>6, OneMapped DEF Promise!vars

\* wait and wait_signal: no emission in progress knows the new waiter.
LEMMA CallMaps ==
  ASSUME WakeupInv, TypeOK', NEW t \in Threads, NEW k \in Tasks, NEW left,
         NEW s \in Signals \cup {NoSignal},
         Running(t), RegisterTask(t, k, s, left), Suspend(t, k, left)
  PROVE  Promise!Call(t, IF s = NoSignal THEN "time" ELSE s)
<1>1. /\ TypeOK /\ stack # <<>> /\ Len(stack') = Len(stack) - 1 /\ stack[Len(stack)].kind = "run"
      /\ \A i \in 1..Len(stack') : i \in 1..Len(stack) /\ stack'[i] = stack[i]
  BY TopIsAlone DEF Suspend, WakeupInv, Running
<1>2. status[t] = "running"
  BY TopIsAlone DEF Suspend
<1>3. /\ status'[t] = "waiting" /\ wait'[t] = k /\ answer' = [answer EXCEPT ![t] = "none"]
      /\ \A u \in Threads : u # t => status'[u] = status[u] /\ wait'[u] = wait[u]
  BY <1>1 DEF Suspend, TypeOK
<1>4. ~InList(k)
  BY <1>1, Registered DEF InList
<1>5. task'[k].signal = s /\ \A x \in Tasks : x # k => task'[x] = task[x]
  BY <1>1 DEF RegisterTask, TypeOK
<1>6. \A u \in Threads : wait'[u] = wait[u] => (HeardOf(u)' <=> HeardOf(u))
  BY <1>1, SameQueues
<1>7. \A u \in Threads : u # t => SameFor(u)
  <2>1. \A u \in Threads : status[u] = "waiting" => wait[u] \in Tasks /\ wait[u] # k
    BY <1>4 DEF WakeupInv, WaitInv
  <2> QED BY <1>3, <1>5, <1>6, <2>1 DEF SameFor, Waiting
<1>8. Phase[t] = "running" /\ Phase'[t] = "waiting"
  BY <1>2, <1>3 DEF Phase
<1>9. Want'[t] = IF s = NoSignal THEN "time" ELSE s
  BY <1>3, <1>5 DEF Want, Waiting
<1>10. Heard'[t] = Heard[t]
  <2>1. ~HeardOf(t)'
    <3>1. \A i \in 1..Len(stack') : stack'[i].kind = "emit" => ~Contains(stack'[i].queue, k)
      BY <1>1, <1>4 DEF WakeupInv, EmissionInv
    <3> QED BY <1>3, <3>1 DEF HeardOf
  <2> QED BY <1>1, <1>2, <2>1, HeardMapped DEF Waiting
<1> QED BY <1>1, <1>3, <1>7, <1>8, <1>9, <1>10, OneMapped DEF Promise!Call

\* An emission reaches the threads that wait for its signal, and only those.
LEMMA EmitMaps ==
  ASSUME WakeupInv, TypeOK', NEW s \in Signals, Emit(s)
  PROVE  Promise!Emitted(s)
<1> DEFINE n == Len(stack)
           f == [kind |-> "emit", signal |-> s, cur |-> NoTask, queue |-> slots[s]]
<1>1. TypeOK /\ f \in Frames /\ f.kind = "emit" /\ f.queue = slots[s]
  BY DEF WakeupInv, TypeOK, EmitFrame, Frames
<1>2. /\ n \in Nat /\ Len(stack') = n + 1 /\ stack'[n + 1] = f
      /\ \A i \in 1..n : stack'[i] = stack[i]
  BY <1>1, PushType DEF Emit
<1> HIDE DEF f
<1>3. UNCHANGED <<task, status, wait, answer, slots>>
  BY DEF Emit
<1>4. Phase' = Phase /\ Want' = Want
  BY <1>3 DEF Phase, Want, Waiting
<1>5. 1..Len(stack') = 1..n \cup {n + 1}
  BY <1>2
<1>6. \A t \in Threads : HeardOf(t)' <=> HeardOf(t) \/ Contains(slots[s], wait[t])
  BY <1>1, <1>2, <1>3, <1>5 DEF HeardOf
<1>7. ASSUME NEW t \in Threads
      PROVE  Waiting(t) /\ Contains(slots[s], wait[t]) <=> Want[t] = s
  <2>1. s # "time" /\ s # "nothing" /\ s # NoSignal
    BY NamesAssumption, SentinelsAssumption
  <2>2. Waiting(t) => /\ wait[t] \in Tasks
                      /\ task[wait[t]].signal # NoSignal => Contains(slots[task[wait[t]].signal], wait[t])
    BY DEF Waiting, WakeupInv, WaitInv
  <2>3. Waiting(t) /\ Contains(slots[s], wait[t]) => task[wait[t]].signal = s
    BY <2>2 DEF WakeupInv, SlotsInv
  <2> QED BY <2>1, <2>2, <2>3 DEF Want
<1>8. Heard' = [t \in Threads |-> Heard[t] \/ Want[t] = s]
  <2>1. \A t \in Threads : (Waiting(t)' /\ HeardOf(t)') <=> (Waiting(t) /\ HeardOf(t)) \/ Want[t] = s
    BY <1>3, <1>6, <1>7 DEF Waiting
  <2>2. /\ \A t \in Threads : Heard[t] = (Waiting(t) /\ HeardOf(t))
        /\ Heard' = [t \in Threads |-> Waiting(t)' /\ HeardOf(t)']
    BY <1>1, HeardMapped
  <2>3. \A t \in Threads : (Waiting(t)' /\ HeardOf(t)') = (Heard[t] \/ Want[t] = s)
    BY <2>1, <2>2
  <2> QED BY <2>2, <2>3
<1> QED BY <1>3, <1>4, <1>8 DEF Promise!Emitted

\* on_signal tells the thread that heard the emission.
LEMMA OnSignalMaps ==
  ASSUME WakeupInv, AnswersInv, TypeOK', OnSignal
  PROVE  \E t \in Threads : Promise!Signalled(t)
<1> DEFINE n == Len(stack)
           k == Head(Last(stack).queue)
           t == task[k].owner
<1>1. /\ TypeOK /\ n \in Nat /\ n >= 1 /\ Len(stack') = n + 1
      /\ \A i \in 1..(n - 1) : stack'[i] = stack[i]
      /\ stack[n] \in EmitFrame /\ stack[n].queue # <<>>
      /\ k = Head(stack[n].queue) /\ k \in Tasks
      /\ t \in Threads /\ status[t] = "waiting"
      /\ stack'[n] = [stack[n] EXCEPT !.cur = k, !.queue = Tail(@)]
      /\ stack'[n + 1] = [kind |-> "run", thread |-> t]
  BY OnSignalStack DEF WakeupInv
<1>2. wait[t] = k
  BY OnSignalOwnWait
<1>3. /\ UNCHANGED <<task, wait>> /\ answer' = [answer EXCEPT ![t] = "signalled"]
      /\ status'[t] = "running" /\ \A u \in Threads : u # t => status'[u] = status[u]
  BY <1>1 DEF OnSignal, Resumed, TypeOK
<1>4. /\ stack[n].kind = "emit" /\ stack[n].queue \in Seq(Tasks)
      /\ stack'[n].kind = "emit" /\ stack'[n].queue = Tail(stack[n].queue)
      /\ stack'[n + 1].kind = "run"
  BY <1>1 DEF EmitFrame
<1>5. /\ Contains(stack[n].queue, k)
      /\ \A x : x # k => (Contains(stack'[n].queue, x) <=> Contains(stack[n].queue, x))
  BY <1>1, <1>4, TailElements, TailKeeps
<1> HIDE DEF t, k
<1>6. 1..n = 1..(n - 1) \cup {n} /\ 1..Len(stack') = 1..(n - 1) \cup {n, n + 1}
  BY <1>1
<1>7. \A u \in Threads : u # t => SameFor(u)
  <2> SUFFICES ASSUME NEW u \in Threads, u # t, Waiting(u)
               PROVE  HeardOf(u)' <=> HeardOf(u)
    BY <1>3 DEF SameFor
  <2>1. wait[u] # k
    BY DEF WakeupInv, WaitInv, Waiting, t
  <2>2. Contains(stack'[n].queue, wait[u]) <=> Contains(stack[n].queue, wait[u])
    BY <1>5, <2>1
  <2> QED BY <1>1, <1>3, <1>4, <1>6, <2>2 DEF HeardOf
<1>8. Heard[t]
  <2>1. HeardOf(t)
    BY <1>2, <1>4, <1>5, <1>6 DEF HeardOf
  <2> QED BY <1>1, <2>1, HeardMapped DEF Waiting
<1>9. Phase[t] = "waiting" /\ Phase'[t] = "running" /\ Want'[t] = "nothing" /\ Heard'[t] = FALSE
  BY <1>1, <1>3 DEF Phase, Want, Heard, Waiting
<1>10. Promise!Signalled(t)
  BY <1>1, <1>3, <1>7, <1>8, <1>9, OneMapped DEF Promise!Signalled, Promise!Return
<1> QED BY <1>1, <1>10

\* What ends of an on_signal only concerns a waiter no thread sits in.
LEMMA OnSignalEndMaps ==
  ASSUME WakeupInv, AnswersInv, TypeOK', OnSignalReturn \/ OnSignalRefused
  PROVE  UNCHANGED Promise!vars
<1> DEFINE n == Len(stack)
<1>1. /\ TypeOK /\ n \in Nat /\ n >= 1 /\ Len(stack') = n
      /\ \A i \in 1..(n - 1) : stack'[i] = stack[i]
      /\ stack[n].kind = "emit" /\ stack'[n].kind = "emit"
  BY OnSignalEndStack DEF WakeupInv, EmitFrame
<1>2. PICK k \in Tasks :
           /\ OnSignalEnd(k)
           /\ \A t \in Threads : status[t] = "waiting" => wait[t] # k
           /\ \A x : Contains(stack'[n].queue, x) => Contains(stack[n].queue, x)
           /\ \A x : Contains(stack[n].queue, x) /\ x # k => Contains(stack'[n].queue, x)
  BY DoneWaiter
<1>3. UNCHANGED <<status, wait, answer>> /\ task' = [task EXCEPT ![k].got = TRUE]
  BY <1>2 DEF OnSignalEnd
<1>4. \A x \in Tasks : task'[x].signal = task[x].signal
  BY <1>1, <1>3 DEF TypeOK, TaskRec
<1>5. 1..n = 1..(n - 1) \cup {n}
  BY <1>1
<1>6. ASSUME NEW u \in Threads PROVE SameFor(u)
  <2> SUFFICES ASSUME Waiting(u)
               PROVE  /\ HeardOf(u)' <=> HeardOf(u)
                      /\ task'[wait[u]].signal = task[wait[u]].signal
    BY <1>3 DEF SameFor
  <2>1. wait[u] # k /\ wait[u] \in Tasks
    BY <1>2 DEF WakeupInv, WaitInv, Waiting
  <2>2. Contains(stack'[n].queue, wait[u]) <=> Contains(stack[n].queue, wait[u])
    BY <1>2, <2>1
  <2>3. HeardOf(u)' <=> HeardOf(u)
    BY <1>1, <1>3, <1>5, <2>2 DEF HeardOf
  <2> QED BY <1>4, <2>1, <2>3
<1> QED BY <1>1, <1>3, <1>6, StutterMapped

\* So does an emission that has called every slot.
LEMMA EmitEndMaps ==
  ASSUME WakeupInv, TypeOK', EmitEnd
  PROVE  UNCHANGED Promise!vars
<1>1. /\ TypeOK /\ stack # <<>> /\ Len(stack') = Len(stack) - 1
      /\ \A i \in 1..(Len(stack) - 1) : stack'[i] = stack[i]
      /\ stack[Len(stack)].queue = <<>>
  BY TopType DEF WakeupInv, EmitEnd, InEmission
<1>2. UNCHANGED <<task, status, wait, answer>>
  BY DEF EmitEnd
<1>3. \A u \in Threads : HeardOf(u)' <=> HeardOf(u)
  BY <1>1, <1>2, SameQueues
<1>4. \A u \in Threads : SameFor(u)
  BY <1>2, <1>3 DEF SameFor
<1> QED BY <1>1, <1>2, <1>4, StutterMapped

\* frame resumes a thread that no emission has reached; the answer is the one
\* for what the thread waits for.
LEMMA FrameResumeMaps ==
  ASSUME WakeupInv, AnswersInv, TypeOK', FrameResume
  PROVE  \E t \in Threads : Promise!TimedOut(t)
<1> DEFINE k == tasks[pos]
           t == task[k].owner
<1>1. TypeOK /\ stack = <<>> /\ k \in Tasks /\ Len(stack) = 0
  BY AtTaskType, EmptySeq DEF WakeupInv, FrameResume, AtTask
<1>2. t \in Threads /\ status[t] = "waiting"
  BY DEF FrameResume, CanResume
<1>3. wait[t] = k
  BY FrameResumeOwnWait
<1>4. /\ wait' = wait /\ task' = [task EXCEPT ![k].left = Updated]
      /\ answer' = [answer EXCEPT ![t] = IF task[k].signal = NoSignal THEN "elapsed" ELSE "timed out"]
      /\ Push([kind |-> "run", thread |-> t])
  BY DEF FrameResume, Resumed
<1>5. status'[t] = "running" /\ \A u \in Threads : u # t => status'[u] = status[u]
  BY <1>1, <1>2 DEF FrameResume, Resumed, TypeOK
<1>6. \A x \in Tasks : task'[x].signal = task[x].signal
  BY <1>1, <1>4, ZenonT(30) DEF TypeOK, TaskRec
<1>7. \A u \in Threads : HeardOf(u)' <=> HeardOf(u)
  <2>1. [kind |-> "run", thread |-> t] \in Frames
    BY <1>2 DEF RunFrame, Frames
  <2>2. /\ Len(stack') = Len(stack) + 1
        /\ stack'[Len(stack) + 1] = [kind |-> "run", thread |-> t]
        /\ \A i \in 1..Len(stack) : stack'[i] = stack[i]
    BY <1>1, <1>4, <2>1, PushType
  <2> HIDE DEF t, k
  <2>3. stack'[Len(stack) + 1].kind = "run"
    BY <2>2
  <2>4. \A u \in Threads : wait'[u] = wait[u] => (HeardOf(u)' <=> HeardOf(u))
    BY <1>1, <2>2, <2>3, SameQueues
  <2> QED BY <1>4, <2>4
<1> HIDE DEF t, k
<1>8. \A u \in Threads : u # t => SameFor(u)
  <2>1. \A u \in Threads : status[u] = "waiting" => wait[u] \in Tasks
    BY DEF WakeupInv, WaitInv
  <2> QED BY <1>4, <1>5, <1>6, <1>7, <2>1 DEF SameFor, Waiting
<1>9. ~Heard[t]
  <2>1. ~HeardOf(t)
    BY <1>1, EmptyStack DEF HeardOf
  <2> QED BY <1>1, <1>2, <2>1, HeardMapped
<1>10. Want[t] = "time" <=> task[k].signal = NoSignal
  <2>1. task[k].signal \in Signals \cup {NoSignal}
    BY <1>1 DEF TypeOK, TaskRec
  <2> QED BY <1>2, <1>3, <2>1, NamesAssumption DEF Want, Waiting
<1>11. Phase[t] = "waiting" /\ Phase'[t] = "running" /\ Want'[t] = "nothing" /\ Heard'[t] = FALSE
  BY <1>2, <1>5 DEF Phase, Want, Heard, Waiting
<1>12. Promise!TimedOut(t)
  BY <1>1, <1>2, <1>4, <1>8, <1>9, <1>10, <1>11, OneMapped DEF Promise!TimedOut, Promise!Return
<1> QED BY <1>2, <1>12

\* The other steps of frame change nothing a thread that waits could notice.
LEMMA FrameMaps ==
  ASSUME WakeupInv, WakeupInv',
         FrameKeep \/ FrameReturn \/ FrameDrop \/ FrameRefused \/ \E d \in Deltas : FrameBegin(d)
  PROVE  UNCHANGED Promise!vars
<1>1. /\ TypeOK /\ TypeOK' /\ stack = <<>> /\ UNCHANGED <<status, wait, answer, stack>>
  BY DEF WakeupInv, FrameKeep, FrameReturn, FrameDrop, FrameRefused, FrameBegin, AtTask, RemoveTask
<1>2. \A u \in Threads : ~HeardOf(u) /\ ~HeardOf(u)'
  BY <1>1, EmptyStack DEF HeardOf
<1>3. ASSUME NEW u \in Threads, Waiting(u)
      PROVE  task'[wait[u]].signal = task[wait[u]].signal
  <2>1. wait[u] \in Tasks /\ InList(wait[u])'
    BY <1>1, <1>3 DEF WakeupInv, WaitInv, Waiting
  <2>2. CASE FrameKeep
    BY <1>1, <2>1, <2>2 DEF FrameKeep, TypeOK, TaskRec
  <2>3. CASE FrameReturn \/ FrameDrop \/ FrameRefused
    <3>1. RemoveTask /\ pos # 0
      BY <2>3 DEF FrameReturn, FrameDrop, FrameRefused, AtTask, WakeupInv, LoopInv
    <3>2. wait[u] # tasks[pos]
      BY <1>1, <2>1, <3>1, Removed DEF InList, WakeupInv
    <3> QED BY <1>1, <2>1, <3>1, <3>2, Removed DEF WakeupInv
  <2>4. CASE \E d \in Deltas : FrameBegin(d)
    BY <2>4 DEF FrameBegin
  <2> QED BY <2>2, <2>3, <2>4
<1>4. \A u \in Threads : SameFor(u)
  BY <1>1, <1>2, <1>3 DEF SameFor
<1> QED BY <1>1, <1>4, StutterMapped

----------------------------------------------------------------------------
(* KeepsPromise *)

LEMMA InitMaps == Init => Promise!Init
<1> SUFFICES ASSUME Init PROVE Promise!Init
  OBVIOUS
<1>1. /\ status = [t \in Threads |-> "new"] /\ answer = [t \in Threads |-> "none"]
      /\ \A t \in Threads : ~Waiting(t)
  BY DEF Init, Waiting
<1>2. Phase = [t \in Threads |-> "idle"]
  BY <1>1 DEF Phase
<1>3. Want = [t \in Threads |-> "nothing"]
  BY <1>1 DEF Want
<1>4. Heard = [t \in Threads |-> FALSE]
  BY <1>1 DEF Heard
<1> QED BY <1>1, <1>2, <1>3, <1>4 DEF Promise!Init

LEMMA NextMaps ==
  ASSUME ~CoroutineResume, ~WaitInC, DisciplineInv, DisciplineInv', [Next]_vars
  PROVE  [Promise!Next]_(Promise!vars)
<1>0. WakeupInv /\ AnswersInv /\ IdleInv /\ TypeOK /\ WakeupInv' /\ TypeOK'
  BY DEF DisciplineInv, AnswersInv, WakeupInv
<1>1. ASSUME NEW t \in Threads, Start(t) PROVE Promise!Next
  BY <1>0, <1>1, StartMaps DEF Promise!Next
<1>2. ASSUME NEW t \in Threads, Finish(t) PROVE Promise!Next
  BY <1>0, <1>2, FinishMaps DEF Promise!Next
<1>3. ASSUME NEW t \in Threads, Collect(t) PROVE UNCHANGED Promise!vars
  BY <1>0, <1>3, CollectMaps
<1>4. ASSUME NEW t \in Threads, ResumeByHand(t) PROVE FALSE
  BY <1>4 DEF ResumeByHand
<1>5. ASSUME NEW t \in Threads, NEW k \in Tasks, NEW d \in Durations, Wait(t, k, d)
      PROVE Promise!Next
  <2>1. PICK left : RegisterTask(t, k, NoSignal, left) /\ Suspend(t, k, left)
    BY <1>5 DEF Wait, YieldRaises
  <2>2. Running(t)
    BY <1>5 DEF Wait
  <2>3. Promise!Call(t, "time")
    BY <1>0, <2>1, <2>2, CallMaps
  <2> QED BY <2>3 DEF Promise!Next
<1>6. ASSUME NEW t \in Threads, NEW k \in Tasks, NEW d \in Durations, NEW s \in Signals,
             WaitSignal(t, k, s, d)
      PROVE Promise!Next
  <2>1. PICK left : RegisterTask(t, k, s, left) /\ Suspend(t, k, left)
    BY <1>6 DEF WaitSignal, YieldRaises
  <2>2. Running(t) /\ s # NoSignal
    BY <1>6, SentinelsAssumption DEF WaitSignal
  <2>3. Promise!Call(t, s)
    BY <1>0, <2>1, <2>2, CallMaps
  <2> QED BY <2>3 DEF Promise!Next
<1>7. ASSUME NEW s \in Signals, Emit(s) PROVE Promise!Next
  BY <1>0, <1>7, EmitMaps DEF Promise!Next
<1>8. CASE OnSignal
  BY <1>0, <1>8, OnSignalMaps DEF Promise!Next
<1>9. ASSUME OnSignalReturn \/ OnSignalRefused PROVE UNCHANGED Promise!vars
  BY <1>0, <1>9, OnSignalEndMaps
<1>10. ASSUME EmitEnd PROVE UNCHANGED Promise!vars
  BY <1>0, <1>10, EmitEndMaps
<1>11. CASE FrameResume
  BY <1>0, <1>11, FrameResumeMaps DEF Promise!Next
<1>12. ASSUME FrameKeep \/ FrameReturn \/ FrameDrop \/ FrameRefused \/ \E d \in Deltas : FrameBegin(d)
       PROVE UNCHANGED Promise!vars
  BY <1>0, <1>12, FrameMaps
<1>13. ASSUME UNCHANGED vars PROVE UNCHANGED Promise!vars
  BY <1>13 DEF vars, Promise!vars, Phase, Want, Heard, Waiting
<1> QED
  BY <1>1, <1>2, <1>3, <1>4, <1>5, <1>6, <1>7, <1>8, <1>9, <1>10, <1>11, <1>12, <1>13
  DEF Next, LuaNext, SignalNext, FrameStep

\* The scheduler implements Waits: a call of wait or wait_signal ends at most
\* once, with the answer it promises (KeepsPromise).
THEOREM PromiseTheorem ==
  ASSUME ~ReentrantEmit, ~CoroutineResume, ~WaitInC
  PROVE  Spec => KeepsPromise
<1>1. DisciplineInv /\ DisciplineInv' /\ [Next]_vars => [Promise!Next]_(Promise!vars)
  BY NextMaps
<1> QED BY <1>1, InitMaps, Discipline, PTL DEF Spec, KeepsPromise, Promise!Spec
=============================================================================
