------------------------ MODULE TaskScheduler_proof ------------------------
(***************************************************************************)
(* Proofs about TaskScheduler: type correctness, that no thread that sits  *)
(* in a wait is stranded, and that no wait loses more time than has passed. *)
(***************************************************************************)
EXTENDS TaskSchedulerInv, SequenceLemmas

Frames == RunFrame \cup EmitFrame

USE DEF Frames

----------------------------------------------------------------------------
(* Times *)

\* update() never leaves the range of its field.
LEMMA ElapseType ==
  ASSUME NEW left \in 0..Forever, NEW d \in Nat
  PROVE  Elapse(left, d) \in 0..Forever
  BY TimeAssumption DEF Elapse

\* Nor does the conversion of an argument.
LEMMA UsecType ==
  ASSUME NEW d \in Durations
  PROVE  Usec(d) \subseteq 0..Forever
  BY TimeAssumption DEF Usec

----------------------------------------------------------------------------
(* The call stack *)

\* What a push leaves: the frames that were there and the new one.
LEMMA PushType ==
  ASSUME TypeOK, NEW f \in Frames, Push(f)
  PROVE  /\ stack' \in Seq(Frames)
         /\ stack' # <<>>
         /\ Len(stack) \in Nat /\ Len(stack') = Len(stack) + 1
         /\ stack'[Len(stack) + 1] = f
         /\ \A i \in 1..Len(stack) : stack'[i] = stack[i]
<1>1. stack \in Seq(Frames)
  BY DEF TypeOK
<1>2. stack' = Append(stack, f)
  BY DEF Push
<1>3. Len(stack) \in Nat
  BY <1>1, LenProperties
<1> QED BY <1>1, <1>2, <1>3, AppendProperties

\* The frame on top, and what is left without it.
LEMMA TopType ==
  ASSUME TypeOK, stack # <<>>
  PROVE  /\ Front(stack) \in Seq(Frames)
         /\ Len(stack) \in Nat /\ Len(stack) >= 1
         /\ Len(Front(stack)) = Len(stack) - 1
         /\ \A i \in 1..(Len(stack) - 1) : Front(stack)[i] = stack[i]
         /\ Last(stack) = stack[Len(stack)]
         /\ Last(stack) \in Frames
<1>1. stack \in Seq(Frames)
  BY DEF TypeOK
<1> QED BY <1>1, FrontFacts

\* Replacing the frame on top.
LEMMA ReplaceType ==
  ASSUME TypeOK, stack # <<>>, NEW f \in Frames, stack' = Append(Front(stack), f)
  PROVE  /\ stack' \in Seq(Frames)
         /\ Len(stack') = Len(stack)
         /\ stack'[Len(stack)] = f
         /\ \A i \in 1..(Len(stack) - 1) : stack'[i] = stack[i]
<1>1. Front(stack) \in Seq(Frames) /\ Len(stack) \in Nat /\ Len(stack) >= 1
      /\ Len(Front(stack)) = Len(stack) - 1
  BY TopType
<1>2. /\ stack' \in Seq(Frames) /\ Len(stack') = Len(Front(stack)) + 1
      /\ \A i \in 1..Len(Front(stack)) : stack'[i] = Front(stack)[i]
      /\ stack'[Len(Front(stack)) + 1] = f
  BY <1>1, AppendProperties
<1>3. Len(Front(stack)) + 1 = Len(stack)
  BY <1>1
<1> QED BY <1>1, <1>2, <1>3, TopType

\* An emission on top.
LEMMA EmissionTop ==
  ASSUME TypeOK, InEmission
  PROVE  /\ stack # <<>> /\ Last(stack) \in EmitFrame
         /\ Last(stack).queue # <<>> =>
              /\ Head(Last(stack).queue) \in Tasks
              /\ \A c \in Tasks \cup {NoTask} :
                   [Last(stack) EXCEPT !.cur = c, !.queue = Tail(@)] \in EmitFrame
              /\ [Last(stack) EXCEPT !.queue = Tail(@)] \in EmitFrame
         /\ \A c \in Tasks \cup {NoTask} : [Last(stack) EXCEPT !.cur = c] \in EmitFrame
<1>1. stack # <<>> /\ Last(stack) \in Frames /\ Last(stack).kind = "emit"
  BY TopType DEF InEmission
<1>2. Last(stack) \in EmitFrame
  BY <1>1 DEF RunFrame, EmitFrame
<1>3. ASSUME Last(stack).queue # <<>>
      PROVE Head(Last(stack).queue) \in Tasks /\ Tail(Last(stack).queue) \in Seq(Tasks)
  BY <1>2, <1>3, HeadTailProperties DEF EmitFrame
<1> QED BY <1>1, <1>2, <1>3 DEF EmitFrame

----------------------------------------------------------------------------
(* The slots *)

\* Where a connected waiter is in the slots of its signal.
Place(k) == CHOOSE i \in DOMAIN slots[task[k].signal] : slots[task[k].signal][i] = k

\* Disconnecting takes one waiter out of the slots of its signal.
LEMMA DisconnectType ==
  ASSUME TypeOK, NEW k \in Tasks
  PROVE  /\ Disconnected(k) \in [Signals -> Seq(Tasks)]
         /\ \/ Disconnected(k) = slots
            \/ /\ task[k].signal \in Signals
               /\ Place(k) \in 1..Len(slots[task[k].signal])
               /\ slots[task[k].signal][Place(k)] = k
               /\ Disconnected(k) = [slots EXCEPT ![task[k].signal] = RemoveAt(@, Place(k))]
<1> DEFINE s == task[k].signal
<1>1. s \in Signals \cup {NoSignal} /\ slots \in [Signals -> Seq(Tasks)]
  BY DEF TypeOK, TaskRec
<1>2. CASE s # NoSignal /\ Contains(slots[s], k)
  <2>1. s \in Signals /\ slots[s] \in Seq(Tasks)
    BY <1>1, <1>2
  <2>2. DOMAIN slots[s] = 1..Len(slots[s])
    BY <2>1, LenProperties
  <2>3. \E i \in DOMAIN slots[s] : slots[s][i] = k
    BY <1>2, <2>2 DEF Contains
  <2>4. Place(k) \in 1..Len(slots[s]) /\ slots[s][Place(k)] = k
    BY <2>2, <2>3 DEF Place
  <2>5. RemoveAt(slots[s], Place(k)) \in Seq(Tasks)
    BY <2>1, <2>4, RemoveAtFacts
  <2>6. Disconnected(k) = [slots EXCEPT ![s] = RemoveAt(@, Place(k))]
    BY <1>2 DEF Disconnected, Place
  <2> QED BY <1>1, <2>1, <2>4, <2>5, <2>6
<1>3. CASE ~(s # NoSignal /\ Contains(slots[s], k))
  BY <1>1, <1>3 DEF Disconnected
<1> QED BY <1>2, <1>3

----------------------------------------------------------------------------
(* Type correctness *)

LEMMA InitType == Init => TypeOK
<1> SUFFICES ASSUME Init PROVE TypeOK
  OBVIOUS
<1>1. 0 \in 0..Forever
  BY TimeAssumption
<1>2. task \in [Tasks -> TaskRec]
  BY <1>1 DEF Init, Free, TaskRec
<1>3. slots \in [Signals -> Seq(Tasks)]
  BY EmptySeq DEF Init
<1>4. tasks \in Seq(Tasks) /\ stack \in Seq(Frames) /\ pos \in 0..Len(tasks)
  BY EmptySeq DEF Init
<1>5. owed \in [Tasks -> 0..Forever] /\ wait \in [Threads -> Tasks \cup {NoTask}]
  BY <1>1 DEF Init
<1>6. /\ status \in [Threads -> Statuses] /\ answer \in [Threads -> Answers]
      /\ resuming \in BOOLEAN /\ delta \in Nat
  BY DEF Init, Statuses, Answers
<1> QED BY <1>2, <1>3, <1>4, <1>5, <1>6 DEF TypeOK

\* register_task and the suspension of its thread, or its refusal.
LEMMA CallType ==
  ASSUME TypeOK, NEW t \in Threads, NEW k \in Tasks, NEW s \in Signals \cup {NoSignal},
         NEW left \in 0..Forever, Running(t), RegisterTask(t, k, s, left),
         Suspend(t, k, left) \/ YieldRaises(k, left),
         slots' \in [Signals -> Seq(Tasks)], UNCHANGED <<resuming, delta>>
  PROVE  TypeOK'
<1>1. /\ tasks' \in Seq(Tasks) /\ Len(tasks') = Len(tasks) + 1
      /\ Len(tasks) \in Nat /\ pos \in 0..Len(tasks)
  BY ConsFacts, LenProperties DEF TypeOK, RegisterTask
<1>2. pos' \in 0..Len(tasks')
  BY <1>1 DEF RegisterTask
<1>3. task' \in [Tasks -> TaskRec]
  BY DEF TypeOK, RegisterTask, TaskRec
<1>4. stack' \in Seq(Frames)
  BY TopType DEF Running, Suspend, YieldRaises, TypeOK
<1>5. status' \in [Threads -> Statuses] /\ answer' \in [Threads -> Answers]
  BY DEF TypeOK, Suspend, YieldRaises, Statuses, Answers
<1>6. wait' \in [Threads -> Tasks \cup {NoTask}] /\ owed' \in [Tasks -> 0..Forever]
  BY DEF TypeOK, Suspend, YieldRaises
<1>7. resuming' \in BOOLEAN /\ delta' \in Nat
  BY DEF TypeOK
<1> QED BY <1>1, <1>2, <1>3, <1>4, <1>5, <1>6, <1>7 DEF TypeOK

\* The end of on_signal.
LEMMA OnSignalEndType ==
  ASSUME TypeOK, NEW k \in Tasks, OnSignalEnd(k), stack' \in Seq(Frames)
  PROVE  TypeOK'
<1>1. slots' \in [Signals -> Seq(Tasks)]
  BY DisconnectType DEF OnSignalEnd
<1>2. task' \in [Tasks -> TaskRec]
  BY ZenonT(60) DEF TypeOK, TaskRec, OnSignalEnd
<1> QED BY <1>1, <1>2 DEF TypeOK, OnSignalEnd, frameVars

\* Where the loop of frame goes next.
LEMMA FrameAtType ==
  ASSUME NEW list \in Seq(Tasks), NEW i \in Nat, delta \in Nat, FrameAt(i, list)
  PROVE  pos' \in 0..Len(list) /\ delta' \in Nat
<1>1. Len(list) \in Nat
  BY LenProperties
<1>2. pos' = (IF i > Len(list) THEN 0 ELSE i) /\ delta' = (IF i > Len(list) THEN 0 ELSE delta)
  BY DEF FrameAt
<1> QED BY <1>1, <1>2

\* The element the loop is at.
LEMMA AtTaskType ==
  ASSUME TypeOK, pos # 0
  PROVE  /\ pos \in 1..Len(tasks) /\ Len(tasks) \in Nat
         /\ tasks[pos] \in Tasks
         /\ task[tasks[pos]].left \in 0..Forever
<1>1. tasks \in Seq(Tasks) /\ Len(tasks) \in Nat /\ pos \in 0..Len(tasks)
  BY LenProperties DEF TypeOK
<1>2. pos \in 1..Len(tasks)
  BY <1>1
<1>3. tasks[pos] \in Tasks
  BY <1>1, <1>2, ElementOfSeq
<1> QED BY <1>1, <1>2, <1>3 DEF TypeOK, TaskRec

LEMMA RemoveTaskType ==
  ASSUME TypeOK, pos # 0, RemoveTask
  PROVE  TypeOK'
<1>1. pos \in 1..Len(tasks) /\ tasks[pos] \in Tasks /\ tasks \in Seq(Tasks)
  BY AtTaskType DEF TypeOK
<1>2. tasks' \in Seq(Tasks)
  BY <1>1, RemoveAtFacts DEF RemoveTask
<1>3. pos' \in 0..Len(tasks') /\ delta' \in Nat
  <2>1. pos \in Nat /\ delta \in Nat
    BY <1>1 DEF TypeOK
  <2> QED BY <1>2, <2>1, FrameAtType DEF RemoveTask
<1>4. task' \in [Tasks -> TaskRec] /\ owed' \in [Tasks -> 0..Forever]
  BY <1>1, TimeAssumption DEF TypeOK, RemoveTask, Free, TaskRec
<1>5. slots' \in [Signals -> Seq(Tasks)]
  BY <1>1, DisconnectType DEF RemoveTask
<1> QED BY <1>2, <1>3, <1>4, <1>5 DEF TypeOK, RemoveTask

\* Every step keeps the types.
LEMMA NextType ==
  ASSUME TypeOK, LoopInv, [Next]_vars
  PROVE  TypeOK'
<1>1. ASSUME NEW t \in Threads, Start(t) PROVE TypeOK'
  <2>1. stack' \in Seq(Frames)
    BY <1>1, PushType DEF Start, RunFrame
  <2> QED BY <1>1, <2>1 DEF TypeOK, Start, frameVars, Statuses
<1>2. ASSUME NEW t \in Threads, Finish(t) PROVE TypeOK'
  <2>1. stack' \in Seq(Frames)
    BY <1>2, TopType DEF Finish, Running
  <2> QED BY <1>2, <2>1 DEF TypeOK, Finish, frameVars, Statuses, Answers
<1>3. ASSUME NEW t \in Threads, Collect(t) PROVE TypeOK'
  BY <1>3 DEF TypeOK, Collect, frameVars, Statuses, Answers
<1>4. ASSUME NEW t \in Threads, ResumeByHand(t) PROVE TypeOK'
  <2>1. stack' \in Seq(Frames)
    BY <1>4, PushType DEF ResumeByHand, RunFrame
  <2> QED BY <1>4, <2>1 DEF TypeOK, ResumeByHand, frameVars, Statuses
<1>5. ASSUME NEW t \in Threads, NEW k \in Tasks, NEW d \in Durations, Wait(t, k, d)
      PROVE TypeOK'
  <2>1. PICK left \in 0..Forever :
          RegisterTask(t, k, NoSignal, left) /\ (Suspend(t, k, left) \/ YieldRaises(k, left))
    BY <1>5, UsecType DEF Wait
  <2>2. slots' \in [Signals -> Seq(Tasks)] /\ UNCHANGED <<resuming, delta>>
    BY <1>5 DEF Wait, TypeOK
  <2> QED BY <1>5, <2>1, <2>2, CallType DEF Wait
<1>6. ASSUME NEW t \in Threads, NEW k \in Tasks, NEW d \in Durations, NEW s \in Signals,
             WaitSignal(t, k, s, d)
      PROVE TypeOK'
  <2>1. PICK left \in 0..Forever :
          RegisterTask(t, k, s, left) /\ (Suspend(t, k, left) \/ YieldRaises(k, left))
    BY <1>6, UsecType DEF WaitSignal
  <2>2. slots' \in [Signals -> Seq(Tasks)] /\ UNCHANGED <<resuming, delta>>
    BY <1>6, AppendProperties DEF WaitSignal, TypeOK
  <2> QED BY <1>6, <2>1, <2>2, CallType DEF WaitSignal
<1>7. ASSUME NEW s \in Signals, Emit(s) PROVE TypeOK'
  <2>1. [kind |-> "emit", signal |-> s, cur |-> NoTask, queue |-> slots[s]] \in Frames
    BY DEF TypeOK, EmitFrame
  <2>2. stack' \in Seq(Frames)
    BY <1>7, <2>1, PushType DEF Emit
  <2> QED BY <1>7, <2>2 DEF TypeOK, Emit, frameVars
<1>8. CASE OnSignal
  <2> DEFINE k == Head(Last(stack).queue)
             f == [Last(stack) EXCEPT !.cur = k, !.queue = Tail(@)]
             g == [kind |-> "run", thread |-> task[k].owner]
  <2>1. stack # <<>> /\ k \in Tasks /\ f \in Frames
    BY <1>8, EmissionTop DEF OnSignal
  <2>2. task[k].owner \in Threads
    BY <1>8 DEF OnSignal, CanResume
  <2>3. g \in Frames
    BY <2>2 DEF RunFrame
  <2>4. stack' \in Seq(Frames)
    <3>1. Append(Front(stack), f) \in Seq(Frames)
      BY <2>1, TopType, AppendProperties
    <3>2. stack' = Append(Append(Front(stack), f), g)
      BY <1>8 DEF OnSignal
    <3> HIDE DEF f, g
    <3> QED BY <2>3, <3>1, <3>2, AppendProperties
  <2>5. status' \in [Threads -> Statuses] /\ answer' \in [Threads -> Answers]
    BY <1>8 DEF TypeOK, OnSignal, Resumed, Statuses, Answers
  <2>6. UNCHANGED <<tasks, task, pos, resuming, delta, slots, wait, owed>>
    BY <1>8 DEF OnSignal, frameVars
  <2> QED BY <2>4, <2>5, <2>6 DEF TypeOK
<1>9. CASE OnSignalReturn
  <2>1. stack # <<>> /\ Last(stack) \in EmitFrame
    BY <1>9, EmissionTop DEF OnSignalReturn
  <2>2. Last(stack).cur \in Tasks
    BY <1>9, <2>1 DEF OnSignalReturn, EmitFrame
  <2>3. [Last(stack) EXCEPT !.cur = NoTask] \in Frames
    BY <1>9, EmissionTop DEF OnSignalReturn
  <2>4. stack' \in Seq(Frames)
    BY <1>9, <2>1, <2>3, ReplaceType DEF OnSignalReturn
  <2> QED BY <1>9, <2>2, <2>4, OnSignalEndType DEF OnSignalReturn
<1>10. CASE OnSignalRefused
  <2>1. /\ stack # <<>> /\ Head(Last(stack).queue) \in Tasks
        /\ [Last(stack) EXCEPT !.queue = Tail(@)] \in Frames
    BY <1>10, EmissionTop DEF OnSignalRefused
  <2>2. stack' \in Seq(Frames)
    BY <1>10, <2>1, ReplaceType DEF OnSignalRefused
  <2> QED BY <1>10, <2>1, <2>2, OnSignalEndType DEF OnSignalRefused
<1>11. CASE EmitEnd
  <2>1. stack' \in Seq(Frames)
    BY <1>11, TopType DEF EmitEnd, InEmission
  <2> QED BY <1>11, <2>1 DEF TypeOK, EmitEnd, frameVars
<1>12. CASE FrameKeep
  <2>1. pos \in 1..Len(tasks) /\ tasks[pos] \in Tasks /\ Updated \in 0..Forever
    BY <1>12, AtTaskType, ElapseType DEF FrameKeep, AtTask, Updated, TypeOK
  <2>2. pos' \in 0..Len(tasks) /\ delta' \in Nat
    <3>1. pos + 1 \in Nat /\ tasks \in Seq(Tasks) /\ delta \in Nat
      BY <2>1 DEF TypeOK
    <3> QED BY <1>12, <3>1, FrameAtType DEF FrameKeep
  <2>3. task' \in [Tasks -> TaskRec]
    BY <1>12, <2>1, ZenonT(40) DEF TypeOK, FrameKeep, TaskRec
  <2> QED BY <1>12, <2>2, <2>3 DEF TypeOK, FrameKeep
<1>13. CASE FrameResume
  <2>1. pos \in 1..Len(tasks) /\ tasks[pos] \in Tasks /\ Updated \in 0..Forever
    BY <1>13, AtTaskType, ElapseType DEF FrameResume, AtTask, Updated, TypeOK
  <2>2. task' \in [Tasks -> TaskRec]
    BY <1>13, <2>1, ZenonT(40) DEF TypeOK, FrameResume, TaskRec
  <2>3. task[tasks[pos]].owner \in Threads
    BY <1>13 DEF FrameResume, CanResume
  <2>4. stack' \in Seq(Frames)
    <3>1. [kind |-> "run", thread |-> task[tasks[pos]].owner] \in Frames
      BY <2>3 DEF RunFrame
    <3>2. Push([kind |-> "run", thread |-> task[tasks[pos]].owner])
      BY <1>13 DEF FrameResume
    <3> QED BY <3>1, <3>2, PushType
  <2>5. status' \in [Threads -> Statuses] /\ answer' \in [Threads -> Answers]
    BY <1>13 DEF TypeOK, FrameResume, Resumed, Statuses, Answers
  <2>6. resuming' \in BOOLEAN /\ UNCHANGED <<tasks, pos, delta, slots, wait, owed>>
    BY <1>13 DEF FrameResume
  <2> QED BY <2>2, <2>4, <2>5, <2>6 DEF TypeOK
<1>14. CASE FrameReturn \/ FrameDrop \/ FrameRefused
  <2>1. pos # 0 \/ resuming
    BY <1>14 DEF FrameReturn, FrameDrop, FrameRefused, AtTask
  <2>2. RemoveTask
    BY <1>14 DEF FrameReturn, FrameDrop, FrameRefused
  <2> QED BY <2>1, <2>2, RemoveTaskType DEF LoopInv
<1>15. ASSUME NEW d \in Deltas, FrameBegin(d) PROVE TypeOK'
  <2>1. Len(tasks) \in Nat /\ Len(tasks) >= 1
    BY <1>15, EmptySeq DEF FrameBegin, TypeOK
  <2>2. pos' \in 0..Len(tasks) /\ delta' \in Nat
    BY <1>15, <2>1, TimeAssumption DEF FrameBegin
  <2>3. owed' \in [Tasks -> 0..Forever]
    <3>1. d \in Nat
      BY TimeAssumption
    <3>2. \A k \in Tasks : owed[k] \in 0..Forever /\ Elapse(owed[k], d) \in 0..Forever
      BY <3>1, ElapseType DEF TypeOK
    <3> QED BY <1>15, <3>2 DEF FrameBegin
  <2> QED BY <1>15, <2>2, <2>3 DEF TypeOK, FrameBegin
<1>16. CASE UNCHANGED vars
  BY <1>16 DEF vars, TypeOK
<1> QED
  BY <1>1, <1>2, <1>3, <1>4, <1>5, <1>6, <1>7, <1>8, <1>9, <1>10, <1>11, <1>12, <1>13,
     <1>14, <1>15, <1>16 DEF Next, LuaNext, SignalNext, FrameStep

----------------------------------------------------------------------------
(* The list, the slots and the stack after a step *)

\* Registering puts a task that was not in the list in front of it; the loop of
\* frame stays at its element.
LEMMA Registered ==
  ASSUME TypeOK, NEW t, NEW k \in Tasks, NEW s, NEW left, RegisterTask(t, k, s, left)
  PROVE  /\ ~Contains(tasks, k)
         /\ \A x : Contains(tasks', x) <=> Contains(tasks, x) \/ x = k
         /\ IsInjective(tasks) => IsInjective(tasks')
         /\ pos # 0 => pos' # 0 /\ tasks'[pos'] = tasks[pos]
         /\ pos = 0 => pos' = 0
         /\ \A x \in Tasks : x # k => task'[x] = task[x]
         /\ task'[k] = [owner |-> t, signal |-> s, left |-> left, got |-> FALSE]
<1>1. tasks \in Seq(Tasks) /\ Len(tasks) \in Nat /\ pos \in 0..Len(tasks)
  BY LenProperties DEF TypeOK
<1>2. ~Contains(tasks, k)
  BY <1>1, ToSetFacts DEF RegisterTask, Live, Contains
<1>3. tasks' = Cons(k, tasks)
  BY DEF RegisterTask
<1>4. \A x : Contains(tasks', x) <=> Contains(tasks, x) \/ x = k
  BY <1>1, <1>3, ConsElements
<1>5. IsInjective(tasks) => IsInjective(tasks')
  BY <1>1, <1>2, <1>3, ConsElements
<1>6. pos = 0 => pos' = 0
  BY DEF RegisterTask
<1>7. ASSUME pos # 0 PROVE pos' # 0 /\ tasks'[pos'] = tasks[pos]
  <2>1. pos \in 1..Len(tasks)
    BY <1>1, <1>7
  <2>2. pos' = pos + 1
    BY <1>7 DEF RegisterTask
  <2>0. tasks \in Seq(Tasks)
    BY <1>1
  <2>3. \A i \in 1..Len(tasks) : Cons(k, tasks)[i + 1] = tasks[i]
    BY <2>0, ConsShifts
  <2>4. tasks'[pos + 1] = tasks[pos]
    BY <1>3, <2>1, <2>3
  <2> QED BY <2>1, <2>2, <2>4
<1>8. \A x \in Tasks : x # k => task'[x] = task[x]
  BY DEF RegisterTask, TypeOK
<1>9. task'[k] = [owner |-> t, signal |-> s, left |-> left, got |-> FALSE]
  BY DEF RegisterTask, TypeOK
<1> QED BY <1>2, <1>4, <1>5, <1>6, <1>7, <1>8, <1>9

\* Disconnecting takes a waiter out of every list of slots.
LEMMA DisconnectedElements ==
  ASSUME TypeOK, SlotsInv, NEW k \in Tasks, NEW s \in Signals
  PROVE  /\ IsInjective(Disconnected(k)[s])
         /\ \A x \in Tasks : Contains(Disconnected(k)[s], x) <=> Contains(slots[s], x) /\ x # k
<1> DEFINE q == task[k].signal
<1>1. slots[s] \in Seq(Tasks) /\ q \in Signals \cup {NoSignal} /\ IsInjective(slots[s])
  BY DEF TypeOK, TaskRec, SlotsInv
<1>2. CASE Disconnected(k) = slots
  <2>1. ~Contains(slots[s], k)
    <3>1. CASE q = NoSignal
      BY <3>1, SentinelsAssumption DEF SlotsInv
    <3>2. CASE q # NoSignal /\ s # q
      BY <3>2 DEF SlotsInv
    <3>3. CASE q # NoSignal /\ s = q
      <4> SUFFICES ASSUME Contains(slots[s], k) PROVE FALSE
        OBVIOUS
      <4>1. Disconnected(k) = [slots EXCEPT ![q] = RemoveAt(@, Place(k))]
        BY <3>3 DEF Disconnected, Place
      <4>2. slots[s] = RemoveAt(slots[s], Place(k))
        BY <1>2, <3>3, <4>1 DEF TypeOK
      <4>3. Place(k) \in 1..Len(slots[s])
        <5>1. DOMAIN slots[s] = 1..Len(slots[s])
          BY <1>1, LenProperties
        <5>2. \E i \in DOMAIN slots[s] : slots[s][i] = k
          BY <5>1 DEF Contains
        <5> QED BY <3>3, <5>1, <5>2 DEF Place
      <4>4. Len(slots[s]) = Len(slots[s]) - 1 /\ Len(slots[s]) \in Nat
        BY <1>1, <4>2, <4>3, RemoveAtFacts, LenProperties
      <4> QED BY <4>4
    <3> QED BY <3>1, <3>2, <3>3
  <2> QED BY <1>1, <1>2, <2>1
<1>3. CASE Disconnected(k) # slots
  <2>1. /\ q \in Signals /\ Place(k) \in 1..Len(slots[q]) /\ slots[q][Place(k)] = k
        /\ Disconnected(k) = [slots EXCEPT ![q] = RemoveAt(@, Place(k))]
    BY <1>3, DisconnectType
  <2>2. CASE s = q
    <3>1. Disconnected(k)[s] = RemoveAt(slots[s], Place(k))
      BY <2>1, <2>2 DEF TypeOK
    <3> QED BY <1>1, <2>1, <2>2, <3>1, RemoveAtElements
  <2>3. CASE s # q
    <3>1. Disconnected(k)[s] = slots[s]
      BY <2>1, <2>3 DEF TypeOK
    <3>2. ~Contains(slots[s], k)
      BY <2>3 DEF SlotsInv
    <3> QED BY <1>1, <3>1, <3>2
  <2> QED BY <2>2, <2>3
<1> QED BY <1>2, <1>3

\* Removing the task the loop is at takes it out of the list and of the slots.
LEMMA Removed ==
  ASSUME TypeOK, ListInv, SlotsInv, pos # 0, RemoveTask
  PROVE  /\ tasks[pos] \in Tasks /\ Contains(tasks, tasks[pos])
         /\ IsInjective(tasks')
         /\ \A x : Contains(tasks', x) <=> Contains(tasks, x) /\ x # tasks[pos]
         /\ \A x \in Tasks : x # tasks[pos] => task'[x] = task[x]
         /\ \A s \in Signals : IsInjective(slots'[s])
         /\ \A s \in Signals, x \in Tasks :
              Contains(slots'[s], x) <=> Contains(slots[s], x) /\ x # tasks[pos]
<1>1. pos \in 1..Len(tasks) /\ tasks[pos] \in Tasks /\ tasks \in Seq(Tasks)
  BY AtTaskType DEF TypeOK
<1>2. IsInjective(tasks) /\ tasks' = RemoveAt(tasks, pos)
  BY DEF ListInv, RemoveTask
<1>3. IsInjective(tasks')
  BY <1>1, <1>2, RemoveAtElements
<1>4. \A x : Contains(tasks', x) <=> Contains(tasks, x) /\ x # tasks[pos]
  BY <1>1, <1>2, RemoveAtElements
<1>5. Contains(tasks, tasks[pos])
  BY <1>1 DEF Contains
<1>6. \A x \in Tasks : x # tasks[pos] => task'[x] = task[x]
  BY <1>1 DEF RemoveTask, TypeOK
<1>7. slots' = Disconnected(tasks[pos])
  BY DEF RemoveTask
<1>8. \A s \in Signals : IsInjective(slots'[s])
  BY <1>1, <1>7, DisconnectedElements
<1>9. \A s \in Signals, x \in Tasks :
        Contains(slots'[s], x) <=> Contains(slots[s], x) /\ x # tasks[pos]
  BY <1>1, <1>7, DisconnectedElements
<1> QED BY <1>1, <1>3, <1>4, <1>5, <1>6, <1>8, <1>9

\* The queue of an emission without its first element.
LEMMA TailElements ==
  ASSUME NEW q \in Seq(Tasks), q # <<>>
  PROVE  /\ Contains(q, Head(q))
         /\ \A x : Contains(Tail(q), x) => Contains(q, x)
<1>1. Len(q) \in Nat /\ Len(q) >= 1 /\ Len(Tail(q)) = Len(q) - 1
  BY EmptySeq, HeadTailProperties
<1>2. \A i \in 1..Len(Tail(q)) : Tail(q)[i] = q[i + 1] /\ i + 1 \in 1..Len(q)
  BY <1>1, HeadTailProperties
<1>3. Head(q) = q[1] /\ 1 \in 1..Len(q)
  BY <1>1
<1> QED BY <1>2, <1>3 DEF Contains

\* on_signal begins: the emission on top notes whom it calls and the thread runs.
LEMMA OnSignalStack ==
  ASSUME TypeOK, OnSignal
  PROVE  LET n == Len(stack)
             k == Head(Last(stack).queue) IN
         /\ n \in Nat /\ n >= 1 /\ Len(stack') = n + 1
         /\ \A i \in 1..(n - 1) : stack'[i] = stack[i]
         /\ stack[n] \in EmitFrame /\ stack[n].cur = NoTask /\ stack[n].queue # <<>>
         /\ k = Head(stack[n].queue) /\ k \in Tasks
         /\ task[k].owner \in Threads /\ status[task[k].owner] = "waiting"
         /\ stack'[n] = [stack[n] EXCEPT !.cur = k, !.queue = Tail(@)]
         /\ stack'[n] \in EmitFrame
         /\ stack'[n + 1] = [kind |-> "run", thread |-> task[k].owner]
<1> DEFINE n == Len(stack)
           k == Head(Last(stack).queue)
           f == [Last(stack) EXCEPT !.cur = k, !.queue = Tail(@)]
           g == [kind |-> "run", thread |-> task[k].owner]
<1>1. /\ stack # <<>> /\ Last(stack) \in EmitFrame /\ Last(stack).queue # <<>>
      /\ k \in Tasks /\ f \in EmitFrame /\ Last(stack).cur = NoTask
  BY EmissionTop DEF OnSignal
<1>2. /\ Front(stack) \in Seq(Frames) /\ n \in Nat /\ n >= 1 /\ Len(Front(stack)) = n - 1
      /\ \A i \in 1..(n - 1) : Front(stack)[i] = stack[i]
      /\ Last(stack) = stack[n]
  BY <1>1, TopType
<1>3. task[k].owner \in Threads /\ status[task[k].owner] = "waiting"
  BY DEF OnSignal, CanResume
<1>4. g \in Frames
  BY <1>3 DEF RunFrame
<1>5. stack' = Append(Append(Front(stack), f), g)
  BY DEF OnSignal
<1>6. f = [stack[n] EXCEPT !.cur = k, !.queue = Tail(@)] /\ k = Head(stack[n].queue)
  BY <1>2
<1> HIDE DEF f, g, k, n
<1>7. /\ Append(Front(stack), f) \in Seq(Frames) /\ Len(Append(Front(stack), f)) = n
      /\ Append(Front(stack), f)[n] = f
      /\ \A i \in 1..(n - 1) : Append(Front(stack), f)[i] = stack[i]
  <2>1. /\ Append(Front(stack), f) \in Seq(Frames)
        /\ Len(Append(Front(stack), f)) = Len(Front(stack)) + 1
        /\ Append(Front(stack), f)[Len(Front(stack)) + 1] = f
        /\ \A i \in 1..Len(Front(stack)) : Append(Front(stack), f)[i] = Front(stack)[i]
    BY <1>1, <1>2, AppendProperties
  <2> QED BY <1>2, <2>1
<1>8. /\ Len(stack') = n + 1 /\ stack'[n + 1] = g
      /\ \A i \in 1..n : stack'[i] = Append(Front(stack), f)[i]
  BY <1>4, <1>5, <1>7, AppendProperties
<1>9. /\ \A i \in 1..(n - 1) : stack'[i] = stack[i]
      /\ stack'[n] = f
  BY <1>2, <1>7, <1>8
<1> QED BY <1>1, <1>2, <1>3, <1>6, <1>8, <1>9 DEF f, g, k, n

\* A waiter is done with: nothing was added to the stack, and the emission on
\* top calls nobody now and has no more waiters to call than before.
LEMMA OnSignalEndStack ==
  ASSUME TypeOK, OnSignalReturn \/ OnSignalRefused
  PROVE  LET n == Len(stack) IN
         /\ n \in Nat /\ n >= 1 /\ Len(stack') = n
         /\ \A i \in 1..(n - 1) : stack'[i] = stack[i]
         /\ stack[n] \in EmitFrame
         /\ stack'[n].kind = "emit" /\ stack'[n].cur = NoTask
         /\ stack'[n].signal = stack[n].signal
         /\ \/ OnSignalReturn /\ stack'[n].queue = stack[n].queue
            \/ OnSignalRefused /\ stack[n].queue # <<>> /\ stack'[n].queue = Tail(stack[n].queue)
<1> DEFINE n == Len(stack)
<1>1. stack # <<>> /\ Last(stack) \in EmitFrame
  BY EmissionTop DEF OnSignalReturn, OnSignalRefused
<1>2. n \in Nat /\ n >= 1 /\ Last(stack) = stack[n]
  BY <1>1, TopType
<1>3. CASE OnSignalReturn
  <2>1. [Last(stack) EXCEPT !.cur = NoTask] \in Frames
    BY <1>3, EmissionTop DEF OnSignalReturn
  <2>2. /\ Len(stack') = n /\ stack'[n] = [Last(stack) EXCEPT !.cur = NoTask]
        /\ \A i \in 1..(n - 1) : stack'[i] = stack[i]
    BY <1>1, <1>3, <2>1, ReplaceType DEF OnSignalReturn
  <2> QED BY <1>1, <1>2, <1>3, <2>2 DEF EmitFrame
<1>4. CASE OnSignalRefused
  <2>1. /\ [Last(stack) EXCEPT !.queue = Tail(@)] \in Frames
        /\ Last(stack).queue # <<>> /\ Last(stack).cur = NoTask
    BY <1>4, EmissionTop DEF OnSignalRefused
  <2>2. /\ Len(stack') = n /\ stack'[n] = [Last(stack) EXCEPT !.queue = Tail(@)]
        /\ \A i \in 1..(n - 1) : stack'[i] = stack[i]
    BY <1>1, <1>4, <2>1, ReplaceType DEF OnSignalRefused
  <2> QED BY <1>1, <1>2, <1>4, <2>1, <2>2 DEF EmitFrame
<1> QED BY <1>3, <1>4

\* The waiter that on_signal finishes with, which its thread does not sit in.
LEMMA OnSignalEndWaiter ==
  ASSUME WakeupInv, OnSignalReturn \/ OnSignalRefused
  PROVE  \E k \in Tasks : /\ OnSignalEnd(k)
                          /\ \A t \in Threads : status[t] = "waiting" => wait[t] # k
<1>1. stack # <<>> /\ Last(stack) \in EmitFrame /\ TypeOK
  BY EmissionTop DEF OnSignalReturn, OnSignalRefused, WakeupInv
<1>2. Len(stack) \in 1..Len(stack) /\ Last(stack) = stack[Len(stack)]
  <2>1. Len(stack) \in Nat /\ Len(stack) >= 1 /\ Last(stack) = stack[Len(stack)]
    BY <1>1, TopType
  <2> QED BY <2>1
<1>3. CASE OnSignalReturn
  <2>1. Last(stack).cur \in Tasks /\ OnSignalEnd(Last(stack).cur)
    BY <1>1, <1>3 DEF OnSignalReturn, EmitFrame
  <2>2. \A t \in Threads : status[t] = "waiting" => wait[t] # Last(stack).cur
    BY <1>1, <1>2 DEF WakeupInv, AnsweringInv, EmitFrame
  <2> QED BY <2>1, <2>2
<1>4. CASE OnSignalRefused
  <2> DEFINE k == Head(Last(stack).queue)
  <2>1. k \in Tasks /\ OnSignalEnd(k) /\ ~CanResume(k)
    BY <1>4, <1>1, EmissionTop DEF OnSignalRefused
  <2>2. \A t \in Threads : status[t] = "waiting" => task[wait[t]].owner = t
    BY DEF WakeupInv, WaitInv
  <2>3. \A t \in Threads : status[t] = "waiting" => wait[t] # k
    BY <2>1, <2>2 DEF CanResume
  <2> QED BY <2>1, <2>3
<1> QED BY <1>3, <1>4

----------------------------------------------------------------------------
(* The invariant behind NoLostWakeup: one lemma for each kind of step *)

\* A thread that was not running is put on the stack.
LEMMA RunKeeps ==
  ASSUME WakeupInv, TypeOK', NEW t \in Threads, status[t] # "running",
         status' = [status EXCEPT ![t] = "running"],
         Push([kind |-> "run", thread |-> t]),
         stack = <<>> => pos = 0,
         UNCHANGED <<tasks, task, pos, resuming, slots>>,
         \A u \in Threads : u # t => wait'[u] = wait[u]
  PROVE  WakeupInv'
<1> DEFINE n == Len(stack)
<1>1. TypeOK /\ [kind |-> "run", thread |-> t] \in Frames
  BY DEF WakeupInv, RunFrame
<1>2. /\ n \in Nat /\ Len(stack') = n + 1
      /\ stack'[n + 1] = [kind |-> "run", thread |-> t]
      /\ \A i \in 1..n : stack'[i] = stack[i]
  BY <1>1, PushType
<1>3. \A i \in 1..Len(stack') : i \in 1..n \/ i = n + 1
  BY <1>2
<1>4. status'[t] = "running" /\ \A u \in Threads : u # t => status'[u] = status[u]
  BY <1>1 DEF TypeOK
<1>5. \A x : InList(x)' <=> InList(x)
  BY DEF InList
<1>6. LoopInv'
  BY DEF WakeupInv, LoopInv
<1>7. ListInv'
  BY <1>4, <1>5 DEF WakeupInv, ListInv
<1>8. StackInv'
  <2>1. \A i \in 1..n : stack[i].kind = "run" => stack[i].thread \in Threads /\ stack[i].thread # t
    <3>1. \A i \in 1..n : stack[i] \in Frames
      BY <1>1, ElementOfSeq DEF TypeOK
    <3> QED BY <3>1 DEF WakeupInv, StackInv, RunFrame, EmitFrame
  <2> QED BY <1>2, <1>3, <1>4, <2>1, SMTT(30) DEF WakeupInv, StackInv
<1>9. SlotsInv'
  BY <1>5 DEF WakeupInv, SlotsInv
<1>10. EmissionInv'
  BY <1>2, <1>3, <1>5 DEF WakeupInv, EmissionInv
<1>11. WaitInv'
  BY <1>4, <1>5 DEF WakeupInv, WaitInv
<1>12. AnsweringInv'
  BY <1>2, <1>3, <1>4 DEF WakeupInv, AnsweringInv
<1> QED BY <1>6, <1>7, <1>8, <1>9, <1>10, <1>11, <1>12 DEF WakeupInv

\* The activation on top returns and no thread begins to wait.
LEMMA PopKeeps ==
  ASSUME WakeupInv, TypeOK', stack # <<>>, stack' = Front(stack),
         UNCHANGED <<tasks, task, pos, resuming, slots>>,
         \A u \in Threads : status'[u] \in {"running", "waiting"} => status'[u] = status[u],
         \A u \in Threads : status[u] # "new" => status'[u] # "new",
         \A u \in Threads : status[u] = "running" /\ status'[u] # "running" =>
            Last(stack).kind = "run" /\ Last(stack).thread = u,
         \A u \in Threads : status'[u] = "waiting" => wait'[u] = wait[u]
  PROVE  WakeupInv'
<1> DEFINE n == Len(stack)
<1>1. /\ TypeOK /\ n \in Nat /\ n >= 1 /\ Len(stack') = n - 1
      /\ \A i \in 1..(n - 1) : stack'[i] = stack[i]
      /\ Last(stack) = stack[n]
  BY TopType DEF WakeupInv
<1>2. \A i \in 1..Len(stack') : i \in 1..n /\ i # n /\ stack'[i] = stack[i]
  BY <1>1
<1>3. \A x : InList(x)' <=> InList(x)
  BY DEF InList
<1>4. LoopInv'
  BY DEF WakeupInv, LoopInv
<1>5. ListInv'
  BY <1>3 DEF WakeupInv, ListInv
<1>6. StackInv'
  <2>1. \A i \in 1..n : stack[i] \in Frames
    BY <1>1, ElementOfSeq DEF TypeOK
  <2>2. \A i \in 1..n : stack[i].kind = "run" => stack[i].thread \in Threads
    BY <2>1 DEF RunFrame, EmitFrame
  <2>3. n \in 1..n
    BY <1>1
  <2>4. \A i \in 1..Len(stack') : stack'[i].kind = "run" => status'[stack'[i].thread] = "running"
    BY <1>1, <1>2, <2>2, <2>3 DEF WakeupInv, StackInv
  <2> QED BY <1>2, <2>4 DEF WakeupInv, StackInv
<1>7. SlotsInv'
  BY <1>3 DEF WakeupInv, SlotsInv
<1>8. EmissionInv'
  BY <1>2, <1>3 DEF WakeupInv, EmissionInv
<1>9. WaitInv'
  BY <1>3 DEF WakeupInv, WaitInv
<1>10. AnsweringInv'
  BY <1>2 DEF WakeupInv, AnsweringInv
<1> QED BY <1>4, <1>5, <1>6, <1>7, <1>8, <1>9, <1>10 DEF WakeupInv

\* A thread is collected: no task in the list is its own.
LEMMA CollectKeeps ==
  ASSUME WakeupInv, TypeOK', NEW t \in Threads, Collect(t)
  PROVE  WakeupInv'
<1>1. /\ TypeOK /\ UNCHANGED <<tasks, task, pos, resuming, slots, stack>>
      /\ status[t] # "running" /\ \A u \in Threads : u # t => status'[u] = status[u]
      /\ status'[t] = "new" /\ \A u \in Threads : u # t => wait'[u] = wait[u]
  BY DEF Collect, frameVars, WakeupInv, TypeOK
<1>2. \A k \in Tasks : InList(k) => task[k].owner # t
  <2>1. \A k \in Tasks : InList(k) => k \in Live
    BY <1>1, ToSetFacts DEF InList, Contains, Live, TypeOK
  <2> QED BY <2>1 DEF Collect
<1>3. \A x : InList(x)' <=> InList(x)
  BY <1>1 DEF InList
<1>4. LoopInv'
  BY <1>1 DEF WakeupInv, LoopInv
<1>5. ListInv'
  BY <1>1, <1>2, <1>3 DEF WakeupInv, ListInv
<1>6. StackInv'
  <2>1. \A i \in 1..Len(stack) : stack[i] \in Frames
    BY <1>1, ElementOfSeq DEF TypeOK
  <2>2. \A i \in 1..Len(stack) : stack[i].kind = "run" => stack[i].thread \in Threads
    BY <2>1 DEF RunFrame, EmitFrame
  <2> QED BY <1>1, <2>2 DEF WakeupInv, StackInv
<1>7. SlotsInv'
  BY <1>1, <1>3 DEF WakeupInv, SlotsInv
<1>8. EmissionInv'
  BY <1>1, <1>3 DEF WakeupInv, EmissionInv
<1>9. WaitInv'
  BY <1>1, <1>3 DEF WakeupInv, WaitInv
<1>10. AnsweringInv'
  BY <1>1 DEF WakeupInv, AnsweringInv
<1> QED BY <1>4, <1>5, <1>6, <1>7, <1>8, <1>9, <1>10 DEF WakeupInv

\* A thread calls wait (s is NoSignal) or wait_signal.
LEMMA CallKeeps ==
  ASSUME WakeupInv, TypeOK', NEW t \in Threads, NEW k \in Tasks, NEW left,
         NEW s \in Signals \cup {NoSignal},
         Running(t), RegisterTask(t, k, s, left), Suspend(t, k, left), UNCHANGED resuming,
         \/ s = NoSignal /\ slots' = slots
         \/ s \in Signals /\ slots' = [slots EXCEPT ![s] = Append(@, k)]
  PROVE  WakeupInv'
<1> DEFINE n == Len(stack)
<1>1. /\ TypeOK /\ stack # <<>> /\ n \in Nat /\ n >= 1 /\ Len(stack') = n - 1
      /\ \A i \in 1..(n - 1) : stack'[i] = stack[i]
      /\ stack[n].kind = "run" /\ stack[n].thread = t
  BY TopType DEF WakeupInv, Running, Suspend
<1>2. \A i \in 1..Len(stack') : i \in 1..n /\ i # n /\ stack'[i] = stack[i]
  BY <1>1
<1>3. \A i \in 1..n : stack[i] \in Frames
  BY <1>1, ElementOfSeq DEF TypeOK
<1>4. /\ status'[t] = "waiting" /\ \A u \in Threads : u # t => status'[u] = status[u]
      /\ wait'[t] = k /\ \A u \in Threads : u # t => wait'[u] = wait[u]
  BY <1>1 DEF Suspend, TypeOK
<1>5. ~InList(k) /\ \A x : InList(x)' <=> InList(x) \/ x = k
  BY <1>1, Registered, ZenonT(40) DEF InList
<1>6. /\ \A x \in Tasks : x # k => task'[x] = task[x]
      /\ task'[k] = [owner |-> t, signal |-> s, left |-> left, got |-> FALSE]
  BY <1>1 DEF RegisterTask, TypeOK
<1>7. (pos # 0 => pos' # 0 /\ tasks'[pos'] = tasks[pos]) /\ (pos = 0 => pos' = 0)
  BY <1>1, Registered
<1>8. LoopInv'
  BY <1>1, <1>7 DEF WakeupInv, LoopInv
<1>9. ListInv'
  <2>1. IsInjective(tasks')
    BY <1>1, Registered DEF WakeupInv, ListInv
  <2> QED BY <1>4, <1>5, <1>6, <2>1 DEF WakeupInv, ListInv
<1>10. StackInv'
  <2>1. \A i \in 1..n : stack[i].kind = "run" => stack[i].thread \in Threads
    BY <1>3 DEF RunFrame, EmitFrame
  <2>2. n \in 1..n
    BY <1>1
  <2>3. \A i \in 1..Len(stack') : stack'[i].kind = "run" => stack'[i].thread # t
    BY <1>1, <1>2, <2>2 DEF WakeupInv, StackInv
  <2> QED BY <1>2, <1>4, <2>1, <2>3 DEF WakeupInv, StackInv
<1>11. /\ \A r \in Signals : IsInjective(slots'[r])
       /\ \A r \in Signals, x \in Tasks :
            Contains(slots'[r], x) <=> Contains(slots[r], x) \/ (r = s /\ x = k)
  <2>1. CASE s = NoSignal /\ slots' = slots
    BY <2>1, SentinelsAssumption DEF WakeupInv, SlotsInv
  <2>2. CASE s \in Signals /\ slots' = [slots EXCEPT ![s] = Append(@, k)]
    <3>1. slots[s] \in Seq(Tasks) /\ IsInjective(slots[s]) /\ ~Contains(slots[s], k)
      BY <1>1, <1>5, <2>2 DEF TypeOK, WakeupInv, SlotsInv
    <3>2. slots'[s] = Append(slots[s], k) /\ \A r \in Signals : r # s => slots'[r] = slots[r]
      BY <1>1, <2>2 DEF TypeOK
    <3>3. IsInjective(slots'[s]) /\ \A x : Contains(slots'[s], x) <=> Contains(slots[s], x) \/ x = k
      BY <3>1, <3>2, AppendElements
    <3> QED BY <3>2, <3>3 DEF WakeupInv, SlotsInv
  <2> QED BY <2>1, <2>2
<1>12. SlotsInv'
  BY <1>5, <1>6, <1>11 DEF WakeupInv, SlotsInv
<1>13. EmissionInv'
  BY <1>2, <1>5 DEF WakeupInv, EmissionInv
<1>14. WaitInv'
  <2> SUFFICES ASSUME NEW u \in Threads, status'[u] = "waiting"
               PROVE /\ wait'[u] \in Tasks /\ Contains(tasks', wait'[u])
                     /\ task'[wait'[u]].owner = u
                     /\ ~task'[wait'[u]].got
                     /\ task'[wait'[u]].signal # NoSignal =>
                          Contains(slots'[task'[wait'[u]].signal], wait'[u])
    BY DEF WaitInv, InList
  <2> USE DEF InList
  <2>1. CASE u = t
    BY <1>4, <1>5, <1>6, <1>11, <2>1
  <2>2. CASE u # t
    <3>1. /\ wait'[u] \in Tasks /\ InList(wait'[u]) /\ task[wait'[u]].owner = u
          /\ ~task[wait'[u]].got
          /\ task[wait'[u]].signal # NoSignal =>
               Contains(slots[task[wait'[u]].signal], wait'[u])
      BY <1>4, <2>2 DEF WakeupInv, WaitInv
    <3>2. wait'[u] # k /\ task[wait'[u]].signal \in Signals \cup {NoSignal}
      BY <1>1, <1>5, <3>1 DEF TypeOK, TaskRec
    <3> QED BY <1>5, <1>6, <1>11, <3>1, <3>2
  <2> QED BY <2>1, <2>2
<1>15. AnsweringInv'
  <2>1. resuming => tasks[pos] # k
    <3>1. resuming => pos # 0
      BY DEF WakeupInv, LoopInv
    <3>2. resuming => InList(tasks[pos])
      BY <1>1, <3>1, AtTaskType DEF InList, Contains
    <3> QED BY <1>5, <3>2
  <2>2. \A i \in 1..Len(stack') : stack'[i].kind = "emit" => stack'[i].cur # k
    <3>1. k # NoTask
      BY SentinelsAssumption
    <3> QED BY <1>2, <1>5, <3>1 DEF WakeupInv, EmissionInv
  <2>3. resuming => tasks'[pos'] = tasks[pos]
    BY <1>7 DEF WakeupInv, LoopInv
  <2> QED BY <1>2, <1>4, <2>1, <2>2, <2>3 DEF WakeupInv, AnsweringInv
<1> QED BY <1>8, <1>9, <1>10, <1>12, <1>13, <1>14, <1>15 DEF WakeupInv

\* The same where the yield raises: a task that nobody waits for is in the list.
LEMMA RaisedKeeps ==
  ASSUME WakeupInv, TypeOK', NEW t \in Threads, NEW k \in Tasks, NEW left,
         NEW s \in Signals \cup {NoSignal},
         Running(t), RegisterTask(t, k, s, left), YieldRaises(k, left), UNCHANGED resuming,
         \/ s = NoSignal /\ slots' = slots
         \/ s \in Signals /\ slots' = [slots EXCEPT ![s] = Append(@, k)]
  PROVE  WakeupInv'
<1> DEFINE n == Len(stack)
<1>1. /\ TypeOK /\ stack # <<>> /\ n \in Nat /\ n >= 1
      /\ stack[n].kind = "run" /\ stack[n].thread = t
      /\ UNCHANGED <<status, wait, stack>>
  BY TopType DEF WakeupInv, Running, YieldRaises
<1>2. status[t] = "running"
  <2>1. n \in 1..Len(stack)
    BY <1>1
  <2> QED BY <1>1, <2>1 DEF WakeupInv, StackInv
<1>5. ~InList(k) /\ \A x : InList(x)' <=> InList(x) \/ x = k
  BY <1>1, Registered, ZenonT(40) DEF InList
<1>6. /\ \A x \in Tasks : x # k => task'[x] = task[x]
      /\ task'[k] = [owner |-> t, signal |-> s, left |-> left, got |-> FALSE]
  BY <1>1 DEF RegisterTask, TypeOK
<1>7. (pos # 0 => pos' # 0 /\ tasks'[pos'] = tasks[pos]) /\ (pos = 0 => pos' = 0)
  BY <1>1, Registered
<1>8. LoopInv'
  BY <1>1, <1>7 DEF WakeupInv, LoopInv
<1>9. ListInv'
  <2>1. IsInjective(tasks')
    BY <1>1, Registered DEF WakeupInv, ListInv
  <2> QED BY <1>1, <1>2, <1>5, <1>6, <2>1 DEF WakeupInv, ListInv
<1>10. StackInv'
  BY <1>1 DEF WakeupInv, StackInv
<1>11. /\ \A r \in Signals : IsInjective(slots'[r])
       /\ \A r \in Signals, x \in Tasks :
            Contains(slots'[r], x) <=> Contains(slots[r], x) \/ (r = s /\ x = k)
  <2>1. CASE s = NoSignal /\ slots' = slots
    BY <2>1, SentinelsAssumption DEF WakeupInv, SlotsInv
  <2>2. CASE s \in Signals /\ slots' = [slots EXCEPT ![s] = Append(@, k)]
    <3>1. slots[s] \in Seq(Tasks) /\ IsInjective(slots[s]) /\ ~Contains(slots[s], k)
      BY <1>1, <1>5, <2>2 DEF TypeOK, WakeupInv, SlotsInv
    <3>2. slots'[s] = Append(slots[s], k) /\ \A r \in Signals : r # s => slots'[r] = slots[r]
      BY <1>1, <2>2 DEF TypeOK
    <3>3. IsInjective(slots'[s]) /\ \A x : Contains(slots'[s], x) <=> Contains(slots[s], x) \/ x = k
      BY <3>1, <3>2, AppendElements
    <3> QED BY <3>2, <3>3 DEF WakeupInv, SlotsInv
  <2> QED BY <2>1, <2>2
<1>12. SlotsInv'
  BY <1>5, <1>6, <1>11 DEF WakeupInv, SlotsInv
<1>13. EmissionInv'
  BY <1>1, <1>5 DEF WakeupInv, EmissionInv
<1>14. WaitInv'
  <2> SUFFICES ASSUME NEW u \in Threads, status[u] = "waiting"
               PROVE /\ wait[u] \in Tasks /\ Contains(tasks', wait[u])
                     /\ task'[wait[u]].owner = u
                     /\ ~task'[wait[u]].got
                     /\ task'[wait[u]].signal # NoSignal =>
                          Contains(slots'[task'[wait[u]].signal], wait[u])
    BY <1>1 DEF WaitInv, InList
  <2> USE DEF InList
  <2>1. /\ wait[u] \in Tasks /\ InList(wait[u]) /\ task[wait[u]].owner = u
        /\ ~task[wait[u]].got
        /\ task[wait[u]].signal # NoSignal =>
             Contains(slots[task[wait[u]].signal], wait[u])
    BY DEF WakeupInv, WaitInv
  <2>2. wait[u] # k /\ task[wait[u]].signal \in Signals \cup {NoSignal}
    BY <1>1, <1>5, <2>1 DEF TypeOK, TaskRec
  <2> QED BY <1>5, <1>6, <1>11, <2>1, <2>2
<1>15. AnsweringInv'
  BY <1>1, <1>7 DEF WakeupInv, LoopInv, AnsweringInv
<1> QED BY <1>8, <1>9, <1>10, <1>12, <1>13, <1>14, <1>15 DEF WakeupInv

\* An emission begins with a copy of the slots.
LEMMA EmitKeeps ==
  ASSUME WakeupInv, TypeOK', NEW s \in Signals, Emit(s)
  PROVE  WakeupInv'
<1> DEFINE n == Len(stack)
           f == [kind |-> "emit", signal |-> s, cur |-> NoTask, queue |-> slots[s]]
<1>1. TypeOK /\ f \in Frames /\ f.kind = "emit" /\ f.cur = NoTask /\ f.queue = slots[s]
  BY DEF WakeupInv, TypeOK, EmitFrame
<1>2. /\ n \in Nat /\ Len(stack') = n + 1 /\ stack'[n + 1] = f
      /\ \A i \in 1..n : stack'[i] = stack[i]
  BY <1>1, PushType DEF Emit
<1> HIDE DEF f
<1>3. \A i \in 1..Len(stack') : i \in 1..n \/ i = n + 1
  BY <1>2
<1>4. UNCHANGED <<tasks, task, pos, resuming, slots, status, wait>>
  BY DEF Emit, frameVars
<1>5. \A x : InList(x)' <=> InList(x)
  BY <1>4 DEF InList
<1>6. LoopInv'
  BY <1>4 DEF WakeupInv, LoopInv, Emit, MayCall
<1>7. ListInv'
  BY <1>4, <1>5 DEF WakeupInv, ListInv
<1>8. StackInv'
  BY <1>1, <1>2, <1>3, <1>4 DEF WakeupInv, StackInv
<1>9. SlotsInv'
  BY <1>4, <1>5 DEF WakeupInv, SlotsInv
<1>10. EmissionInv'
  <2>1. \A k \in Tasks : Contains(f.queue, k) => InList(k)
    BY <1>1 DEF WakeupInv, SlotsInv
  <2> QED BY <1>1, <1>2, <1>3, <1>5, <2>1 DEF WakeupInv, EmissionInv
<1>11. WaitInv'
  BY <1>4, <1>5 DEF WakeupInv, WaitInv
<1>12. AnsweringInv'
  <2>1. \A t \in Threads : status[t] = "waiting" => wait[t] # NoTask
    BY SentinelsAssumption DEF WakeupInv, WaitInv
  <2> QED BY <1>1, <1>2, <1>3, <1>4, <2>1 DEF WakeupInv, AnsweringInv
<1> QED BY <1>6, <1>7, <1>8, <1>9, <1>10, <1>11, <1>12 DEF WakeupInv

\* on_signal resumes the thread of its waiter.
LEMMA OnSignalKeeps ==
  ASSUME WakeupInv, TypeOK', OnSignal
  PROVE  WakeupInv'
<1> DEFINE n == Len(stack)
           k == Head(Last(stack).queue)
           t == task[k].owner
<1>1. /\ TypeOK /\ n \in Nat /\ n >= 1 /\ Len(stack') = n + 1
      /\ \A i \in 1..(n - 1) : stack'[i] = stack[i]
      /\ stack[n] \in EmitFrame /\ stack[n].cur = NoTask /\ stack[n].queue # <<>>
      /\ k = Head(stack[n].queue) /\ k \in Tasks
      /\ t \in Threads /\ status[t] = "waiting"
      /\ stack'[n] = [stack[n] EXCEPT !.cur = k, !.queue = Tail(@)]
      /\ stack'[n] \in EmitFrame
      /\ stack'[n + 1] = [kind |-> "run", thread |-> t]
  BY OnSignalStack DEF WakeupInv
<1>2. /\ UNCHANGED <<tasks, task, pos, resuming, slots, wait>> /\ stack # <<>>
      /\ status' = [status EXCEPT ![t] = "running"]
  BY DEF OnSignal, frameVars, Resumed, InEmission
<1> HIDE DEF t
<1>3. status'[t] = "running" /\ \A u \in Threads : u # t => status'[u] = status[u]
  BY <1>1, <1>2 DEF TypeOK
<1>4. /\ stack[n].kind = "emit" /\ stack'[n].kind = "emit" /\ stack'[n].cur = k
      /\ stack'[n].queue = Tail(stack[n].queue)
      /\ stack'[n + 1].kind = "run" /\ stack'[n + 1].thread = t
  BY <1>1 DEF EmitFrame
<1>5. Contains(stack[n].queue, k) /\ \A x : Contains(stack'[n].queue, x) => Contains(stack[n].queue, x)
  BY <1>1, <1>4, TailElements DEF EmitFrame
<1> HIDE DEF k
<1>6. n \in 1..n /\ \A i \in 1..Len(stack') : i \in 1..(n - 1) \/ i = n \/ i = n + 1
  BY <1>1
<1>7. 1..(n - 1) \subseteq 1..n
  BY <1>1
<1>8. \A x : InList(x)' <=> InList(x)
  BY <1>2 DEF InList
<1>9. InList(k)
  BY <1>1, <1>4, <1>5, <1>6 DEF WakeupInv, EmissionInv
<1>10. LoopInv'
  BY <1>2 DEF WakeupInv, LoopInv
<1>11. ListInv'
  BY <1>2, <1>3, <1>8 DEF WakeupInv, ListInv
<1>12. StackInv'
  <2>1. \A i \in 1..n : stack[i] \in Frames
    BY <1>1, ElementOfSeq DEF TypeOK
  <2>2. \A i \in 1..n : stack[i].kind = "run" => stack[i].thread \in Threads /\ stack[i].thread # t
    BY <1>1, <2>1 DEF RunFrame, EmitFrame, WakeupInv, StackInv
  <2>3. \A i \in 1..Len(stack') : stack'[i].kind = "run" =>
          \/ i \in 1..(n - 1) /\ stack'[i] = stack[i]
          \/ i = n + 1
    BY <1>1, <1>4, <1>6
  <2>4. \A i \in 1..Len(stack') : stack'[i].kind = "run" => status'[stack'[i].thread] = "running"
    BY <1>3, <1>4, <1>7, <2>2, <2>3 DEF WakeupInv, StackInv
  <2>5. \A i, j \in 1..Len(stack') :
          stack'[i].kind = "run" /\ stack'[j].kind = "run" /\ stack'[i].thread = stack'[j].thread
          => i = j
    BY <1>4, <1>7, <2>2, <2>3 DEF WakeupInv, StackInv
  <2> QED BY <2>4, <2>5 DEF StackInv
<1>13. SlotsInv'
  BY <1>2, <1>8 DEF WakeupInv, SlotsInv
<1>14. EmissionInv'
  <2> SUFFICES ASSUME NEW i \in 1..Len(stack'), stack'[i].kind = "emit"
               PROVE /\ stack'[i].cur # NoTask => InList(stack'[i].cur)
                     /\ \A x \in Tasks : Contains(stack'[i].queue, x) => InList(x)
    BY <1>8 DEF EmissionInv
  <2>1. CASE i \in 1..(n - 1)
    BY <1>1, <1>7, <2>1 DEF WakeupInv, EmissionInv
  <2>2. CASE i = n
    BY <1>4, <1>5, <1>6, <1>9, <2>2 DEF WakeupInv, EmissionInv
  <2> QED BY <1>4, <1>6, <2>1, <2>2
<1>15. WaitInv'
  BY <1>2, <1>3, <1>8 DEF WakeupInv, WaitInv
<1>16. AnsweringInv'
  <2>1. \A u \in Threads : status'[u] = "waiting" => status[u] = "waiting" /\ u # t
    BY <1>3
  <2>2. \A u \in Threads : status'[u] = "waiting" => wait[u] # k
    BY <2>1 DEF WakeupInv, WaitInv, t
  <2> SUFFICES ASSUME NEW u \in Threads, status'[u] = "waiting",
                      NEW i \in 1..Len(stack'), stack'[i].kind = "emit"
               PROVE  wait[u] # stack'[i].cur
    BY <1>2, <2>1 DEF WakeupInv, AnsweringInv
  <2>3. CASE i \in 1..(n - 1)
    BY <1>1, <1>7, <2>1, <2>3 DEF WakeupInv, AnsweringInv
  <2>4. CASE i = n
    BY <1>4, <2>2, <2>4
  <2> QED BY <1>4, <1>6, <2>3, <2>4
<1> QED BY <1>10, <1>11, <1>12, <1>13, <1>14, <1>15, <1>16 DEF WakeupInv

\* on_signal ends: its waiter is disconnected and has got its signal.
LEMMA OnSignalEndKeeps ==
  ASSUME WakeupInv, TypeOK', OnSignalReturn \/ OnSignalRefused
  PROVE  WakeupInv'
<1> DEFINE n == Len(stack)
<1>1. /\ TypeOK /\ n \in Nat /\ n >= 1 /\ Len(stack') = n
      /\ \A i \in 1..(n - 1) : stack'[i] = stack[i]
      /\ stack[n] \in EmitFrame
      /\ stack'[n].kind = "emit" /\ stack'[n].cur = NoTask
      /\ \/ stack'[n].queue = stack[n].queue
         \/ stack[n].queue # <<>> /\ stack'[n].queue = Tail(stack[n].queue)
  BY OnSignalEndStack DEF WakeupInv
<1>2. PICK k \in Tasks : /\ OnSignalEnd(k)
                         /\ \A t \in Threads : status[t] = "waiting" => wait[t] # k
  BY OnSignalEndWaiter
<1>3. /\ UNCHANGED <<tasks, pos, resuming, status, wait>>
      /\ task' = [task EXCEPT ![k].got = TRUE] /\ slots' = Disconnected(k)
  BY <1>2 DEF OnSignalEnd, frameVars
<1>4. \A x \in Tasks : /\ task'[x].owner = task[x].owner /\ task'[x].signal = task[x].signal
                       /\ x # k => task'[x] = task[x]
  BY <1>1, <1>3 DEF TypeOK, TaskRec
<1>5. \A s \in Signals : /\ IsInjective(slots'[s])
                         /\ \A x \in Tasks : Contains(slots'[s], x) <=> Contains(slots[s], x) /\ x # k
  BY <1>1, <1>3, DisconnectedElements DEF WakeupInv
<1>6. \A x : Contains(stack'[n].queue, x) => Contains(stack[n].queue, x)
  BY <1>1, TailElements DEF EmitFrame
<1>7. n \in 1..n /\ 1..(n - 1) \subseteq 1..n /\ \A i \in 1..Len(stack') : i \in 1..(n - 1) \/ i = n
  BY <1>1
<1>8. \A x : InList(x)' <=> InList(x)
  BY <1>3 DEF InList
<1>9. LoopInv'
  <2>1. stack # <<>>
    BY <1>1, EmptySeq
  <2> QED BY <1>3, <2>1 DEF WakeupInv, LoopInv
<1>10. ListInv'
  BY <1>3, <1>4, <1>8 DEF WakeupInv, ListInv
<1>11. StackInv'
  BY <1>1, <1>3, <1>7 DEF WakeupInv, StackInv
<1>12. SlotsInv'
  BY <1>4, <1>5, <1>8 DEF WakeupInv, SlotsInv
<1>13. EmissionInv'
  BY <1>1, <1>6, <1>7, <1>8 DEF WakeupInv, EmissionInv, EmitFrame
<1>14. WaitInv'
  <2> SUFFICES ASSUME NEW u \in Threads, status[u] = "waiting"
               PROVE /\ wait[u] \in Tasks /\ InList(wait[u]) /\ task'[wait[u]].owner = u
                     /\ ~task'[wait[u]].got
                     /\ task'[wait[u]].signal # NoSignal =>
                          Contains(slots'[task'[wait[u]].signal], wait[u])
    BY <1>3, <1>8 DEF WaitInv
  <2>1. /\ wait[u] \in Tasks /\ InList(wait[u]) /\ task[wait[u]].owner = u
        /\ ~task[wait[u]].got
        /\ task[wait[u]].signal # NoSignal => Contains(slots[task[wait[u]].signal], wait[u])
    BY DEF WakeupInv, WaitInv
  <2>2. wait[u] # k /\ task[wait[u]].signal \in Signals \cup {NoSignal}
    BY <1>1, <1>2, <2>1 DEF TypeOK, TaskRec
  <2> QED BY <1>4, <1>5, <2>1, <2>2
<1>15. AnsweringInv'
  <2>1. \A t \in Threads : status[t] = "waiting" => wait[t] # NoTask
    BY SentinelsAssumption DEF WakeupInv, WaitInv
  <2> QED BY <1>1, <1>3, <1>7, <2>1 DEF WakeupInv, AnsweringInv
<1> QED BY <1>9, <1>10, <1>11, <1>12, <1>13, <1>14, <1>15 DEF WakeupInv

\* The loop of frame moves on, or a frame begins: only times change.
LEMMA TimeKeeps ==
  ASSUME WakeupInv, TypeOK', stack = <<>>, ~resuming,
         UNCHANGED <<tasks, resuming, slots, status, wait, stack>>,
         \A x \in Tasks : /\ task'[x].owner = task[x].owner /\ task'[x].signal = task[x].signal
                          /\ task'[x].got = task[x].got
  PROVE  WakeupInv'
<1>1. \A x : InList(x)' <=> InList(x)
  BY DEF InList
<1>2. \A i \in 1..Len(stack) : FALSE
  <2>1. Len(stack) = 0
    BY EmptySeq
  <2> QED BY <2>1
<1>3. LoopInv' /\ ListInv' /\ StackInv'
  BY <1>1, <1>2 DEF WakeupInv, LoopInv, ListInv, StackInv
<1>4. SlotsInv' /\ EmissionInv'
  BY <1>1, <1>2 DEF WakeupInv, SlotsInv, EmissionInv
<1>5. WaitInv'
  BY <1>1 DEF WakeupInv, WaitInv
<1>6. AnsweringInv'
  BY <1>2 DEF WakeupInv, AnsweringInv
<1> QED BY <1>3, <1>4, <1>5, <1>6 DEF WakeupInv

\* frame resumes the thread of a task that is due.
LEMMA FrameResumeKeeps ==
  ASSUME WakeupInv, TypeOK', FrameResume
  PROVE  WakeupInv'
<1> DEFINE k == tasks[pos]
           t == task[k].owner
<1>1. TypeOK /\ stack = <<>> /\ pos # 0 /\ ~resuming /\ k \in Tasks
  BY AtTaskType DEF WakeupInv, FrameResume, AtTask
<1>2. t \in Threads /\ status[t] = "waiting"
  BY DEF FrameResume, CanResume
<1>3. /\ UNCHANGED <<tasks, pos, slots, wait>> /\ resuming' = TRUE
      /\ status' = [status EXCEPT ![t] = "running"]
      /\ Push([kind |-> "run", thread |-> t])
      /\ task' = [task EXCEPT ![k].left = Updated]
  BY DEF FrameResume, Resumed
<1>4. status'[t] = "running" /\ \A u \in Threads : u # t => status'[u] = status[u]
  BY <1>1, <1>2, <1>3 DEF TypeOK
<1>5. \A x \in Tasks : /\ task'[x].owner = task[x].owner /\ task'[x].signal = task[x].signal
                       /\ task'[x].got = task[x].got
  BY <1>1, <1>3 DEF TypeOK, TaskRec
<1>6. Len(stack') = 1 /\ stack'[1] = [kind |-> "run", thread |-> t]
  <2>1. [kind |-> "run", thread |-> t] \in Frames
    BY <1>2 DEF RunFrame
  <2>2. /\ Len(stack') = Len(stack) + 1
        /\ stack'[Len(stack) + 1] = [kind |-> "run", thread |-> t]
    BY <1>1, <1>3, <2>1, PushType
  <2>3. Len(stack) = 0
    BY <1>1, EmptySeq
  <2> QED BY <2>2, <2>3
<1>7. \A i \in 1..Len(stack') : i = 1 /\ stack'[i].kind = "run" /\ stack'[i].thread = t
  BY <1>6
<1>8. \A x : InList(x)' <=> InList(x)
  BY <1>3 DEF InList
<1>9. \A u \in Threads : status'[u] = "waiting" => wait[u] # k
  BY <1>4 DEF WakeupInv, WaitInv
<1> HIDE DEF k, t
<1>10. LoopInv'
  BY <1>1, <1>3 DEF LoopInv
<1>11. ListInv'
  BY <1>3, <1>4, <1>5, <1>8 DEF WakeupInv, ListInv
<1>12. StackInv'
  BY <1>4, <1>7 DEF StackInv
<1>13. SlotsInv'
  BY <1>3, <1>5, <1>8 DEF WakeupInv, SlotsInv
<1>14. EmissionInv'
  BY <1>7 DEF EmissionInv
<1>15. WaitInv'
  BY <1>3, <1>4, <1>5, <1>8 DEF WakeupInv, WaitInv
<1>16. AnsweringInv'
  BY <1>3, <1>7, <1>9 DEF AnsweringInv, k
<1> QED BY <1>10, <1>11, <1>12, <1>13, <1>14, <1>15, <1>16 DEF WakeupInv

\* frame frees a task that no thread sits in.
LEMMA RemoveKeeps ==
  ASSUME WakeupInv, TypeOK', stack = <<>>, pos # 0, RemoveTask,
         \A u \in Threads : status[u] = "waiting" => wait[u] # tasks[pos]
  PROVE  WakeupInv'
<1> DEFINE k == tasks[pos]
<1>1. TypeOK /\ ListInv /\ SlotsInv
  BY DEF WakeupInv
<1>2. /\ k \in Tasks /\ IsInjective(tasks')
      /\ \A x : InList(x)' <=> InList(x) /\ x # k
      /\ \A x \in Tasks : x # k => task'[x] = task[x]
  BY <1>1, Removed DEF InList
<1>3. /\ \A s \in Signals : IsInjective(slots'[s])
      /\ \A s \in Signals, x \in Tasks : Contains(slots'[s], x) <=> Contains(slots[s], x) /\ x # k
  BY <1>1, Removed
<1>4. UNCHANGED <<status, wait, stack>> /\ resuming' = FALSE
  BY DEF RemoveTask
<1>5. \A i \in 1..Len(stack') : FALSE
  <2>1. Len(stack') = 0
    BY <1>4, EmptySeq
  <2> QED BY <2>1
<1>6. \A u \in Threads : status[u] = "waiting" => wait[u] # k
  OBVIOUS
<1> HIDE DEF k
<1>7. LoopInv'
  BY <1>4 DEF LoopInv
<1>8. ListInv'
  BY <1>2, <1>4 DEF WakeupInv, ListInv
<1>9. StackInv' /\ EmissionInv'
  BY <1>5 DEF StackInv, EmissionInv
<1>10. SlotsInv'
  BY <1>2, <1>3 DEF WakeupInv, SlotsInv
<1>11. WaitInv'
  <2> SUFFICES ASSUME NEW u \in Threads, status[u] = "waiting"
               PROVE /\ wait[u] \in Tasks /\ InList(wait[u]) /\ wait[u] # k
                     /\ task'[wait[u]].owner = u /\ ~task'[wait[u]].got
                     /\ task'[wait[u]].signal # NoSignal =>
                          Contains(slots'[task'[wait[u]].signal], wait[u])
    BY <1>2, <1>4 DEF WaitInv
  <2>1. /\ wait[u] \in Tasks /\ InList(wait[u]) /\ task[wait[u]].owner = u
        /\ ~task[wait[u]].got
        /\ task[wait[u]].signal # NoSignal => Contains(slots[task[wait[u]].signal], wait[u])
    BY DEF WakeupInv, WaitInv
  <2>2. wait[u] # k /\ task[wait[u]].signal \in Signals \cup {NoSignal}
    BY <1>1, <1>6, <2>1 DEF TypeOK, TaskRec
  <2> QED BY <1>2, <1>3, <2>1, <2>2
<1>12. AnsweringInv'
  BY <1>4, <1>5 DEF AnsweringInv
<1> QED BY <1>7, <1>8, <1>9, <1>10, <1>11, <1>12 DEF WakeupInv

----------------------------------------------------------------------------
(* The theorems *)

LEMMA InitWakeup == Init => WakeupInv
<1> SUFFICES ASSUME Init PROVE WakeupInv
  OBVIOUS
<1>1. TypeOK
  BY InitType
<1>2. /\ tasks = <<>> /\ stack = <<>> /\ resuming = FALSE /\ pos = 0
      /\ \A s \in Signals : slots[s] = <<>>
      /\ \A t \in Threads : status[t] = "new"
  BY DEF Init
<1>3. \A i \in 1..Len(<<>>) : FALSE
  <2>1. Len(<<>>) = 0
    BY EmptySeq
  <2> QED BY <2>1
<1>4. IsInjective(<<>>) /\ \A x : ~Contains(<<>>, x)
  <2>1. <<>> \in Seq(Tasks)
    BY EmptySeq
  <2> QED BY <1>3, <2>1, InjectiveFacts DEF Contains
<1>5. LoopInv /\ ListInv /\ StackInv
  BY <1>2, <1>3, <1>4 DEF LoopInv, ListInv, StackInv, InList
<1>6. SlotsInv /\ EmissionInv
  BY <1>2, <1>3, <1>4 DEF SlotsInv, EmissionInv
<1>7. WaitInv /\ AnsweringInv
  BY <1>2 DEF WaitInv, AnsweringInv
<1> QED BY <1>1, <1>5, <1>6, <1>7 DEF WakeupInv

\* Every step keeps the invariant.
LEMMA NextWakeup ==
  ASSUME WakeupInv, [Next]_vars
  PROVE  WakeupInv'
<1>0. TypeOK /\ TypeOK'
  BY NextType DEF WakeupInv
<1>1. ASSUME NEW t \in Threads, Start(t) PROVE WakeupInv'
  <2>1. stack = <<>> => pos = 0
    BY <1>1 DEF Start, MayCall
  <2> QED BY <1>0, <1>1, <2>1, RunKeeps DEF Start, frameVars
<1>2. ASSUME NEW t \in Threads, Finish(t) PROVE WakeupInv'
  <2>1. /\ stack # <<>> /\ Last(stack).kind = "run" /\ Last(stack).thread = t
        /\ stack' = Front(stack) /\ UNCHANGED <<tasks, task, pos, resuming, slots>>
    BY <1>2 DEF Finish, Running, frameVars
  <2>2. /\ status'[t] = "dead" /\ \A u \in Threads : u # t => status'[u] = status[u]
        /\ \A u \in Threads : u # t => wait'[u] = wait[u]
    BY <1>0, <1>2 DEF Finish, TypeOK
  <2> QED BY <1>0, <2>1, <2>2, PopKeeps
<1>3. ASSUME NEW t \in Threads, Collect(t) PROVE WakeupInv'
  BY <1>0, <1>3, CollectKeeps
<1>4. ASSUME NEW t \in Threads, ResumeByHand(t) PROVE WakeupInv'
  <2>1. \A u \in Threads : u # t => wait'[u] = wait[u]
    BY <1>0, <1>4 DEF ResumeByHand, TypeOK
  <2> QED BY <1>0, <1>4, <2>1, RunKeeps DEF ResumeByHand, frameVars
<1>5. ASSUME NEW t \in Threads, NEW k \in Tasks, NEW d \in Durations, Wait(t, k, d)
      PROVE WakeupInv'
  <2>1. PICK left :
          RegisterTask(t, k, NoSignal, left) /\ (Suspend(t, k, left) \/ YieldRaises(k, left))
    BY <1>5 DEF Wait
  <2>2. Running(t) /\ UNCHANGED resuming /\ slots' = slots
    BY <1>5 DEF Wait
  <2> QED BY <1>0, <2>1, <2>2, CallKeeps, RaisedKeeps
<1>6. ASSUME NEW t \in Threads, NEW k \in Tasks, NEW d \in Durations, NEW s \in Signals,
             WaitSignal(t, k, s, d)
      PROVE WakeupInv'
  <2>1. PICK left :
          RegisterTask(t, k, s, left) /\ (Suspend(t, k, left) \/ YieldRaises(k, left))
    BY <1>6 DEF WaitSignal
  <2>2. Running(t) /\ UNCHANGED resuming /\ slots' = [slots EXCEPT ![s] = Append(@, k)]
    BY <1>6 DEF WaitSignal
  <2> QED BY <1>0, <2>1, <2>2, CallKeeps, RaisedKeeps
<1>7. ASSUME NEW s \in Signals, Emit(s) PROVE WakeupInv'
  BY <1>0, <1>7, EmitKeeps
<1>8. CASE OnSignal
  BY <1>0, <1>8, OnSignalKeeps
<1>9. CASE OnSignalReturn \/ OnSignalRefused
  BY <1>0, <1>9, OnSignalEndKeeps
<1>10. CASE EmitEnd
  <2>1. /\ stack # <<>> /\ Last(stack).kind = "emit" /\ stack' = Front(stack)
        /\ UNCHANGED <<tasks, task, pos, resuming, slots, status, wait>>
    BY <1>10 DEF EmitEnd, InEmission, frameVars
  <2> QED BY <1>0, <2>1, PopKeeps
<1>11. CASE FrameKeep
  <2>1. /\ stack = <<>> /\ ~resuming
        /\ UNCHANGED <<tasks, resuming, slots, status, wait, stack>>
        /\ task' = [task EXCEPT ![tasks[pos]].left = Updated]
    BY <1>11 DEF FrameKeep, AtTask
  <2>2. \A x \in Tasks : /\ task'[x].owner = task[x].owner /\ task'[x].signal = task[x].signal
                         /\ task'[x].got = task[x].got
    BY <1>0, <2>1 DEF TypeOK, TaskRec
  <2> QED BY <1>0, <2>1, <2>2, TimeKeeps
<1>12. CASE FrameResume
  BY <1>0, <1>12, FrameResumeKeeps
<1>13. CASE FrameReturn
  <2>1. stack = <<>> /\ resuming /\ RemoveTask /\ pos # 0
    BY <1>13 DEF FrameReturn, WakeupInv, LoopInv
  <2>2. \A u \in Threads : status[u] = "waiting" => wait[u] # tasks[pos]
    BY <2>1 DEF WakeupInv, AnsweringInv
  <2> QED BY <1>0, <2>1, <2>2, RemoveKeeps
<1>14. CASE FrameDrop
  <2>1. stack = <<>> /\ pos # 0 /\ RemoveTask /\ task[tasks[pos]].got
    BY <1>14 DEF FrameDrop, AtTask, IsComplete, ShouldResume
  <2>2. \A u \in Threads : status[u] = "waiting" => wait[u] # tasks[pos]
    BY <2>1 DEF WakeupInv, WaitInv
  <2> QED BY <1>0, <2>1, <2>2, RemoveKeeps
<1>15. CASE FrameRefused
  <2>1. stack = <<>> /\ pos # 0 /\ RemoveTask /\ ~CanResume(tasks[pos])
    BY <1>15 DEF FrameRefused, AtTask
  <2>2. \A u \in Threads : status[u] = "waiting" => task[wait[u]].owner = u
    BY DEF WakeupInv, WaitInv
  <2>3. \A u \in Threads : status[u] = "waiting" => wait[u] # tasks[pos]
    BY <2>1, <2>2 DEF CanResume
  <2> QED BY <1>0, <2>1, <2>3, RemoveKeeps
<1>16. ASSUME NEW d \in Deltas, FrameBegin(d) PROVE WakeupInv'
  <2>1. /\ stack = <<>> /\ ~resuming
        /\ UNCHANGED <<tasks, task, resuming, slots, status, wait, stack>>
    BY <1>16 DEF FrameBegin, WakeupInv, LoopInv
  <2> QED BY <1>0, <2>1, TimeKeeps
<1>17. CASE UNCHANGED vars
  BY <1>17 DEF vars, WakeupInv, TypeOK, LoopInv, ListInv, StackInv, SlotsInv, EmissionInv,
     WaitInv, AnsweringInv, InList
<1> QED
  BY <1>1, <1>2, <1>3, <1>4, <1>5, <1>6, <1>7, <1>8, <1>9, <1>10, <1>11, <1>12, <1>13,
     <1>14, <1>15, <1>16, <1>17 DEF Next, LuaNext, SignalNext, FrameStep

\* The invariant holds in every reachable state.
THEOREM Invariance == Spec => []WakeupInv
<1>1. Init => WakeupInv
  BY InitWakeup
<1>2. WakeupInv /\ [Next]_vars => WakeupInv'
  BY NextWakeup
<1> QED BY <1>1, <1>2, PTL DEF Spec

\* Types: the model's variables keep to the values the code can hold.
THEOREM TypeCorrect == Spec => []TypeOK
<1>1. WakeupInv => TypeOK
  BY DEF WakeupInv
<1> QED BY <1>1, Invariance, PTL

\* No interleaving of timeouts, emissions and collections strands a thread that
\* sits in wait or wait_signal (NoLostWakeup), for any number of threads, tasks
\* and signals, and whatever Lua code emits and resumes meanwhile.
THEOREM WakeupTheorem == Spec => []NoLostWakeup
<1>1. WakeupInv => NoLostWakeup
  <2> SUFFICES ASSUME WakeupInv PROVE NoLostWakeup
    OBVIOUS
  <2>1. \A k : InList(k) => k \in Live
    BY ToSetFacts DEF WakeupInv, TypeOK, InList, Contains, Live
  <2> QED BY <2>1 DEF WakeupInv, WaitInv, NoLostWakeup
<1> QED BY <1>1, Invariance, PTL

\* on_signal never runs on a freed waiter or for a collected thread.
THEOREM FreedWaiterTheorem == Spec => []NoFreedWaiter
<1>1. WakeupInv => NoFreedWaiter
  <2> SUFFICES ASSUME WakeupInv PROVE NoFreedWaiter
    OBVIOUS
  <2>1. TypeOK /\ \A k : InList(k) <=> k \in Live
    BY ToSetFacts DEF WakeupInv, TypeOK, InList, Contains, Live
  <2>2. ASSUME NEW s \in Signals PROVE ToSet(slots[s]) \subseteq Live
    <3>1. slots[s] \in Seq(Tasks)
      BY <2>1 DEF TypeOK
    <3>2. \A k : k \in ToSet(slots[s]) => k \in Tasks /\ Contains(slots[s], k)
      BY <3>1, ToSetFacts, ElementOfSeq DEF Contains
    <3> QED BY <2>1, <3>2 DEF WakeupInv, SlotsInv
  <2>3. ASSUME NEW f \in ToSet(stack), f.kind = "emit"
        PROVE  ToSet(f.queue) \cup ({f.cur} \ {NoTask}) \subseteq Live
    <3>1. PICK i \in 1..Len(stack) : stack[i] = f
      BY <2>1, ToSetFacts DEF TypeOK
    <3>2. f \in EmitFrame
      <4>1. stack[i] \in Frames
        BY <2>1, ElementOfSeq DEF TypeOK
      <4> QED BY <2>3, <3>1, <4>1 DEF RunFrame, EmitFrame
    <3>3. \A k : k \in ToSet(f.queue) => k \in Tasks /\ Contains(f.queue, k)
      BY <3>2, ToSetFacts, ElementOfSeq DEF Contains, EmitFrame
    <3>4. /\ f.cur # NoTask => InList(f.cur)
          /\ \A k \in Tasks : Contains(f.queue, k) => InList(k)
      BY <2>3, <3>1 DEF WakeupInv, EmissionInv
    <3> QED BY <2>1, <3>3, <3>4
  <2>4. ASSUME NEW k \in Live PROVE status[task[k].owner] # "new"
    <3>1. k \in Tasks
      BY <2>1, ToSetFacts, ElementOfSeq DEF Live, TypeOK
    <3> QED BY <2>1, <3>1 DEF WakeupInv, ListInv
  <2> QED BY <2>2, <2>3, <2>4 DEF NoFreedWaiter
<1> QED BY <1>1, Invariance, PTL

----------------------------------------------------------------------------
(* Times of tasks                                                              *)

\* Has the loop of frame been at place i in this frame, or is there none?
Visited(i) == pos = 0 \/ i < pos \/ (i = pos /\ resuming)

\* What the task at place i is owed.
OwedAt(i) ==
  owed[tasks[i]] = IF Visited(i) THEN task[tasks[i]].left ELSE Elapse(task[tasks[i]].left, delta)

\* TimeAccounted, place by place.
TimeInv ==
  /\ \A i \in 1..Len(tasks) : OwedAt(i)
  /\ resuming => owed[tasks[pos]] = 0

\* A step that neither moves the loop nor changes a time.
LEMMA SameTimes ==
  ASSUME TypeOK, TimeInv, UNCHANGED <<tasks, pos, resuming, delta, owed>>,
         \A k \in Tasks : task'[k].left = task[k].left
  PROVE  TimeInv'
<1>1. \A i \in 1..Len(tasks) : tasks[i] \in Tasks
  BY ElementOfSeq DEF TypeOK
<1>2. \A i \in 1..Len(tasks) : OwedAt(i)'
  BY <1>1 DEF TimeInv, OwedAt, Visited
<1> QED BY <1>2 DEF TimeInv

\* A wait begins: the new task is behind the loop, and is owed all of its time.
LEMMA RegisterTimes ==
  ASSUME TypeOK, TimeInv, LoopInv, NEW t, NEW k \in Tasks, NEW s, NEW left,
         RegisterTask(t, k, s, left), owed' = [owed EXCEPT ![k] = left],
         UNCHANGED <<resuming, delta>>
  PROVE  TimeInv'
<1>1. tasks \in Seq(Tasks) /\ Len(tasks) \in Nat /\ pos \in 0..Len(tasks)
  BY LenProperties DEF TypeOK
<1>2. /\ ~Contains(tasks, k) /\ \A x \in Tasks : x # k => task'[x] = task[x]
      /\ task'[k] = [owner |-> t, signal |-> s, left |-> left, got |-> FALSE]
      /\ pos # 0 => pos' # 0 /\ tasks'[pos'] = tasks[pos]
      /\ pos = 0 => pos' = 0
  BY Registered
<1>3. owed'[k] = left /\ \A x \in Tasks : x # k => owed'[x] = owed[x]
  BY DEF TypeOK
<1>4. tasks' = Cons(k, tasks) /\ pos' = IF pos = 0 THEN 0 ELSE pos + 1
  BY DEF RegisterTask
<1>5. /\ Len(tasks') = Len(tasks) + 1 /\ tasks'[1] = k
      /\ \A i \in 2..(Len(tasks) + 1) : tasks'[i] = tasks[i - 1]
  <2>1. tasks \in Seq(Tasks)
    BY <1>1
  <2>2. Len(Cons(k, tasks)) = Len(tasks) + 1 /\ Cons(k, tasks)[1] = k
    BY <2>1, ConsFacts
  <2>3. \A i \in 2..(Len(tasks) + 1) : Cons(k, tasks)[i] = tasks[i - 1]
    BY <2>1, ConsFacts
  <2> QED BY <1>4, <2>2, <2>3
<1>6. \A i \in 1..Len(tasks) : tasks[i] \in Tasks /\ tasks[i] # k
  BY <1>1, <1>2, ElementOfSeq DEF Contains
<1>7. ASSUME NEW i \in 1..Len(tasks') PROVE OwedAt(i)'
  <2>1. CASE i = 1
    <3>1. Visited(i)'
      BY <1>1, <1>4, <2>1 DEF Visited
    <3> QED BY <1>2, <1>3, <1>5, <2>1, <3>1 DEF OwedAt
  <2>2. CASE i # 1
    <3>1. i - 1 \in 1..Len(tasks) /\ tasks'[i] = tasks[i - 1]
      BY <1>1, <1>5, <2>2
    <3>2. Visited(i)' <=> Visited(i - 1)
      BY <1>1, <1>4, <3>1, <2>2 DEF Visited
    <3>3. OwedAt(i - 1) /\ tasks[i - 1] \in Tasks /\ tasks[i - 1] # k
      BY <1>6, <3>1 DEF TimeInv
    <3> QED BY <1>2, <1>3, <3>1, <3>2, <3>3 DEF OwedAt
  <2> QED BY <2>1, <2>2
<1>8. resuming => tasks[pos] \in Tasks /\ tasks[pos] # k /\ pos # 0
  BY <1>1, <1>6 DEF LoopInv
<1> QED BY <1>2, <1>3, <1>7, <1>8 DEF TimeInv

\* The loop takes from a task what the frame lasts, and goes on or resumes it.
LEMMA LoopTimes ==
  ASSUME TypeOK, TimeInv, ListInv, FrameKeep \/ FrameResume
  PROVE  TimeInv'
<1> DEFINE k == tasks[pos]
<1>1. /\ AtTask /\ tasks' = tasks /\ owed' = owed /\ task' = [task EXCEPT ![k].left = Updated]
      /\ pos \in 1..Len(tasks) /\ Len(tasks) \in Nat /\ k \in Tasks
  BY AtTaskType DEF FrameKeep, FrameResume, AtTask
<1>2. task'[k].left = Updated /\ \A x \in Tasks : x # k => task'[x] = task[x]
  BY <1>1 DEF TypeOK, TaskRec
<1>3. \A i \in 1..Len(tasks) : tasks[i] \in Tasks /\ (i # pos => tasks[i] # k)
  BY <1>1, ElementOfSeq DEF TypeOK, ListInv, IsInjective
<1>4. owed[k] = Updated
  BY <1>1 DEF TimeInv, OwedAt, Visited, AtTask, Updated
<1>5. CASE FrameKeep
  <2>1. /\ pos' = (IF pos + 1 > Len(tasks) THEN 0 ELSE pos + 1)
        /\ delta' = (IF pos + 1 > Len(tasks) THEN 0 ELSE delta) /\ resuming' = resuming /\ ~resuming
    BY <1>1, <1>5 DEF FrameKeep, FrameAt, AtTask
  <2>2. ASSUME NEW i \in 1..Len(tasks) PROVE OwedAt(i)'
    <3>1. CASE i = pos
      BY <1>1, <1>2, <1>4, <2>1, <3>1 DEF OwedAt, Visited
    <3>2. CASE i # pos
      <4>1. OwedAt(i)
        BY DEF TimeInv
      <4>2. Visited(i)' <=> Visited(i) \/ pos' = 0
        BY <1>1, <2>1, <3>2 DEF Visited
      <4>3. pos' = 0 => Visited(i)
        BY <1>1, <2>1, <3>2 DEF Visited
      <4>4. ~Visited(i) => delta' = delta
        BY <1>1, <2>1, <3>2 DEF Visited
      <4> QED BY <1>1, <1>2, <1>3, <3>2, <4>1, <4>2, <4>3, <4>4 DEF OwedAt
    <3> QED BY <3>1, <3>2
  <2> QED BY <1>1, <2>1, <2>2 DEF TimeInv
<1>6. CASE FrameResume
  <2>1. resuming' = TRUE /\ pos' = pos /\ delta' = delta /\ ~resuming /\ Updated = 0
    BY <1>1, <1>6 DEF FrameResume, AtTask, ShouldResume
  <2>2. ASSUME NEW i \in 1..Len(tasks) PROVE OwedAt(i)'
    <3>1. CASE i = pos
      BY <1>1, <1>2, <1>4, <2>1, <3>1 DEF OwedAt, Visited
    <3>2. CASE i # pos
      <4>1. OwedAt(i) /\ (Visited(i)' <=> Visited(i))
        BY <2>1, <3>2 DEF TimeInv, Visited
      <4> QED BY <1>1, <1>2, <1>3, <2>1, <3>2, <4>1 DEF OwedAt
    <3> QED BY <3>1, <3>2
  <2> QED BY <1>1, <1>4, <2>1, <2>2 DEF TimeInv
<1> QED BY <1>5, <1>6

\* The loop erases the task it is at, and stands at the one behind it.
LEMMA RemoveTimes ==
  ASSUME TypeOK, TimeInv, ListInv, pos # 0, RemoveTask
  PROVE  TimeInv'
<1> DEFINE k == tasks[pos]
<1>1. pos \in 1..Len(tasks) /\ Len(tasks) \in Nat /\ k \in Tasks /\ tasks \in Seq(Tasks)
  BY AtTaskType DEF TypeOK
<1>2. /\ task' = [task EXCEPT ![k] = Free] /\ owed' = [owed EXCEPT ![k] = 0]
      /\ tasks' = RemoveAt(tasks, pos) /\ resuming' = FALSE
      /\ pos' = (IF pos > Len(tasks') THEN 0 ELSE pos)
      /\ delta' = (IF pos > Len(tasks') THEN 0 ELSE delta)
  BY DEF RemoveTask, FrameAt
<1>3. \A x \in Tasks : x # k => task'[x] = task[x] /\ owed'[x] = owed[x]
  BY <1>1, <1>2 DEF TypeOK
<1>4. /\ Len(tasks') = Len(tasks) - 1
      /\ \A j \in 1..(pos - 1) : tasks'[j] = tasks[j]
      /\ \A j \in pos..(Len(tasks) - 1) : tasks'[j] = tasks[j + 1]
  BY <1>1, <1>2, RemoveAtFacts
<1>5. \A i \in 1..Len(tasks) : tasks[i] \in Tasks /\ (i # pos => tasks[i] # k)
  BY <1>1, ElementOfSeq DEF ListInv, IsInjective
<1> HIDE DEF k
<1>6. ASSUME NEW i \in 1..Len(tasks') PROVE OwedAt(i)'
  <2>1. CASE i < pos
    <3>1. i \in 1..(pos - 1) /\ i \in 1..Len(tasks) /\ i # pos
      BY <1>1, <1>4, <2>1
    <3>2. tasks'[i] = tasks[i] /\ Visited(i) /\ Visited(i)'
      BY <1>2, <1>4, <2>1, <3>1 DEF Visited
    <3> QED BY <1>3, <1>5, <3>1, <3>2 DEF OwedAt, TimeInv
  <2>2. CASE i >= pos
    <3>1. i \in pos..(Len(tasks) - 1) /\ i + 1 \in 1..Len(tasks) /\ i + 1 # pos
      BY <1>1, <1>4, <2>2
    <3>2. tasks'[i] = tasks[i + 1] /\ ~Visited(i + 1) /\ ~Visited(i)' /\ delta' = delta
      BY <1>1, <1>2, <1>4, <2>2, <3>1 DEF Visited
    <3> QED BY <1>3, <1>5, <3>1, <3>2 DEF OwedAt, TimeInv
  <2> QED BY <1>1, <1>4, <2>1, <2>2
<1> QED BY <1>2, <1>6 DEF TimeInv

\* A frame begins: every task in the list is to lose its time.
LEMMA FrameBeginTimes ==
  ASSUME TypeOK, TimeInv, LoopInv, NEW d \in Deltas, FrameBegin(d)
  PROVE  TimeInv'
<1>1. /\ pos = 0 /\ pos' = 1 /\ delta' = d /\ ~resuming
      /\ UNCHANGED <<tasks, task, resuming>>
      /\ owed' = [k \in Tasks |-> IF k \in Live THEN Elapse(owed[k], d) ELSE owed[k]]
  BY DEF FrameBegin, LoopInv
<1>2. \A i \in 1..Len(tasks) : tasks[i] \in Tasks /\ tasks[i] \in Live
  BY ElementOfSeq, ToSetFacts DEF TypeOK, Live
<1>3. ASSUME NEW i \in 1..Len(tasks) PROVE OwedAt(i)'
  <2>1. owed[tasks[i]] = task[tasks[i]].left
    BY <1>1 DEF TimeInv, OwedAt, Visited
  <2>2. ~Visited(i)'
    BY <1>1 DEF Visited
  <2> QED BY <1>1, <1>2, <2>1, <2>2 DEF OwedAt
<1> QED BY <1>1, <1>3 DEF TimeInv

\* No order of registrations, frees and resumes under the loop makes it skip a
\* task, visit one twice or resume a thread before its time (TimeAccounted).
THEOREM TimeTheorem == Spec => []TimeAccounted
<1>1. Init => TimeInv
  <2> SUFFICES ASSUME Init PROVE TimeInv
    OBVIOUS
  <2>1. Len(tasks) = 0 /\ ~resuming
    BY EmptySeq DEF Init
  <2> QED BY <2>1 DEF TimeInv
<1>2. WakeupInv /\ TimeInv /\ [Next]_vars => TimeInv'
  <2> SUFFICES ASSUME WakeupInv, TimeInv, [Next]_vars PROVE TimeInv'
    OBVIOUS
  <2>0. TypeOK /\ LoopInv /\ ListInv
    BY DEF WakeupInv
  <2>1. ASSUME NEW t \in Threads, Start(t) \/ Finish(t) \/ Collect(t) \/ ResumeByHand(t) PROVE TimeInv'
    BY <2>0, <2>1, SameTimes DEF Start, Finish, Collect, ResumeByHand, frameVars
  <2>2. ASSUME NEW t \in Threads, NEW k \in Tasks, NEW d \in Durations,
               Wait(t, k, d) \/ \E s \in Signals : WaitSignal(t, k, s, d)
        PROVE  TimeInv'
    <3>1. PICK s, left : RegisterTask(t, k, s, left) /\ owed' = [owed EXCEPT ![k] = left]
      BY <2>2 DEF Wait, WaitSignal, Suspend, YieldRaises
    <3>2. UNCHANGED <<resuming, delta>>
      BY <2>2 DEF Wait, WaitSignal
    <3> QED BY <2>0, <3>1, <3>2, RegisterTimes
  <2>3. ASSUME OnSignal \/ EmitEnd \/ \E s \in Signals : Emit(s) PROVE TimeInv'
    BY <2>0, <2>3, SameTimes DEF OnSignal, EmitEnd, Emit, frameVars
  <2>4. CASE OnSignalReturn \/ OnSignalRefused
    <3>1. PICK k : OnSignalEnd(k)
      BY <2>4 DEF OnSignalReturn, OnSignalRefused
    <3>2. UNCHANGED <<tasks, pos, resuming, delta, owed>> /\ task' = [task EXCEPT ![k].got = TRUE]
      BY <3>1 DEF OnSignalEnd, frameVars
    <3>3. \A x \in Tasks : task'[x].left = task[x].left
      BY <2>0, <3>2 DEF TypeOK, TaskRec
    <3> QED BY <2>0, <3>2, <3>3, SameTimes
  <2>5. CASE FrameKeep \/ FrameResume
    BY <2>0, <2>5, LoopTimes
  <2>6. CASE FrameReturn \/ FrameDrop \/ FrameRefused
    BY <2>0, <2>6, RemoveTimes DEF FrameReturn, FrameDrop, FrameRefused, AtTask, LoopInv
  <2>7. ASSUME NEW d \in Deltas, FrameBegin(d) PROVE TimeInv'
    BY <2>0, <2>7, FrameBeginTimes
  <2>8. CASE UNCHANGED vars
    BY <2>0, <2>8, SameTimes DEF vars
  <2> QED BY <2>1, <2>2, <2>3, <2>4, <2>5, <2>6, <2>7, <2>8 DEF Next, LuaNext, SignalNext, FrameStep
<1>3. TypeOK /\ TimeInv => TimeAccounted
  <2>1. TypeOK => DOMAIN tasks = 1..Len(tasks)
    BY LenProperties DEF TypeOK
  <2> QED BY <2>1 DEF TimeInv, TimeAccounted, OwedAt, Visited
<1> QED BY <1>1, <1>2, <1>3, Invariance, TypeCorrect, PTL DEF Spec
=============================================================================
