--------------------------- MODULE TaskScheduler ---------------------------
(***************************************************************************)
(* The task scheduler of src/src/scheduler: Luau threads suspend in `wait` *)
(* and `wait_signal`, TaskScheduler::frame resumes the ones whose time has *)
(* run out and SignalWaiter::on_signal the ones whose signal was emitted.  *)
(*                                                                         *)
(* Everything runs on one OS thread, but a resume runs Lua code before it  *)
(* returns, and that code may emit signals whose slots resume other        *)
(* threads, and so on: the interleaving is that of a call stack.  `stack`  *)
(* holds the activations above the frame loop, the last one on top; each   *)
(* action is one step of the topmost activation.                           *)
(***************************************************************************)
EXTENDS Integers, SequencesExt

CONSTANTS
  Threads,       \* lua_State objects (the address of a collected one is reused)
  Tasks,         \* ScheduledTask objects (the address of a freed one is reused)
  Signals,
  Durations,     \* arguments of wait and timeouts of wait_signal, in ticks
  Deltas,        \* what one frame may last, in the same ticks
  Forever,       \* stands for the durations that no sum of frames exhausts
  NoThread, NoTask, NoSignal,
  MaxDepth,      \* bound: activations on the call stack
  ReentrantEmit, \* may Lua emit a signal while that signal is being emitted?
  CoroutineResume, \* may Lua resume by hand a thread that sits in a wait?
  WaitInC        \* may Lua wait where a thread cannot be suspended?

ASSUME SentinelsAssumption ==
  NoThread \notin Threads /\ NoTask \notin Tasks /\ NoSignal \notin Signals
ASSUME TimeAssumption ==
  /\ Forever \in Nat
  /\ Durations \subseteq Int /\ \A d \in Durations : d < Forever
  /\ Deltas \subseteq Nat
ASSUME BoundAssumption ==
  /\ MaxDepth \in Nat \ {0}
  /\ ReentrantEmit \in BOOLEAN /\ CoroutineResume \in BOOLEAN /\ WaitInC \in BOOLEAN

VARIABLES
  tasks,    \* TaskScheduler::tasks, front first
  task,     \* the fields of each allocated ScheduledTask and its SignalWaiter
  pos,      \* where the loop of `frame` stands in `tasks`; 0 outside of `frame`
  resuming, \* is the loop inside its call of luascript_resume?
  delta,    \* p_delta of the frame in progress
  slots,    \* the waiters connected to each signal, oldest connection first
  status,   \* what the Lua VM says of each thread
  answer,   \* what the thread was told by the last resume of a wait
  wait,     \* history: the task of the last wait the thread called
  owed,     \* history: what each task's wait still had to last when the last
            \* frame began, had that frame counted in full
  stack     \* activations of Lua threads and of signal emissions

vars == <<tasks, task, pos, resuming, delta, slots, status, answer, wait, owed, stack>>

frameVars == <<pos, resuming, delta>>

----------------------------------------------------------------------------
(* Types *)

Free == [owner |-> NoThread, signal |-> NoSignal, left |-> 0, got |-> FALSE]

\* `left` is WaitTask::remaining or WaitSignalTask::until_timeout, `got` is
\* SignalWaiter::_got_signal; a WaitTask has no signal.
TaskRec == [owner : Threads \cup {NoThread}, signal : Signals \cup {NoSignal},
            left : 0..Forever, got : BOOLEAN]

RunFrame  == [kind : {"run"}, thread : Threads]
\* cur: the waiter whose on_signal is in progress; queue: the slots still to call.
EmitFrame == [kind : {"emit"}, signal : Signals, cur : Tasks \cup {NoTask},
              queue : Seq(Tasks)]

Statuses == {"new", "running", "waiting", "dead"}
Answers  == {"none", "elapsed", "timed out", "signalled"}

TypeOK ==
  /\ tasks \in Seq(Tasks)
  /\ task \in [Tasks -> TaskRec]
  /\ pos \in 0..Len(tasks)
  /\ resuming \in BOOLEAN
  /\ delta \in Nat
  /\ slots \in [Signals -> Seq(Tasks)]
  /\ status \in [Threads -> Statuses]
  /\ answer \in [Threads -> Answers]
  /\ wait \in [Threads -> Tasks \cup {NoTask}]
  /\ owed \in [Tasks -> 0..Forever]
  /\ stack \in Seq(RunFrame \cup EmitFrame)

----------------------------------------------------------------------------
(* Helpers *)

Live == ToSet(tasks)

\* The remaining time after p_delta: both update() functions saturate at 0.
Elapse(left, d) ==
  IF left = Forever THEN Forever ELSE IF d > left THEN 0 ELSE left - d

\* `secs * 1e6` stored in a uint64_t.  For a negative number the conversion is
\* undefined: the builds yield 0 (saturating) or a number near 2^64 (wrapping).
Usec(d) == IF d < 0 THEN {0, Forever} ELSE {d}

Running(t) == stack # <<>> /\ Last(stack).kind = "run" /\ Last(stack).thread = t
InEmission == stack # <<>> /\ Last(stack).kind = "emit"
Emitting   == {f.signal : f \in {g \in ToSet(stack) : g.kind = "emit"}}

\* The engine, a Lua function or an emission between two slots is on top: the
\* points where something may call into Lua or emit a signal.
MayCall ==
  IF stack = <<>> THEN pos = 0
  ELSE Last(stack).kind = "emit" => Last(stack).cur = NoTask

Push(f) == Len(stack) < MaxDepth /\ stack' = Append(stack, f)

\* The slots once the waiter of task k is disconnected; nothing if it is not.
Disconnected(k) ==
  LET s == task[k].signal IN
  IF s # NoSignal /\ Contains(slots[s], k)
  THEN [slots EXCEPT ![s] = RemoveAt(@, CHOOSE i \in DOMAIN @ : @[i] = k)]
  ELSE slots

----------------------------------------------------------------------------
(* Lua threads *)

Init ==
  /\ tasks = <<>>
  /\ task = [k \in Tasks |-> Free]
  /\ pos = 0 /\ resuming = FALSE /\ delta = 0
  /\ slots = [s \in Signals |-> <<>>]
  /\ status = [t \in Threads |-> "new"]
  /\ answer = [t \in Threads |-> "none"]
  /\ wait = [t \in Threads |-> NoTask]
  /\ owed = [k \in Tasks |-> 0]
  /\ stack = <<>>

\* The engine, or Lua code through it, calls a Lua function on a thread of its own.
Start(t) ==
  /\ status[t] = "new" /\ MayCall
  /\ status' = [status EXCEPT ![t] = "running"]
  /\ Push([kind |-> "run", thread |-> t])
  /\ UNCHANGED <<tasks, task, frameVars, slots, answer, wait, owed>>

\* Mutant: register_task pushes at the back of the list.
RegisterTaskAtBack(t, k, s, left) ==
  /\ k \notin Live
  /\ task' = [task EXCEPT ![k] = [owner |-> t, signal |-> s, left |-> left, got |-> FALSE]]
  /\ tasks' = Append(tasks, k)
  /\ UNCHANGED pos

\* TaskScheduler::register_task pushes at the front, behind the loop of `frame`;
\* the ScheduledTask constructor has pinned the thread.
RegisterTask(t, k, s, left) ==
  /\ k \notin Live
  /\ task' = [task EXCEPT ![k] = [owner |-> t, signal |-> s, left |-> left, got |-> FALSE]]
  /\ tasks' = Cons(k, tasks)
  /\ pos' = IF pos = 0 THEN 0 ELSE pos + 1

\* lua_yield returns to whatever resumed the thread.
Suspend(t, k, left) ==
  /\ status' = [status EXCEPT ![t] = "waiting"]
  /\ answer' = [answer EXCEPT ![t] = "none"]
  /\ wait' = [wait EXCEPT ![t] = k]
  /\ owed' = [owed EXCEPT ![k] = left]
  /\ stack' = Front(stack)

\* lua_yield raises within a metamethod or another call of C. The task has been
\* registered, and the thread goes on (in its pcall, or to its end) without a wait.
YieldRaises(k, left) ==
  /\ WaitInC
  /\ owed' = [owed EXCEPT ![k] = left]
  /\ UNCHANGED <<status, answer, wait, stack>>

\* wait(d)
Wait(t, k, d) ==
  /\ Running(t)
  /\ \E left \in Usec(d) :
       RegisterTask(t, k, NoSignal, left) /\ (Suspend(t, k, left) \/ YieldRaises(k, left))
  /\ UNCHANGED <<resuming, delta, slots>>

\* wait_signal(s, d): the waiter is connected after the slots the signal has.
WaitSignal(t, k, s, d) ==
  /\ Running(t)
  /\ \E left \in Usec(d) :
       RegisterTask(t, k, s, left) /\ (Suspend(t, k, left) \/ YieldRaises(k, left))
  /\ slots' = [slots EXCEPT ![s] = Append(@, k)]
  /\ UNCHANGED <<resuming, delta>>

\* The thread's function returns or fails; either way it cannot be resumed.
Finish(t) ==
  /\ Running(t)
  /\ status' = [status EXCEPT ![t] = "dead"]
  /\ answer' = [answer EXCEPT ![t] = "none"]
  /\ wait' = [wait EXCEPT ![t] = NoTask]
  /\ stack' = Front(stack)
  /\ UNCHANGED <<tasks, task, frameVars, slots, owed>>

\* Mutant: tasks do not pin their thread.
CollectUnpinned(t) ==
  /\ status[t] \in {"waiting", "dead"}
  /\ status' = [status EXCEPT ![t] = "new"]
  /\ answer' = [answer EXCEPT ![t] = "none"]
  /\ wait' = [wait EXCEPT ![t] = NoTask]
  /\ UNCHANGED <<tasks, task, frameVars, slots, owed, stack>>

\* Lua collects a thread that no task pins and that is not on the C stack (a
\* pin is the lua_ref of a ScheduledTask); a new thread may get its address.
Collect(t) ==
  /\ status[t] \in {"waiting", "dead"}
  /\ \A k \in Live : task[k].owner # t
  /\ status' = [status EXCEPT ![t] = "new"]
  /\ answer' = [answer EXCEPT ![t] = "none"]
  /\ wait' = [wait EXCEPT ![t] = NoTask]
  /\ UNCHANGED <<tasks, task, frameVars, slots, owed, stack>>

\* luascript_resume on the thread of task k, with the results pushed for it.
\* lua_resume refuses a thread that is not suspended; then nothing changes.
CanResume(k) == task[k].owner \in {t \in Threads : status[t] = "waiting"}

Resumed(k, result) ==
  /\ status' = [status EXCEPT ![task[k].owner] = "running"]
  /\ answer' = [answer EXCEPT ![task[k].owner] = result]

\* coroutine.resume, from Lua, of a thread that is suspended in a wait.
ResumeByHand(t) ==
  /\ CoroutineResume
  /\ stack # <<>> /\ Last(stack).kind = "run"
  /\ status[t] = "waiting"
  /\ status' = [status EXCEPT ![t] = "running"]
  /\ wait' = [wait EXCEPT ![t] = NoTask]
  /\ Push([kind |-> "run", thread |-> t])
  /\ UNCHANGED <<tasks, task, frameVars, slots, answer, owed>>

----------------------------------------------------------------------------
(* Signals *)

\* Object::emit_signal copies the list of slots before it calls the first one.
\* In one OS thread the engine emits outside of frame, Lua wherever it runs.
Emit(s) ==
  /\ MayCall
  /\ slots[s] # <<>>
  /\ ReentrantEmit \/ s \notin Emitting
  /\ Len(stack) + 1 < MaxDepth \* leaves room for the thread a slot resumes
  /\ Push([kind |-> "emit", signal |-> s, cur |-> NoTask, queue |-> slots[s]])
  /\ UNCHANGED <<tasks, task, frameVars, slots, status, answer, wait, owed>>

\* SignalWaiter::on_signal up to its luascript_resume, which runs the thread.
OnSignal ==
  /\ InEmission /\ Last(stack).cur = NoTask /\ Last(stack).queue # <<>>
  /\ LET k == Head(Last(stack).queue) IN
     /\ CanResume(k)
     /\ Resumed(k, "signalled")
     /\ stack' = Append(Append(Front(stack), [Last(stack) EXCEPT !.cur = k, !.queue = Tail(@)]),
                        [kind |-> "run", thread |-> task[k].owner])
  /\ UNCHANGED <<tasks, task, frameVars, slots, wait, owed>>

\* Mutants: on_signal stays connected; on_signal does not note that it was called.
OnSignalEndConnected(k) ==
  /\ task' = [task EXCEPT ![k].got = TRUE]
  /\ UNCHANGED <<tasks, slots, frameVars, status, answer, wait, owed>>
OnSignalEndForgotten(k) ==
  /\ slots' = Disconnected(k)
  /\ UNCHANGED <<tasks, task, frameVars, status, answer, wait, owed>>

\* The end of on_signal, after the resume: disconnect, then _got_signal = true.
OnSignalEnd(k) ==
  /\ slots' = Disconnected(k)
  /\ task' = [task EXCEPT ![k].got = TRUE]
  /\ UNCHANGED <<tasks, frameVars, status, answer, wait, owed>>

\* The thread on_signal resumed has suspended, finished or failed.
OnSignalReturn ==
  /\ InEmission /\ Last(stack).cur # NoTask
  /\ OnSignalEnd(Last(stack).cur)
  /\ stack' = Append(Front(stack), [Last(stack) EXCEPT !.cur = NoTask])

\* on_signal on a thread that is not suspended: the resume is an error.
OnSignalRefused ==
  /\ InEmission /\ Last(stack).cur = NoTask /\ Last(stack).queue # <<>>
  /\ LET k == Head(Last(stack).queue) IN ~CanResume(k) /\ OnSignalEnd(k)
  /\ stack' = Append(Front(stack), [Last(stack) EXCEPT !.queue = Tail(@)])

\* Every slot was called: the emission returns.
EmitEnd ==
  /\ InEmission /\ Last(stack).cur = NoTask /\ Last(stack).queue = <<>>
  /\ stack' = Front(stack)
  /\ UNCHANGED <<tasks, task, frameVars, slots, status, answer, wait, owed>>

----------------------------------------------------------------------------
(* TaskScheduler::frame *)

\* The main loop calls frame with nothing else on the stack.
FrameBegin(d) ==
  /\ stack = <<>> /\ pos = 0 /\ tasks # <<>>
  /\ pos' = 1 /\ delta' = d
  /\ owed' = [k \in Tasks |-> IF k \in Live THEN Elapse(owed[k], d) ELSE owed[k]]
  /\ UNCHANGED <<tasks, task, resuming, slots, status, answer, wait, stack>>

\* The loop looks at a task: update(), then is_complete() and should_resume().
AtTask == stack = <<>> /\ pos # 0 /\ ~resuming

Updated == Elapse(task[tasks[pos]].left, delta)
\* Mutants: completion wants both; a signal's answer is not looked at; only a
\* WaitSignalTask is ever resumed.
IsCompleteBoth == Updated = 0 /\ task[tasks[pos]].got
ShouldResumeAnyway == Updated = 0
ShouldResumeSignals == Updated = 0 /\ ~task[tasks[pos]].got /\ task[tasks[pos]].signal # NoSignal

IsComplete == Updated = 0 \/ task[tasks[pos]].got
ShouldResume == Updated = 0 /\ ~task[tasks[pos]].got

\* Past the last element the loop, and with it the frame, ends.
FrameAt(i, list) == pos' = (IF i > Len(list) THEN 0 ELSE i)
                    /\ delta' = (IF i > Len(list) THEN 0 ELSE delta)

\* Not complete: only its time has changed.
FrameKeep ==
  /\ AtTask /\ ~IsComplete
  /\ task' = [task EXCEPT ![tasks[pos]].left = Updated]
  /\ FrameAt(pos + 1, tasks)
  /\ UNCHANGED <<tasks, resuming, slots, status, answer, wait, owed, stack>>

\* Complete and to be resumed: luascript_resume runs the thread.
FrameResume ==
  /\ AtTask /\ ShouldResume /\ CanResume(tasks[pos])
  /\ LET k == tasks[pos] IN
     /\ task' = [task EXCEPT ![k].left = Updated]
     /\ Resumed(k, IF task[k].signal = NoSignal THEN "elapsed" ELSE "timed out")
     /\ Push([kind |-> "run", thread |-> task[k].owner])
  /\ resuming' = TRUE
  /\ UNCHANGED <<tasks, pos, delta, slots, wait, owed>>

\* Mutants: the loop skips the element behind an erased one; the waiter outlives
\* its task.
RemoveTaskSkips ==
  LET k == tasks[pos] IN
  /\ task' = [task EXCEPT ![k] = Free]
  /\ owed' = [owed EXCEPT ![k] = 0]
  /\ slots' = Disconnected(k)
  /\ tasks' = RemoveAt(tasks, pos)
  /\ FrameAt(pos + 1, tasks')
  /\ resuming' = FALSE
  /\ UNCHANGED <<status, answer, wait, stack>>
RemoveTaskConnected ==
  LET k == tasks[pos] IN
  /\ task' = [task EXCEPT ![k] = Free]
  /\ owed' = [owed EXCEPT ![k] = 0]
  /\ tasks' = RemoveAt(tasks, pos)
  /\ FrameAt(pos, tasks')
  /\ resuming' = FALSE
  /\ UNCHANGED <<slots, status, answer, wait, stack>>

\* memdelete(s_task) drops the pin and, with the last reference, the waiter and
\* its connection; then the element is erased and the loop goes on behind it.
RemoveTask ==
  LET k == tasks[pos] IN
  /\ task' = [task EXCEPT ![k] = Free]
  /\ owed' = [owed EXCEPT ![k] = 0]
  /\ slots' = Disconnected(k)
  /\ tasks' = RemoveAt(tasks, pos)
  /\ FrameAt(pos, tasks')
  /\ resuming' = FALSE
  /\ UNCHANGED <<status, answer, wait, stack>>

\* The thread that the loop resumed has suspended, finished or failed.
FrameReturn == stack = <<>> /\ resuming /\ RemoveTask

\* Complete, but on_signal has resumed the thread already.
FrameDrop == AtTask /\ IsComplete /\ ~ShouldResume /\ RemoveTask

\* Complete and to be resumed, but the thread is not suspended: an error.
FrameRefused == AtTask /\ ShouldResume /\ ~CanResume(tasks[pos]) /\ RemoveTask

----------------------------------------------------------------------------
(* The specification *)

LuaNext(t) ==
  \/ Start(t) \/ Finish(t) \/ Collect(t) \/ ResumeByHand(t)
  \/ \E k \in Tasks, d \in Durations :
       Wait(t, k, d) \/ \E s \in Signals : WaitSignal(t, k, s, d)

SignalNext ==
  \/ OnSignal \/ OnSignalReturn \/ OnSignalRefused \/ EmitEnd
  \/ \E s \in Signals : Emit(s)

FrameStep == FrameKeep \/ FrameResume \/ FrameReturn \/ FrameDrop \/ FrameRefused

Next ==
  \/ \E t \in Threads : LuaNext(t)
  \/ SignalNext
  \/ FrameStep
  \/ \E d \in Deltas : FrameBegin(d)

Spec == Init /\ [][Next]_vars

----------------------------------------------------------------------------
(* Safety *)

\* A thread that sits in a wait has a task in the list that will still answer
\* it: no order of timeouts, emissions and frees strands a thread.  The waiter of
\* a wait for a signal is connected, so the next emission finds it.
NoLostWakeup ==
  \A t \in Threads : status[t] = "waiting" =>
    LET k == wait[t] IN
    /\ k \in Live
    /\ task[k].owner = t
    /\ ~task[k].got
    /\ task[k].signal # NoSignal => Contains(slots[task[k].signal], k)

\* on_signal never runs on a waiter whose task was freed, neither from the slots
\* of a signal nor from the copy an emission in progress has taken, and its
\* thread is pinned: the thread is the one that called the wait.
NoFreedWaiter ==
  /\ \A s \in Signals : ToSet(slots[s]) \subseteq Live
  /\ \A f \in ToSet(stack) : f.kind = "emit" =>
       ToSet(f.queue) \cup ({f.cur} \ {NoTask}) \subseteq Live
  /\ \A k \in Live : status[task[k].owner] # "new"

\* The loop of frame and on_signal resume a thread only with the answer to the
\* wait it sits in, never with the answer to an earlier one.  Lua code keeps its
\* side if no signal is emitted during its own emission, no thread that sits in a
\* wait is resumed by hand and none waits where it cannot be suspended
\* (ReentrantEmit, CoroutineResume and WaitInC are FALSE). Each is needed:
\* - the copy of the slots that an outer emission took still has a waiter that an
\*   inner one has answered and disconnected, and on_signal, which never looks at
\*   _got_signal, resumes the thread again, out of whatever it waits for by then;
\* - the task of a wait whose yield raised answers the next wait of its thread.
AnswersOwnWait ==
  \A i \in DOMAIN stack : stack[i].kind = "run" =>
    LET k == wait[stack[i].thread] IN
    /\ i = 1 /\ resuming => k = tasks[pos]
    /\ i > 1 /\ stack[i-1].kind = "emit" /\ stack[i-1].cur # NoTask =>
         k = stack[i-1].cur

\* A task has lost the time of every frame that began after its registration,
\* each counted once and in full, and nothing else: the loop skips no task and
\* visits none twice while tasks are erased and registered under it. A thread is
\* resumed only once these frames add up to its duration: the frame a task is
\* registered in never shortens it.
TimeAccounted ==
  /\ \A i \in DOMAIN tasks :
       LET k == tasks[i]
           visited == pos = 0 \/ i < pos \/ (i = pos /\ resuming)
       IN owed[k] = IF visited THEN task[k].left ELSE Elapse(task[k].left, delta)
  /\ resuming => owed[tasks[pos]] = 0

----------------------------------------------------------------------------
(* Liveness *)

\* A Lua thread gives up control: it waits, returns or fails (development builds
\* interrupt one that runs for too long).
GivesUp(t) ==
  /\ \/ Finish(t)
     \/ \E k \in Tasks, d \in Durations :
          Wait(t, k, d) \/ \E s \in Signals : WaitSignal(t, k, s, d)
  /\ status'[t] # "running"

\* The loops of frame and of an emission run on: an emission calls each of its
\* finitely many slots, whatever runs between two of them; the main loop calls
\* frame again and again, and the deltas do not stay at zero (time scale 0).
Fairness ==
  /\ WF_vars(FrameStep)
  /\ SF_vars(OnSignal \/ OnSignalReturn \/ OnSignalRefused \/ EmitEnd)
  /\ \A t \in Threads : SF_vars(GivesUp(t))
  /\ SF_vars(\E d \in Deltas \ {0} : FrameBegin(d))

FairSpec == Spec /\ Fairness

\* A frame ends: tasks that threads register while it resumes them, even ones
\* that are due at once, do not keep its loop going.
FrameEnds == pos # 0 ~> pos = 0

\* A wait with a finite duration or timeout ends.
WaitEnds ==
  \A t \in Threads :
    (status[t] = "waiting" /\ task[wait[t]].left # Forever) ~> status[t] # "waiting"

=============================================================================
