# godot-luau-script in TLA+

godot-luau-script is a GDExtension that runs Luau as a scripting language of the
Godot engine. This directory holds TLA+ modules for the parts of it that keep
state between calls, configurations that check them with TLC on small instances,
and theorems checked by TLAPS. Paths below are relative to the repository; the
implementation is in `src/`.

## 1. The system

Godot calls the extension through four doors: resources are loaded and saved, the
language object is ticked once a frame (`LuauLanguage::_frame`), objects are
given scripts and their script instances are called, and the editor asks for
reloads, properties and debugging. From the other side Luau code calls the engine
through generated bindings and a few services. One call may nest in another as
deep as the native stack allows; most of what is hard in this code is of that
kind. Parallelism is the rest: each VM has a lock and the debugger another, so that
several OS threads may run Lua code, but the lists of the scheduler have none
(`TASKS.md` lists "Proper multithreading support (rather than just coroutines)"
as outstanding).

| Component | Source | State it keeps | Operations |
| --- | --- | --- | --- |
| Task scheduler | `scheduler/` | list of tasks, their remaining time, signal waiters and their connections | `wait`, `wait_signal`, `frame`, `on_signal` |
| GC tuning | `scheduler/task_scheduler.cpp:66-101` | step size, last size and rate per VM | second half of `frame` |
| Script loading | `scripting/luau_script.cpp:60-480, 660-715`, `luau_cache.cpp`, `luau_lib.cpp` | source, bytecode, stage, dependencies, class tables per VM; tables of required modules; cache; list of scripts | `load`, `load_table`, `load_module`, `require`, `get_script`, `_load` |
| Reloading | `scripting/luau_script_editor.cpp:230-446` | order of scripts, `pending_reload_state` | `_reload_tool_script`, `_reload_all_scripts` |
| Instances, placeholders | `scripting/luau_script.cpp:738-1830`, `luau_script_editor.cpp:40-160, 560-802` | instances and placeholders by object, values, `placeholder_fallback_enabled`, `source_changed_cache` | create, free, set, get, `_update_exports`, `update`, `property_set_fallback` |
| Dispatch | `scripting/luau_script.cpp:985-1690` | none of its own | set, get, call, notification, lists of members along the base classes |
| Debugger | `scripting/luau_script_debugger.cpp` | broken thread, break counts per VM, depth, call stacks, deadlines, breakpoints | hooks, `debug_break`, `set_call_stack`, breakpoints |
| VMs and locks | `core/runtime.cpp`, `core/lua_utils.cpp` | three VMs, a recursive mutex each, data per thread | `ThreadHandle`, thread creation and collection |
| Engine calls | `core/godot_*_bindings.cpp` | one argument stack (`GDThreadStack`) per VM | methods, utility functions, properties, signals |
| Values | `core/stack.cpp`, `core/variant.cpp` | userdata of objects, owned `LuauVariant`s | conversions |
| Class definitions | `analysis/` | none between calls | annotations to `GDClassDefinition` |
| Services | `services/`, `core/permissions.cpp` | binding tables, the thread of `exec`, lists of core scripts | lookup, `exec` |
| Life of the language | `register_types.cpp`, `luau_script.cpp:1850-1925` | singletons | init, finalize |

How they meet. `frame` and `on_signal` resume Lua threads, which register tasks,
emit signals and load scripts. A load runs chunks, which `require` other scripts;
reading the annotations of a class loads the classes it names. A reload takes the
instances of several scripts away, loads the scripts, and gives the objects their
scripts and values back; a placeholder is updated from the definition that a load
leaves. The shared state is the list of tasks, the slots of signals (owned by the
engine), the cache with the scripts in it, and the tables of objects by script.

What is hard, by component, and what makes it correct:

- *Scheduler*: resumes nest (frame, thread, emission, thread ...), and tasks are
  registered, answered and freed under a loop and under emissions that hold
  copies of slots. Correct: a waiting thread is never stranded, is answered once
  and with its own answer, not before its time and, if its wait is finite, at
  some time; freed waiters are never called; a frame ends.
- *GC tuning*: signed, unsigned and floating point meet. Correct: step sizes keep
  their bounds, and follow the heap.
- *Loading*: loads are recursive, may meet themselves and fail half way. Correct:
  the recursion ends, a failure leaves nothing marked as in progress, what is in
  the tables is made from the current texts, and mending an error repairs
  everything it broke.
- *Reloading*: several scripts, objects in four conditions, texts that break and
  are mended. Correct: objects keep their script and their values, nothing waits
  for what is whole, the editor lists the properties the class has.
- *Class definitions and instances*: annotations act in the order of a text, and
  classes are constructed, searched and listed along their bases by code written out
  in many places. Correct: a text means what it says, a property holds what was
  accepted for it, and all of the walks agree.
- *Engine calls and locks*: the arguments of a call lie in a buffer that nested
  calls use too, in one of several representations; two kinds of locks are held
  across calls. Correct: a call reads its own arguments, the stack of calls shown is
  that of a running call, a VM is used by one OS thread at a time, no circle of
  locks.
- *Debugger*: hooks of the interpreter are called again on resume, Lua code runs
  while the stack of a stopped thread is collected, deadlines pass meanwhile.
  Correct: a breakpoint stops once, the stack shown is that of the stopped thread, a
  step ends where it should, and the user's time is not charged to a thread.

## 2. The modules

| Module | Models |
| --- | --- |
| `TaskScheduler` | tasks, waiters, the loop of `frame`, the call stack above it; properties |
| `TaskSchedulerInv` | inductive invariants |
| `Waits` | what `wait` and `wait_signal` promise a thread (abstract specification) |
| `TaskSchedulerWaits` | the refinement mapping from `TaskScheduler` to `Waits` |
| `MCTaskScheduler` | instances, symmetry |
| `TaskScheduler_proof`, `SequenceLemmas` | theorems about lists, lost wakeups and time, and lemmas |
| `TaskSchedulerWaits_proof` | theorems about answers and the refinement |
| `GcTuner`, `MCGcTuner`, `GcTuner_proof` | GC tuning |
| `ScriptLoading`, `MCScriptLoading` | loading, `require`, which scripts a change reloads |
| `ScriptReload`, `MCScriptReload` | instances, placeholders and values across reloads |
| `ClassReader` | annotations of a text to the definition of a class |
| `ScriptInstance`, `MCScriptInstance` | construction of an instance, its members for the engine and for Lua |
| `ScriptInstance_proof` | theorems about the values an instance keeps and the arguments its functions get |
| `ArgumentStack` | values kept for a call: representations, the stack of arguments, defaults |
| `EngineCalls`, `MCEngineCalls` | OS threads, VMs and their locks, natives that call back, the call stack shown in errors |
| `EngineCalls_proof` | theorems about the locks, the call stack, and the arguments that the engine is given |
| `Debugger`, `MCDebugger` | breakpoints, stepping, what is shown, deadlines |
| `Debugger_proof` | theorems about breakpoints in VMs and deadlines |
| `DebuggerDiscipline` | the programs the debugger serves as the user expects, its inductive invariant |
| `DebuggerDiscipline_proof` | theorems about breaks, steps and what is shown |

`TaskSchedulerWaits` composes `TaskScheduler` with `Waits` by a refinement mapping.
`ScriptLoading` and `ScriptReload` split one function of the code,
`_reload_tool_script`: the first has which scripts it reloads and what loading
does (its steps 1 and 3a), the second what becomes of the objects (steps 2 and
3b), for scripts that each come after the one they extend. `ScriptInstance` extends
`ClassReader`: its classes are what that module reads from texts. `EngineCalls`
extends `ArgumentStack`: natives fill the stack of their VM through its operators.

### TaskScheduler

`tasks` is `TaskScheduler::tasks`. A record of `task` is a `ScheduledTask` with
its `SignalWaiter`: `owner` (the pinned thread), `left` (`remaining` or
`until_timeout`), `signal` (`NoSignal` for a `WaitTask`), `got` (`_got_signal`).
`slots` are the connections of each signal in order. `pos`, `resuming` and `delta`
are the locals of the loop of `frame`: where it stands, whether it is inside
`luascript_resume`, its argument. `status` is what `lua_status` says. `stack`
holds the activations above the loop: a running Lua thread, or an emission with
the slot it is calling and the slots left in its copy.

Each action is one step of the topmost activation. `Wait` and `WaitSignal` are
the whole C functions, with registration, connection and yield. `Emit` begins
`Object::emit_signal`, which copies its slots; `OnSignal` calls the next one up to
the resume, `OnSignalReturn` is what follows the resume, `OnSignalRefused` the
path on which the thread cannot be resumed. `FrameBegin` starts a frame;
`FrameKeep`, `FrameResume` with `FrameReturn`, `FrameDrop` and `FrameRefused` are
the paths through the body of the loop. `Collect` is the collector of Lua, which
respects pins; the addresses of threads and tasks are reused.

`answer`, `wait` and `owed` are history variables: what a thread was told, the
task of its last wait, and what that wait still had to last by the frames begun.

### GcTuner

The three arrays as functions of the VM. `Frame` is the whole loop over the VMs,
`Tuned` its body, `Rate` and `Unsigned` the conversions: a double to `int32_t`
(where C++ leaves the result undefined, both what saturating and what wrapping
builds yield), and the comparison of `int32_t` with `uint32_t`.

### ScriptLoading

`world` is a record of the files on disk, the scripts, the tables of
required modules per VM, and the list of scripts; `project`, chosen at the start, says what
the files may say. An action is one call from the
engine, with every load it nests; the operators are the functions the code calls,
each from one world to the next, mutually recursive as in the code, with a depth
that stands for the native stack. The texts of files are reduced to what loading
reads of them: whether they parse, what they require, extend and use as types.
What a chunk computes is reduced to the set of texts it was made from, which is
what staleness is about.

### ScriptReload

Again one `world`: texts, what each script is defined as, `valid`, `fallback`,
`pending`, and for each object its script, its instance or placeholder, its
values and listed properties. `mode` is chosen at the start: the game, the editor,
the editor with a tool script. Actions are what a user of the editor or the game
does: save a text, apply it unsaved (`_update_exports`), soft reload, give an
object a script or take it away, free it, set a property. `meant` and `want` are
history: the script an object was given, and the values since.

### ClassReader and ScriptInstance

`ClassReader` has no variables. A syntax tree is data, and reading folds over its
statements, the fields of a table type, and the annotations of the comments above;
the accumulator is the state of the visitor: the definition made so far, whether the
class and its type were found, the errors. Hints, groups, defaults, `rpc` options and
signatures are checked as the code checks them. A definition that met an error is
not used, but what it left behind is modelled. `Core` says whether the sandbox lists the
script as a core script, which alone may have `@permissions`.

`ScriptInstance` chooses one list of classes at the start (`classes`, the most
derived first), constructs the instance as the constructor does (from the most base
class: its defaults, then its `_Init`), and then performs the operations of
`LuauScriptInstance` and the metamethods of objects. `stage` and `in_init` say how far
construction has come, `table` is the table of the instance, `last` the last
operation with the functions of scripts it called and its outcome, `kept` what each
property last accepted. A function of a script ends in any way; what it does to
the instance is a step of Lua's own before or after. Numbers and strings are taken for one
another as Lua does (`lua_is`): a string for a number when it reads as one (`Numerals`).

### ArgumentStack and EngineCalls

`LuauVariant` is a record of its type, the flag `from_luau` and its data. The table
of method objects of `variant.cpp` becomes `Representation`: a type is kept as a
plain value, a pointer, a coerced value, a boxed object and so on, one type of
each kind. `get_arguments`, `get_default_args` and `builtin_ctor` each yield the stack
they leave and whether they raised an error, in which case what they wrote stays. The number
of arguments is signed where the code has an `int` and unsigned where it is compared and
passed to `resize`: a missing self makes it -1 and then `SizeMax`, which stands for 2^64-1.
Nobody has the memory for so many places (`Places`): such a stack has no arrays, and as its
capacity is enough for any list it never gets any (`Gone`).

In `EngineCalls` an OS thread has frames: Lua code, which waits for the lock of its
VM and then runs, and natives, which fill the stack, wait for the lock of the call
stack, and are in the engine, from where Lua code may be entered again. `vm_lock` and
`call_lock` are recursive mutexes, `call_stack` the call that the debugger describes
(an OS thread and the depth of a frame). `passed` is history: what became of the
arguments of a native (`lost`: the positions that calls within it filled or freed;
`interrupted`: a call came while `print` was filling the stack). An error in
`__tostring` ends `print` without a call (`ToStringRaises`). A method of a script in another VM
is `refused` by `LuauScriptInstance::call` when it is given too many arguments or no self, and
returns nil. A call that would write to the arrays of a stack that is `Gone` is not made but
ends the process (`Crash`), and the next process begins in the state of `Init`. Programs are
constants: which calls, with what they are given, the Lua code of each VM makes.

### Debugger

`runs` has, for each OS thread, the Lua threads it runs, one above the other (a call of the
engine that comes back, a coroutine, a getter that the debugger reads), each with its
functions, the place `at` which it is, whether it `broke` since it was resumed, and its
deadline. Before each instruction the hooks come: `lua_debugstep`, then `lua_debugbreak`;
`Exec` is the instruction, with `lua_interrupt` where Luau calls it: at loops, returns and
calls, those of functions of C included (`Interrupting`). `HandleError` shows an error
unless the thread broke before (`luascript_handle_status` returns when it has gone on with
one) or is a coroutine, whose error is a value. When a coroutine breaks,
`lua_debuginterrupt` runs it to its end and the thread that waited for it breaks as well
(`Woken`, `Interrupted`), which raises an error in it when it is within a metamethod.
`debug_break` begins a walk of the stack (`WalkLevel`, one level at a time, with the getters
of `self`), which ends with the thread shown (`WalkEnds`) or, when a step has left the
function of the breakpoint, with the thread going on; `DebugEnds` is the return of
`script_debug` with the user's command. `breakpoints` are the script's, `armed` those set in
the function that each VM loaded. `asked`, `since`, `hooked` and `stops` are history:
`stops` counts the stops of an instruction at a breakpoint (an error shown and the end of a
step are none), `asked` is the step that is under way, until its thread leaves the function
of the breakpoint or ends.

## 3. What is checked

Every passing run checks for deadlock too.

| Run | Checks | Shows |
| --- | --- | --- |
| `task_scheduler` | `AnswersOwnWait`, `TimeAccounted`, `DisciplineInv`, `KeepsPromise` | with Lua code that neither emits a signal in its own emission, nor resumes waiting threads by hand, nor waits where it cannot be suspended, every wait gets its own answer in its own time, and the scheduler implements `Waits` |
| `any_lua` | `WakeupInv`, `NoLostWakeup`, `NoFreedWaiter` | with any Lua code no thread is stranded and no freed waiter is called |
| `scheduler_live` | `FrameEnds`, `WaitEnds` | frames end and finite waits end |
| `gc_tuner` | `TypeOK`, `StepBounded`, `MinKept`, `Settles` | step sizes keep their bounds through every conversion, and come down where the measured rate stays at zero |
| `script_loading` | `TypeOK`, `LoadsEnd`, `Fresh`, `ValidTrue` | circles of two files and texts that fail to parse: recursion ends, nothing stays marked as loading; files that require all they depend on: after a save nothing older than the texts is in use in either VM, and mending an error repairs what it broke |
| `script_state` | `TypeOK`, `ScriptKept`, `StateKept`, `NothingPending`, `PlaceholdersListed` | objects keep script and values across broken and mended texts |
| `classes` | `TypeOK`, `AsWritten`, `AcceptedIsReadable`, `KeptAsSet`, `CallArguments`, `ReportsAgree` | four scripts of one to three classes: texts mean what they say, values stay as accepted, calls get the arguments and defaults that methods declare, lists agree with operations |
| `engine_calls` | `TypeOK`, `ArgumentsSeen`, `CallStackTrue`, `MutualExclusion`, `NoCircularWait`, `CallStackKept` | six programs of every kind of native, also called without self: a call reads its own arguments but where a nested call took their positions, and the locks keep OS threads apart |
| `debugger` | `TypeOK`, `BreaksOnce`, `ArmedAgree`, `ShownTrue`, `StepsRight`, `TimeoutsFair` | seven scripts that are stopped, stepped through, inspected and interrupted, and fail before and after they were stopped |

Three runs find the program doing other than the repository says; each checks the
one property that states it.

- `reentrant_emit`: an emission calls the slots it copied when it began, and
  `on_signal` never asks `_got_signal`. When a slot of an outer emission emits the signal
  again, the inner emission answers a waiter and disconnects it, its thread enters another
  wait, and the outer emission, from its copy, calls the waiter once more: the thread is
  resumed out of its second wait with the answer to the first (`AnswersOwnWait`).
- `base_applied`: the editor applies the text of a base class before it is saved.
  `_update_exports` updates the base class, which clears `source_changed_cache`, and then
  the scripts that depend on it, which ask the base class whether it changed: it says no,
  and their placeholders keep the list they had (`PlaceholdersListed`).
- `engine_slots`: `lua_check` sets the type of a slot before its check, which may
  raise an error, and `from_luau` after it; a slot is left with the new type and the
  flag of the value before (`FromLuauRefers`). The next use of the slot then
  does not destroy a value that was built, or destroys one that was not.

Other disagreements were met and have no run of their own:

- `wait` and `wait_signal` register their task before `lua_yield` (`scheduler_lib.cpp:18-21`,
  `28-31`), which raises an error within a metamethod or another call of C. The task stays; a
  thread that catches the error and waits for something else is resumed when that task is due,
  or its signal emitted. `AnswersOwnWait` fails with `WaitInC` TRUE.
- `Array.Append()`, or a method of another VM's script called with nothing after it, makes
  `get_arguments` resize the argument stack to 2^64-1 (`godot_bindings.cpp:130-136`): the
  arrays that "store arguments" (`lua_utils.h:44`) are deleted, and none take their place.
  The next call in the VM that has an argument writes to them. `engine_calls` has such
  calls, and `Crash`.
- "Error should have been sent out when getting arguments" (`godot_class_bindings.cpp:296`), but
  a method of a script takes any number of arguments for `get_arguments`; the instance refuses
  the call (`luau_script.cpp:1496-1508`) and the caller goes on with nil (`refused`).
- An error in a thread that a signal resumes is reported through `udata->script` without the
  check for null that `task_scheduler.cpp:47` makes (`wait_signal_task.cpp:36`).
- A load may lower the stage that a script has reached (`luau_script.cpp:380`): after the reload
  of a derived class `require` can return a table that the base class no longer uses
  (`OneTable`, which `ScriptLoading` states and no run checks).
- A heap that shrinks has a negative rate, which as an unsigned number exceeds
  every step size: the step grows (`task_scheduler.cpp:85`, against its comment).
- Dependents are looked for in one pass over a list sorted by direct dependencies
  (`luau_script_editor.cpp:253`), which is no order of three scripts; a class that
  depends on a module through another class may keep what the old module made.
- A method of a freed object is called with a null self (`godot_class_bindings.cpp:144`).
- A call into the other VM by a native that holds the lock of the call stack can
  stop two OS threads for ever. `NoCircularWait` has programs that cross VMs without it.
- `_get_script_property_list` lists a script's own properties once for each class,
  `_has_script_signal` looks at one base (`luau_script.cpp:502`, `555`); only the
  lists of instances are in `ReportsAgree`.
- Annotations that follow a group on the same field are written through a pointer
  that the group invalidated (`annotation_class_type.cpp:447`); `AsWritten` is about
  fields that have none.
- The debugger outside the discipline of its run (below).

Each property has a mutant: a definition of the model changed as a bug would
change the code, under which TLC finds the property violated. The mutants stand in
the modules before the definitions they replace.

### Bounds

- `task_scheduler`, `any_lua`: two threads, three tasks, two signals, five
  activations. Two threads are enough for one to be resumed by the loop and
  emit a signal that resumes the other; three tasks for a thread to have one
  behind the loop, one before it and one being answered; two signals to emit
  within an emission; five activations for thread, emission, thread, emission,
  thread. Durations and deltas of one or two ticks (or zero and one) give waits
  that outlast a frame, end with it, and end before it. `Forever` stands for
  durations no sum of frames exhausts.
- `scheduler_live`: one signal, two tasks, four activations, as no symmetry may
  be used; durations include -1, whose conversion to `uint64_t` is undefined and
  gives 0 or nearly 2^64.
- `gc_tuner`: two VMs (the first alone starts at the minimum), integers of six bits
  (`IntMod` 64), so that a rate of 20 per half second leaves the signed half.
  Its frames include length zero.
- `script_loading`: two projects of three files (a module, a class, a class that extends or
  requires it), two or three texts each; one has circles and one VM, the other two VMs for
  staleness in another VM. `MaxDepth` 12 is never reached, which is part of `LoadsEnd`. Three
  files are the fewest for an indirect dependency.
- `script_state`: two objects, two classes with one property
  each, two values, one of them the default. Two objects are the fewest for one
  to be restored while the other waits.
- `classes`: texts chosen for the cases they meet: a property declared again with
  another type, defaults, getters and setters with and without their function, groups,
  hints of each kind, methods with defaults, constants, a script whose bases answer
  for what it lacks. `Scratch` bounds what Lua assigns to names without a meaning,
  `Returned` what functions of scripts return. Three classes are the
  fewest for a member that the middle one takes from its base.
- `engine_calls`: `MaxDepth` 6 is three calls that nest with the Lua code between
  them; `InitialCapacity` 2, instead of 16, makes the stack grow. One type
  stands for each representation. `SizeMax` 9 is more than any list of the programs has.
  Strings that look like numbers are left out (numbers are taken for strings, as Lua does),
  and defaults of vararg functions exist only where scripts declare them.
- `debugger`: two OS threads, two VMs, four addresses of Lua threads (a thread is not
  started while none is free), functions of up to five instructions that meet a breakpoint
  before and after the script is loaded in the second VM, a call on the line of the
  call it makes, and a function of the breakpoint that returns. Six units of
  time with a limit of two let a thread be stopped, renewed and interrupted.

### Assumptions

- *One OS thread* but in `EngineCalls` and `Debugger`. The list of tasks has no
  lock; see the hazards.
- *Discipline of Lua code* (`ReentrantEmit`, `CoroutineResume`, `WaitInC` FALSE) where
  the run says so. `any_lua` has none of the restrictions; `reentrant_emit`
  shows that `AnswersOwnWait` needs the first. A thread in a wait that Lua
  resumes by `coroutine.resume` breaks it too.
- *Script loading*: one spelling per path (a second one, as by `../`, leaves stale
  values: `Fresh` fails), circles of at most two scripts and property types in one
  direction (circles are declared unsupported in `docs/src/usage/modules.md`), files
  always readable, chunks that do not yield. For `Fresh` and `ValidTrue`, every
  file requires directly all it depends on.
- *Reloads*: an object is not freed and does not drop its script while that script
  is broken (`MayLeave` FALSE). With TRUE, `ScriptKept` fails: the function
  returns at an object that is no more (`luau_script_editor.cpp:401`), and leaves
  the objects after it without scripts. In the editor it is the derived class that breaks:
  a broken base class drops values of its properties from placeholders of derived
  classes. The text of a tool script is not applied unsaved: a bad annotation
  clears the definition its instances are saved by.
- *Instances*: a script's tables were loaded in the VM of its instance, and its
  classes do not change while it lives (that is `ScriptReload`).
- *Engine calls*: what an allocation of 2^64-1 elements yields is up to the engine's
  allocator; the model has no arrays after it, and a write to them ends the process. Those that
  cross VMs in both directions run on one OS thread; on
  two, they cross one way and from natives that set no call stack.
- *Debugger*: one OS thread at a time can be stopped; no thread is stopped, by a breakpoint
  or a step, in a metamethod or in a getter that the debugger calls; such getters raise no
  error. As a condition on programs it is `Disciplined` (`DebuggerDiscipline`): one OS
  thread is chosen, and a set of functions for each kind of thread that are `SilentCode`,
  that is, have no line of a breakpoint and, where the engine resumes them, no error or
  deadline to miss (in a program where time passes, no instruction that asks for the time,
  of which the end of a function is one), and run only functions of these sets; the other OS
  threads and the getter run these. Functions that metamethods run have no breakpoint, and a
  program with metamethods takes no steps (`MetaCode`). TLC evaluates it for the programs of
  the run (`DisciplineAssumption`). Outside of this `BreaksOnce`, `ShownTrue` and
  `StepsRight` fail, and the code with them (`ArmedAgree` and `TimeoutsFair` are proved
  without it):
  - a break refused as "already debugging another thread" counts as a hit, and the
    next hit of that VM is passed over; a breakpoint met by a getter during the walk
    does so too, and the outer thread is shown twice;
  - `lua_break` raises an error within a metamethod, after which `debugging` stays set
    and every later break is refused;
  - `debugging` is asked before the walk and set after it: two OS threads can
    both begin, and what is shown mixes their stacks; so does a getter that fails.
  Two more limits are as the code has them: a coroutine has no deadline, so a loop that
  runs for ever in one is not interrupted; and a script loaded again in a VM leaves
  threads that still run the old function without later breakpoints.

### Fairness

`Fairness` of `TaskScheduler` has four parts. `frame` goes on (weak: its loop is
at a task until it has done something about it). An emission goes on through its
finite copy of slots, and a running thread yields, returns or fails (strong: what
runs above them on the stack disables them for a while, again and again;
development builds interrupt threads that run too long, see `lua_interrupt`). The
main loop begins frames whose delta is not zero, whatever runs between (strong: at
a time scale of zero no wait would end). Lua code is not required to do anything
else: not to emit, not to call. `FairSpec` of `GcTuner` says that frames that take
time go on when the sizes they measure no longer change. `EngineCalls` and `Debugger`
state no liveness: the user may look at a stopped thread for ever.

## 4. What is proved

For every set of threads, tasks, signals and durations, every bound on the stack,
and any Lua code (the switches of the discipline arbitrary), in
`TaskScheduler_proof`:

- `TypeCorrect`: `Spec => []TypeOK`;
- `Invariance`: `Spec => []WakeupInv`;
- `WakeupTheorem`: `Spec => []NoLostWakeup`;
- `FreedWaiterTheorem`: `Spec => []NoFreedWaiter`;
- `TimeTheorem`: `Spec => []TimeAccounted`.

The assumptions are those the module declares: the sentinels are no members of
their sets, times are numbers, the switches are Booleans.

`NoLostWakeup` is not inductive. That `RemoveTask` strands nobody depends on the
task at the loop's position not being the one its thread sits in; that
`OnSignalEnd` strands nobody, on the same for the task every emission on the stack is
answering. `AnsweringInv` says this. It is kept when a thread enters a wait
because the new task is not in the list, and what is being answered is
(`EmissionInv` and the type of `pos`). It is kept by `OnSignal` and
`FrameResume` because the thread they resume no longer waits. `WaitInv` gives a
waiting thread its task, unanswered and connected; `ListInv` and
`SlotsInv` have each task and each connection once, so that erasing one element
erases one task; `StackInv` has a thread on the stack at most once and running,
so that popping it leaves no other activation of it; `LoopInv` ties the loop to the
stack. `any_lua` checks the conjunction as an invariant on the instance. Each action
that disturbs several conjuncts has a lemma (`CallKeeps`, `RaisedKeeps`, `EmitKeeps`,
`OnSignalKeeps`, `OnSignalEndKeeps`, `FrameResumeKeeps`, `RemoveKeeps`, ...), and
`NextWakeup` puts them together. `SequenceLemmas` has the facts about `Cons`,
`RemoveAt`, `Front` and `ToSet` that the lists need.

`TimeTheorem` proves `TimeAccounted` place by place of the list (`TimeInv`), from `TypeOK`
and `LoopInv`: a task the loop has passed has been charged for this frame, one ahead of it has
not. A new task goes to the front of the list, behind the loop, with nothing charged
(`task_scheduler.cpp:103`), and a task that is taken out leaves each other task on the side of
the loop where it was: `frame` advances before it erases, and nothing else takes one out.

For the same sets, but Lua code that neither emits a signal in its own emission, nor
resumes waiting threads by hand, nor waits where it cannot be suspended (`~ReentrantEmit`,
`~CoroutineResume`, `~WaitInC`, as hypotheses of the theorems; `reentrant_emit` shows that the
first is needed), in `TaskSchedulerWaits_proof`:

- `Discipline`: `Spec => []DisciplineInv`;
- `AnswersTheorem`: `Spec => []AnswersOwnWait`;
- `PromiseTheorem`: `Spec => KeepsPromise`, the refinement of `Waits`.

`DisciplineInv` adds to `WakeupInv`: the thread that runs above an emission or the loop is
the owner of the task being answered (`OwnInv`); no signal is emitted twice over, and what an
emission has still to call are waiters of its signal that have no answer yet, each once
(`EmissionsInv`); a connected waiter has no answer yet (`ConnectedInv`); a task in the list
is the one its thread sits in, or has been answered (`OpenInv`); a thread that has not
started or has ended has no answer (`IdleInv`). An emission is the danger, as it calls slots
from a copy: between the copy and the call a thread may be answered, wait anew and be given
the same task. Without emissions within their own, what comes in between cannot reach the
slots still to be called. Each step is then a step of `Waits` or none; `OnSignal` and
`FrameResume` answer one thread, an emission that begins has its signal heard by all that
wait for it.

In `GcTuner_proof`: `TypeCorrect`, `StepBoundedTheorem` and `MinKeptTheorem`, for any VMs,
heap sizes, frame lengths and integer width, from `StepAssumption` (the constants of
`task_scheduler.cpp` are far below 2^32). The invariant is the bound itself with the
types of sizes and rates; that a rate fits `int32_t` holds for each of the outcomes that
the undefined conversion may have.

In `EngineCalls_proof`, for any OS threads, VMs, natives and programs, with no bound on
the depth:

- `MutualExclusionHolds`: `Spec => []MutualExclusion`;
- `CallStackTrueHolds`: `Spec => []CallStackTrue`;
- `CallStackKeptHolds`: `Spec => CallStackKept`;
- `NoCircularWaitHolds`: `Spec => []NoCircularWait`, if each program either has one OS thread
  alone enter Lua code (`OneEnters`) or crosses VMs down one ranking of them and from no
  native that holds the call stack while another of the VM calls across (`CrossesDown`).

The assumptions are that natives are called as programs declare, that `print` sets no
call stack, and that `None` is no OS thread. The invariant relates locks and frames:
a lock's owner and depth agree with the frames at which it was taken (`Agrees`,
`Holders`: the frames of Lua code that has its VM, `Trackers`: the natives that have the
call stack), a frame that runs is within one that holds its VM (`NestedIn`), and what the
call stack describes is the innermost tracker of its owner (`Described`). Mutual exclusion
then holds because two OS threads within a VM would both own its lock. The lemmas follow
the shape of the module: what pushing, popping and stepping a frame does to the
sets of holders (`PushFacts`, `PopFacts`, `StepFacts`), what taking and leaving does to a
lock (`LockTaken`, `LockLeft`), and one lemma for each action.

That nobody waits in a circle needs the order of frames, `ShapeInv`: each lies on one that
may be below it, Lua code on the native that called back, a native on Lua code of its VM.
From it, `DescendsIn`: along the frames of an OS thread VMs go down in rank, and never
change above a native that holds the call stack. In a set of OS threads that wait for each
other, the one that waits for the VM of least rank waits for an owner that has gone
further down, and can only wait for the call stack, whose owner has left no VM since and
is not waiting (`WaitsDown`, `NoCircle`). That two OS threads can stop each other
otherwise is true of the code; TLC evaluates the hypothesis for the run's programs
(`OrderAssumption`).

In the same module, for any OS threads, VMs, programs and depth, whatever the natives
declare and whatever they are given:

- `ArgumentsSeenHolds`: `Spec => []ArgumentsSeen`;
- `TypeCorrect`: `Spec => []TypeOK`.

Assumed is what the code has of its tables: arguments, defaults and constructors are lists,
there are no more defaults than arguments, the default of an object is null
(`NativeAssumption`); what is called exists, with a list of values of any length, none
included (`ProgramAssumption`); lists and the first capacity are shorter than 2^64-1
(`CapacityAssumption`, `SizeAssumption`). Calls without self are within the theorems: the
stack that they leave has a size, a capacity and arrays that go together (`IsStack`), namely
none, and what is then written to it is a `Crash`. The first half is about the operators of
`ArgumentStack`: a call of `get_arguments` or `builtin_ctor` leaves a stack that is one
(`IsStack`), has written no position beyond those it counts (`Fills`), and unless it raised
an error, has at the end of each pointer what the call ought to pass (`ReadsArguments`,
`Constructs`, `PrintsOne`). The second half is the invariant `PassedInv`. `ArgumentsSeen`
alone is not inductive, as it is silent about calls that have yet to enter the engine, and
about `print`, which writes while `__tostring` runs. `Sound` says it of every native, with
what `print` has written so far; `CoverIn`, that what a `print` has yet to write is already
counted as lost by every native below it in the same VM, since it was when `print` resized
the stack; `CalledIn`, that `__tostring` runs for an argument that exists. A stack changes
only under an OS thread that holds its VM, so that by mutual exclusion no native of another
can see it (`StackStep`).

In `ScriptInstance_proof`, for any scripts that are read without errors, of any number of
classes, and any names, values, arguments and functions that end in any way:

- `InvHolds`: `Spec => []Inv`, the inductive invariant;
- `TypeOKHolds`: `Spec => []TypeOK`;
- `KeptAsSetHolds`: `Spec => []KeptAsSet`;
- `AcceptedIsReadableHolds`: `Spec => []AcceptedIsReadable`;
- `CallArgumentsHolds`: `Spec => []CallArguments`;
- `DefaultsAgreeHolds`: `Spec => []DefaultsAgree`, one of the two halves of `ReportsAgree`.

What reading folds together from a text cannot be reasoned about (see below), so what the
theorems need of it is an assumption, `ScriptsAreRead`, which TLC evaluates for the
scripts of the run: there are no errors, the methods of a class are functions in its table,
their arguments and defaults are lists, and the default of a plain property is of its type
or too large for a number of Lua (`ann_default_value` refuses any other,
`annotation_class_type.cpp:115`). `ArgumentsAreLists` says it of what is passed. The invariant
needs, of a value accepted, when it was: `KeptInv` has it later than the defaults of the
stage, so that the constructor can only replace it at a base that declares the property too,
and `KeptAsSet` waits for those. `DefaultsKept` is the other half, of properties that
accepted nothing. A step leaves the table, stores an accepted value (`Stored`), writes a
name that is no property's (`Scribbled`), or is one of construction (`StepEffect`), and each
of these has a lemma. `set` stores only at the class that `get` will look at, because the
walk that settles a property ends at the most derived class that declares it
(`SettlingFacts`); what it compares is enough for `get` (`CompatibleReads`). Of calls,
`CallsInv` holds after each by itself: the class that answers to a name has the function it
registered (`AnsweringFacts`), and the defaults are as many as are missing
(`WithDefaultsFacts`), also where Lua's arguments were read for the method of one class and
another class answers (`CrossCallAnswered`).

In `Debugger_proof`, for any OS threads, VMs, programs (so outside the discipline of the
run, too) and limits:

- `ArmedAgreeHolds`: `Spec => []ArmedAgree`;
- `TimeoutsFairHolds`: `Spec => []TimeoutsFair`.

The assumptions are that the time limit is a positive number and that `None` is not the
name of that error. The first follows from the domain of `armed`. For the second the
invariant `ClockInv` says of each Lua thread (`ClockedAt`) that a deadline which counts,
that is, one not before `interrupt_reset`, lies its whole time after `since`, and that a
thread with an error is dead or being shown, so that no deadline is renewed after it was
passed. A break keeps it because deadlines set before it are void until now plus the time
limit (`DebugEndsKeeps`).

In `DebuggerDiscipline_proof`, for any OS threads, VMs, addresses of threads and limits,
and any programs that are `Disciplined`, of any length and depth:

- `DebugInvHolds`: `Spec => []DebugInv`, the inductive invariant;
- `TypeOKHolds`: `Spec => []TypeOK`;
- `BreaksOnceHolds`: `Spec => []BreaksOnce`;
- `ShownTrueHolds`: `Spec => []ShownTrue`;
- `StepsRightHolds`: `Spec => []StepsRight`.

Assumed of the constants is only that programs are well formed (`ProgramAssumption`:
functions that are called exist, and a function ends with a return, a loop or an error),
that `None` is none of the values it is told from, and that the limits are positive numbers.
None of the four is inductive: each speaks of the thread on top and of the moment a thread
is stopped, whereas what makes it true is what the debugger has kept since, below other
threads. `DebugInv` says this, in three parts, each kept by a lemma of its own:

- `ShapeInv` (`ShapeKept`), of any program whose metamethods are `MetaCode`: each function
  of a stack but the innermost is at a call, each thread but the top waits or is being
  collected, and no two threads have one address, which a new one does not take from
  `debug.L` either;
- `StopInv` (`StopKept`): threads of the other OS threads, and those above a thread whose
  stack is collected, are `Silent`, so they change neither what is shown nor the bits of the
  VMs. Of the others, `debug` has the levels collected so far (`ShownRun`); a VM's bit is
  set only while one of its threads was stopped by a breakpoint that it has not met again
  (`HookInv`), and that thread is at that line still (`HookRun`). That the bit is 1 for one
  thread at a time makes the second hit that of the thread resumed;
- `StepInv` (`StepKept`): while a step is under way (`AskedRun`), its thread is alone in
  `singlestep`, `lines_left` is 1, the place shown is where the step was asked, and the
  thread is there or, unless its next hook is to come, in a call that is stepped over; at
  its end (`EndingRun`) it is elsewhere. The case `LeftRun`, a step whose function has
  returned, stops at once and goes on. `base` tells the two apart: collection finds it on
  the stack if the step is to be shown.

TLC checked the parts of `DebugInv` as invariants of the run's programs first, each with the
witnesses that `Discipline` has for its program. That found two mistakes in the history, of
no effect on the programs the run had then: `stops` counted an error shown, and `asked`
survived a coroutine that ended with an error within a step. Both are mended in `Debugger`,
and the programs `Failing` and `Tangled` of the run have such steps.

Only model-checked:

- liveness (`FrameEnds`, `WaitEnds`, `Settles`): the prover has no rules for
  fairness and `ENABLED`;
- `AsWritten`, and the lists of `ReportsAgree` (`ListsAgree`): classes are what folds over
  texts make of them and lists are folds over classes, and facts about the result of a fold
  need induction over data;
- `ScriptLoading` and `ScriptReload`: their functions recurse as the code does, by
  `RECURSIVE` operators, which the prover does not reason about;
- `FromLuauRefers`, `AnswersOwnWait` without the discipline: they are false.

## 5. What is not modelled

`PROJECT.json` lists each part with the reason, and the hazards with the lines at
which they bite. In short:

- Services are binding tables fixed at start. `DebugService::exec`
  (`debug_service.cpp:72-105`) keeps one thread for all calls, so that an error or a
  yield of one decides what the next finds; it is a hazard without a property yet.
- The life of the language is a fixed order of constructors and destructors.
- Files and resources are input and output; the loader is in `ScriptLoading`.
- Of the debugger: `remove_breakpoint`, which nothing calls, the hook for protected errors
  and `luascript_pcall`, a script loaded again in a VM, locals and members, the
  accessors of what is shown. Of engine calls: the tables of names, iteration, and what is
  returned. Of values: the types that behave as one that is modelled. Of VMs: their
  creation, sandboxes and base libraries.
- bindgen, type definitions, docs, tests and build scripts are not part of the running
  program.

## 6. Plan

Done, in this order: `TaskScheduler` and `Waits`, `GcTuner`, `ScriptLoading`,
`ScriptReload`, `ClassReader` and `ScriptInstance`, `ArgumentStack` and `EngineCalls`,
`Debugger`, with the proofs about the scheduler and its refinement of `Waits`, the tuning, the
calls, their arguments and locks, the debugger, and instances.

Next modules: `Lifecycle`, the construction and destruction of interface, runtime,
cache, scripts and instances, with the thread of `DebugService::exec`; in
`Debugger`, protected errors and a second load.

Theorems that are worth the next effort: that nothing is in use that is older than the
texts (`Fresh`), for `ScriptLoading` written with its recursion as actions that push and pop
loads, in place of `RECURSIVE` operators.
