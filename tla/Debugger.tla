------------------------------ MODULE Debugger ------------------------------
(* The debugger of the language: breakpoints, stepping, the break that shows a *)
(* stopped thread to the user, and the time a thread may run. OS threads run   *)
(* Lua threads of one script, each in its VM; the hooks of Luau call           *)
(* LuauLanguage (luau_script_debugger.cpp), and luascript_resume goes on with    *)
(* what was stopped. EngineDebugger is active.                                 *)
EXTENDS Integers, Sequences, FiniteSets, SequencesExt

CONSTANTS OSThreads, VMs, Threads,   \* Threads: of Lua, by their addresses
          Programs,                  \* what runs, by its name
          Timeout,                   \* THREAD_EXECUTION_TIMEOUT
          MaxTime,                   \* bound: the clock
          None

\* A program has functions: lists of instructions [line, op, to]; those with an
\* object as self, and the getter of one of its properties (or None); what each
\* OS thread is made to run, in which VM; the VM that calls of the engine end
\* in; the commands that the user gives; whether time passes.
ASSUME ProgramAssumption ==
  \A p \in DOMAIN Programs :
    LET q == Programs[p] IN
    /\ \A f \in DOMAIN q.code :
         /\ q.code[f] \in Seq([line : Int, op : STRING, to : DOMAIN q.code \cup {None}])
         /\ q.code[f] # << >> /\ Last(q.code[f]).op \in {"return", "loop", "error"}
         /\ \A i \in DOMAIN q.code[f] :
              q.code[f][i].op \in {"call", "meta", "engine", "coroutine"} => q.code[f][i].to \in DOMAIN q.code
    /\ \A o \in OSThreads : \A e \in q.entries[o] :
         e.f \in DOMAIN q.code /\ e.vm \in VMs /\ e.kind = "resume"
    /\ q.engine_vm \in VMs /\ q.with_self \subseteq DOMAIN q.code
    /\ q.commands \subseteq {"continue", "step", "next"}
    /\ q.getter \in DOMAIN q.code \cup {None}

\* None is no error, no function and no step of the user.
ASSUME NoneAssumption ==
  /\ None \notin {"timeout", "error", "break in C"}
  /\ None \notin [thread : Threads, depth : Nat, line : Int, over : BOOLEAN]
  /\ \A p \in DOMAIN Programs : None \notin DOMAIN Programs[p].code
ASSUME TimeAssumption == Timeout \in Nat \ {0} /\ MaxTime \in Nat \ {0}

VARIABLES program,
          runs,          \* of each OS thread: the Lua threads it runs, innermost last
          now,
          breakpoints,   \* of the script: lines
          loaded, armed, \* the VMs that have its function, and the lines of breakpoints there
          singlestep,    \* the threads whose instructions call debugstep
          breakhits,     \* of each VM, modulo 2
          debug,         \* L, error, shown (break_call_stack), depth, base
          debugging, interrupt_reset,
          engine,        \* lines_left and depth of EngineDebugger
          asked          \* history: the step that the user asked for, or None

vars == <<program, runs, now, breakpoints, loaded, armed, singlestep, breakhits, debug,
          debugging, interrupt_reset, engine, asked>>

----------------------------------------------------------------------------
(* What a Lua thread runs. at: what comes next, of "step" and "break" (the     *)
(* hooks before an instruction), "exec", "wait" (for what it called), "walk"   *)
(* (debug_break collects its stack), "debug" (the user looks at it), "dead".   *)
(* broke: it was stopped since luascript_resume. hooked, stops: history of the  *)
(* instruction; since: of the thread's time.                                   *)

Frame(f, meta) == [f |-> f, pc |-> 1, meta |-> meta]
NewRun(t, v, kind, f) ==
  [thread |-> t, vm |-> v, kind |-> kind, frames |-> <<Frame(f, FALSE)>>, at |-> "step", error |-> None,
   deadline |-> IF kind = "coroutine" THEN 0 ELSE now + Timeout,
   step |-> FALSE, level |-> 0, got |-> FALSE, found |-> FALSE, broke |-> FALSE,
   hooked |-> FALSE, stops |-> 0, since |-> now]

Busy(o) == runs[o] # << >>
Top(o) == Last(runs[o])
At(o, x) == Busy(o) /\ Top(o).at = x
WithTop(s, r) == Append(Front(s), r)
SetTop(o, r) == runs' = [runs EXCEPT ![o] = WithTop(@, r)]

Code(f) == Programs[program].code[f]
Here(r) == Last(r.frames)
Instr(fr) == Code(fr.f)[fr.pc]
Line(r) == Instr(Here(r)).line
Depth(r) == Len(r.frames)

InUse == {r.thread : r \in UNION {ToSet(runs[o]) : o \in OSThreads}} \cup {debug.L}
FreeThread == CHOOSE t \in Threads \cup {None} : t \notin InUse \/ t = None
FreeVM(o, v) == \A p \in OSThreads \ {o} : \A r \in ToSet(runs[p]) : r.vm # v

\* The next instruction of the innermost function.
Advanced(r) ==
  [r EXCEPT !.frames[Depth(r)].pc = @ + 1, !.at = "step", !.hooked = FALSE, !.stops = 0]

Raised(r, why) == [r EXCEPT !.at = "dead", !.error = why]

\* Luau breaks no thread within a metamethod or another call of C.
InC(r) == r.error = None /\ \E i \in DOMAIN r.frames : r.frames[i].meta

\* What called a thread that is done goes on. The break of a coroutine, which
\* lua_debuginterrupt runs to its end, is then one of the thread that waited.
Interrupted(r) == IF InC(r) THEN Raised(r, "break in C") ELSE [Advanced(r) EXCEPT !.broke = TRUE]
Woken(r, done) ==
  IF r.at # "wait" THEN r
  ELSE IF done.kind = "coroutine" /\ done.broke THEN Interrupted(r)
  ELSE Advanced(r)

\* The innermost thread is done.
Popped(s) ==
  IF Len(s) = 1 THEN << >> ELSE WithTop(Front(s), Woken(s[Len(s) - 1], Last(s)))

----------------------------------------------------------------------------

NoDebug == [L |-> None, error |-> None, shown |-> << >>, depth |-> -1, base |-> None]

Init ==
  /\ program \in DOMAIN Programs
  /\ runs = [o \in OSThreads |-> << >>]
  /\ now = 1
  /\ breakpoints = {} /\ loaded = {} /\ armed = [v \in VMs |-> {}]
  /\ singlestep = {} /\ breakhits = [v \in VMs |-> 0]
  /\ debug = NoDebug /\ debugging = FALSE /\ interrupt_reset = 0
  /\ engine = [lines_left |-> -1, depth |-> -1]
  /\ asked = None

Tick ==
  /\ Programs[program].timed /\ now < MaxTime
  /\ now' = now + 1
  /\ UNCHANGED <<program, runs, breakpoints, loaded, armed, singlestep, breakhits, debug,
                 debugging, interrupt_reset, engine, asked>>

\* The script is loaded in a VM.
\* Mutant: the breakpoints set before are forgotten.
ref_thread_bare(v) ==
  /\ v \notin loaded /\ loaded' = loaded \cup {v} /\ UNCHANGED armed
  /\ UNCHANGED <<program, runs, now, breakpoints, singlestep, breakhits, debug,
                 debugging, interrupt_reset, engine, asked>>
ref_thread(v) ==
  /\ v \notin loaded /\ loaded' = loaded \cup {v}
  /\ armed' = [armed EXCEPT ![v] = breakpoints]
  /\ UNCHANGED <<program, runs, now, breakpoints, singlestep, breakhits, debug,
                 debugging, interrupt_reset, engine, asked>>

\* luascript_resume or luascript_pcall, from the engine.
Start(o) ==
  /\ ~Busy(o) /\ FreeThread # None
  /\ \E e \in Programs[program].entries[o] :
       /\ e.vm \in loaded /\ FreeVM(o, e.vm)
       /\ runs' = [runs EXCEPT ![o] = <<NewRun(FreeThread, e.vm, e.kind, e.f)>>]
  /\ UNCHANGED <<program, now, breakpoints, loaded, armed, singlestep, breakhits, debug,
                 debugging, interrupt_reset, engine, asked>>

----------------------------------------------------------------------------
(* debug_break.                                                                *)

\* Mutant: the stack shown before is kept.
break_start_kept(d, r) ==
  [(IF d.L = r.thread THEN d ELSE [NoDebug EXCEPT !.shown = d.shown]) EXCEPT
     !.L = r.thread, !.error = IF r.error = None THEN "Breakpoint" ELSE r.error]
break_start(d, r) ==
  [(IF d.L = r.thread THEN d ELSE NoDebug) EXCEPT
     !.L = r.thread, !.error = IF r.error = None THEN "Breakpoint" ELSE r.error, !.shown = << >>]

\* debug_reset: a thread that is no longer the one debugged is not stepped.
\* Mutant: it still is.
debug_reset_not(single, r) == single
debug_reset(single, r) == IF debug.L = r.thread THEN single ELSE single \ {debug.L}

\* debug_break begins, for r on top of o and the threads in single step; if
\* another is being debugged it refuses, which leaves o with what is in passed.
debug_break(o, r, is_step, single, passed) ==
  IF debugging
  THEN runs' = [runs EXCEPT ![o] = passed] /\ singlestep' = single /\ UNCHANGED debug
  ELSE /\ SetTop(o, [r EXCEPT !.at = "walk", !.step = is_step])
       /\ singlestep' = debug_reset(single, r)
       /\ debug' = break_start(debug, r)

\* One level of the stack: the properties of self are read, by Lua code if one
\* has a getter, then the level is shown.
WalkLevel(o) ==
  LET r == Top(o)
      fr == r.frames[Depth(r) - r.level]
      asks == fr.f \in Programs[program].with_self /\ Programs[program].getter # None /\ ~r.got IN
  /\ At(o, "walk") /\ r.level < Depth(r)
  /\ IF asks /\ FreeThread # None
     THEN /\ runs' = [runs EXCEPT ![o] =
                        Append(WithTop(@, [r EXCEPT !.got = TRUE]),
                               NewRun(FreeThread, r.vm, "resume", Programs[program].getter))]
          /\ UNCHANGED debug
     ELSE /\ debug' = [debug EXCEPT !.shown = Append(@, [f |-> fr.f, line |-> Instr(fr).line]),
                                    !.base = IF ~r.step /\ r.level = 0 THEN fr.f ELSE @]
          /\ SetTop(o, [r EXCEPT !.level = @ + 1, !.got = FALSE,
                                 !.found = @ \/ (r.step /\ fr.f = debug.base)])
  /\ UNCHANGED <<program, now, breakpoints, loaded, armed, singlestep, breakhits,
                 debugging, interrupt_reset, engine, asked>>

\* The walk is over: a step that left the function of the breakpoint goes on.
left_base(r) == r.step /\ ~r.found

WalkEnds(o) ==
  LET r == Top(o) IN
  /\ At(o, "walk") /\ r.level = Depth(r)
  /\ debug' = [debug EXCEPT !.depth = Depth(r)]
  /\ debugging' = (debugging \/ ~left_base(r))
  /\ SetTop(o, LET walked == [r EXCEPT !.level = 0, !.found = FALSE] IN
               IF left_base(r) THEN [walked EXCEPT !.at = "break", !.step = FALSE]
               ELSE IF InC(r) THEN Raised(walked, "break in C")
               ELSE [walked EXCEPT !.at = "debug", !.broke = TRUE,
                                   !.stops = IF r.step \/ r.error # None THEN @ ELSE @ + 1])
  /\ UNCHANGED <<program, now, breakpoints, loaded, armed, singlestep, breakhits,
                 interrupt_reset, engine, asked>>

\* The commands of the user, for EngineDebugger.
Commands == [continue |-> [lines_left |-> -1, depth |-> -1],
             step |-> [lines_left |-> 1, depth |-> -1],
             next |-> [lines_left |-> 1, depth |-> 0]]

\* When the deadlines set before the break are to be renewed.
\* Mutant: when they were to end.
reset_now == now
reset_at == now + Timeout

\* The deadline of a thread that is not dead will be renewed: it has all of its
\* time again (history).
Rested(r) == [r EXCEPT !.since = IF r.error = None THEN now ELSE @]

\* script_debug returns; the thread is resumed, or was dead.
DebugEnds(o) ==
  LET r == Top(o) IN
  /\ At(o, "debug")
  /\ \E c \in Programs[program].commands :
       /\ engine' = Commands[c]
       /\ singlestep' = IF c = "continue" THEN singlestep ELSE singlestep \cup {r.thread}
       /\ asked' = IF c = "continue" \/ r.error # None THEN None
                   ELSE [thread |-> r.thread, depth |-> Depth(r), line |-> Line(r), over |-> c = "next"]
  /\ debugging' = FALSE
  /\ interrupt_reset' = reset_at
  /\ LET s == [i \in DOMAIN runs[o] |-> Rested(runs[o][i])] IN
     runs' = [runs EXCEPT ![o] = IF r.error # None THEN Popped(s)
                                 ELSE WithTop(s, [Last(s) EXCEPT !.at = "step", !.step = FALSE])]
  /\ UNCHANGED <<program, now, breakpoints, loaded, armed, breakhits, debug>>

----------------------------------------------------------------------------
(* The hooks before an instruction.                                            *)

\* Mutant: lines are told apart, depths are not.
another_place_line(r) == Line(r) # debug.shown[1].line
another_place(r) == Depth(r) # debug.depth \/ Line(r) # debug.shown[1].line

StepDone(r) == r.thread \notin singlestep \/ debug.L # r.thread \/ engine.lines_left <= 0

lua_debugstep(o) ==
  LET r == Top(o)
      depth == IF engine.depth >= 0 THEN Depth(r) - debug.depth ELSE engine.depth
      lines == IF depth <= 0 /\ another_place(r) THEN engine.lines_left - 1 ELSE engine.lines_left
      on == [r EXCEPT !.at = "break"] IN
  /\ At(o, "step")
  /\ IF StepDone(r)
     THEN SetTop(o, on) /\ UNCHANGED <<engine, singlestep, debug>>
     ELSE /\ engine' = [lines_left |-> lines, depth |-> depth]
          /\ IF lines > 0 THEN SetTop(o, on) /\ UNCHANGED <<singlestep, debug>>
             ELSE debug_break(o, r, TRUE, singlestep \ {r.thread}, WithTop(runs[o], on))
  /\ UNCHANGED <<program, now, breakpoints, loaded, armed, breakhits, debugging, interrupt_reset, asked>>

\* A breakpoint: every second hit is that of the thread resumed.
\* Mutant: each hit breaks.
second_hit_never(hits) == FALSE
second_hit(hits) == hits = 0

lua_debugbreak(o) ==
  LET r == [Top(o) EXCEPT !.hooked = TRUE]
      hits == 1 - breakhits[r.vm]
      on == [r EXCEPT !.at = "exec"] IN
  /\ At(o, "break") /\ Line(r) \in armed[r.vm]
  /\ breakhits' = [breakhits EXCEPT ![r.vm] = hits]
  /\ IF second_hit(hits) THEN SetTop(o, on) /\ UNCHANGED <<singlestep, debug>>
     ELSE debug_break(o, r, FALSE, singlestep, WithTop(runs[o], on))
  /\ UNCHANGED <<program, now, breakpoints, loaded, armed, debugging, interrupt_reset, engine, asked>>

NoBreakpoint(o) ==
  /\ At(o, "break") /\ Line(Top(o)) \notin armed[Top(o).vm]
  /\ SetTop(o, [Top(o) EXCEPT !.at = "exec"])
  /\ UNCHANGED <<program, now, breakpoints, loaded, armed, singlestep, breakhits, debug,
                 debugging, interrupt_reset, engine, asked>>

----------------------------------------------------------------------------
(* Instructions.                                                               *)

\* lua_interrupt, which loops, returns and calls cause, also those of functions
\* of C.
Interrupting == {"loop", "return", "call", "engine", "coroutine", "breakpoint"}
Expired(r) == r.deadline # 0 /\ r.deadline >= interrupt_reset /\ now > r.deadline
Renewed(r) ==
  IF r.deadline # 0 /\ r.deadline < interrupt_reset
  THEN [r EXCEPT !.deadline = now + Timeout, !.since = now] ELSE r

\* The innermost function of r, on top of s, returns.
Returned(s, r) ==
  IF Depth(r) = 1 THEN Popped(s)
  ELSE WithTop(s, Advanced([r EXCEPT !.frames = Front(@)]))

\* Threads are pushed above one that waits.
Calls(o, r, v, kind, f) ==
  /\ FreeThread # None /\ FreeVM(o, v) /\ v \in loaded
  /\ runs' = [runs EXCEPT ![o] = Append(WithTop(@, [r EXCEPT !.at = "wait"]), NewRun(FreeThread, v, kind, f))]

\* breakpoint(): on the next line.
insert_breakpoint(l) ==
  /\ breakpoints' = breakpoints \cup {l}
  /\ armed' = [v \in VMs |-> IF v \in loaded /\ l \notin breakpoints THEN armed[v] \cup {l} ELSE armed[v]]

Does(o, r, i) ==
  \/ i.op = "line" /\ SetTop(o, Advanced(r))
  \/ i.op = "breakpoint" /\ SetTop(o, Advanced(r))
  \/ i.op \in {"call", "meta"} /\ SetTop(o, [r EXCEPT !.frames = Append(@, Frame(i.to, i.op = "meta")),
                                                     !.at = "step", !.hooked = FALSE, !.stops = 0])
  \/ i.op = "loop" /\ SetTop(o, [r EXCEPT !.frames[Depth(r)].pc = 1, !.at = "step", !.hooked = FALSE, !.stops = 0])
  \/ i.op = "engine" /\ Calls(o, r, Programs[program].engine_vm, "resume", i.to)
  \/ i.op = "coroutine" /\ Calls(o, r, r.vm, "coroutine", i.to)
  \/ i.op = "return" /\ runs' = [runs EXCEPT ![o] = Returned(@, r)]
  \/ i.op = "error" /\ SetTop(o, Raised(r, "error"))

\* The thread leaves the function that the step was asked in, or ends.
Kept(o) ==
  IF asked # None /\ asked.thread = Top(o).thread
     /\ \A r \in ToSet(runs'[o]) : r.thread = asked.thread =>
          \A i \in DOMAIN r.frames : r.frames[i].f # debug.base
  THEN None ELSE asked

Exec(o) ==
  LET r == Top(o)
      i == Instr(Here(r)) IN
  /\ At(o, "exec")
  /\ IF i.op \in Interrupting /\ Expired(r) THEN SetTop(o, Raised(r, "timeout"))
     ELSE Does(o, IF i.op \in Interrupting THEN Renewed(r) ELSE r, i)
  /\ IF i.op = "breakpoint" /\ ~Expired(r) THEN insert_breakpoint(i.line + 1) ELSE UNCHANGED <<breakpoints, armed>>
  /\ asked' = Kept(o)
  /\ UNCHANGED <<program, now, loaded, singlestep, breakhits, debug, debugging, interrupt_reset, engine>>

\* luascript_handle_status: an error is shown, but that of a thread that broke,
\* and that of a coroutine, which is a value.
HandleError(o) ==
  LET r == Top(o) IN
  /\ At(o, "dead")
  /\ IF r.kind = "coroutine" \/ r.broke
     THEN runs' = [runs EXCEPT ![o] = Popped(@)] /\ UNCHANGED <<singlestep, debug>>
     ELSE debug_break(o, r, FALSE, singlestep, Popped(runs[o]))
  /\ asked' = Kept(o)
  /\ UNCHANGED <<program, now, breakpoints, loaded, armed, breakhits, debugging,
                 interrupt_reset, engine>>

Step(o) ==
  \/ Start(o) \/ lua_debugstep(o) \/ lua_debugbreak(o) \/ NoBreakpoint(o) \/ Exec(o)
  \/ WalkLevel(o) \/ WalkEnds(o) \/ DebugEnds(o) \/ HandleError(o)

Next == Tick \/ (\E v \in VMs : ref_thread(v)) \/ (\E o \in OSThreads : Step(o))
Spec == Init /\ [][Next]_vars

----------------------------------------------------------------------------
(* Properties. ArmedAgree and TimeoutsFair always hold; the others where one   *)
(* OS thread at a time can be stopped, and no thread is stopped in a           *)
(* metamethod or in a getter that the debugger calls.                          *)

\* Types, and: only the thread last shown is stepped.
TypeOK ==
  /\ program \in DOMAIN Programs /\ now \in 1..MaxTime
  /\ \A o \in OSThreads : \A r \in ToSet(runs[o]) :
       /\ r.thread \in Threads /\ r.vm \in loaded /\ r.kind \in {"resume", "coroutine"}
       /\ r.at \in {"step", "break", "exec", "wait", "walk", "debug", "dead"}
       /\ r.deadline \in 0..(MaxTime + Timeout) /\ r.level \in 0..Depth(r) /\ r.stops \in Nat
  /\ loaded \subseteq VMs /\ \A v \in VMs : breakhits[v] \in {0, 1} /\ armed[v] \subseteq breakpoints
  /\ debug.L \in Threads \cup {None} /\ singlestep \subseteq {debug.L}
  /\ debugging \in BOOLEAN /\ interrupt_reset \in 0..(MaxTime + Timeout)
  /\ engine.lines_left \in {-1, 0, 1}

\* A breakpoint stops its thread each time it is reached, and once: the hit of
\* the thread resumed is told from the next one.
BreaksOnce ==
  \A o \in OSThreads : Busy(o) =>
    /\ Top(o).stops <= 1
    /\ At(o, "exec") /\ Top(o).hooked => Top(o).stops = 1

\* Every VM that runs the script stops at the breakpoints of the script,
\* whether they were set before it was loaded there or after.
ArmedAgree == \A v \in loaded : armed[v] = breakpoints

\* What the user sees is the thread that is stopped, where it is, and why,
\* whatever Lua code ran while it was collected; and only while a thread is
\* stopped another break is refused.
ShownTrue ==
  /\ debugging <=> \E o \in OSThreads : At(o, "debug")
  /\ \A o \in OSThreads : At(o, "debug") =>
    LET r == Top(o) IN
    /\ debug.L = r.thread /\ debug.depth = Depth(r)
    /\ debug.shown = Reverse([i \in DOMAIN r.frames |-> [f |-> r.frames[i].f, line |-> Instr(r.frames[i]).line]])
    /\ debug.error = IF r.error = None THEN "Breakpoint" ELSE r.error

\* A step ends in the thread it was asked for, at another place, and one over
\* calls not within one.
StepEndsElsewhere ==
  \A o \in OSThreads : At(o, "debug") /\ Top(o).step =>
    LET r == Top(o) IN
    /\ asked # None /\ asked.thread = r.thread
    /\ <<Depth(r), Line(r)>> # <<asked.depth, asked.line>>
    /\ asked.over => Depth(r) <= asked.depth

\* Until the function of the breakpoint has returned, the thread runs nothing at
\* another place.
StepEndsNext ==
  \A o \in OSThreads : At(o, "exec") /\ asked # None =>
    LET r == Top(o) IN
    r.thread = asked.thread /\ (asked.over => Depth(r) <= asked.depth)
      => <<Depth(r), Line(r)>> = <<asked.depth, asked.line>>

\* A step ends at the first other place, and nowhere else (lua_debugstep).
StepsRight == StepEndsElsewhere /\ StepEndsNext

\* No thread is ended for its time before it had all of it: the time that the
\* user looked at a thread does not count for those that waited for it.
TimeoutsFair ==
  \A o \in OSThreads : \A r \in ToSet(runs[o]) : r.error = "timeout" => now - r.since > Timeout
=============================================================================
