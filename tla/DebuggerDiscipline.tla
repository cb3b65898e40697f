------------------------- MODULE DebuggerDiscipline -------------------------
(* The programs that the debugger of the language serves as the user expects,  *)
(* and the inductive invariant of Debugger for them. The debugger has one      *)
(* thread that it debugs, one stack that it shows and one bit per VM for the   *)
(* hits of breakpoints: they are right while one OS thread at a time stops,    *)
(* and nothing stops in what runs while a stack is collected, or in a call of C. *)
EXTENDS Debugger

Kinds == {"resume", "coroutine"}

\* A breakpoint may be set at the line, and none is in the function.
BreakLine(q, l) ==
  \E f \in DOMAIN q.code : \E i \in DOMAIN q.code[f] :
    q.code[f][i].op = "breakpoint" /\ l = q.code[f][i].line + 1
Unbroken(q, f) == \A i \in DOMAIN q.code[f] : ~BreakLine(q, q.code[f][i].line)

\* Threads of each kind that run these functions are never stopped: they meet no
\* breakpoint, and raise no error that the engine is told of.
SilentCode(q, silent) ==
  \A k \in Kinds : \A f \in silent[k] :
    /\ Unbroken(q, f)
    /\ \A i \in DOMAIN q.code[f] :
         LET op == q.code[f][i].op
             to == q.code[f][i].to IN
         /\ op \in {"call", "meta"} => to \in silent[k]
         /\ op = "engine" => to \in silent["resume"]
         /\ op = "coroutine" => to \in silent["coroutine"]
         /\ k = "resume" => op # "error" /\ (q.timed => op \notin Interrupting)

\* What metamethods run has no breakpoint, and the user takes no steps.
MetaCode(q, meta) ==
  /\ \A f \in DOMAIN q.code : \A i \in DOMAIN q.code[f] :
       q.code[f][i].op = "meta" => q.code[f][i].to \in meta /\ q.commands \subseteq {"continue"}
  /\ \A f \in meta :
       /\ Unbroken(q, f)
       /\ \A i \in DOMAIN q.code[f] : q.code[f][i].op = "call" => q.code[f][i].to \in meta

\* One OS thread may be stopped. The others, and the getter that the debugger
\* calls, run what is never stopped.
Discipline(q, first, silent, meta) ==
  /\ SilentCode(q, silent) /\ MetaCode(q, meta)
  /\ \A o \in OSThreads \ {first} : \A e \in q.entries[o] : e.f \in silent[e.kind]
  /\ q.getter # None => q.getter \in silent["resume"]

Disciplined(q) ==
  \E first \in OSThreads, silent \in [Kinds -> SUBSET DOMAIN q.code], meta \in SUBSET DOMAIN q.code :
    Discipline(q, first, silent, meta)

----------------------------------------------------------------------------
(* The shape of the state, whatever the programs are.                          *)

Ins(q, fr) == q.code[fr.f][fr.pc]
FrameType(q) == [f : DOMAIN q.code, pc : Nat, meta : BOOLEAN]
RunType(q) ==
  [thread : Threads, vm : VMs, kind : Kinds, frames : Seq(FrameType(q)),
   at : {"step", "break", "exec", "wait", "walk", "debug", "dead"},
   error : {None, "timeout", "error", "break in C"},
   deadline : Nat, step : BOOLEAN, level : Nat, got : BOOLEAN, found : BOOLEAN, broke : BOOLEAN,
   hooked : BOOLEAN, stops : Nat, since : Nat]

\* Each function but the innermost is at a call; what a metamethod runs is known.
FramesOK(q, meta, frames) ==
  /\ frames # << >>
  /\ \A i \in 1..Len(frames) : frames[i].pc \in 1..Len(q.code[frames[i].f])
  /\ \A i \in 1..(Len(frames) - 1) : Ins(q, frames[i]).op \in {"call", "meta"}
  /\ \A i, j \in 1..Len(frames) : i <= j /\ frames[i].meta => frames[j].f \in meta
  /\ \A i \in 1..Len(frames) : frames[i].meta => q.commands \subseteq {"continue"}

\* A thread at time t, when the VMs of ld have the script.
RunOK(q, meta, r, t, ld) ==
  /\ r \in RunType(q) /\ r.vm \in ld /\ FramesOK(q, meta, r.frames)
  /\ r.deadline <= t + Timeout /\ (~q.timed => r.deadline = 0 \/ r.deadline > t)
  /\ r.level <= Len(r.frames) /\ (r.at # "walk" => r.level = 0 /\ ~r.found)
  /\ r.at = "wait" => Ins(q, Last(r.frames)).op \in {"engine", "coroutine"}
  /\ r.error # None => r.at \in {"dead", "walk", "debug"} /\ (r.at = "walk" => ~r.step)
  /\ r.at = "dead" => r.error # None

StackOK(q, meta, s, t, ld) ==
  /\ s \in Seq(RunType(q))
  /\ \A i \in 1..Len(s) : RunOK(q, meta, s[i], t, ld)
  /\ \A i \in 1..(Len(s) - 1) : s[i].at \in {"wait", "walk"}

\* No two threads have one address.
Apart(rs) ==
  \A o, p \in OSThreads : \A i \in 1..Len(rs[o]), j \in 1..Len(rs[p]) :
    rs[o][i].thread = rs[p][j].thread => o = p /\ i = j

ShapeInv(meta) ==
  /\ program \in DOMAIN Programs
  /\ now \in 1..MaxTime /\ (~Programs[program].timed => now = 1)
  /\ DOMAIN runs = OSThreads
  /\ \A o \in OSThreads : StackOK(Programs[program], meta, runs[o], now, loaded)
  /\ Apart(runs)
  /\ loaded \subseteq VMs /\ DOMAIN armed = VMs /\ \A v \in VMs : armed[v] \subseteq breakpoints
  /\ \A l \in breakpoints : BreakLine(Programs[program], l)
  /\ breakhits \in [VMs -> {0, 1}]
  /\ debug.L \in Threads \cup {None} /\ DOMAIN debug = {"L", "error", "shown", "depth", "base"}
  /\ debug.depth \in Int
  /\ debugging \in BOOLEAN /\ interrupt_reset \in 0..(MaxTime + Timeout)
  /\ engine \in [lines_left : {-1, 0, 1}, depth : Int]

----------------------------------------------------------------------------
(* What the debugger shows, and what its bits for hits say.                    *)

\* A thread that is never stopped, while d is debugged.
Silent(silent, r, d) ==
  /\ \A i \in 1..Len(r.frames) : r.frames[i].f \in silent[r.kind]
  /\ r.at \in {"step", "break", "exec", "wait"} \/ (r.at = "dead" /\ r.kind = "coroutine")
  /\ r.thread # d.L /\ ~r.hooked /\ r.stops = 0 /\ ~r.step /\ ~r.broke

\* The first n levels of the stack are shown.
Shows(q, shown, frames, n) ==
  /\ Len(shown) = n
  /\ \A k \in 1..n : shown[k] = [f |-> frames[Len(frames) - k + 1].f,
                                 line |-> Ins(q, frames[Len(frames) - k + 1]).line]

\* Of the OS thread that may be stopped: what the debugger has of a thread that
\* is stopped or will be.
ShownRun(q, r, d) ==
  r.at \in {"walk", "debug"} =>
    /\ d.L = r.thread
    /\ d.error = IF r.error = None THEN "Breakpoint" ELSE r.error
    /\ d.shown \in Seq([f : DOMAIN q.code, line : Int])
    /\ Shows(q, d.shown, r.frames, IF r.at = "walk" THEN r.level ELSE Len(r.frames))
    /\ r.at = "debug" => d.depth = Len(r.frames)
    /\ ~InC(r)

\* A thread stopped by a breakpoint that has not met it again.
Pending(r) == r.hooked /\ r.error = None /\ r.at \in {"walk", "debug", "step", "break"}

HookRun(q, r, arm, hits) ==
  /\ r.stops <= 1 /\ (~r.hooked => r.stops = 0)
  /\ r.hooked /\ r.error = None /\ ~(r.at = "walk" /\ ~r.step) => r.stops = 1
  /\ r.at = "walk" /\ ~r.step /\ r.error = None => r.hooked /\ r.stops = 0
  /\ Pending(r) => Ins(q, Last(r.frames)).line \in arm[r.vm] /\ hits[r.vm] = 1

HookInv(s, hits) ==
  \A v \in VMs : hits[v] = 1 => \E i \in 1..Len(s) : s[i].vm = v /\ Pending(s[i])

StopOf(q, first, silent, rs, d, arm, hits, on, single) ==
  LET s == rs[first] IN
  /\ \A o \in OSThreads \ {first} : \A i \in 1..Len(rs[o]) : Silent(silent, rs[o][i], d)
  /\ \A i, j \in 1..Len(s) : i < j /\ s[i].at = "walk" => Silent(silent, s[j], d)
  /\ \A i \in 1..Len(s) : ShownRun(q, s[i], d) /\ HookRun(q, s[i], arm, hits)
  /\ HookInv(s, hits)
  /\ on <=> \E i \in 1..Len(s) : i = Len(s) /\ s[i].at = "debug"
  /\ single \subseteq {d.L} /\ (single # {} => ~(q.commands \subseteq {"continue"}))

StopInv(first, silent) ==
  StopOf(Programs[program], first, silent, runs, debug, armed, breakhits, debugging, singlestep)

----------------------------------------------------------------------------
(* What the user asked for, and where the thread that it steps is.             *)

\* A function of the stack is that of the breakpoint.
InBase(frames, d) == \E k \in 1..Len(frames) : frames[k].f = d.base

\* The thread r is where the user asked for the step a, or within a call that is
\* stepped over.
PlacedAt(q, r, a) ==
  LET n == Len(r.frames) IN
  /\ n >= a.depth
  /\ (a.over => n <= a.depth) => n = a.depth /\ Ins(q, Last(r.frames)).line = a.line

\* The step a is under way in r.
AskedRun(q, r, d, e, single, a) ==
  a # None /\ r.thread = a.thread /\ d.L = a.thread /\ r.at \notin {"walk", "debug"} =>
    /\ d.depth = a.depth /\ Len(d.shown) >= 1 /\ d.shown[1].line = a.line
    /\ single = {d.L} /\ e.lines_left = 1 /\ (e.depth >= 0 <=> a.over)
    /\ \E k \in 1..Len(r.frames) : k <= a.depth /\ r.frames[k].f = d.base
    /\ r.at # "step" => PlacedAt(q, r, a)

\* The step ends in r, or left the function of the breakpoint.
EndingRun(q, r, d, a) ==
  r.at \in {"walk", "debug"} =>
    /\ r.step /\ a # None =>
         /\ a.thread = r.thread /\ InBase(r.frames, d)
         /\ Len(r.frames) # a.depth \/ Ins(q, Last(r.frames)).line # a.line
         /\ a.over => Len(r.frames) <= a.depth
    /\ r.step /\ a = None => r.at = "walk" /\ ~InBase(r.frames, d)
    /\ r.at = "walk" /\ r.found => r.step /\ InBase(r.frames, d)
    /\ r.at = "walk" /\ r.step /\ ~r.found =>
         \A k \in 1..r.level : r.frames[Len(r.frames) - k + 1].f # d.base
    /\ ~r.step /\ (r.at = "walk" => r.level > 0) => Last(r.frames).f = d.base
    /\ r.at = "debug" /\ r.error = None => InBase(r.frames, d)

\* No step was asked for, or it left the function: the thread stops at once.
LeftRun(r, top, d, e, single, a) ==
  a = None /\ r.thread = d.L /\ single # {} /\ e.lines_left > 0 /\ r.at \notin {"walk", "debug"} =>
    top /\ r.at = "step" /\ ~InBase(r.frames, d) /\ Len(r.frames) < d.depth

AskType == [thread : Threads, depth : Nat, line : Int, over : BOOLEAN]

StepOf(q, s, d, e, single, a) ==
  /\ a \in AskType \cup {None} /\ d.base \in DOMAIN q.code \cup {None}
  /\ a # None =>
       \E i \in 1..Len(s) : s[i].thread = a.thread /\ \A j \in 1..(i - 1) : s[j].at # "walk"
  /\ a # None /\ a.thread # d.L => \E i \in 1..Len(s) : s[i].at \in {"walk", "debug"}
  /\ \A i \in 1..Len(s) :
       /\ AskedRun(q, s[i], d, e, single, a)
       /\ EndingRun(q, s[i], d, a)
       /\ LeftRun(s[i], i = Len(s), d, e, single, a)
       /\ s[i].at = "walk" /\ s[i].step => single = {}

StepInv(first) == StepOf(Programs[program], runs[first], debug, engine, singlestep, asked)

\* For a program of the discipline.
DebugInv ==
  \E first \in OSThreads, silent \in [Kinds -> SUBSET DOMAIN Programs[program].code],
     meta \in SUBSET DOMAIN Programs[program].code :
    /\ Discipline(Programs[program], first, silent, meta)
    /\ ShapeInv(meta) /\ StopInv(first, silent) /\ StepInv(first)
=============================================================================
