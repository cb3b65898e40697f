----------------------------- MODULE MCDebugger -----------------------------
(* Debugger for TLC: small scripts with breakpoints in functions that call     *)
(* each other, the engine and coroutines, and one that runs too long.          *)
EXTENDS DebuggerDiscipline, TLC

CONSTANTS a, b, core, user, t1, t2, t3, t4

I(line, op) == [line |-> line, op |-> op, to |-> None]
To(line, op, f) == [line |-> line, op |-> op, to |-> f]
Entry(f, v) == [f |-> f, vm |-> v, kind |-> "resume"]

Script(code, entries) ==
  [code |-> code, with_self |-> {}, getter |-> None, timed |-> FALSE, engine_vm |-> user,
   commands |-> {"continue", "step", "next"},
   entries |-> (a :> entries @@ b :> {})]
WithGetter(q, functions, g) == [q EXCEPT !.with_self = functions, !.getter = g]

\* A function, called twice and from the engine, that calls one written on the
\* same line.
Nested ==
  Script([main |-> <<I(1, "breakpoint"), To(2, "call", "f"), To(3, "call", "f"), I(4, "return")>>,
          f |-> <<I(11, "breakpoint"), I(12, "line"), I(13, "line"), To(13, "call", "g"), I(14, "return")>>,
          g |-> <<I(13, "line"), I(13, "return")>>],
         {Entry("main", core), Entry("f", core)})

\* Calls of the engine that run the script in another VM, coroutines, and the
\* errors of functions that broke and of one that did not.
Crossing ==
  Script([main |-> <<I(1, "breakpoint"), To(2, "engine", "f"), To(3, "coroutine", "g"), To(4, "engine", "h"), I(5, "return")>>,
          f |-> <<I(11, "breakpoint"), I(12, "line"), I(13, "error")>>,
          g |-> <<I(21, "breakpoint"), I(22, "line"), I(23, "error")>>,
          h |-> <<I(31, "line"), I(32, "error")>>],
         {Entry("main", core), Entry("f", core)})

\* Getters that run while the debugger collects what it shows.
Inspected ==
  WithGetter(
    Script([main |-> <<I(1, "breakpoint"), To(2, "call", "f"), I(3, "line"), I(4, "return")>>,
            f |-> <<I(11, "line"), I(12, "return")>>,
            get |-> <<I(31, "line"), I(32, "return")>>],
           {Entry("main", core)}),
    {"main"}, "get")

\* A metamethod, which is not stepped through; another OS thread, that runs a
\* coroutine, is not stopped.
Quiet ==
  [Script([main |-> <<I(1, "breakpoint"), To(2, "meta", "f"), I(3, "line"), I(4, "return")>>,
           f |-> <<I(11, "line"), I(12, "return")>>,
           long |-> <<To(21, "coroutine", "on"), I(22, "return")>>,
           on |-> <<I(31, "line"), I(32, "error")>>],
          {}) EXCEPT
     !.commands = {"continue"}, !.entries = (a :> {Entry("main", core)} @@ b :> {Entry("long", user)})]

\* Calls, loops and returns ask for the time.
Timed ==
  [Script([main |-> <<I(1, "breakpoint"), I(2, "line"), To(3, "engine", "f"), I(4, "loop")>>,
           f |-> <<I(11, "breakpoint"), I(12, "line"), I(13, "return")>>],
          {Entry("main", core)}) EXCEPT
     !.timed = TRUE, !.commands = {"continue"}, !.engine_vm = core]

\* A function that fails where the user steps through it: in a coroutine, whose error is
\* a value, and when it is called.
Failing ==
  WithGetter(
    Script([main |-> <<I(1, "breakpoint"), To(2, "coroutine", "f"), To(3, "call", "f"), I(4, "return")>>,
            f |-> <<I(3, "line"), I(2, "line"), I(3, "error")>>,
            get |-> <<I(31, "line"), I(32, "return")>>],
           {Entry("main", core), Entry("f", core)}),
    {"f"}, "get")

\* Metamethods, coroutines and errors within each other, and a getter that runs a coroutine.
Tangled ==
  [WithGetter(
     Script([main |-> <<I(1, "breakpoint"), To(2, "meta", "f"), To(3, "coroutine", "g"), I(4, "return")>>,
             f |-> <<I(11, "line"), To(12, "call", "h"), I(12, "error")>>,
             h |-> <<To(3, "coroutine", "g"), I(12, "return")>>,
             g |-> <<I(2, "line"), To(12, "meta", "get"), I(3, "error")>>,
             get |-> <<To(31, "coroutine", "c"), I(32, "return")>>,
             c |-> <<I(31, "line"), I(32, "error")>>],
            {Entry("main", core)}),
     {"f", "g"}, "get") EXCEPT !.commands = {"continue"}]

MCPrograms == [nested |-> Nested, crossing |-> Crossing, inspected |-> Inspected, quiet |-> Quiet,
               timed |-> Timed, failing |-> Failing, tangled |-> Tangled]

\* What the theorems of DebuggerDiscipline_proof ask of them.
ASSUME DisciplineAssumption == \A p \in DOMAIN Programs : Disciplined(Programs[p])
=============================================================================
