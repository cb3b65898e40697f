---------------------------- MODULE MCEngineCalls ----------------------------
(* EngineCalls for TLC: programs of one OS thread in one VM, for the natives   *)
(* of each kind; two OS threads whose calls cross VMs in one direction; one OS *)
(* thread whose calls cross in both.                                          *)
EXTENDS EngineCalls, TLC

Arg(t) == [type |-> t, class |-> "", default |-> None]
Opt(t, x) == [type |-> t, class |-> "", default |-> x]

Number == Lua("number", "1")
Texts == Lua("string", "a")
List == Lua("Array", "a")
Name == Lua("StringName", "a")
Frame == Lua("Transform3D", "a")
Node == Lua("Object", "node")
FreedNode == Lua("Object", Freed)
Table == Lua("table", "a")

Function(kind, arguments) ==
  [kind |-> kind, static |-> TRUE, vararg |-> FALSE, allowed |-> TRUE, self |-> None,
   arguments |-> arguments, defaults |-> << >>, constructors |-> << >>,
   call_stack |-> kind \in {"class", "builtin", "utility"}]
Of(f, self) == [f EXCEPT !.static = FALSE, !.self = self]
Vararg(f) == [f EXCEPT !.vararg = TRUE]

NodeArg == [type |-> "Object", class |-> "node", default |-> None]

Functions ==
  [add_child |-> Of(Function("class", <<NodeArg, Opt("int", Value("int", Lua("number", "0"))),
                                        Opt("Object", NullObject)>>), NodeArg),
   emit |-> Of(Vararg(Function("class", <<Arg("StringName")>>)), NodeArg),
   create |-> Function("class", <<Arg("Variant")>>),
   locked |-> [Function("class", <<Arg("Variant")>>) EXCEPT !.allowed = FALSE],
   append |-> Of(Function("builtin", <<Arg("String")>>), Arg("Array")),
   callv |-> Of(Function("builtin", <<Arg("Array")>>), Arg("Array")),
   lerp |-> Function("utility", <<Arg("Transform3D"), Arg("int")>>),
   new |-> [Function("ctor", << >>) EXCEPT
              !.constructors = << << >>, <<Arg("int"), Arg("int")>>, <<Arg("String"), Arg("Array")>>,
                                  <<Arg("String"), Arg("String")>> >>],
   cross |-> [Of(Vararg(Function("method", <<Arg("int"), Arg("String"), Arg("Variant")>>)), None) EXCEPT
                !.defaults = <<Boxed("String", Lua("string", "b")), Boxed("int", Number)>>],
   print |-> Function("print", << >>),
   get |-> Of([Function("local", << >>) EXCEPT !.call_stack = TRUE], Arg("Array")),
   set |-> Of(Function("local", << >>), NodeArg)]

\* Calls of f with each of the lists in S, on whose behalf the engine may call
\* into the VMs in back.
Calls(f, S, back) == [f : {f}, given : S, back : {back}]

\* Methods of objects: defaults, varargs, errors, and lists that are longer than
\* the stack.
Methods(v) ==
  UNION {
    Calls("add_child", {<<Node, FreedNode, Number>>, <<Node, Node, Texts>>, <<List, Node>>}, {v}),
    Calls("emit", {<<Node, Name>>, <<Node, Texts, List, Number>>}, {v}), Calls("locked", {<<List>>}, {})}

\* Methods of scripts: the instance's defaults, more arguments than it takes, and
\* none, not even self.
Scripts(v) ==
  UNION {
    Calls("cross", {<<Node, Number>>, <<Node>>, <<Node, Number, Texts, Node, Node>>, << >>}, {v}),
    Calls("add_child", {<<Node, Node>>, << >>}, {v})}

\* Functions of values, whose arguments are kept in each of the ways.
Builtins(v) ==
  UNION {
    Calls("create", {<<Frame>>, <<Table>>, <<Number, Number>>}, {v}),
    Calls("append", {<<List, Number>>, <<Number, Texts>>, << >>}, {}),
    Calls("callv", {<<List, List>>}, {v}),
    Calls("lerp", {<<Frame, Number>>, <<Number, Number>>}, {}),
    Calls("new", {<< >>, <<Number, Texts>>, <<Texts, List>>, <<Table, Number>>}, {}),
    Calls("get", {<<List>>}, {}), Calls("set", {<<Node>>, <<Number>>}, {v})}

Prints(v) ==
  UNION {
    Calls("print", {<<Number, Table, Texts>>, <<Table, Texts>>, << >>}, {}),
    Calls("create", {<<Frame>>}, {v}), Calls("new", {<<Texts, List>>}, {}), Calls("append", {<< >>}, {})}

Cross(to) == Calls("cross", {<<Node, Number>>}, {to})
Create(back) == Calls("create", {<<Frame>>}, back)

CONSTANTS a, b, core, user

Alone(calls) == [enters |-> (a :> {core} @@ b :> {}), calls |-> (core :> calls @@ user :> {})]
OneWay == [enters |-> (a :> {core, user} @@ b :> {core, user}),
           calls |-> (core :> (Create({}) \cup Cross(user)) @@ user :> Create({user}))]
BothWays == [enters |-> (a :> {core} @@ b :> {}),
             calls |-> (core :> (Calls("create", {<<List>>}, {user}) \cup Cross(user))
                        @@ user :> (Calls("callv", {<<List, List>>}, {core}) \cup Cross(core)))]

MCPrograms ==
  [methods |-> Alone(Methods(core)), scripts |-> Alone(Scripts(core)),
   builtins |-> Alone(Builtins(core)), prints |-> Alone(Prints(core)),
   one_way |-> OneWay, both_ways |-> BothWays]

\* What NoCircularWait asks of them: calls go from core down to user.
Rank == core :> 1 @@ user :> 0
ASSUME OrderAssumption ==
  \A p \in DOMAIN Programs : CrossesDown(Programs[p], Rank) \/ OneEnters(Programs[p])
=============================================================================
