------------------------- MODULE MCScriptInstance -------------------------
(***************************************************************************)
(* ScriptInstance on scripts of one to three classes, each read from its   *)
(* text.                                                                   *)
(***************************************************************************)
EXTENDS ScriptInstance

One == [type |-> "int", id |-> 1]
Half == [type |-> "float", id |-> 1]
Huge == [type |-> "int", id |-> 2]
Str == [type |-> "string", id |-> 3]
Numeric == [type |-> "string", id |-> 1]
Obj == [type |-> "object", id |-> 1]

MCValues == {Nil, One, Half, Huge, Str, Numeric, Obj}
MCReturned == {Nil, One, Str}
MCBig == {Huge, [Huge EXCEPT !.type = "float"]}
MCArguments == {<<>>, <<One>>, <<Str>>, <<Numeric>>, <<One, Obj>>, <<One, One, One>>}
MCVariantTypes == [integer |-> "int", number |-> "float", string |-> "string"]
MCRequired ==
    [Base |-> [is_module |-> FALSE, class_type |-> "Base", base_type |-> "Node", global_name |-> None],
     Lib  |-> [is_module |-> TRUE, class_type |-> None, base_type |-> None, global_name |-> None]]
MCScratch == {<<"other", One>>, <<"M", One>>}
MCCustomLists == {<<>>, <<"custom">>}
MCNumbers == ("1" :> 1)
MCPascal == [m |-> "M"]

\* Parts of a text.
Doc(name, arg) == [kind |-> "single_line_excl", dashes |-> 3, annotation |-> [name |-> name, arg |-> arg]]
Prose == [kind |-> "single_line_excl", dashes |-> 3, annotation |-> None]
Comment == [kind |-> "single_line_excl", dashes |-> 2, annotation |-> None]
Type(name) == [kind |-> "ref", name |-> name, prefix |-> None, params |-> <<>>]
Optional(type) == [kind |-> "optional", of |-> type]
Of(name, params) == [kind |-> "ref", name |-> name, prefix |-> None, params |-> params]
Field(name, type, above) == [name |-> name, type |-> type, above |-> above]
Property(name, type, more) == Field(name, type, <<Doc("property", None)>> \o more)

ClassLocal(more) == [kind |-> "local", name |-> "Class",
                     above |-> <<Doc("class", "Class")>> \o more]
ClassType(tables) == [kind |-> "type", name |-> "Class", tables |-> tables]
Arg(name, type) == [name |-> name, type |-> type]
Method(name, args, returns, more) ==
    [kind |-> "function", name |-> name, above |-> <<Doc("registerMethod", None)>> \o more,
     sig |-> [self |-> TRUE, args |-> args, returns |-> returns, has_return |-> returns # None,
              vararg |-> FALSE]]
Constant(name) == [kind |-> "assign", name |-> name, above |-> <<Doc("registerConstant", None)>>]

Class(text, functions, moves) == [text |-> text, functions |-> functions, moves |-> moves]

\* x with a default, y with a getter, a method with a default argument, and the
\* functions that answer for properties that no class declares.
Derived == Class(
    <<ClassLocal(<<Doc("extends", "Base")>>),
      ClassType(<<<<Property("x", Type("integer"), <<Doc("default", One), Doc("range", "r")>>),
                    Property("y", Type("number"), <<Doc("get", "GetY")>>),
                    Field("s", Type("Signal"), <<Doc("signal", None)>>)>>>>),
      Method("M", <<Arg("a", Type("integer")), Arg("b", Optional(Type("Node")))>>, Type("integer"),
             <<Doc("defaultArgs", <<One, Nil>>), Doc("rpc", <<"anyPeer">>)>>)>>,
    {"_Init", "GetY", "_Set", "_Notification", "M"}, FALSE)

\* x again with another type, z with a setter that is missing.
BaseClass == Class(
    <<ClassLocal(<<Doc("extends", "Node")>>),
      Constant("K"),
      ClassType(<<<<Property("x", Type("string"), <<>>),
                    Property("z", Type("number"), <<Doc("set", "SetZ")>>)>>,
                  <<Property("v", Type("number"), <<Doc("default", Half)>>)>>>>),
      Method("m", <<Arg("a", None)>>, None, <<Doc("rpc", <<"authority", "1">>)>>)>>,
    {"_Init", "_Set", "_Get", "_Notification", "_ToString", "m", "K"}, FALSE)

\* Groups, comments that end the run of annotations, types of every kind.
Grouped(moves) == Class(
    <<ClassLocal(<<Doc("extends", "Node"), Doc("tool", None), Doc("permissions", <<"OS", "FILE">>)>>),
      ClassType(<<<<Field("x", Type("integer"), <<Doc("propertyGroup", "g"), Doc("property", None),
                                                  Doc("default", One), Prose>>),
                    Field("y", Optional(Type("Node")), <<Doc("property", None), Doc("propertySubgroup", None),
                                                         Doc("get", "GetY")>>)>>,
                  <<Property("z", Of("TypedArray", <<Type("string")>>), <<>>),
                    Field("v", Type("string"), <<Doc("property", None), Comment, Doc("property", None),
                                                 Doc("set", "SetZ"), Doc("set", "SetV"),
                                                 Doc("get", "GetY"), Doc("file", "f")>>)>>>>)>>,
    {"GetY", "SetV", "_Init", "_GetPropertyList", "_PropertyCanRevert"}, moves)

\* A script whose bases answer for what it does not have.
Empty == Class(<<ClassLocal(<<Doc("extends", "Base")>>)>>, {"_PropertyGetRevert", "_Get"}, FALSE)
Override == Class(<<ClassLocal(<<Doc("extends", "Base")>>),
                    ClassType(<<<<Property("v", Type("number"), <<>>),
                                  Property("z", Optional(Type("integer")), <<>>)>>>>)>>,
                  {"M", "SetZ"}, FALSE)

MCScripts == {<<Derived, BaseClass>>, <<Grouped(FALSE)>>, <<Grouped(TRUE)>>,
             <<Override, Empty, BaseClass>>}

=============================================================================
