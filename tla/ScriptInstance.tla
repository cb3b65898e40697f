-------------------------- MODULE ScriptInstance --------------------------
(***************************************************************************)
(* An instance of a script: how it is constructed along the classes the    *)
(* script derives from, and how a member is found when the engine or Lua   *)
(* asks for it (LuauScriptInstance, and the metamethods that Lua code uses *)
(* on an object).                                                          *)
(*                                                                         *)
(* A function of the script ends with any outcome; what it does to the     *)
(* instance on the way is a step of Lua's own, before or after.  A native  *)
(* operation reads nothing of the instance after a call that it read       *)
(* before it, so that the order makes no difference.                       *)
(***************************************************************************)
EXTENDS ClassReader, FiniteSets

CONSTANTS
    Scripts,    \* scripts with their bases, the most derived class first: texts and
                \* the functions they define
    Names,      \* the names of members that are asked for
    Values,     \* the values that the engine and Lua pass
    Returned,   \* those that functions of scripts return
    Big,        \* those too large for a number of Lua
    Numerals,   \* the ids of strings that read as a number
    Arguments,  \* lists of arguments
    Pascal,     \* the names that have another form in pascal case, with it
    EngineProperties,   \* properties, methods and signals of the engine's class
    EngineMethods,
    EngineSignals,
    Scratch,            \* bound: what Lua assigns to names without a meaning
    CustomLists         \* lists of properties that a script may return

ASSUME NilIsAValue == Nil \in Values \cap Returned

VARIABLES
    classes,    \* the classes of the instance, the most derived one first
    stage,      \* the class whose part is being constructed, 0 when all are
    in_init,    \* its _Init is running
    table,      \* the table of the instance
    kept,       \* history: the last value each property accepted, and the stage then
    last        \* history: the last operation and what came of it

vars == <<classes, stage, in_init, table, kept, last>>

None_op == [op |-> "none", name |-> None, class |-> 0, value |-> Nil, args |-> <<>>,
            result |-> "ok", calls |-> <<>>]

(***************************************************************************)
(* Finding a member.  Every loop of the code goes from the most derived    *)
(* class to the base and ends at the first class that settles the matter.  *)
(***************************************************************************)
First(found) == IF found = {} THEN 0 ELSE CHOOSE i \in found : \A k \in found : i <= k

definition(i) == classes[i].definition

Declaring(name) == {i \in DOMAIN classes : name \in DOMAIN definition(i).property_indices}
property(i, name) == definition(i).properties[definition(i).property_indices[name]]
get_property(name) == First(Declaring(name))
Plain(prop) == prop.getter = None /\ prop.setter = None

\* The classes whose table has a function of that name.
Defining(function) == {i \in DOMAIN classes : function \in classes[i].methods}

\* A function is called on the instance: always that of the most derived class.
call_internal(function, args) ==
    [function |-> function, class |-> First(Defining(function)), args |-> args]

\* The name of the method that class i has registered for a name, if any.
Registered(i, name) ==
    LET pascal == IF name \in DOMAIN Pascal THEN Pascal[name] ELSE name
    IN  CASE name \in DOMAIN definition(i).methods   -> name
          [] name \notin DOMAIN definition(i).methods
             /\ pascal \in DOMAIN definition(i).methods -> pascal
          [] OTHER -> None

has_method(name) == \E i \in DOMAIN classes : Registered(i, name) # None
get_method(name) == First({i \in DOMAIN classes : name \in DOMAIN definition(i).methods})
get_signal(name) == First({i \in DOMAIN classes : name \in DOMAIN definition(i).signals})
get_constant(name) == name \in definition(1).constants

(***************************************************************************)
(* Values.  The engine compares types; a value in the table is one of Lua, *)
(* whose types are fewer.                                                  *)
(***************************************************************************)
Convertible == {{"float", "int"}, {"nil", "object"}, {"string", "node_path"},
                {"string", "string_name"}}
variant_types_compatible(t1, t2) == t1 = t2 \/ {t1, t2} \in Convertible

StringTypes == {"string", "string_name", "node_path"}

\* Lua takes a string that reads as a number for a number, and a number for a string.
LuaNumber(value) == value.type \in {"int", "float"} /\ value \notin Big
Numeral(value) == value.type \in StringTypes /\ value.id \in Numerals

lua_is(value, type) ==
    CASE type = "nil"   -> TRUE
      [] type = "int"   -> LuaNumber(value) \/ Numeral(value) \/ value \in Big
      [] type = "float" -> LuaNumber(value) \/ Numeral(value)
      [] type \in StringTypes -> value.type \in StringTypes \/ LuaNumber(value)
      [] type = "object" -> value.type \in {"nil", "object"}
      [] OTHER -> value.type = type

lua_check(value, type) ==
    IF type = "nil" \/ value.type = "nil" THEN value ELSE [value EXCEPT !.type = type]

Entry(name) == IF name \in DOMAIN table THEN table[name] ELSE Nil

\* A table after entries are written to it.
table_set(t, entries) ==
    [n \in DOMAIN t \cup DOMAIN entries |-> IF n \in DOMAIN entries THEN entries[n] ELSE t[n]]
Only(name, value) == [n \in {name} |-> value]

(***************************************************************************)
(* What a call of a script's function comes to.                            *)
(***************************************************************************)
Statuses == {"ok", "error", "yield"}
Ended(status, value) == [status |-> status, value |-> value]
Truth == [type |-> "bool", id |-> 1]
Falsehood == [type |-> "bool", id |-> 0]
NoVariant == [type |-> "thread", id |-> 0]      \* a value of Lua the engine has no type for

SetEnds == {Ended("ok", Truth), Ended("ok", Falsehood), Ended("ok", Nil),
            Ended("error", Nil), Ended("yield", Nil)}
GetEnds == {Ended("ok", v) : v \in Returned \cup {NoVariant}}
             \cup {Ended("error", Nil), Ended("yield", Nil)}

\* Does the _Set (or the _Get) of a class settle the matter?
SetSettles(end) == end.status = "ok" /\ end.value # Falsehood
GetSettles(end) == end.status = "ok" /\ end.value # Nil

\* The classes whose function is asked about a property before one declares it.
Asked(name, function) ==
    {i \in Defining(function) : get_property(name) = 0 \/ i < get_property(name)}

\* The class that settles the matter, and the calls until then.
Settling(name, settling) == First(Declaring(name) \cup settling)

CallsOnWay(name, function, args, k) ==
    LET passed == {i \in Asked(name, function) : k = 0 \/ i <= k}
    IN  [i \in 1 .. Cardinality(passed) |-> call_internal(function, args)]

(***************************************************************************)
(* set and get.  ends gives the outcome of each class's _Set or _Get, end  *)
(* that of the setter or getter.                                           *)
(***************************************************************************)
\* Mutant: the type of the value is not compared.
SetDeclaredUnchecked(prop, value, end) ==
    CASE prop.setter = None /\ prop.getter # None -> "read_only"
      [] OTHER -> IF prop.setter = None THEN "ok"
                  ELSE IF Defining(prop.setter) = {} THEN "not_found"
                  ELSE IF end.status = "error" THEN "set_failed" ELSE "ok"

\* What a declared property answers to a new value.
SetDeclared(prop, value, end) ==
    CASE ~variant_types_compatible(value.type, prop.property.type) -> "wrong_type"
      [] variant_types_compatible(value.type, prop.property.type)
         /\ prop.setter = None /\ prop.getter # None -> "read_only"
      [] OTHER -> IF prop.setter = None THEN "ok"
                  ELSE IF Defining(prop.setter) = {} THEN "not_found"
                  ELSE IF end.status = "error" THEN "set_failed" ELSE "ok"

SetResult(k, name, value, ends, end) ==
    CASE k = 0 -> "not_found"
      [] k # 0 /\ k \in Declaring(name) -> SetDeclared(property(k, name), value, end)
      [] OTHER -> IF ends[k].value = Truth THEN "ok" ELSE "set_failed"

\* Mutant: the setter is called although no class has it.
SetCallsUnresolved(k, name, value, result) ==
    CallsOnWay(name, "_Set", <<name, value>>, k)
      \o (IF k \in Declaring(name) /\ property(k, name).setter # None
          THEN <<call_internal(property(k, name).setter, <<value>>)>> ELSE <<>>)

SetCalls(k, name, value, result) ==
    CallsOnWay(name, "_Set", <<name, value>>, k)
      \o (IF k \in Declaring(name) /\ property(k, name).setter # None
             /\ result \in {"ok", "set_failed"}
          THEN <<call_internal(property(k, name).setter, <<value>>)>> ELSE <<>>)

Stores(k, name, result) ==
    result = "ok" /\ k \in Declaring(name) /\ property(k, name).setter = None

set_with(op, k, name, value, result) ==
    /\ table' = IF Stores(k, name, result) THEN table_set(table, Only(name, value)) ELSE table
    /\ kept' = IF Stores(k, name, result)
                THEN table_set(kept, Only(name, [value |-> value, at |-> stage])) ELSE kept
    /\ last' = [op |-> op, name |-> name, class |-> k, value |-> value, args |-> <<>>,
                result |-> result, calls |-> SetCalls(k, name, value, result)]

\* An outcome that is not looked at may be any.
Ends(outcomes, observed) == IF observed THEN outcomes ELSE {Ended("ok", Nil)}

set(op, name, value) ==
    \E ends \in [Asked(name, "_Set") -> SetEnds] :
        LET k == Settling(name, {i \in DOMAIN ends : SetSettles(ends[i])})
        IN  \E end \in Ends(SetEnds, k \in Declaring(name)) : set_with(op, k, name, value, SetResult(k, name, value, ends, end))

\* A declared property is read: what the getter returned or the table has must
\* be of its type.
GetDeclared(prop, entry, end) ==
    CASE prop.getter = None /\ prop.setter # None -> "write_only"
      [] prop.getter = None /\ prop.setter = None ->
            IF lua_is(entry, prop.property.type) THEN "ok" ELSE "wrong_type"
      [] OTHER -> IF Defining(prop.getter) = {} THEN "not_found"
                  ELSE IF end.status # "ok" THEN "get_failed"
                  ELSE IF end.value # NoVariant /\ lua_is(end.value, prop.property.type)
                       THEN "ok" ELSE "wrong_type"

GetResult(k, name, ends, end) ==
    CASE k = 0 -> "not_found"
      [] k # 0 /\ k \in Declaring(name) -> GetDeclared(property(k, name), Entry(name), end)
      [] OTHER -> IF ends[k].value = NoVariant THEN "get_failed" ELSE "ok"

\* The value that get returns when it succeeds.
Got(k, name, ends, end) ==
    CASE k \in Declaring(name) ->
            lua_check(IF property(k, name).getter = None THEN Entry(name) ELSE end.value,
                      property(k, name).property.type)
      [] OTHER -> ends[k].value

get_with(op, k, name, result, value) ==
    /\ last' = [op |-> op, name |-> name, class |-> k, value |-> value, args |-> <<>>,
                result |-> result,
                calls |-> CallsOnWay(name, "_Get", <<name>>, k)
                            \o (IF k \in Declaring(name) /\ property(k, name).getter # None
                                   /\ result # "not_found"
                                THEN <<call_internal(property(k, name).getter, <<>>)>> ELSE <<>>)]
    /\ UNCHANGED <<table, kept>>

get(op, name) ==
    \E ends \in [Asked(name, "_Get") -> GetEnds] :
        LET k == Settling(name, {i \in DOMAIN ends : GetSettles(ends[i])})
        IN  \E end \in Ends(GetEnds, k \in Declaring(name) /\ property(k, name).getter # None) :
                LET result == GetResult(k, name, ends, end)
                IN  get_with(op, k, name, result,
                             IF result = "ok" THEN Got(k, name, ends, end) ELSE Nil)

\* Operations come from the engine, or from Lua in or after an _Init; each
\* returns before the next one.
Running ==
    /\ in_init \/ stage = 0
    /\ last = None_op
    /\ UNCHANGED <<classes, stage, in_init>>

Return ==
    /\ last # None_op
    /\ last' = None_op
    /\ UNCHANGED <<classes, stage, in_init, table, kept>>

EngineSet == Running /\ \E name \in Names, value \in Values : set("set", name, value)
EngineGet == Running /\ \E name \in Names : get("get", name)

(***************************************************************************)
(* call.                                                                   *)
(***************************************************************************)
TakesAnything(arg) == "nil_is_variant" \in arg.usage

\* What is wrong with the arguments, "ok" when nothing is.
CallRefusal(k, method, args) ==
    CASE k = 0 -> "invalid_method"
      [] k # 0 /\ Len(args) + Len(method.default_arguments) < Len(method.arguments) -> "too_few"
      [] k # 0 /\ Len(args) > Len(method.arguments) -> "too_many"
      [] OTHER -> IF \E i \in DOMAIN args :
                        ~TakesAnything(method.arguments[i])
                        /\ ~variant_types_compatible(args[i].type, method.arguments[i].type)
                  THEN "invalid_argument" ELSE "ok"

\* Mutant: the first defaults are taken.
FirstDefaults(method, args) ==
    args \o SubSeq(method.default_arguments, 1, Len(method.arguments) - Len(args))

\* The defaults stand for the arguments at the end that were not given.
WithDefaults(method, args) ==
    args \o SubSeq(method.default_arguments,
                   Len(args) + Len(method.default_arguments) - Len(method.arguments) + 1,
                   Len(method.default_arguments))

CallEnds == {Ended("ok", v) : v \in Returned} \cup {Ended("error", Nil), Ended("yield", Nil)}

\* A function that fails or yields leaves the caller without a value, and no error.
call(op, k, name, method, args, end) ==
    LET refusal == CallRefusal(k, method, args)
        yielded == end.status = "yield" /\ method.return_val.type # "nil"
    IN  /\ last' = [op |-> op, name |-> name, class |-> k, args |-> args,
                    value |-> IF refusal = "ok" THEN end.value ELSE Nil,
                    result |-> IF refusal = "ok" /\ yielded THEN "yielded" ELSE refusal,
                    calls |-> IF refusal = "ok"
                              THEN <<call_internal(Registered(k, name), WithDefaults(method, args))>>
                              ELSE <<>>]
        /\ UNCHANGED <<table, kept>>

MethodCalled(k, name) ==
    IF k = 0 THEN GDMethod ELSE definition(k).methods[Registered(k, name)]

Answering(name) == First({i \in DOMAIN classes : Registered(i, name) # None})

EngineCall ==
    Running /\ \E name \in Names, args \in Arguments, end \in CallEnds :
        LET k == Answering(name) IN call("call", k, name, MethodCalled(k, name), args, end)

\* From Lua of another VM: the arguments are read as those of the method, with
\* any number more, and the outcome of the call is not looked at.
Refused(method, args) ==
    \/ Len(args) + Len(method.default_arguments) < Len(method.arguments)
    \/ \E i \in DOMAIN args \cap DOMAIN method.arguments :
          ~lua_is(args[i], method.arguments[i].type)

ReadArguments(method, args) ==
    WithDefaults(method,
        [i \in DOMAIN args |-> IF i \in DOMAIN method.arguments
                               THEN lua_check(args[i], method.arguments[i].type) ELSE args[i]])

luaGD_crossvm_call ==
    Running /\ \E name \in Names, args \in Arguments, end \in CallEnds :
        LET k == get_method(name)
            method == definition(k).methods[name]
        IN  /\ k # 0
            /\ IF Refused(method, args)
               THEN /\ last' = [None_op EXCEPT !.op = "cross_call", !.name = name, !.class = k,
                                               !.args = args, !.result = "raised"]
                    /\ UNCHANGED <<table, kept>>
               ELSE LET answering == Answering(name)
                    IN  call("cross_call", answering, name, MethodCalled(answering, name),
                             ReadArguments(method, args), end)

(***************************************************************************)
(* The functions that the engine calls by themselves.                      *)
(***************************************************************************)
\* One call for every class that has a handler.
notification ==
    /\ Running
    /\ last' = [None_op EXCEPT !.op = "notification",
                   !.calls = [i \in 1 .. Cardinality(Defining("_Notification")) |->
                                 call_internal("_Notification", <<>>)]]
    /\ UNCHANGED <<table, kept>>

\* The first class that has the function settles the matter, well or not.
Ask(op, function, args, answers) ==
    /\ Running
    /\ \E end \in CallEnds \cup {Ended("ok", Truth)} :
          last' = [None_op EXCEPT !.op = op, !.class = First(Defining(function)),
                      !.result = IF Defining(function) = {} THEN "none"
                                 ELSE IF end.status = "ok" /\ end.value \in answers THEN "ok"
                                 ELSE "failed",
                      !.calls = IF Defining(function) = {} THEN <<>>
                                ELSE <<call_internal(function, args)>>]
    /\ UNCHANGED <<table, kept>>

to_string == Ask("to_string", "_ToString", <<>>, Values \cup {Truth})
property_can_revert == \E n \in Names : Ask("can_revert", "_PropertyCanRevert", <<n>>, {Truth, Falsehood})
property_get_revert == \E n \in Names : Ask("get_revert", "_PropertyGetRevert", <<n>>, Values \cup {Truth})

(***************************************************************************)
(* Lists.  A member is listed once, with what the most derived class says  *)
(* of it; properties of a base come first.                                 *)
(***************************************************************************)
BaseFirst == Reverse([i \in DOMAIN classes |-> i])

\* Mutant: a redeclared property is listed again.
ListedTwice(i) == definition(i).properties

\* The properties of class i that no class derived from it has declared too.
ListedOf(i) ==
    SelectSeq(definition(i).properties,
              LAMBDA prop : get_property(prop.property.name) = i)

declared_properties == FoldLeft(LAMBDA list, i : list \o ListedOf(i), <<>>, BaseFirst)

get_method_list == UNION {DOMAIN definition(i).methods : i \in DOMAIN classes}

\* Each class that has _GetPropertyList has it called; what is no list is left out.
get_property_list ==
    /\ Running
    /\ \E custom \in [Defining("_GetPropertyList") -> CustomLists \cup {None}] :
          LET given == SelectSeq(BaseFirst, LAMBDA i : i \in DOMAIN custom /\ custom[i] # None)
              names == [i \in DOMAIN declared_properties |-> declared_properties[i].property.name]
          IN  last' = [None_op EXCEPT !.op = "list",
                          !.args = FoldLeft(LAMBDA list, i : list \o custom[i], names, given),
                          !.calls = [i \in 1 .. Cardinality(DOMAIN custom) |->
                                        call_internal("_GetPropertyList", <<>>)]]
    /\ UNCHANGED <<table, kept>>

(***************************************************************************)
(* What the script itself, without an instance, tells the engine.  The     *)
(* list of properties goes along the classes, but adds those of the        *)
(* script each time.                                                       *)
(***************************************************************************)
get_script_property_list ==
    FoldLeft(LAMBDA list, i : definition(1).properties \o list, <<>>, [i \in DOMAIN classes |-> i])

has_script_signal(name) == \E i \in DOMAIN classes : i <= 2 /\ name \in DOMAIN definition(i).signals

get_script_signal_list == UNION {DOMAIN definition(i).signals : i \in DOMAIN classes}

\* The configuration of a base takes the place of that of a class derived from it.
get_rpc_config ==
    FoldLeft(LAMBDA rpcs, i : definition(i).rpcs @@ rpcs, NoNames, [i \in DOMAIN classes |-> i])

get_property_default_value(name) ==
    LET k == First({i \in Declaring(name) : property(i, name).default_value # Nil})
    IN  IF k = 0 THEN Nil ELSE property(k, name).default_value

(***************************************************************************)
(* Lua code that holds the object, in the VM of the instance or another.   *)
(***************************************************************************)
LuaResult(op, name, result, value) ==
    /\ last' = [None_op EXCEPT !.op = op, !.name = name, !.result = result, !.value = value]
    /\ UNCHANGED <<table, kept>>

\* The tables of the classes hold their functions and constants.
InClassTable(name) ==
    \E i \in DOMAIN classes : name \in classes[i].methods \cup definition(i).constants

\* Reading a property: what get reports is an error of Lua's.
IndexProperty(k, name) ==
    IF property(k, name).setter # None /\ property(k, name).getter = None
    THEN LuaResult("index", name, "write_only", Nil)
    ELSE get("index", name)

luaGD_class_index(name, same_vm) ==
    LET k == get_property(name)
    IN  CASE same_vm /\ InClassTable(name) -> LuaResult("index", name, "class_table", Nil)
          [] ~(same_vm /\ InClassTable(name)) ->
             IF get_method(name) # 0 THEN LuaResult("index", name, "cross_vm_method", Nil)
             ELSE IF k # 0 THEN IndexProperty(k, name)
             ELSE IF get_signal(name) # 0 THEN LuaResult("index", name, "signal", Nil)
             ELSE IF get_constant(name) THEN LuaResult("index", name, "constant", Nil)
             ELSE IF name \in EngineMethods \cup EngineProperties \cup EngineSignals
                  THEN LuaResult("index", name, "engine", Nil)
             ELSE IF same_vm THEN LuaResult("index", name, "table", Entry(name))
             ELSE LuaResult("index", name, "index_error", Nil)

NewIndexProperty(k, name, value) ==
    LET prop == property(k, name)
    IN  IF prop.getter # None /\ prop.setter = None
        THEN LuaResult("newindex", name, "read_only", value)
        ELSE IF ~lua_is(value, prop.property.type)
        THEN LuaResult("newindex", name, "raised", value)
        ELSE set("newindex", name, lua_check(value, prop.property.type))

luaGD_class_newindex(name, value, same_vm) ==
    LET k == get_property(name)
    IN  IF k # 0 THEN NewIndexProperty(k, name, value)
        ELSE IF get_signal(name) # 0 \/ get_constant(name) \/ name \in EngineSignals
        THEN LuaResult("newindex", name, "raised", value)
        ELSE IF name \in EngineProperties THEN LuaResult("newindex", name, "engine", value)
        ELSE IF ~same_vm THEN LuaResult("newindex", name, "index_error", value)
        ELSE /\ <<name, value>> \in Scratch
             /\ table' = table_set(table, Only(name, value))
             /\ last' = [None_op EXCEPT !.op = "newindex", !.name = name, !.result = "table",
                                        !.value = value]
             /\ UNCHANGED kept

LuaIndex == Running /\ \E name \in Names, same_vm \in BOOLEAN : luaGD_class_index(name, same_vm)
LuaNewIndex ==
    Running /\ \E name \in Names, value \in Values, same_vm \in BOOLEAN :
        luaGD_class_newindex(name, value, same_vm)

(***************************************************************************)
(* Construction, base first: the defaults of a class, then its _Init.      *)
(***************************************************************************)
Defaults(i) ==
    LET plain == {n \in DOMAIN definition(i).property_indices : Plain(property(i, n))}
    IN  [n \in plain |-> property(i, n).default_value]

InitDefaults ==
    /\ stage > 0 /\ ~in_init /\ last = None_op
    /\ table' = table_set(table, Defaults(stage))
    /\ in_init' = ("_Init" \in classes[stage].methods)
    /\ stage' = IF in_init' THEN stage ELSE stage - 1
    /\ UNCHANGED <<classes, kept, last>>

\* Mutant: defaults are assigned after _Init.
EndInitThenDefaults ==
    /\ in_init /\ last = None_op
    /\ table' = table_set(table, Defaults(stage))
    /\ in_init' = FALSE /\ stage' = stage - 1
    /\ UNCHANGED <<classes, kept, last>>

\* However it ends, the next class follows.
EndInit ==
    /\ in_init /\ last = None_op
    /\ in_init' = FALSE /\ stage' = stage - 1
    /\ UNCHANGED <<classes, table, kept, last>>

NoTable == [n \in {} |-> Nil]

Loaded(class, r) == [text |-> class.text, methods |-> class.functions,
                     errors |-> r.errors, definition |-> r.def]

\* What the reader makes of the texts of the scripts: no errors, methods that are
\* functions of their class with lists of arguments, defaults of the type of their property.
WellRead(class) ==
    /\ class.errors = {} /\ DOMAIN class.definition.methods \subseteq class.methods
    /\ \A method \in Range(class.definition.methods) :
          /\ method.arguments \in Seq(Range(method.arguments))
          /\ method.default_arguments \in Seq(Range(method.default_arguments))
    /\ \A k \in Range(class.definition.property_indices) :
          LET prop == class.definition.properties[k]
          IN  Plain(prop) /\ prop.default_value \notin Big
                => lua_is(prop.default_value, prop.property.type)

ASSUME ScriptsAreRead ==
    \A script \in Scripts :
        /\ script \in Seq(Range(script))
        /\ \A class \in Range(script) : WellRead(Loaded(class, ReadClass(class.text, class.moves)))
ASSUME ArgumentsAreLists == \A args \in Arguments : args \in Seq(Range(args))

Init ==
    /\ \E script \in Scripts :
          classes = [i \in DOMAIN script |-> Loaded(script[i], ReadClass(script[i].text, script[i].moves))]
    /\ stage = Len(classes) /\ in_init = FALSE
    /\ table = NoTable /\ kept = NoTable /\ last = None_op

Next ==
    \/ InitDefaults \/ EndInit \/ Return
    \/ EngineSet \/ EngineGet \/ EngineCall
    \/ notification \/ to_string \/ property_can_revert \/ property_get_revert
    \/ get_property_list
    \/ LuaIndex \/ LuaNewIndex \/ luaGD_crossvm_call

Spec == Init /\ [][Next]_vars

(***************************************************************************)
(* Properties.                                                             *)
(***************************************************************************)
\* The shape of the state.
TypeOK ==
    /\ stage \in 0 .. Len(classes)
    /\ in_init => stage # 0
    /\ DOMAIN kept \subseteq DOMAIN table
    /\ \A c \in Range(classes) : c.errors = {}
    /\ \A i \in DOMAIN last.calls : last.calls[i].class \in DOMAIN classes

\* The entries of the list of properties that the fields of a text declare.
Entries(text) ==
    LET fields == FoldLeft(LAMBDA all, stat :
                        IF stat.kind = "type" /\ stat.name = "Class" /\ all = <<>>
                        THEN FlattenSeq(stat.tables) ELSE all, <<>>, text)
        EntriesOf(field) ==
            LET annotations == SelectSeq(parse_comments(field.above),
                                         LAMBDA a : a.name \in {"property"} \cup DOMAIN GroupUsage)
            IN  [i \in DOMAIN annotations |->
                    IF annotations[i].name = "property"
                    THEN [name |-> field.name, field |-> field, last |-> i = Len(annotations)]
                    ELSE [name |-> annotations[i].arg, field |-> None, last |-> FALSE]]
    IN  FlattenSeq([i \in DOMAIN fields |-> EntriesOf(fields[i])])

\* The classes stay as they are: it is enough to look at them once.
Begun == stage = Len(classes) /\ ~in_init

Distinct(list) == \A i, k \in DOMAIN list : list[i].name = list[k].name => i = k

\* They are those of the list, in their order.
EntriesInOrder ==
    Begun => \A i \in DOMAIN classes :
        LET entries == Entries(classes[i].text)
            properties == definition(i).properties
        IN  Distinct(entries) => /\ Len(entries) = Len(properties)
                                 /\ \A k \in DOMAIN entries :
                                        /\ entries[k].name = properties[k].property.name
                                        /\ (entries[k].field = None)
                                             = ("default" \notin properties[k].property.usage)

\* What the annotations of a field say of its property arrives there, if they
\* declare no group after it (annotation_class_type.cpp).
Argument(annotations, name, otherwise) ==
    LET said == SelectSeq(annotations, LAMBDA a : a.name = name)
    IN  IF said = <<>> THEN otherwise ELSE Last(said).arg

FieldsAsWritten ==
    Begun => \A i \in DOMAIN classes :
        LET entries == Entries(classes[i].text)
        IN  Distinct(entries) => \A k \in DOMAIN entries : entries[k].last =>
                LET prop == property(i, entries[k].name)
                    annotations == parse_comments(entries[k].field.above)
                    hints == SelectSeq(annotations, LAMBDA a : a.name \in DOMAIN HintTypes)
                IN  /\ prop.getter = Argument(annotations, "get", None)
                    /\ prop.setter = Argument(annotations, "set", None)
                    /\ prop.default_value = Argument(annotations, "default",
                                                    default_variant(prop.property.type))
                    /\ hints # <<>> => prop.property.hint = <<Last(hints).name, Last(hints).arg>>

\* A text is read as it is written, when it gives no name twice
\* (annotation_class_type.cpp, analysis_utils.cpp).
AsWritten == EntriesInOrder /\ FieldsAsWritten

\* A property without getter and setter has a value of its type as soon as the
\* class that declares it has its defaults; only an integer that is no number
\* of Lua can be accepted for a float and then not be read (set, get, the
\* constructor).
Initialised(i) == stage < i \/ (stage = i /\ in_init)

AcceptedIsReadable ==
    \A n \in Names : \A k \in {get_property(n)} \ {0} :
        Initialised(k) /\ Plain(property(k, n)) /\ Entry(n) \notin Big
            => lua_is(Entry(n), property(k, n).property.type)

\* What a property accepted is what it holds, once every class that declares it
\* has its defaults: neither Lua nor the engine changes it by another way, and
\* what an _Init assigned survives the rest of the construction.
KeptAsSet ==
    \A n \in DOMAIN kept :
        Declaring(n) \subseteq kept[n].at .. Len(classes) => Entry(n) = kept[n].value

\* A function gets as many arguments as its method declares: those given, each
\* of a type the method takes, then the last of the defaults (call).
CallArguments ==
    last.op \in {"call", "cross_call"} /\ last.calls # <<>> =>
        LET method == MethodCalled(last.class, last.name)
            args == last.calls[1].args
            missing == Len(method.arguments) - Len(last.args)
        IN  /\ Len(args) = Len(method.arguments)
            /\ \A i \in DOMAIN last.args :
                   /\ args[i] = last.args[i]
                   /\ TakesAnything(method.arguments[i])
                      \/ variant_types_compatible(args[i].type, method.arguments[i].type)
            /\ \A i \in 0 .. missing - 1 :
                   args[Len(args) - i]
                     = method.default_arguments[Len(method.default_arguments) - i]

\* Each declared property is listed once, as its most derived class declares it,
\* those of a base first; no method of the list is unknown to call
\* (get_property_list, get_method_list, call).
ListsAgree ==
    /\ Begun => \A i \in DOMAIN declared_properties :
          LET n == declared_properties[i].property.name
          IN  declared_properties[i] = property(get_property(n), n)
    /\ Begun => \A i, k \in DOMAIN declared_properties : i < k =>
          LET n1 == declared_properties[i].property.name
              n2 == declared_properties[k].property.name
          IN  n1 # n2 /\ get_property(n1) >= get_property(n2)
    /\ Begun => \A i \in DOMAIN classes : \A n \in DOMAIN definition(i).property_indices :
          \E k \in DOMAIN declared_properties : declared_properties[k].property.name = n
    /\ last.op = "call" /\ last.name \in get_method_list => last.result # "invalid_method"

\* The default that the script reports for a property is the value of a new
\* instance, if nothing was assigned and the most derived class has one
\* (_get_property_default_value, the constructor).
DefaultsAgree ==
    \A n \in Names \ DOMAIN kept : \A k \in {get_property(n)} \ {0} :
        stage = 0 /\ Plain(property(k, n)) /\ property(k, n).default_value # Nil
            => Entry(n) = get_property_default_value(n)

\* What the lists of members and the defaults say of an instance is what its
\* operations do.
ReportsAgree == ListsAgree /\ DefaultsAgree

=============================================================================
