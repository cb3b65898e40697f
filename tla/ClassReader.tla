---------------------------- MODULE ClassReader ----------------------------
(***************************************************************************)
(* How src/analysis turns the text of a class into its GDClassDefinition.  *)
(* The syntax tree is data: a statement is a record, a type a small term,  *)
(* the comments above a statement a sequence of lines.  The module has the *)
(* order in which annotations take effect, the checks that refuse them,    *)
(* and what a refused one leaves behind.                                   *)
(***************************************************************************)
EXTENDS Naturals, Sequences, SequencesExt

CONSTANTS
    None,           \* no argument, no name, no value
    Garbage,        \* an argument that cannot be parsed
    VariantTypes,   \* the names of types in Luau, each with the engine's type
    Classes,        \* the engine's classes, some of them
    Nodes,          \* nodes
    Resources,      \* and some resources
    Numbers,        \* the options of remote calls that are numbers, with them
    Core,           \* the script has a path, and the sandbox lists it as a core script
    Required        \* the locals that hold a required script

Nil == [type |-> "nil", id |-> 0]
default_variant(type) == [type |-> type, id |-> 0]

(***************************************************************************)
(* The records of luau_lib.h.                                              *)
(***************************************************************************)
GDProperty == [name |-> None, type |-> "nil", usage |-> {"default"},
               class_name |-> None, hint |-> None]

GDClassProperty == [property |-> GDProperty, getter |-> None, setter |-> None,
                    default_value |-> Nil]

GDMethod == [name |-> None, return_val |-> GDProperty, flags |-> {"normal"},
             arguments |-> <<>>, default_arguments |-> <<>>]

GDRpc == [name |-> None, rpc_mode |-> "authority", transfer_mode |-> "reliable",
          call_local |-> FALSE, channel |-> 0]

NoNames == [n \in {} |-> None]

GDClassDefinition == [name |-> None, extends |-> "RefCounted", base_script |-> None,
                      is_tool |-> FALSE, permissions |-> {}, icon_path |-> None,
                      methods |-> NoNames,
                      properties |-> <<>>, property_indices |-> NoNames,
                      signals |-> NoNames, rpcs |-> NoNames, constants |-> {}]

variant_type == [GDProperty EXCEPT !.usage = {"default", "nil_is_variant"}]

object_type(type, base_type) ==
    [GDProperty EXCEPT !.type = "object", !.class_name = type,
                       !.hint = IF base_type \in Resources THEN <<"resource_type", type>>
                                ELSE IF base_type \in Nodes THEN <<"node_type", type>>
                                ELSE None]

typed_array_type(prop) ==
    [GDProperty EXCEPT !.type = "array",
                       !.hint = <<"array_type", IF prop.type = "object" THEN prop.class_name
                                                ELSE prop.type>>]

\* A property takes the place of an earlier one of the same name, or comes last.
set_prop(def, name, prop) ==
    IF name \in DOMAIN def.property_indices
    THEN [def EXCEPT !.properties[def.property_indices[name]] = prop]
    ELSE [def EXCEPT !.properties = Append(@, prop),
                     !.property_indices = (name :> Len(def.properties) + 1) @@ @]

(***************************************************************************)
(* Types.  A reference has a name, perhaps the local of a required script  *)
(* as its prefix, and parameters; "optional" is the union of a reference   *)
(* with nil; every other type is no use to the engine.  Parameters have no *)
(* parameters of their own here.                                           *)
(***************************************************************************)
get_godot_type(name) ==
    IF name = "Variant" THEN variant_type
    ELSE IF name \in DOMAIN VariantTypes
         THEN [GDProperty EXCEPT !.type = VariantTypes[name]]
    ELSE IF name \in Classes THEN object_type(name, name)
    ELSE None

get_module_type(prefix) ==
    IF prefix \in DOMAIN Required /\ ~Required[prefix].is_module
       /\ Required[prefix].class_type = prefix /\ Required[prefix].base_type # None
    THEN object_type(IF Required[prefix].global_name = None
                     THEN Required[prefix].base_type
                     ELSE Required[prefix].global_name,
                     Required[prefix].base_type)
    ELSE None

get_suitable_type_ref(type) ==
    CASE type.kind = "ref"      -> type
      [] type.kind = "optional" -> type.of
      [] OTHER                  -> None

\* What a reference without parameters means, to the engine godot_type.
PlainType(godot_type, was_conditional, nullable_is_variant) ==
    IF ~nullable_is_variant \/ ~was_conditional
       \/ (godot_type # None /\ godot_type.type = "object")
    THEN godot_type
    ELSE variant_type

\* A parameter counts when it is a reference itself.
ParameterType(type) ==
    IF type.prefix # None THEN get_module_type(type.prefix) ELSE get_godot_type(type.name)

NodePathTo(props) ==
    IF \A i \in DOMAIN props : props[i] # None /\ props[i].hint # None
                               /\ props[i].hint[1] = "node_type"
    THEN [GDProperty EXCEPT !.type = "node_path",
                            !.hint = <<"valid_types", [i \in DOMAIN props |-> props[i].class_name]>>]
    ELSE None

\* A reference with parameters: the types of those that are references.
Parametric(ref, params) ==
    IF ref.name = "TypedArray" /\ ref.params[1].kind = "ref" /\ params[1] # None
    THEN typed_array_type(params[1])
    ELSE IF ref.name = "NodePathConstrained" THEN NodePathTo(params)
    ELSE None

RefType(ref, was_conditional, nullable_is_variant) ==
    CASE ref.prefix # None -> get_module_type(ref.prefix)
      [] ref.prefix = None /\ ref.params = <<>> ->
            PlainType(get_godot_type(ref.name), was_conditional, nullable_is_variant)
      [] OTHER ->
            IF nullable_is_variant /\ was_conditional THEN variant_type
            ELSE Parametric(ref, LET refs == SelectSeq(ref.params, LAMBDA param : param.kind = "ref")
                                 IN  [i \in DOMAIN refs |-> ParameterType(refs[i])])

type_to_prop(type, nullable_is_variant) ==
    IF get_suitable_type_ref(type) = None THEN None
    ELSE RefType(get_suitable_type_ref(type), type.kind = "optional", nullable_is_variant)

(***************************************************************************)
(* Comments.  The annotations of a statement are in the unbroken run of    *)
(* lines above it that hold nothing but a comment of three dashes.         *)
(***************************************************************************)
IsDocComment(line) == line.kind = "single_line_excl" /\ line.dashes >= 3

Attached(above) ==
    {i \in DOMAIN above : \A k \in i .. Len(above) : IsDocComment(above[k])}

Annotations(lines) == [i \in DOMAIN lines |-> lines[i].annotation]

parse_comments(above) ==
    Annotations(SelectSeq(SubSeq(above, Len(above) + 1 - Cardinality(Attached(above)), Len(above)),
                          LAMBDA line : line.annotation # None))

(***************************************************************************)
(* The reader.  class_prop is the index of the property that the           *)
(* annotations of a field are about, 0 for none.  In the code it is a      *)
(* pointer into the list of properties: lost says that the list was moved  *)
(* since, so that what is written through the pointer no longer arrives.   *)
(* Whether a longer list moves depends on the allocator, hence moves.      *)
(***************************************************************************)
Reader(moves) ==
    [def |-> GDClassDefinition, errors |-> {}, definition_found |-> FALSE,
     type_found |-> FALSE, class_prop |-> 0, signal_found |-> FALSE, stop |-> FALSE,
     moves |-> moves, lost |-> FALSE]

error(r, what) == [r EXCEPT !.errors = @ \cup {what}]
Refuse(r, what) == [error(r, what) EXCEPT !.stop = TRUE]
ErrorIf(r, condition, what) == IF condition THEN error(r, what) ELSE r

(***************************************************************************)
(* The fields of the class type.                                           *)
(***************************************************************************)
SetProp(r, name, prop) ==
    [r EXCEPT !.def = set_prop(@, name, prop),
              !.lost = @ \/ (r.moves /\ r.class_prop # 0
                             /\ name \notin DOMAIN r.def.property_indices)]

\* The annotations below describe what was declared last.
Declared(r, name) == [r EXCEPT !.class_prop = r.def.property_indices[name]]

DeclareProperty(r, field, type) ==
    Declared(SetProp(r, field.name,
                     [GDClassProperty EXCEPT !.property = [type EXCEPT !.name = field.name],
                                             !.default_value = default_variant(type.type)]),
             field.name)

ann_property_of(r, a, field, type) ==
    IF r.class_prop # 0 \/ r.signal_found \/ type = None
    THEN Refuse(r, "property")
    ELSE DeclareProperty(ErrorIf(r, a.arg # None, "property"), field, type)

ann_property(r, a, field) == ann_property_of(r, a, field, type_to_prop(field.type, TRUE))

\* A signal takes no parameters, or one function that returns nothing.
SignalOf(field, function, types) ==
    IF \E i \in DOMAIN types : types[i] = None THEN None
    ELSE [GDMethod EXCEPT !.name = field.name,
                          !.arguments = [i \in DOMAIN types |-> [types[i] EXCEPT !.name = function.args[i].name]],
                          !.flags = IF function.vararg THEN @ \cup {"vararg"} ELSE @]

signal_of(field, params) ==
    IF field.type.kind # "ref" \/ field.type.name \notin {"Signal", "SignalWithArgs"}
    THEN None
    ELSE IF params = <<>> THEN [GDMethod EXCEPT !.name = field.name]
    ELSE IF Len(params) # 1 \/ params[1].kind # "function" \/ params[1].returns
    THEN None
    ELSE SignalOf(field, params[1],
                  [i \in DOMAIN params[1].args |-> type_to_prop(params[1].args[i].type, TRUE)])

DeclareSignal(r, name, signal) ==
    IF signal = None THEN [error(r, "signal") EXCEPT !.signal_found = TRUE]
    ELSE [r EXCEPT !.def.signals = (name :> signal) @@ @, !.signal_found = TRUE]

ann_signal(r, a, field) ==
    IF r.class_prop # 0 \/ r.signal_found THEN Refuse(r, "signal")
    ELSE DeclareSignal(ErrorIf(r, a.arg # None, "signal"), field.name,
                       signal_of(field, field.type.params))

GroupUsage == [propertyGroup |-> "group", propertySubgroup |-> "subgroup",
               propertyCategory |-> "category"]

ann_property_group(r, a) ==
    SetProp(r, a.arg, [GDClassProperty EXCEPT !.property.name = a.arg,
                                              !.property.usage = {GroupUsage[a.name]}])

\* What an annotation of a field declares.
Declare(r, a, field) ==
    CASE r.stop                      -> r
      [] ~r.stop /\ a.name = "property" -> ann_property(r, a, field)
      [] ~r.stop /\ a.name = "signal"   -> ann_signal(r, a, field)
      [] ~r.stop /\ a.name \in DOMAIN GroupUsage -> ann_property_group(r, a)
      [] OTHER -> r

(***************************************************************************)
(* What an annotation says about the property that was declared.           *)
(***************************************************************************)
\* The types that a hint is for.
HintTypes ==
    [range |-> {"int", "float"}, enum |-> {"int", "string"}, suggestion |-> {"string"},
     flags |-> {"int"}, file |-> {"string"}, dir |-> {"string"}, multiline |-> {"string"},
     placeholderText |-> {"string"}, expEasing |-> {"float"}, noAlpha |-> {"color"},
     layers |-> {"int"}]

NeedsArgument == {"range", "enum", "suggestion", "flags", "placeholderText"}
ReadsArgument == {"range", "file", "dir", "expEasing"}
EndsTable == {"enum", "suggestion", "flags"}

\* Written through class_prop.
Write(r, prop) ==
    IF r.lost THEN r ELSE [r EXCEPT !.def.properties[r.class_prop] = prop]

ann_default_value(r, a, prop) ==
    IF a.arg = None \/ a.arg = Garbage THEN error(r, "default")
    ELSE IF a.arg.type # prop.property.type /\ prop.property.usage # {"nil_is_variant"}
    THEN error(r, "default")
    ELSE Write(r, [prop EXCEPT !.default_value = a.arg])

\* Mutant: getter and setter are confused.
ann_setget_swapped(r, a, prop) ==
    IF a.arg = None \/ a.arg = Garbage THEN error(r, a.name)
    ELSE Write(r, IF a.name = "get" THEN [prop EXCEPT !.setter = a.arg]
                                    ELSE [prop EXCEPT !.getter = a.arg])

ann_setget(r, a, prop) ==
    IF a.arg = None \/ a.arg = Garbage THEN error(r, a.name)
    ELSE Write(r, IF a.name = "set" THEN [prop EXCEPT !.setter = a.arg]
                                    ELSE [prop EXCEPT !.getter = a.arg])

ann_hint(r, a, prop) ==
    IF prop.property.type \notin HintTypes[a.name]
    THEN IF a.name \in EndsTable THEN Refuse(r, a.name) ELSE error(r, a.name)
    ELSE IF (a.name \in NeedsArgument /\ a.arg = None)
            \/ (a.name \in ReadsArgument /\ a.arg = Garbage)
    THEN error(r, a.name)
    ELSE Write(r, [prop EXCEPT !.property.hint = <<a.name, a.arg>>])

Describe(r, a) ==
    LET prop == r.def.properties[r.class_prop]
    IN  CASE r.stop -> r
          [] ~r.stop /\ a.name = "default" -> ann_default_value(r, a, prop)
          [] ~r.stop /\ a.name \in {"set", "get"} -> ann_setget(r, a, prop)
          [] ~r.stop /\ a.name \in DOMAIN HintTypes -> ann_hint(r, a, prop)
          [] OTHER -> ErrorIf(r, ~r.stop /\ a.name \notin {"property"} \cup DOMAIN GroupUsage, a.name)

Undescribed(r, a) ==
    ErrorIf(r, ~r.stop /\ a.name \notin {"signal"} \cup DOMAIN GroupUsage, a.name)

DescribeField(r, annotations) ==
    IF r.class_prop # 0 THEN FoldLeft(Describe, r, annotations)
    ELSE FoldLeft(Undescribed, r, annotations)

\* All annotations are gone through twice: what they declare, then what they say of it.
ReadAnnotations(r, field, annotations) ==
    DescribeField(FoldLeft(LAMBDA q, a : Declare(q, a, field),
                           [r EXCEPT !.class_prop = 0, !.signal_found = FALSE, !.lost = FALSE],
                           annotations),
                  annotations)

ReadField(r, field) == IF r.stop THEN r ELSE ReadAnnotations(r, field, parse_comments(field.above))

\* An error about @property, @signal or a list of names ends the table, not the type.
handle_table_type(r, table) == [FoldLeft(ReadField, r, table) EXCEPT !.stop = FALSE]

VisitTypeAlias(r, stat) ==
    IF r.type_found \/ stat.name # "Class" THEN r
    ELSE FoldLeft(handle_table_type, [r EXCEPT !.type_found = TRUE], stat.tables)

(***************************************************************************)
(* Methods: functions of the class table under @registerMethod.            *)
(***************************************************************************)
\* The signature, None when a type is no use to the engine.  A function without
\* self has it as its first argument.
Signature(sig, args, arg_props, return_val) ==
    IF return_val = None \/ \E i \in DOMAIN args : arg_props[i] = None THEN None
    ELSE [GDMethod EXCEPT !.return_val = return_val,
                          !.arguments = [i \in DOMAIN args |-> [arg_props[i] EXCEPT !.name = args[i].name]],
                          !.flags = IF sig.vararg THEN @ \cup {"vararg"} ELSE @]

ArgumentTypes(args) ==
    [i \in DOMAIN args |-> IF args[i].type = None THEN variant_type
                           ELSE type_to_prop(args[i].type, FALSE)]

ReturnType(sig) ==
    IF sig.returns # None THEN type_to_prop(sig.returns, TRUE)
    ELSE IF sig.has_return THEN variant_type ELSE GDProperty

ast_method(sig) ==
    LET args == IF sig.self THEN sig.args ELSE Tail(sig.args)
    IN  Signature(sig, args, ArgumentTypes(args), ReturnType(sig))

RpcOptions ==
    [anyPeer |-> <<"rpc_mode", "any_peer">>, authority |-> <<"rpc_mode", "authority">>,
     unreliable |-> <<"transfer_mode", "unreliable">>,
     unreliableOrdered |-> <<"transfer_mode", "unreliable_ordered">>,
     reliable |-> <<"transfer_mode", "reliable">>, callLocal |-> <<"call_local", TRUE>>]

RpcOption(option) == IF option \in DOMAIN Numbers THEN <<"channel", Numbers[option]>>
                     ELSE IF option \in DOMAIN RpcOptions THEN RpcOptions[option]
                     ELSE <<None, None>>

SetRpc(r, name, options) ==
    [r EXCEPT !.def.rpcs =
        (name :> FoldLeft(LAMBDA rpc, option : [rpc EXCEPT ![option[1]] = option[2]],
                          [GDRpc EXCEPT !.name = name], options)) @@ @]

\* Two options for the same thing leave the method without a configuration.
RpcOf(r, name, known, options) ==
    IF \E i, j \in DOMAIN known : i # j /\ known[i][1] = known[j][1]
    THEN error(r, "rpc")
    ELSE SetRpc(ErrorIf(r, known # options, "rpc"), name, known)

ann_rpc(r, a, name) ==
    LET options == [i \in DOMAIN a.arg |-> RpcOption(a.arg[i])]
    IN  RpcOf(r, name, SelectSeq(options, LAMBDA option : option[1] # None), options)

ann_default_args(a, method) ==
    IF a.arg \in {None, Garbage} THEN method ELSE [method EXCEPT !.default_arguments = a.arg]

ann_method_flags(a, method) ==
    IF a.arg \in {None, Garbage} THEN method ELSE [method EXCEPT !.flags = a.arg]

\* The annotations of a method fill in the method and write the errors and the
\* configuration of remote calls.
AnnotateMethod(rm, a) ==
    LET r == rm[1]  method == rm[2]
    IN  CASE a.name = "defaultArgs" -> <<ErrorIf(r, a.arg \in {None, Garbage}, a.name), ann_default_args(a, method)>>
          [] a.name = "flags"  -> <<ErrorIf(r, a.arg \in {None, Garbage}, a.name), ann_method_flags(a, method)>>
          [] a.name = "rpc"    -> <<ann_rpc(r, a, method.name), method>>
          [] a.name = "param"  -> <<ErrorIf(r, a.arg = None, a.name), method>>
          [] a.name \in {"return", "registerMethod"} -> rm
          [] OTHER             -> <<error(r, a.name), method>>

SetMethod(read, name) == [read[1] EXCEPT !.def.methods = (name :> read[2]) @@ @]

handle_method(r, name, signature, annotations) ==
    LET register == SelectSeq(annotations, LAMBDA a : a.name = "registerMethod")
    IN  IF register = <<>> THEN r
        ELSE IF signature = None THEN error(r, "registerMethod")
        ELSE SetMethod(FoldLeft(AnnotateMethod,
                                <<ErrorIf(r, register[1].arg # None, "registerMethod"),
                                  [signature EXCEPT !.name = name]>>,
                                annotations),
                       name)

VisitFunction(r, stat) ==
    handle_method(r, stat.name, ast_method(stat.sig), parse_comments(stat.above))

(***************************************************************************)
(* The local of the class, and constants.                                  *)
(***************************************************************************)
ann_extends(r, a) ==
    IF a.arg \in Classes THEN [r EXCEPT !.def.extends = a.arg]
    ELSE IF a.arg \in DOMAIN Required /\ ~Required[a.arg].is_module
    THEN [r EXCEPT !.def.extends = None, !.def.base_script = a.arg]
    ELSE [error(r, "extends") EXCEPT !.def.extends = None]

\* The flags before the first that is none are set, also when that is an error.
PermissionFlags == {"BASE", "INTERNAL", "OS", "FILE", "HTTP"}

read_flags(flags) ==
    {flags[i] : i \in {k \in DOMAIN flags : \A j \in 1 .. k : flags[j] \in PermissionFlags}}

ann_permissions(r, a) ==
    IF a.arg = None \/ ~Core THEN error(r, "permissions")
    ELSE [ErrorIf(r, ~(Range(a.arg) \subseteq PermissionFlags), "permissions")
             EXCEPT !.def.permissions = read_flags(a.arg) \ {"BASE"}]

ann_icon_path(r, a) ==
    IF a.arg \in {None, Garbage} THEN error(r, "iconPath") ELSE [r EXCEPT !.def.icon_path = a.arg]

AnnotateClass(r, a) ==
    CASE a.name = "tool"     -> [ErrorIf(r, a.arg # None, "tool") EXCEPT !.def.is_tool = TRUE]
      [] a.name = "extends"  -> ann_extends(r, a)
      [] a.name = "permissions" -> ann_permissions(r, a)
      [] a.name = "iconPath" -> ann_icon_path(r, a)
      [] a.name = "class"    -> r
      [] OTHER               -> error(r, a.name)

\* The name of the class is that of the first @class.
handle_definition(r, annotations) ==
    LET class == SelectSeq(annotations, LAMBDA a : a.name = "class")
    IN  IF class = <<>> THEN r
        ELSE FoldLeft(AnnotateClass,
                      [ErrorIf(r, class[1].arg = Garbage, "class") EXCEPT !.def.name = class[1].arg],
                      annotations)

VisitLocal(r, stat) ==
    IF r.definition_found \/ stat.name # "Class" THEN r
    ELSE [handle_definition(r, parse_comments(stat.above)) EXCEPT !.definition_found = TRUE]

AnnotateAssign(r, a, stat) ==
    IF r.stop THEN r
    ELSE IF a.name # "registerConstant" THEN error(r, a.name)
    ELSE IF a.arg # None THEN Refuse(r, a.name)
    ELSE [r EXCEPT !.def.constants = @ \cup {stat.name}]

VisitAssign(r, stat) ==
    [FoldLeft(LAMBDA q, a : AnnotateAssign(q, a, stat), r, parse_comments(stat.above))
        EXCEPT !.stop = FALSE]

Visit(r, stat) ==
    CASE stat.kind = "local"    -> VisitLocal(r, stat)
      [] stat.kind = "type"     -> VisitTypeAlias(r, stat)
      [] stat.kind = "function" -> VisitFunction(r, stat)
      [] stat.kind = "assign"   -> VisitAssign(r, stat)

\* What luascript_analyze makes of a class.
ReadClass(text, moves) == FoldLeft(Visit, Reader(moves), text)

=============================================================================
