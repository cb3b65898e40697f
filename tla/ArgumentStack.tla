---------------------------- MODULE ArgumentStack ----------------------------
(* The argument stack of a VM (GDThreadStack) and how the natives of          *)
(* godot_bindings.cpp and godot_builtin_bindings.cpp fill it: operators on a  *)
(* stack, that return the stack a call leaves and whether it raised an error. *)
EXTENDS Integers, Sequences, FiniteSets, SequencesExt

CONSTANTS None,      \* no value, no owner
          SizeMax    \* the largest size: 2^64 - 1, or any number no list reaches

ASSUME SizeAssumption == SizeMax \in Nat \ {0}

\* One type for each of the seven ways LuauVariant keeps a value.
Representation ==
  [Variant |-> "variant", int |-> "assign", String |-> "assign_dtor",
   Array |-> "userdata", StringName |-> "coerced", Transform3D |-> "ptr",
   Object |-> "object"]
Types == DOMAIN Representation

\* A value of Lua: what it is, and a mark that tells two of them apart. The
\* mark of an object is its class, or Freed; no string is a numeral.
LuaTypes == {"nil", "number", "string", "table"} \cup {"Array", "StringName", "Transform3D", "Object"}
Freed == "freed"
Lua(t, mark) == [type |-> t, mark |-> mark]

\* What the engine finds at the end of a pointer: a value of a type, made from
\* a value of Lua, as itself or in a Variant.
Value(t, v) == [type |-> t, of |-> v, boxed |-> FALSE]
Boxed(t, v) == [type |-> t, of |-> v, boxed |-> TRUE]
NilVariant == Boxed("Variant", None)
NullObject == Value("Object", None)

\* The type of a Variant that holds a value of Lua; None: there is none.
get_type(v) ==
  CASE v.type = "nil" -> "Variant"
    [] v.type = "number" -> "int"
    [] v.type = "string" -> "String"
    [] v.type = "table" -> None
    [] OTHER -> v.type

\* Lua turns numbers into strings.
IsString(v) == v.type \in {"string", "number"}

lua_is(v, arg) ==
  CASE arg.type = "int" -> v.type = "number"
    [] arg.type = "String" -> IsString(v)
    [] arg.type = "StringName" -> IsString(v) \/ v.type = "StringName"
    [] arg.type = "Variant" -> get_type(v) # None
    [] arg.type = "Object" ->
         \/ v.type = "nil"
         \/ v.type = "Object" /\ (v.mark = Freed \/ arg.class \in {"", v.mark})
    [] OTHER -> v.type = arg.type

\* The value of a type that is made from a value of Lua which is of that type.
Converted(v, t) ==
  CASE t = "Variant" -> Boxed(get_type(v), v)
    [] t = "Object" /\ (v.type = "nil" \/ v.mark = Freed) -> NullObject
    [] OTHER -> Value(t, v)

to_variant(x) == [x EXCEPT !.boxed = TRUE]

----------------------------------------------------------------------------
(* LuauVariant: data is "pointer" (_data is the userdata of Lua), "built"     *)
(* (a value was constructed in it) or "raw".                                  *)

LuauVariant == [type |-> None, from_luau |-> FALSE, data |-> "raw", value |-> None]

destroys(t) == Representation[t] # "assign" /\ Representation[t] # "object"

clear(lv) ==
  IF lv.type = None THEN lv
  ELSE [lv EXCEPT !.type = None,
                  !.data = IF ~lv.from_luau /\ destroys(lv.type) THEN "raw" ELSE @]

\* Whether the value stays with Lua.
Refers(v, t) ==
  \/ Representation[t] \in {"userdata", "ptr"}
  \/ Representation[t] = "coerced" /\ v.type = t

\* A check that succeeds, and one that raises: from_luau then stays as it was.
Checked(lv, v, t) ==
  [clear(lv) EXCEPT !.type = t, !.from_luau = Refers(v, t),
                    !.data = IF Refers(v, t) THEN "pointer" ELSE "built",
                    !.value = Converted(v, t)]
CheckRaised(lv, t) ==
  [clear(lv) EXCEPT !.type = t,
                    !.data = IF Representation[t] \in {"variant", "assign", "assign_dtor", "coerced"}
                             THEN "built" ELSE @,
                    !.value = None]
lua_check(lv, v, arg) ==
  IF lua_is(v, arg) THEN Checked(lv, v, arg.type) ELSE CheckRaised(lv, arg.type)

----------------------------------------------------------------------------
(* GDThreadStack. Its arrays are allocated anew exactly when the capacity     *)
(* grows: the capacity also names the allocation.                             *)

Unset == [to |-> "unset"]
ToArgument(lv, i) == IF lv.from_luau THEN [to |-> "userdata", value |-> lv.value]
                                     ELSE [to |-> "args", index |-> i]
ToVararg(i) == [to |-> "varargs", index |-> i]
ToDefault(x) == [to |-> "default", value |-> x]
Null == [to |-> "null"]

\* Nobody has the memory for SizeMax of them: then the stack has no arrays, nor
\* will it ever, for its capacity is enough for any list.
Places(n) == IF n = SizeMax THEN {} ELSE 1..n
Allocated(n) ==
  [args |-> [i \in Places(n) |-> LuauVariant], varargs |-> [i \in Places(n) |-> NilVariant],
   ptr_args |-> [i \in Places(n) |-> Unset], size |-> n, capacity |-> n]
Gone(stack) == stack.capacity = SizeMax

\* Mutant: the arrays are not allocated anew.
resize_size(stack, n) == [stack EXCEPT !.size = n]
resize(stack, n) ==
  IF n <= stack.capacity THEN [stack EXCEPT !.size = n] ELSE Allocated(n)

\* What the engine finds as argument i when it is given ptr_args of stack.
Argument(stack, i) ==
  CASE stack.ptr_args[i].to = "args" -> stack.args[stack.ptr_args[i].index].value
    [] stack.ptr_args[i].to = "varargs" -> stack.varargs[stack.ptr_args[i].index]
    [] stack.ptr_args[i].to \in {"userdata", "default"} -> stack.ptr_args[i].value
    [] stack.ptr_args[i].to = "null" -> NullObject
    [] OTHER -> None

----------------------------------------------------------------------------
(* get_arguments. A function has arguments (type, class, default), is static  *)
(* or has a self first, and is vararg or not; defaults of a GDMethod are a    *)
(* list of their own, which belongs to its last arguments.                    *)

\* What is given after self. Their number is an int, -1 when self is missing,
\* and unsigned when it is compared and when the stack is resized.
Parameters(f, given) == IF f.static \/ given = << >> THEN given ELSE Tail(given)
nargs(f, given) == IF f.static THEN Len(given) ELSE Len(given) - 1
Unsigned(n) == n % (SizeMax + 1)

Largest(a, b) == IF a > b THEN a ELSE b
First(S) == CHOOSE i \in S : \A j \in S : i <= j

\* The positions of given that do not pass their check.
Bad(f, given) ==
  {i \in DOMAIN given :
     IF i \in DOMAIN f.arguments THEN ~lua_is(given[i], f.arguments[i])
     ELSE get_type(given[i]) = None}
Upto(f, given) == IF Bad(f, given) = {} THEN Len(given) ELSE First(Bad(f, given)) - 1

InVararg(f, given, i) ==
  IF i \in DOMAIN f.arguments THEN to_variant(Converted(given[i], f.arguments[i].type))
  ELSE Boxed(get_type(given[i]), given[i])

FillVarargs(stack, f, given) ==
  [stack EXCEPT
     !.varargs = [i \in DOMAIN @ |-> IF i <= Upto(f, given) THEN InVararg(f, given, i) ELSE @[i]],
     !.ptr_args = [i \in DOMAIN @ |-> IF i <= Upto(f, given) THEN ToVararg(i) ELSE @[i]]]

\* The stack with args, the first n of which ptr_args points to.
Pointing(stack, args, n) ==
  [stack EXCEPT
     !.args = args,
     !.ptr_args = [i \in DOMAIN @ |-> IF i <= n THEN ToArgument(args[i], i) ELSE @[i]]]

\* The first n values checked, of which the last may raise.
CheckedArgs(stack, given, arguments, n) ==
  [i \in DOMAIN stack.args |->
     IF i <= n THEN lua_check(stack.args[i], given[i], arguments[i]) ELSE stack.args[i]]

FillArgs(stack, f, given) ==
  Pointing(stack,
           CheckedArgs(stack, given, f.arguments,
                       IF Bad(f, given) = {} THEN Len(given) ELSE First(Bad(f, given))),
           Upto(f, given))

\* Where the default of argument i is, and whether there is one.
Required(f) == Len(f.arguments) - Len(f.defaults)
HasDefault(f, i) ==
  IF f.kind = "method" THEN i > Required(f) ELSE f.arguments[i].default # None
\* Mutant: the list of defaults is read from its end.
DefaultFromEnd(f, i) ==
  IF f.kind = "method" THEN ToDefault(f.defaults[Len(f.arguments) + 1 - i])
  ELSE ToDefault(f.arguments[i].default)
DefaultPointer(f, i) ==
  IF f.kind = "method" THEN ToDefault(f.defaults[i - Required(f)])
  ELSE IF f.arguments[i].type = "Object" THEN Null
  ELSE ToDefault(f.arguments[i].default)

Missing(f, n) == (n + 1)..Len(f.arguments)
Lacking(f, n) == {i \in Missing(f, n) : ~HasDefault(f, i)}
Supplied(f, n) == {i \in Missing(f, n) : Lacking(f, n) = {} \/ i < First(Lacking(f, n))}
get_default_args(stack, f, n) ==
  [raised |-> Lacking(f, n) # {},
   stack |-> [stack EXCEPT !.ptr_args =
     [i \in DOMAIN @ |-> IF i \in Supplied(f, n) THEN DefaultPointer(f, i) ELSE @[i]]]]

Raise(stack) == [raised |-> TRUE, stack |-> stack]

Fill(stack, f, given) ==
  IF f.vararg THEN FillVarargs(stack, f, given) ELSE FillArgs(stack, f, given)
TooMany(f, n) == ~f.vararg /\ n > Len(f.arguments)
ReadArguments(sized, f, n, given) ==
  IF TooMany(f, n) THEN Raise(sized)
  ELSE IF Bad(f, given) # {} THEN Raise(Fill(sized, f, given))
  ELSE get_default_args(Fill(sized, f, given), f, n)
ReadCount(stack, f, n, given) ==
  ReadArguments(resize(stack, Largest(n, Len(f.arguments))), f, n, given)
get_arguments(stack, f, given) ==
  ReadCount(stack, f, Unsigned(nargs(f, given)), Parameters(f, given))

\* The positions that are written, the one that raises included.
ReadWrites(f, n, given) ==
  IF TooMany(f, n) THEN {}
  ELSE IF Bad(f, given) # {} THEN 1..(IF f.vararg THEN Upto(f, given) ELSE First(Bad(f, given)))
  ELSE DOMAIN given \cup Supplied(f, n)
get_arguments_writes(f, given) ==
  ReadWrites(f, Unsigned(nargs(f, given)), Parameters(f, given))

----------------------------------------------------------------------------
(* luaGD_builtin_ctor: the first constructor whose types fit. Those before it *)
(* are tried, and leave what they wrote.                                      *)

Fits(ctor, given) ==
  Len(ctor) = Len(given) /\ \A i \in DOMAIN given : lua_is(given[i], ctor[i])
Fitting(f, given) == {c \in DOMAIN f.constructors : Fits(f.constructors[c], given)}

\* The constructors, of those that are tried, that get as far as value i.
Reaching(f, given, i) ==
  {c \in DOMAIN f.constructors :
     /\ \A d \in Fitting(f, given) : c <= d
     /\ Len(f.constructors[c]) = Len(given)
     /\ \A j \in 1..i : lua_is(given[j], f.constructors[c][j])}
Written(f, given) == {i \in DOMAIN given : Reaching(f, given, i) # {}}

\* A check writes the whole of a slot: that of the last one to reach it stays.
Final(S) == CHOOSE c \in S : \A d \in S : d <= c
CtorArgs(stack, f, given) ==
  [i \in DOMAIN stack.args |->
     IF i \in Written(f, given)
     THEN lua_check(stack.args[i], given[i], f.constructors[Final(Reaching(f, given, i))][i])
     ELSE stack.args[i]]

CtorFill(stack, f, given) ==
  LET args == CtorArgs(stack, f, given) IN
  [stack EXCEPT
     !.args = args,
     !.ptr_args = [i \in DOMAIN @ |-> IF i \in Written(f, given) THEN ToArgument(args[i], i) ELSE @[i]]]

builtin_ctor(stack, f, given) ==
  [raised |-> Fitting(f, given) = {}, stack |-> CtorFill(resize(stack, Len(given)), f, given)]
=============================================================================
