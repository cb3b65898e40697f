------------------------ MODULE ScriptInstance_proof ------------------------
(* For any scripts that are read without errors, of any number of classes, and *)
(* any values: what a property accepted stays and can be read, an instance has *)
(* its defaults, and functions get the arguments that their methods declare.   *)
EXTENDS ScriptInstance, SequenceLemmas, SequenceTheorems, FiniteSetTheorems, TLAPS

\* The classes of the instance, well read.
ReadInv ==
  /\ Len(classes) \in Nat /\ DOMAIN classes = 1..Len(classes)
  /\ \A i \in DOMAIN classes : WellRead(classes[i])

StageInv == stage \in 0..Len(classes) /\ (in_init => stage # 0)

\* A value is accepted after the defaults of the stage, for a property.
KeptInv ==
  \A n \in DOMAIN kept :
    /\ n \in DOMAIN table /\ Declaring(n) # {}
    /\ kept[n].at \in Nat /\ kept[n].at >= stage /\ (kept[n].at = stage => in_init \/ stage = 0)

\* A property that accepted no value has its default.
DefaultsKept ==
  \A n \in Names \ DOMAIN kept : \A k \in {get_property(n)} \ {0} :
    Initialised(k) /\ Plain(property(k, n)) => Entry(n) = property(k, n).default_value

\* Functions are called on the instance by classes that have them.
CallsAnswered == \A i \in DOMAIN last.calls : last.calls[i].class \in DOMAIN classes
CallsInv == CallArguments /\ CallsAnswered

TableInv == ReadInv /\ StageInv /\ KeptInv /\ KeptAsSet /\ AcceptedIsReadable /\ DefaultsKept

----------------------------------------------------------------------------
(* Finding a member.                                                           *)

LEMMA FirstFacts ==
  ASSUME NEW n \in Nat, NEW S \in SUBSET (1..n)
  PROVE  /\ (First(S) = 0 <=> S = {})
         /\ S # {} => First(S) \in S /\ \A k \in S : First(S) <= k
<1>1. CASE S = {}
  BY <1>1 DEF First
<1>2. CASE S # {}
  <2>1. \E x \in S : \A y \in S : x <= y
    BY <1>2, LeastExists
  <2>2. First(S) = CHOOSE i \in S : \A k \in S : i <= k
    BY <1>2 DEF First
  <2>3. First(S) \in S /\ \A k \in S : First(S) <= k
    BY <2>1, <2>2, Zenon
  <2>4. First(S) \in 1..n
    BY <2>3
  <2>5. First(S) # 0
    BY <2>4
  <2> QED BY <1>2, <2>3, <2>5
<1> QED BY <1>1, <1>2

\* The class of a property is the most derived one that declares it.
LEMMA PropertyFacts ==
  ASSUME ReadInv, NEW n
  PROVE  /\ Declaring(n) \subseteq DOMAIN classes /\ get_property(n) \in Nat
         /\ (get_property(n) = 0 <=> Declaring(n) = {})
         /\ get_property(n) # 0 =>
              /\ get_property(n) \in Declaring(n) /\ get_property(n) \in DOMAIN classes
              /\ \A k \in Declaring(n) : get_property(n) <= k
<1>1. Declaring(n) \in SUBSET (1..Len(classes)) /\ Len(classes) \in Nat
  BY DEF Declaring, ReadInv
<1>2. /\ (get_property(n) = 0 <=> Declaring(n) = {})
      /\ Declaring(n) # {} => get_property(n) \in Declaring(n) /\ \A k \in Declaring(n) : get_property(n) <= k
  BY <1>1, FirstFacts DEF get_property
<1>3. DOMAIN classes = 1..Len(classes)
  BY DEF ReadInv
<1> QED BY <1>1, <1>2, <1>3

LEMMA DefiningFacts ==
  ASSUME ReadInv, NEW f, Defining(f) # {}
  PROVE  First(Defining(f)) \in DOMAIN classes
<1>1. Defining(f) \in SUBSET (1..Len(classes)) /\ Len(classes) \in Nat
  BY DEF Defining, ReadInv
<1> QED BY <1>1, FirstFacts DEF ReadInv

\* The class that settles the matter declares the property only if it is the first.
LEMMA SettlingFacts ==
  ASSUME ReadInv, NEW n, NEW S \in SUBSET (DOMAIN classes), Settling(n, S) \in Declaring(n)
  PROVE  Settling(n, S) = get_property(n) /\ get_property(n) # 0
<1>1. Declaring(n) \cup S \in SUBSET (1..Len(classes)) /\ Len(classes) \in Nat
  BY PropertyFacts DEF ReadInv
<1>2. \A k \in Declaring(n) : Settling(n, S) <= k
  BY <1>1, FirstFacts DEF Settling
<1>3. get_property(n) # 0 /\ get_property(n) \in Declaring(n) /\ get_property(n) <= Settling(n, S)
  BY PropertyFacts
<1>4. Declaring(n) \subseteq Nat
  BY <1>1
<1> QED BY <1>2, <1>3, <1>4

----------------------------------------------------------------------------
(* What a step does to the table.                                              *)

Same == UNCHANGED <<classes, stage, in_init, table, kept>>

\* A property accepts a value, which the table has then.
Stored(n, value) ==
  /\ in_init \/ stage = 0
  /\ get_property(n) # 0 /\ Plain(property(get_property(n), n))
  /\ variant_types_compatible(value.type, property(get_property(n), n).property.type)
  /\ table' = table_set(table, Only(n, value))
  /\ kept' = table_set(kept, Only(n, [value |-> value, at |-> stage]))
  /\ UNCHANGED <<classes, stage, in_init>>

\* Lua writes to a name that means nothing.
Scribbled(n, value) ==
  /\ get_property(n) = 0 /\ table' = table_set(table, Only(n, value))
  /\ UNCHANGED <<classes, stage, in_init, kept>>

LEMMA AddedFacts ==
  ASSUME NEW n, NEW e, NEW f, NEW g, g = table_set(f, Only(n, e))
  PROVE  /\ DOMAIN g = DOMAIN f \cup {n} /\ g[n] = e
         /\ \A x \in DOMAIN f : x # n => g[x] = f[x]
BY DEF table_set, Only

\* What the engine's types accept, Lua's have: but for numbers too large.
LEMMA CompatibleReads ==
  ASSUME NEW v, NEW t, variant_types_compatible(v.type, t), v \notin Big
  PROVE  lua_is(v, t)
<1>1. v.type = t \/ {v.type, t} \in Convertible
  BY DEF variant_types_compatible
<1>2. CASE v.type = t
  BY <1>2 DEF lua_is, LuaNumber, StringTypes
<1>3. ASSUME NEW x, NEW y, {v.type, t} = {x, y}
      PROVE  (v.type = x /\ t = y) \/ (v.type = y /\ t = x)
  <2>1. v.type \in {x, y} /\ t \in {x, y} /\ x \in {v.type, t} /\ y \in {v.type, t}
    BY <1>3
  <2> QED BY <2>1
<1>4. CASE {v.type, t} \in Convertible
  <2>1. \/ (v.type = "float" /\ t = "int") \/ (v.type = "int" /\ t = "float")
        \/ (v.type = "nil" /\ t = "object") \/ (v.type = "object" /\ t = "nil")
        \/ (v.type = "string" /\ t = "node_path") \/ (v.type = "node_path" /\ t = "string")
        \/ (v.type = "string" /\ t = "string_name") \/ (v.type = "string_name" /\ t = "string")
    BY <1>3, <1>4 DEF Convertible
  <2> QED BY <2>1 DEF lua_is, LuaNumber, StringTypes
<1> QED BY <1>1, <1>2, <1>4

\* set, from the engine or from Lua.
LEMMA SetEffect ==
  ASSUME ReadInv, Running, NEW op, NEW n, NEW value, set(op, n, value)
  PROVE  Same \/ Stored(n, value)
<1>1. PICK ends \in [Asked(n, "_Set") -> SetEnds] :
        LET k == Settling(n, {i \in DOMAIN ends : SetSettles(ends[i])})
        IN  \E end \in Ends(SetEnds, k \in Declaring(n)) : set_with(op, k, n, value, SetResult(k, n, value, ends, end))
  BY DEF set
<1> DEFINE S == {i \in DOMAIN ends : SetSettles(ends[i])}
           k == Settling(n, S)
<1>2. PICK end : set_with(op, k, n, value, SetResult(k, n, value, ends, end))
  BY <1>1
<1>3. S \in SUBSET (DOMAIN classes)
  BY DEF Asked, Defining
<1>4. UNCHANGED <<classes, stage, in_init>> /\ (in_init \/ stage = 0)
  BY DEF Running
<1> DEFINE result == SetResult(k, n, value, ends, end)
<1> HIDE DEF k, S
<1>5. CASE ~Stores(k, n, result)
  BY <1>2, <1>4, <1>5 DEF set_with, Same
<1>6. CASE Stores(k, n, result)
  <2>1. k \in Declaring(n) /\ property(k, n).setter = None /\ result = "ok"
    BY <1>6 DEF Stores
  <2>2. k = get_property(n) /\ get_property(n) # 0
    BY <1>3, <2>1, SettlingFacts DEF k
  <2>3. SetDeclared(property(k, n), value, end) = "ok"
    BY <2>1, <2>2 DEF SetResult
  <2>4. variant_types_compatible(value.type, property(k, n).property.type) /\ Plain(property(k, n))
    BY <2>1, <2>3 DEF SetDeclared, Plain
  <2>5. /\ table' = table_set(table, Only(n, value))
        /\ kept' = table_set(kept, Only(n, [value |-> value, at |-> stage]))
    BY <1>2, <1>6 DEF set_with
  <2> QED BY <1>4, <2>2, <2>4, <2>5 DEF Stored
<1> QED BY <1>5, <1>6

\* Lua assigns to the object.
LEMMA NewIndexEffect ==
  ASSUME ReadInv, Running, NEW n, NEW value, NEW same_vm, luaGD_class_newindex(n, value, same_vm)
  PROVE  Same \/ (\E v : Stored(n, v)) \/ Scribbled(n, value)
<1> DEFINE k == get_property(n)
<1>1. UNCHANGED <<classes, stage, in_init>>
  BY DEF Running
<1>2. \A result : LuaResult("newindex", n, result, value) => Same
  BY <1>1 DEF LuaResult, Same
<1>3. CASE k # 0
  <2>1. NewIndexProperty(k, n, value)
    BY <1>3 DEF luaGD_class_newindex
  <2>2. \/ \E result : LuaResult("newindex", n, result, value)
        \/ \E v : set("newindex", n, v)
    BY <2>1 DEF NewIndexProperty
  <2> QED BY <1>2, <2>2, SetEffect
<1>4. CASE k = 0
  <2>1. \/ \E result : LuaResult("newindex", n, result, value)
        \/ table' = table_set(table, Only(n, value)) /\ UNCHANGED kept
    BY <1>4 DEF luaGD_class_newindex
  <2> QED BY <1>1, <1>2, <1>4, <2>1 DEF Scribbled
<1> QED BY <1>3, <1>4

\* Every step leaves the table, writes one entry, or constructs the next class.
LEMMA StepEffect ==
  ASSUME ReadInv, [Next]_vars
  PROVE  Same \/ (\E n, v : Stored(n, v) \/ Scribbled(n, v)) \/ InitDefaults \/ EndInit
<1>1. Return \/ UNCHANGED vars => Same
  BY DEF Return, Same, vars
<1>2. ASSUME EngineSet PROVE Same \/ \E n, v : Stored(n, v)
  <2>1. Running /\ \E n, v : set("set", n, v)
    BY <1>2 DEF EngineSet
  <2> QED BY <2>1, SetEffect
<1>3. ASSUME LuaNewIndex PROVE Same \/ \E n, v : Stored(n, v) \/ Scribbled(n, v)
  <2>1. Running /\ \E n, v, vm : luaGD_class_newindex(n, v, vm)
    BY <1>3 DEF LuaNewIndex
  <2> QED BY <2>1, NewIndexEffect
<1>4. Running /\ UNCHANGED <<table, kept>> => Same
  BY DEF Running, Same
<1>5. \A op, n : get(op, n) => UNCHANGED <<table, kept>>
  BY DEF get, get_with
<1>6. \A op, k, n, m, a, e : call(op, k, n, m, a, e) => UNCHANGED <<table, kept>>
  BY DEF call
<1>7. \A op, n, r, v : LuaResult(op, n, r, v) => UNCHANGED <<table, kept>>
  BY DEF LuaResult
<1>8. EngineGet \/ EngineCall \/ luaGD_crossvm_call => Same
  BY <1>4, <1>5, <1>6 DEF EngineGet, EngineCall, luaGD_crossvm_call
<1>9. notification \/ to_string \/ property_can_revert \/ property_get_revert \/ get_property_list => Same
  BY <1>4 DEF notification, to_string, property_can_revert, property_get_revert, Ask, get_property_list
<1>10. LuaIndex => Same
  <2>1. \A k, n : IndexProperty(k, n) => UNCHANGED <<table, kept>>
    BY <1>5, <1>7 DEF IndexProperty
  <2>2. \A n, vm : luaGD_class_index(n, vm) => UNCHANGED <<table, kept>>
    BY <1>7, <2>1 DEF luaGD_class_index
  <2> QED BY <1>4, <2>2 DEF LuaIndex
<1> QED BY <1>1, <1>2, <1>3, <1>8, <1>9, <1>10 DEF Next

----------------------------------------------------------------------------
(* The table keeps what was accepted.                                          *)

\* The classes stay as they are, and so does what is found in them.
LEMMA ClassesStay ==
  ASSUME classes' = classes
  PROVE  /\ ReadInv => ReadInv'
         /\ \A n : Declaring(n)' = Declaring(n) /\ get_property(n)' = get_property(n)
         /\ \A k, n : property(k, n)' = property(k, n)
<1>1. ReadInv => ReadInv'
  BY DEF ReadInv
<1>2. \A n : Declaring(n)' = Declaring(n)
  BY DEF Declaring, definition
<1>3. \A n : get_property(n)' = get_property(n)
  BY <1>2 DEF get_property
<1>4. \A k, n : property(k, n)' = property(k, n)
  BY DEF property, definition
<1> QED BY <1>1, <1>2, <1>3, <1>4

LEMMA SameKeeps ==
  ASSUME TableInv, Same
  PROVE  TableInv'
<1>1. ReadInv' /\ StageInv'
  BY ClassesStay DEF TableInv, Same, StageInv
<1>2. KeptInv' /\ KeptAsSet'
  BY ClassesStay DEF TableInv, Same, KeptInv, KeptAsSet, Entry
<1>3. AcceptedIsReadable' /\ DefaultsKept'
  BY ClassesStay DEF TableInv, Same, AcceptedIsReadable, DefaultsKept, Entry, Initialised
<1> QED BY <1>1, <1>2, <1>3 DEF TableInv

\* An accepted value is of the type of the property, and what its classes keep.
LEMMA StoredKeeps ==
  ASSUME TableInv, NEW n, NEW v, Stored(n, v)
  PROVE  TableInv'
<1> DEFINE new == [value |-> v, at |-> stage]
<1>1. classes' = classes /\ stage' = stage /\ in_init' = in_init /\ ReadInv
  BY DEF Stored, TableInv
<1>2. /\ DOMAIN table' = DOMAIN table \cup {n} /\ table'[n] = v
      /\ \A x \in DOMAIN table : x # n => table'[x] = table[x]
  <2>1. table' = table_set(table, Only(n, v))
    BY DEF Stored
  <2> QED BY <2>1 DEF table_set, Only
<1>3. /\ DOMAIN kept' = DOMAIN kept \cup {n} /\ kept'[n] = new
      /\ \A x \in DOMAIN kept : x # n => kept'[x] = kept[x]
  <2>1. kept' = table_set(kept, Only(n, new))
    BY DEF Stored
  <2> HIDE DEF new
  <2> QED BY <2>1 DEF table_set, Only
<1>4. Entry(n)' = v /\ \A x : x # n => Entry(x)' = Entry(x)
  BY <1>2 DEF Entry
<1>5. ReadInv' /\ StageInv'
  BY <1>1, ClassesStay DEF TableInv, StageInv
<1>6. KeptInv'
  <2> SUFFICES ASSUME NEW x \in DOMAIN kept'
               PROVE  /\ x \in DOMAIN table' /\ Declaring(x) # {}
                      /\ kept'[x].at \in Nat /\ kept'[x].at >= stage /\ (kept'[x].at = stage => in_init \/ stage = 0)
    BY <1>1, ClassesStay DEF KeptInv
  <2>1. CASE x = n
    <3>1. stage \in Nat
      BY <1>1 DEF TableInv, StageInv, ReadInv
    <3>2. Declaring(n) # {}
      BY <1>1, PropertyFacts DEF Stored
    <3> QED BY <1>2, <1>3, <2>1, <3>1, <3>2 DEF Stored
  <2>2. CASE x # n
    BY <1>2, <1>3, <2>2 DEF TableInv, KeptInv
  <2> QED BY <2>1, <2>2
<1>7. KeptAsSet'
  <2> SUFFICES ASSUME NEW x \in DOMAIN kept', Declaring(x) \subseteq kept'[x].at .. Len(classes)
               PROVE  Entry(x)' = kept'[x].value
    BY <1>1, ClassesStay DEF KeptAsSet
  <2>1. CASE x = n
    BY <1>3, <1>4, <2>1
  <2>2. CASE x # n
    BY <1>3, <1>4, <2>2 DEF TableInv, KeptAsSet
  <2> QED BY <2>1, <2>2
<1>8. AcceptedIsReadable'
  <2> SUFFICES ASSUME NEW x \in Names, NEW k \in {get_property(x)} \ {0},
                      Initialised(k), Plain(property(k, x)), Entry(x)' \notin Big
               PROVE  lua_is(Entry(x)', property(k, x).property.type)
    BY <1>1, ClassesStay DEF AcceptedIsReadable, Initialised
  <2>1. CASE x = n
    <3>1. variant_types_compatible(v.type, property(k, n).property.type) /\ v \notin Big
      BY <1>4, <2>1 DEF Stored
    <3> QED BY <1>4, <2>1, <3>1, CompatibleReads
  <2>2. CASE x # n
    BY <1>4, <2>2 DEF TableInv, AcceptedIsReadable
  <2> QED BY <2>1, <2>2
<1>9. DefaultsKept'
  <2> SUFFICES ASSUME NEW x \in Names \ DOMAIN kept', NEW k \in {get_property(x)} \ {0},
                      Initialised(k), Plain(property(k, x))
               PROVE  Entry(x)' = property(k, x).default_value
    BY <1>1, ClassesStay DEF DefaultsKept, Initialised
  <2>1. x # n /\ x \in Names \ DOMAIN kept
    BY <1>3
  <2> QED BY <1>4, <2>1 DEF TableInv, DefaultsKept
<1> QED BY <1>5, <1>6, <1>7, <1>8, <1>9 DEF TableInv

\* What Lua writes to a name without a meaning is of no property.
LEMMA ScribbledKeeps ==
  ASSUME TableInv, NEW n, NEW v, Scribbled(n, v)
  PROVE  TableInv'
<1>1. classes' = classes /\ stage' = stage /\ in_init' = in_init /\ kept' = kept /\ ReadInv
  BY DEF Scribbled, TableInv
<1>2. /\ DOMAIN table' = DOMAIN table \cup {n}
      /\ \A x \in DOMAIN table : x # n => table'[x] = table[x]
  <2>1. table' = table_set(table, Only(n, v))
    BY DEF Scribbled
  <2> QED BY <2>1 DEF table_set, Only
<1>3. \A x : x # n => Entry(x)' = Entry(x)
  BY <1>2 DEF Entry
<1>4. get_property(n) = 0 /\ Declaring(n) = {}
  BY <1>1, PropertyFacts DEF Scribbled
<1>5. n \notin DOMAIN kept
  BY <1>4 DEF TableInv, KeptInv
<1>6. ReadInv' /\ StageInv'
  BY <1>1, ClassesStay DEF TableInv, StageInv
<1>7. KeptInv'
  BY <1>1, <1>2, ClassesStay DEF TableInv, KeptInv
<1>8. KeptAsSet'
  <2> SUFFICES ASSUME NEW x \in DOMAIN kept, Declaring(x) \subseteq kept[x].at .. Len(classes)
               PROVE  Entry(x)' = kept[x].value
    BY <1>1, ClassesStay DEF KeptAsSet
  <2> QED BY <1>3, <1>5 DEF TableInv, KeptAsSet
<1>9. AcceptedIsReadable'
  <2> SUFFICES ASSUME NEW x \in Names, NEW k \in {get_property(x)} \ {0},
                      Initialised(k), Plain(property(k, x)), Entry(x)' \notin Big
               PROVE  lua_is(Entry(x)', property(k, x).property.type)
    BY <1>1, ClassesStay DEF AcceptedIsReadable, Initialised
  <2>1. x # n
    BY <1>4
  <2> QED BY <1>3, <2>1 DEF TableInv, AcceptedIsReadable
<1>10. DefaultsKept'
  <2> SUFFICES ASSUME NEW x \in Names \ DOMAIN kept, NEW k \in {get_property(x)} \ {0},
                      Initialised(k), Plain(property(k, x))
               PROVE  Entry(x)' = property(k, x).default_value
    BY <1>1, ClassesStay DEF DefaultsKept, Initialised
  <2>1. x # n
    BY <1>4
  <2> QED BY <1>3, <2>1 DEF TableInv, DefaultsKept
<1> QED BY <1>6, <1>7, <1>8, <1>9, <1>10 DEF TableInv

----------------------------------------------------------------------------
(* Construction: a class after its base.                                       *)

\* The part of a class is constructed by its defaults, and all derived from it
\* are still to come.
LEMMA InitDefaultsKeeps ==
  ASSUME TableInv, InitDefaults
  PROVE  TableInv'
<1>1. classes' = classes /\ kept' = kept /\ ReadInv /\ stage \in DOMAIN classes /\ ~in_init
  BY DEF InitDefaults, TableInv, ReadInv, StageInv
<1>2. stage \in 1..Len(classes) /\ Len(classes) \in Nat
  BY <1>1 DEF ReadInv
<1>3. in_init' \in BOOLEAN /\ stage' = (IF in_init' THEN stage ELSE stage - 1)
  BY DEF InitDefaults
<1>4. \A i \in Nat : /\ Initialised(i)' <=> i >= stage
                     /\ Initialised(i) <=> i > stage
  BY <1>1, <1>2, <1>3 DEF Initialised
<1>5. table' = table_set(table, Defaults(stage))
  BY DEF InitDefaults
<1>6. DOMAIN table' = DOMAIN table \cup DOMAIN Defaults(stage)
  BY <1>5 DEF table_set
<1>7. \A x : x \in DOMAIN Defaults(stage) <=> stage \in Declaring(x) /\ Plain(property(stage, x))
  BY <1>1 DEF Defaults, Declaring
<1>8. \A x : stage \notin Declaring(x) => Entry(x)' = Entry(x)
  <2>1. ASSUME NEW x, stage \notin Declaring(x) PROVE Entry(x)' = Entry(x)
    <3>1. x \notin DOMAIN Defaults(stage)
      BY <1>7, <2>1
    <3> HIDE DEF Defaults
    <3> QED BY <1>5, <1>6, <3>1 DEF table_set, Entry
  <2> QED BY <2>1
<1>9. \A x : stage \in Declaring(x) /\ Plain(property(stage, x)) => Entry(x)' = property(stage, x).default_value
  <2>1. ASSUME NEW x, stage \in Declaring(x) /\ Plain(property(stage, x))
        PROVE  Entry(x)' = property(stage, x).default_value
    <3>1. x \in DOMAIN Defaults(stage)
      BY <1>7, <2>1
    <3>2. Defaults(stage)[x] = property(stage, x).default_value
      BY <1>1, <2>1 DEF Defaults, Declaring
    <3>3. x \in DOMAIN table' /\ table'[x] = Defaults(stage)[x]
      BY <1>5, <3>1 DEF table_set
    <3> QED BY <3>2, <3>3 DEF Entry
  <2> QED BY <2>1
<1>10. \A x : stage \in Declaring(x) =>
          (Plain(property(stage, x)) /\ property(stage, x).default_value \notin Big
                => lua_is(property(stage, x).default_value, property(stage, x).property.type))
  <2>1. WellRead(classes[stage])
    BY <1>1 DEF ReadInv
  <2>2. ASSUME NEW x, stage \in Declaring(x)
        PROVE  definition(stage).property_indices[x] \in Range(definition(stage).property_indices)
    BY <2>2 DEF Declaring, Range
  <2> QED BY <2>1, <2>2 DEF WellRead, property, definition
<1>11. ReadInv' /\ StageInv'
  BY <1>1, <1>2, <1>3, ClassesStay DEF StageInv
<1>12. KeptInv'
  <2> SUFFICES ASSUME NEW x \in DOMAIN kept
               PROVE  /\ x \in DOMAIN table' /\ Declaring(x) # {}
                      /\ kept[x].at \in Nat /\ kept[x].at >= stage' /\ (kept[x].at = stage' => in_init' \/ stage' = 0)
    BY <1>1, ClassesStay DEF KeptInv
  <2>1. /\ x \in DOMAIN table /\ Declaring(x) # {} /\ kept[x].at \in Nat /\ kept[x].at >= stage
        /\ (kept[x].at = stage => in_init \/ stage = 0)
    BY DEF TableInv, KeptInv
  <2> QED BY <1>1, <1>2, <1>3, <1>6, <2>1
<1>13. KeptAsSet'
  <2> SUFFICES ASSUME NEW x \in DOMAIN kept, Declaring(x) \subseteq kept[x].at .. Len(classes)
               PROVE  Entry(x)' = kept[x].value
    BY <1>1, ClassesStay DEF KeptAsSet
  <2>1. kept[x].at \in Nat /\ kept[x].at > stage
    BY <1>1, <1>2 DEF TableInv, KeptInv
  <2>2. stage \notin Declaring(x)
    BY <1>2, <2>1
  <2> QED BY <1>8, <2>2 DEF TableInv, KeptAsSet
<1>14. ASSUME NEW x, NEW k \in {get_property(x)} \ {0}, Initialised(k)'
       PROVE  \/ k = stage /\ stage \in Declaring(x)
              \/ Initialised(k) /\ Entry(x)' = Entry(x)
  <2>1. k \in Nat /\ k \in Declaring(x) /\ k >= stage /\ \A i \in Declaring(x) : k <= i
    BY <1>1, <1>4, <1>14, PropertyFacts
  <2>2. CASE k = stage
    BY <2>1, <2>2
  <2>3. CASE k > stage
    <3>1. stage \notin Declaring(x)
      BY <1>2, <2>1, <2>3
    <3> QED BY <1>4, <1>8, <2>1, <2>3, <3>1
  <2> QED BY <1>2, <2>1, <2>2, <2>3
<1>15. AcceptedIsReadable'
  <2> SUFFICES ASSUME NEW x \in Names, NEW k \in {get_property(x)} \ {0},
                      Initialised(k)', Plain(property(k, x)), Entry(x)' \notin Big
               PROVE  lua_is(Entry(x)', property(k, x).property.type)
    BY <1>1, ClassesStay DEF AcceptedIsReadable
  <2>1. CASE k = stage /\ stage \in Declaring(x)
    BY <1>9, <1>10, <2>1
  <2>2. CASE Initialised(k) /\ Entry(x)' = Entry(x)
    BY <2>2 DEF TableInv, AcceptedIsReadable
  <2> QED BY <1>14, <2>1, <2>2
<1>16. DefaultsKept'
  <2> SUFFICES ASSUME NEW x \in Names \ DOMAIN kept, NEW k \in {get_property(x)} \ {0},
                      Initialised(k)', Plain(property(k, x))
               PROVE  Entry(x)' = property(k, x).default_value
    BY <1>1, ClassesStay DEF DefaultsKept
  <2>1. CASE k = stage /\ stage \in Declaring(x)
    BY <1>9, <2>1
  <2>2. CASE Initialised(k) /\ Entry(x)' = Entry(x)
    BY <2>2 DEF TableInv, DefaultsKept
  <2> QED BY <1>14, <2>1, <2>2
<1> QED BY <1>11, <1>12, <1>13, <1>15, <1>16 DEF TableInv

LEMMA EndInitKeeps ==
  ASSUME TableInv, EndInit
  PROVE  TableInv'
<1>1. /\ classes' = classes /\ kept' = kept /\ table' = table /\ ReadInv
      /\ in_init /\ ~in_init' /\ stage' = stage - 1
  BY DEF EndInit, TableInv
<1>2. stage \in 1..Len(classes) /\ Len(classes) \in Nat
  BY <1>1 DEF TableInv, StageInv, ReadInv
<1>3. \A i \in Nat : Initialised(i)' <=> Initialised(i)
  BY <1>1, <1>2 DEF Initialised
<1>4. \A x : get_property(x) \in Nat /\ Entry(x)' = Entry(x)
  BY <1>1, PropertyFacts DEF Entry
<1>5. ReadInv' /\ StageInv'
  BY <1>1, <1>2, ClassesStay DEF StageInv
<1>6. KeptInv'
  <2> SUFFICES ASSUME NEW x \in DOMAIN kept
               PROVE  /\ x \in DOMAIN table /\ Declaring(x) # {}
                      /\ kept[x].at \in Nat /\ kept[x].at >= stage' /\ (kept[x].at = stage' => in_init' \/ stage' = 0)
    BY <1>1, ClassesStay DEF KeptInv
  <2>1. /\ x \in DOMAIN table /\ Declaring(x) # {} /\ kept[x].at \in Nat /\ kept[x].at >= stage
    BY DEF TableInv, KeptInv
  <2> QED BY <1>1, <1>2, <2>1
<1>7. KeptAsSet'
  BY <1>1, <1>4, ClassesStay DEF TableInv, KeptAsSet
<1>8. AcceptedIsReadable'
  <2> SUFFICES ASSUME NEW x \in Names, NEW k \in {get_property(x)} \ {0},
                      Initialised(k)', Plain(property(k, x)), Entry(x)' \notin Big
               PROVE  lua_is(Entry(x)', property(k, x).property.type)
    BY <1>1, ClassesStay DEF AcceptedIsReadable
  <2> QED BY <1>3, <1>4 DEF TableInv, AcceptedIsReadable
<1>9. DefaultsKept'
  <2> SUFFICES ASSUME NEW x \in Names \ DOMAIN kept, NEW k \in {get_property(x)} \ {0},
                      Initialised(k)', Plain(property(k, x))
               PROVE  Entry(x)' = property(k, x).default_value
    BY <1>1, ClassesStay DEF DefaultsKept
  <2> QED BY <1>3, <1>4 DEF TableInv, DefaultsKept
<1> QED BY <1>5, <1>6, <1>7, <1>8, <1>9 DEF TableInv

LEMMA FunctionIsSeq ==
  ASSUME NEW n \in Nat, NEW f, f = [i \in 1..n |-> f[i]]
  PROVE  f \in Seq(Range(f)) /\ Len(f) = n /\ DOMAIN f = 1..n
<1>1. DOMAIN f = 1..n /\ \A i \in 1..n : f[i] \in Range(f)
  BY DEF Range
<1>2. f \in [1..n -> Range(f)]
  BY <1>1
<1> QED BY <1>1, <1>2, LenProperties

LEMMA InitTable ==
  ASSUME Init
  PROVE  TableInv /\ last = None_op
<1>1. PICK script \in Scripts :
        classes = [i \in DOMAIN script |-> Loaded(script[i], ReadClass(script[i].text, script[i].moves))]
  BY DEF Init
<1>2. Len(script) \in Nat /\ DOMAIN script = 1..Len(script)
  BY ScriptsAreRead, LenProperties
<1>3. classes = [i \in 1..Len(script) |-> classes[i]]
  BY <1>1, <1>2
<1>4. Len(classes) = Len(script) /\ DOMAIN classes = 1..Len(script)
  BY <1>2, <1>3, FunctionIsSeq
<1>5. ASSUME NEW i \in DOMAIN classes PROVE WellRead(classes[i])
  <2>1. script[i] \in Range(script) /\ classes[i] = Loaded(script[i], ReadClass(script[i].text, script[i].moves))
    BY <1>1, <1>2, <1>4 DEF Range
  <2> QED BY <2>1, ScriptsAreRead
<1>6. ReadInv
  BY <1>2, <1>4, <1>5 DEF ReadInv
<1>7. stage = Len(classes) /\ ~in_init /\ table = NoTable /\ kept = NoTable
  BY DEF Init
<1>8. StageInv
  BY <1>6, <1>7 DEF StageInv, ReadInv
<1>9. KeptInv /\ KeptAsSet
  BY <1>7 DEF KeptInv, KeptAsSet, NoTable
<1>10. \A x : \A k \in {get_property(x)} \ {0} : ~Initialised(k)
  <2>1. \A x : \A k \in {get_property(x)} \ {0} : k \in 1..Len(classes)
    BY <1>6, PropertyFacts DEF ReadInv
  <2> QED BY <1>2, <1>4, <1>7, <2>1 DEF Initialised
<1>11. AcceptedIsReadable /\ DefaultsKept
  BY <1>10 DEF AcceptedIsReadable, DefaultsKept
<1>12. last = None_op
  BY DEF Init
<1> QED BY <1>6, <1>8, <1>9, <1>11, <1>12 DEF TableInv

LEMMA TableKept ==
  ASSUME TableInv, [Next]_vars
  PROVE  TableInv'
<1>1. Same \/ (\E n, v : Stored(n, v) \/ Scribbled(n, v)) \/ InitDefaults \/ EndInit
  BY StepEffect DEF TableInv
<1> QED BY <1>1, SameKeeps, StoredKeeps, ScribbledKeeps, InitDefaultsKeeps, EndInitKeeps

----------------------------------------------------------------------------
(* Calls.                                                                      *)

\* Calls of one function for several classes, and then one of another.
LEMMA ConcatCalls ==
  ASSUME NEW n \in Nat, NEW e, NEW f, NEW D, n > 0 => e.class \in D,
         NEW t, t = <<>> \/ (t = <<f>> /\ f.class \in D),
         NEW s, s = [i \in 1..n |-> e] \o t
  PROVE  \A i \in DOMAIN s : s[i].class \in D
<1> DEFINE S == {c \in {e, f} : c.class \in D}
           r == [i \in 1..n |-> e]
<1>1. r \in Seq(S)
  <2>1. \A i \in 1..n : e \in S
    BY DEF S
  <2>2. r \in [1..n -> S]
    BY <2>1
  <2> HIDE DEF r, S
  <2> QED BY <2>2
<1>2. t \in Seq(S)
  <2>1. CASE t = <<>>
    BY <2>1
  <2>2. CASE t = <<f>> /\ f.class \in D
    <3>1. f \in S
      BY <2>2
    <3> HIDE DEF S
    <3> QED BY <2>2, <3>1
  <2> QED BY <2>1, <2>2
<1>3. s \in Seq(S)
  <2>1. s = r \o t
    OBVIOUS
  <2> HIDE DEF r, S
  <2> QED BY <1>1, <1>2, <2>1, ConcatProperties
<1>4. \A i \in DOMAIN s : s[i] \in S
  <2> HIDE DEF S
  <2> QED BY <1>3, ElementOfSeq, LenProperties
<1> QED BY <1>4

\* The classes asked about a property have the function.
LEMMA WayFacts ==
  ASSUME ReadInv, NEW n, NEW function, NEW args, NEW k
  PROVE  \E m \in Nat : /\ CallsOnWay(n, function, args, k) = [i \in 1..m |-> call_internal(function, args)]
                        /\ m > 0 => Defining(function) # {}
<1> DEFINE passed == {i \in Asked(n, function) : k = 0 \/ i <= k}
<1>1. passed \subseteq Defining(function) /\ Defining(function) \subseteq 1..Len(classes) /\ Len(classes) \in Nat
  BY DEF Asked, Defining, ReadInv
<1>2. IsFiniteSet(passed)
  <2>1. IsFiniteSet(1..Len(classes))
    BY <1>1, FS_Interval
  <2> HIDE DEF passed
  <2>2. passed \subseteq 1..Len(classes)
    BY <1>1
  <2> QED BY <2>1, <2>2, FS_Subset
<1>3. Cardinality(passed) \in Nat /\ (Cardinality(passed) = 0 <=> passed = {})
  BY <1>2, FS_CardinalityType, FS_EmptySet
<1>4. CallsOnWay(n, function, args, k) = [i \in 1..Cardinality(passed) |-> call_internal(function, args)]
  BY DEF CallsOnWay
<1> HIDE DEF passed
<1> DEFINE m == Cardinality(passed)
<1>5. m \in Nat /\ (m > 0 => Defining(function) # {})
  BY <1>1, <1>3
<1> HIDE DEF m
<1>6. CallsOnWay(n, function, args, k) = [i \in 1..m |-> call_internal(function, args)]
  BY <1>4 DEF m
<1> QED BY <1>5, <1>6

LEMMA DefiningCount ==
  ASSUME ReadInv, NEW function
  PROVE  Cardinality(Defining(function)) \in Nat /\ (Cardinality(Defining(function)) > 0 => Defining(function) # {})
<1>1. Defining(function) \subseteq 1..Len(classes) /\ Len(classes) \in Nat
  BY DEF Defining, ReadInv
<1>2. IsFiniteSet(Defining(function))
  <2>1. IsFiniteSet(1..Len(classes))
    BY <1>1, FS_Interval
  <2> QED BY <1>1, <2>1, FS_Subset
<1> QED BY <1>2, FS_CardinalityType, FS_EmptySet

LEMMA CallClass ==
  ASSUME ReadInv, NEW function, NEW args, Defining(function) # {}
  PROVE  call_internal(function, args).class \in DOMAIN classes
BY DefiningFacts DEF call_internal

\* The arguments that were given, then the last of the defaults.
Filled(method, args, w) ==
  /\ \A i \in 1..Len(args) : w[i] = args[i]
  /\ Len(args) <= Len(method.arguments) =>
        /\ Len(w) = Len(method.arguments)
        /\ \A i \in 0..(Len(method.arguments) - Len(args) - 1) :
              w[Len(w) - i] = method.default_arguments[Len(method.default_arguments) - i]

\* The defaults make up for the arguments that were not given.
LEMMA WithDefaultsFacts ==
  ASSUME NEW S, NEW D, NEW A, NEW method, NEW args \in Seq(S),
         method.default_arguments \in Seq(D), method.arguments \in Seq(A),
         Len(args) + Len(method.default_arguments) >= Len(method.arguments),
         NEW w, w = WithDefaults(method, args)
  PROVE  w \in Seq(S \cup D) /\ Filled(method, args, w)
<1> DEFINE d == method.default_arguments
           n == Len(args)
           m == Len(method.arguments)
           from == n + Len(d) - m + 1
           rest == SubSeq(d, from, Len(d))
<1>1. n \in Nat /\ m \in Nat /\ Len(d) \in Nat /\ n + Len(d) >= m
  BY LenProperties
<1>2. from \in Int /\ from >= 1
  BY <1>1
<1>3. \A i \in from..Len(d) : d[i] \in D
  <2>1. \A i \in 1..Len(d) : d[i] \in D
    BY ElementOfSeq
  <2> QED BY <1>1, <1>2, <2>1
<1>4. /\ rest \in Seq(D) /\ Len(rest) = (IF from <= Len(d) THEN Len(d) - from + 1 ELSE 0)
      /\ \A i \in 1..(Len(d) - from + 1) : rest[i] = d[from + i - 1]
  <2> HIDE DEF from, d
  <2> QED BY <1>1, <1>2, <1>3, SubSeqProperties DEF d
<1>5. args \in Seq(S \cup D) /\ rest \in Seq(S \cup D)
  <2> HIDE DEF rest
  <2> QED BY <1>4, SeqMonotonic
<1>6. w = args \o rest
  BY DEF WithDefaults
<1> HIDE DEF rest
<1>7. /\ w \in Seq(S \cup D) /\ Len(w) = n + Len(rest)
      /\ \A i \in 1..(n + Len(rest)) : w[i] = (IF i <= n THEN args[i] ELSE rest[i - n])
  BY <1>5, <1>6, ConcatProperties
<1>8. Len(rest) \in Nat
  BY <1>4, LenProperties
<1>9. \A i \in 1..n : w[i] = args[i]
  <2> HIDE DEF n
  <2> QED BY <1>1, <1>7, <1>8
<1>10. ASSUME n <= m
       PROVE  Len(w) = m /\ \A i \in 0..(m - n - 1) : w[Len(w) - i] = d[Len(d) - i]
  <2> HIDE DEF n, m, d
  <2>1. Len(rest) = m - n /\ Len(w) = m
    BY <1>1, <1>4, <1>7, <1>10
  <2>2. ASSUME NEW i \in 0..(m - n - 1) PROVE w[m - i] = d[Len(d) - i]
    <3>1. w[m - i] = rest[m - i - n]
      BY <1>1, <1>7, <1>10, <2>1
    <3>2. rest[m - i - n] = d[from + (m - i - n) - 1]
      BY <1>1, <1>4, <1>10
    <3>3. from + (m - i - n) - 1 = Len(d) - i
      BY <1>1
    <3> QED BY <3>1, <3>2, <3>3
  <2> QED BY <2>1, <2>2
<1> QED BY <1>7, <1>9, <1>10 DEF Filled

\* set calls what the classes define: the setter, if one of them has it.
LEMMA SetAnswered ==
  ASSUME ReadInv, Running, NEW op, NEW n, NEW value, set(op, n, value)
  PROVE  CallsAnswered' /\ last'.op = op
<1>1. PICK ends \in [Asked(n, "_Set") -> SetEnds] :
        LET k == Settling(n, {i \in DOMAIN ends : SetSettles(ends[i])})
        IN  \E end \in Ends(SetEnds, k \in Declaring(n)) : set_with(op, k, n, value, SetResult(k, n, value, ends, end))
  BY DEF set
<1> DEFINE k == Settling(n, {i \in DOMAIN ends : SetSettles(ends[i])})
<1>2. PICK end : set_with(op, k, n, value, SetResult(k, n, value, ends, end))
  BY <1>1
<1> DEFINE result == SetResult(k, n, value, ends, end)
           setter == property(k, n).setter
           called == k \in Declaring(n) /\ setter # None /\ result \in {"ok", "set_failed"}
           t == IF called THEN <<call_internal(setter, <<value>>)>> ELSE <<>>
<1> HIDE DEF k
<1>3. last'.op = op /\ last'.calls = SetCalls(k, n, value, result)
  BY <1>2 DEF set_with
<1>4. SetCalls(k, n, value, result) = CallsOnWay(n, "_Set", <<n, value>>, k) \o t
  BY DEF SetCalls
<1>5. called => Defining(setter) # {}
  <2> SUFFICES ASSUME called PROVE Defining(setter) # {}
    OBVIOUS
  <2>1. k # 0
    BY DEF Declaring, ReadInv
  <2>2. result = SetDeclared(property(k, n), value, end)
    BY <2>1 DEF SetResult
  <2> QED BY <2>2 DEF SetDeclared
<1>6. PICK m \in Nat : /\ CallsOnWay(n, "_Set", <<n, value>>, k) = [i \in 1..m |-> call_internal("_Set", <<n, value>>)]
                       /\ m > 0 => Defining("_Set") # {}
  <2> DEFINE a == <<n, value>>
  <2>1. \E m \in Nat : /\ CallsOnWay(n, "_Set", a, k) = [i \in 1..m |-> call_internal("_Set", a)]
                       /\ m > 0 => Defining("_Set") # {}
    <3> HIDE DEF a
    <3> QED BY WayFacts
  <2> QED BY <2>1
<1> DEFINE e == call_internal("_Set", <<n, value>>)
           f == call_internal(setter, <<value>>)
<1>7. m > 0 => e.class \in DOMAIN classes
  BY <1>6, CallClass
<1>8. t = <<>> \/ (t = <<f>> /\ f.class \in DOMAIN classes)
  BY <1>5, CallClass
<1>9. last'.calls = [i \in 1..m |-> e] \o t
  BY <1>3, <1>4, <1>6
<1> HIDE DEF e, f, t
<1>10. \A i \in DOMAIN last'.calls : last'.calls[i].class \in DOMAIN classes
  BY <1>7, <1>8, <1>9, ConcatCalls
<1>11. classes' = classes
  BY DEF Running
<1> QED BY <1>3, <1>10, <1>11 DEF CallsAnswered

LEMMA GetAnswered ==
  ASSUME ReadInv, Running, NEW op, NEW n, get(op, n)
  PROVE  CallsAnswered' /\ last'.op = op
<1>1. PICK ends \in [Asked(n, "_Get") -> GetEnds] :
        LET k == Settling(n, {i \in DOMAIN ends : GetSettles(ends[i])})
        IN  \E end \in Ends(GetEnds, k \in Declaring(n) /\ property(k, n).getter # None) :
                LET result == GetResult(k, n, ends, end)
                IN  get_with(op, k, n, result, IF result = "ok" THEN Got(k, n, ends, end) ELSE Nil)
  BY DEF get
<1> DEFINE k == Settling(n, {i \in DOMAIN ends : GetSettles(ends[i])})
<1>2. PICK end : get_with(op, k, n, GetResult(k, n, ends, end),
                          IF GetResult(k, n, ends, end) = "ok" THEN Got(k, n, ends, end) ELSE Nil)
  BY <1>1
<1> DEFINE result == GetResult(k, n, ends, end)
           getter == property(k, n).getter
           called == k \in Declaring(n) /\ getter # None /\ result # "not_found"
           t == IF called THEN <<call_internal(getter, <<>>)>> ELSE <<>>
<1> HIDE DEF k
<1>3. last'.op = op /\ last'.calls = CallsOnWay(n, "_Get", <<n>>, k) \o t
  BY <1>2 DEF get_with
<1>5. called => Defining(getter) # {}
  <2> SUFFICES ASSUME called PROVE Defining(getter) # {}
    OBVIOUS
  <2>1. k # 0
    BY DEF Declaring, ReadInv
  <2>2. result = GetDeclared(property(k, n), Entry(n), end)
    BY <2>1 DEF GetResult
  <2> QED BY <2>2 DEF GetDeclared
<1>6. PICK m \in Nat : /\ CallsOnWay(n, "_Get", <<n>>, k) = [i \in 1..m |-> call_internal("_Get", <<n>>)]
                       /\ m > 0 => Defining("_Get") # {}
  <2> DEFINE a == <<n>>
  <2>1. \E m \in Nat : /\ CallsOnWay(n, "_Get", a, k) = [i \in 1..m |-> call_internal("_Get", a)]
                       /\ m > 0 => Defining("_Get") # {}
    <3> HIDE DEF a
    <3> QED BY WayFacts
  <2> QED BY <2>1
<1> DEFINE e == call_internal("_Get", <<n>>)
           f == call_internal(getter, <<>>)
<1>7. m > 0 => e.class \in DOMAIN classes
  BY <1>6, CallClass
<1>8. t = <<>> \/ (t = <<f>> /\ f.class \in DOMAIN classes)
  BY <1>5, CallClass
<1>9. last'.calls = [i \in 1..m |-> e] \o t
  BY <1>3, <1>6
<1> HIDE DEF e, f, t
<1>10. \A i \in DOMAIN last'.calls : last'.calls[i].class \in DOMAIN classes
  BY <1>7, <1>8, <1>9, ConcatCalls
<1>11. classes' = classes
  BY DEF Running
<1> QED BY <1>3, <1>10, <1>11 DEF CallsAnswered

\* Calls that are not those of a method.
LEMMA OtherCalls ==
  ASSUME last'.op \notin {"call", "cross_call"}
  PROVE  CallArguments'
BY DEF CallArguments

\* The method that answers to a name is one of a class, whose functions it is.
LEMMA AnsweringFacts ==
  ASSUME ReadInv, NEW n, Answering(n) # 0
  PROVE  /\ Answering(n) \in DOMAIN classes /\ Registered(Answering(n), n) \in DOMAIN definition(Answering(n)).methods
         /\ Defining(Registered(Answering(n), n)) # {}
<1> DEFINE found == {i \in DOMAIN classes : Registered(i, n) # None}
<1>1. found \in SUBSET (1..Len(classes)) /\ Len(classes) \in Nat
  BY DEF ReadInv
<1>2. Answering(n) \in found
  <2> HIDE DEF found
  <2>1. Answering(n) = First(found)
    BY DEF Answering, found
  <2> QED BY <1>1, <2>1, FirstFacts
<1>3. \A i : Registered(i, n) # None => Registered(i, n) \in DOMAIN definition(i).methods
  <2> DEFINE pascal == IF n \in DOMAIN Pascal THEN Pascal[n] ELSE n
  <2> SUFFICES ASSUME NEW i, Registered(i, n) # None PROVE Registered(i, n) \in DOMAIN definition(i).methods
    OBVIOUS
  <2>1. CASE n \in DOMAIN definition(i).methods
    BY <2>1 DEF Registered
  <2>2. CASE n \notin DOMAIN definition(i).methods /\ pascal \in DOMAIN definition(i).methods
    BY <2>2 DEF Registered
  <2>3. CASE n \notin DOMAIN definition(i).methods /\ pascal \notin DOMAIN definition(i).methods
    BY <2>3 DEF Registered
  <2> QED BY <2>1, <2>2, <2>3
<1>4. Registered(Answering(n), n) \in DOMAIN definition(Answering(n)).methods
  BY <1>2, <1>3
<1>5. DOMAIN definition(Answering(n)).methods \subseteq classes[Answering(n)].methods
  BY <1>2 DEF ReadInv, WellRead, definition
<1> QED BY <1>2, <1>4, <1>5 DEF Defining

\* call, from the engine or from Lua.
LEMMA CallAnswered ==
  ASSUME ReadInv, Running, NEW op, NEW n, NEW S, NEW args \in Seq(S), NEW end, NEW k, k = Answering(n),
         call(op, k, n, MethodCalled(k, n), args, end)
  PROVE  CallsInv'
<1> DEFINE method == MethodCalled(k, n)
           refusal == CallRefusal(k, method, args)
           one == call_internal(Registered(k, n), WithDefaults(method, args))
<1>1. classes' = classes
  BY DEF Running
<1>2. /\ last'.class = k /\ last'.name = n /\ last'.args = args
      /\ last'.calls = (IF refusal = "ok" THEN <<one>> ELSE <<>>)
  BY DEF call
<1>3. CASE refusal # "ok"
  <2>1. last'.calls = <<>>
    BY <1>2, <1>3
  <2> QED BY <2>1 DEF CallsInv, CallArguments, CallsAnswered
<1>4. CASE refusal = "ok"
  <2>1. /\ k # 0 /\ ~(Len(args) + Len(method.default_arguments) < Len(method.arguments))
        /\ ~(Len(args) > Len(method.arguments))
        /\ \A i \in DOMAIN args : TakesAnything(method.arguments[i])
                                  \/ variant_types_compatible(args[i].type, method.arguments[i].type)
    <3> HIDE DEF method
    <3> QED BY <1>4 DEF CallRefusal
  <2>2. /\ k \in DOMAIN classes /\ Registered(k, n) \in DOMAIN definition(k).methods
        /\ Defining(Registered(k, n)) # {}
    BY <2>1, AnsweringFacts
  <2>3. method = definition(k).methods[Registered(k, n)] /\ method \in Range(definition(k).methods)
    BY <2>1, <2>2 DEF MethodCalled, Range
  <2>4. /\ method.arguments \in Seq(Range(method.arguments))
        /\ method.default_arguments \in Seq(Range(method.default_arguments))
    BY <2>2, <2>3 DEF ReadInv, WellRead, definition
  <2> DEFINE w == WithDefaults(method, args)
  <2>5. last'.calls = <<one>> /\ one.args = w /\ one.class \in DOMAIN classes
    BY <1>2, <1>4, <2>2, CallClass DEF call_internal
  <2>6. MethodCalled(k, n)' = method
    BY <1>1 DEF MethodCalled, definition, Registered
  <2>7. Len(args) \in Nat /\ DOMAIN args = 1..Len(args) /\ Len(method.arguments) \in Nat
        /\ Len(method.default_arguments) \in Nat
    <3> HIDE DEF method
    <3> QED BY <2>4, LenProperties
  <2>8. Len(args) + Len(method.default_arguments) >= Len(method.arguments) /\ Len(args) <= Len(method.arguments)
    <3> HIDE DEF method
    <3> QED BY <2>1, <2>7
  <2>9. /\ \A i \in 1..Len(args) : w[i] = args[i]
        /\ Len(w) = Len(method.arguments)
        /\ \A i \in 0..(Len(method.arguments) - Len(args) - 1) :
              w[Len(w) - i] = method.default_arguments[Len(method.default_arguments) - i]
    <3> HIDE DEF method
    <3>1. w = WithDefaults(method, args)
      OBVIOUS
    <3> DEFINE D == Range(method.default_arguments)
               A == Range(method.arguments)
    <3>2. method.default_arguments \in Seq(D) /\ method.arguments \in Seq(A)
      BY <2>4
    <3> HIDE DEF w, D, A
    <3>3. Filled(method, args, w)
      BY <2>8, <3>1, <3>2, WithDefaultsFacts
    <3> QED BY <2>8, <3>3 DEF Filled
  <2>10. CallsAnswered'
    <3> HIDE DEF one
    <3> QED BY <1>1, <2>5 DEF CallsAnswered
  <2>11. CallArguments'
    <3>1. last'.calls[1].args = w
      <4> HIDE DEF one, w
      <4> QED BY <2>5
    <3>2. MethodCalled(last.class, last.name)' = method
      BY <1>2, <2>6
    <3> HIDE DEF method, w
    <3> QED BY <1>2, <2>1, <2>7, <2>9, <3>1, <3>2 DEF CallArguments
  <2> QED BY <2>10, <2>11 DEF CallsInv
<1> QED BY <1>3, <1>4

\* A call from Lua: the arguments are read for the method of the name itself.
LEMMA CrossCallAnswered ==
  ASSUME ReadInv, luaGD_crossvm_call
  PROVE  CallsInv'
<1>1. PICK n \in Names, args \in Arguments, end \in CallEnds :
        LET k == get_method(n)
            method == definition(k).methods[n]
        IN  /\ k # 0
            /\ IF Refused(method, args)
               THEN /\ last' = [None_op EXCEPT !.op = "cross_call", !.name = n, !.class = k,
                                               !.args = args, !.result = "raised"]
                    /\ UNCHANGED <<table, kept>>
               ELSE LET answering == Answering(n)
                    IN  call("cross_call", answering, n, MethodCalled(answering, n),
                             ReadArguments(method, args), end)
  BY DEF luaGD_crossvm_call
<1>2. Running
  BY DEF luaGD_crossvm_call
<1> DEFINE k == get_method(n)
           method == definition(k).methods[n]
           having == {i \in DOMAIN classes : n \in DOMAIN definition(i).methods}
<1>3. k \in DOMAIN classes /\ n \in DOMAIN definition(k).methods
  <2>1. having \in SUBSET (1..Len(classes)) /\ Len(classes) \in Nat
    BY DEF ReadInv
  <2>2. k = First(having) /\ k # 0
    BY <1>1 DEF get_method
  <2> HIDE DEF having, k
  <2>3. k \in having
    BY <2>1, <2>2, FirstFacts
  <2> QED BY <2>3 DEF having
<1>4. CASE Refused(method, args)
  <2>1. last'.calls = <<>>
    BY <1>1, <1>4 DEF None_op
  <2> QED BY <2>1 DEF CallsInv, CallArguments, CallsAnswered
<1>5. CASE ~Refused(method, args)
  <2>1. method \in Range(definition(k).methods)
    BY <1>3 DEF Range
  <2> DEFINE D == Range(method.default_arguments)
             A == Range(method.arguments)
             read == [i \in DOMAIN args |-> IF i \in DOMAIN method.arguments
                                            THEN lua_check(args[i], method.arguments[i].type) ELSE args[i]]
             R == Range(read)
  <2>2. method.arguments \in Seq(A) /\ method.default_arguments \in Seq(D)
    BY <1>3, <2>1 DEF ReadInv, WellRead, definition
  <2>3. Len(args) \in Nat /\ DOMAIN args = 1..Len(args)
    BY ArgumentsAreLists, LenProperties
  <2>4. read \in Seq(R) /\ Len(read) = Len(args)
    <3>1. read = [i \in 1..Len(args) |-> read[i]]
      BY <2>3
    <3> HIDE DEF read
    <3> QED BY <2>3, <3>1, FunctionIsSeq
  <2>5. Len(read) + Len(method.default_arguments) >= Len(method.arguments)
    <3>1. ~(Len(args) + Len(method.default_arguments) < Len(method.arguments))
      BY <1>5 DEF Refused
    <3>2. Len(method.arguments) \in Nat /\ Len(method.default_arguments) \in Nat
      <4> HIDE DEF method, A, D
      <4> QED BY <2>2, LenProperties
    <3> HIDE DEF method, read
    <3> QED BY <2>3, <2>4, <3>1, <3>2
  <2> DEFINE w == ReadArguments(method, args)
  <2>6. w = WithDefaults(method, read)
    BY DEF ReadArguments
  <2> DEFINE S == R \cup D
  <2>7. w \in Seq(S)
    <3> HIDE DEF w, method, read, R, A, D
    <3> QED BY <2>2, <2>4, <2>5, <2>6, WithDefaultsFacts
  <2>8. call("cross_call", Answering(n), n, MethodCalled(Answering(n), n), w, end)
    BY <1>1, <1>5
  <2> HIDE DEF w, S
  <2> QED BY <1>2, <2>7, <2>8, CallAnswered
<1> QED BY <1>4, <1>5

LEMMA CallsKept ==
  ASSUME ReadInv, CallsInv, [Next]_vars
  PROVE  CallsInv'
<1>1. ASSUME last' = last, classes' = classes PROVE CallsInv'
  <2>1. CallsAnswered'
    BY <1>1 DEF CallsInv, CallsAnswered
  <2>2. MethodCalled(last.class, last.name)' = MethodCalled(last.class, last.name)
    <3>1. Registered(last.class, last.name)' = Registered(last.class, last.name)
      BY <1>1 DEF Registered, definition
    <3> QED BY <1>1, <3>1 DEF MethodCalled, definition
  <2>3. CallArguments'
    <3> DEFINE method == MethodCalled(last.class, last.name)
    <3>1. method' = method
      BY <2>2
    <3> HIDE DEF method
    <3> QED BY <1>1, <3>1 DEF CallsInv, CallArguments, method
  <2> QED BY <2>1, <2>3 DEF CallsInv
<1>2. CASE UNCHANGED vars \/ InitDefaults \/ EndInit
  BY <1>1, <1>2 DEF vars, InitDefaults, EndInit
<1>3. ASSUME last'.calls = <<>> PROVE CallsInv'
  BY <1>3 DEF CallsInv, CallArguments, CallsAnswered
<1>4. CASE Return
  BY <1>3, <1>4 DEF Return, None_op
<1>5. CASE EngineSet
  <2>1. Running /\ \E n, v : set("set", n, v)
    BY <1>5 DEF EngineSet
  <2>2. CallsAnswered' /\ last'.op = "set"
    BY <2>1, SetAnswered
  <2> QED BY <2>2, OtherCalls DEF CallsInv
<1>6. CASE EngineGet
  <2>1. Running /\ \E n : get("get", n)
    BY <1>6 DEF EngineGet
  <2>2. CallsAnswered' /\ last'.op = "get"
    BY <2>1, GetAnswered
  <2> QED BY <2>2, OtherCalls DEF CallsInv
<1>7. CASE EngineCall
  <2>1. PICK n \in Names, args \in Arguments, end \in CallEnds :
           call("call", Answering(n), n, MethodCalled(Answering(n), n), args, end)
    BY <1>7 DEF EngineCall
  <2>2. Running /\ args \in Seq(Range(args))
    BY <1>7, ArgumentsAreLists DEF EngineCall
  <2> DEFINE S == Range(args)
  <2>3. args \in Seq(S)
    BY <2>2
  <2> HIDE DEF S
  <2> QED BY <2>1, <2>2, <2>3, CallAnswered
<1>8. CASE luaGD_crossvm_call
  BY <1>8, CrossCallAnswered
<1>9. \A op, n, r, v : LuaResult(op, n, r, v) => last'.calls = <<>>
  BY DEF LuaResult, None_op
<1>10. CASE LuaIndex
  <2>1. PICK n, vm : Running /\ luaGD_class_index(n, vm)
    BY <1>10 DEF LuaIndex
  <2>2. \/ \E op, m, r, v : LuaResult(op, m, r, v)
        \/ get("index", n)
    <3>1. IndexProperty(get_property(n), n) => (\E op, m, r, v : LuaResult(op, m, r, v)) \/ get("index", n)
      BY DEF IndexProperty
    <3> QED BY <2>1, <3>1 DEF luaGD_class_index
  <2>3. CASE \E op, m, r, v : LuaResult(op, m, r, v)
    BY <1>3, <1>9, <2>3
  <2>4. CASE get("index", n)
    <3>1. CallsAnswered' /\ last'.op = "index"
      BY <2>1, <2>4, GetAnswered
    <3> QED BY <3>1, OtherCalls DEF CallsInv
  <2> QED BY <2>2, <2>3, <2>4
<1>11. CASE LuaNewIndex
  <2>1. PICK n, v, vm : Running /\ luaGD_class_newindex(n, v, vm)
    BY <1>11 DEF LuaNewIndex
  <2>2. \/ \E op, m, r, w : LuaResult(op, m, r, w)
        \/ \E w : set("newindex", n, w)
        \/ last' = [None_op EXCEPT !.op = "newindex", !.name = n, !.result = "table", !.value = v]
    <3>1. NewIndexProperty(get_property(n), n, v)
            => (\E op, m, r, w : LuaResult(op, m, r, w)) \/ \E w : set("newindex", n, w)
      BY DEF NewIndexProperty
    <3> QED BY <2>1, <3>1 DEF luaGD_class_newindex
  <2>3. CASE \E op, m, r, w : LuaResult(op, m, r, w)
    BY <1>3, <1>9, <2>3
  <2>4. CASE \E w : set("newindex", n, w)
    <3>1. CallsAnswered' /\ last'.op = "newindex"
      BY <2>1, <2>4, SetAnswered
    <3> QED BY <3>1, OtherCalls DEF CallsInv
  <2>5. CASE last' = [None_op EXCEPT !.op = "newindex", !.name = n, !.result = "table", !.value = v]
    BY <1>3, <2>5 DEF None_op
  <2> QED BY <2>2, <2>3, <2>4, <2>5
<1>12. ASSUME NEW op, NEW f, NEW args, NEW answers, Ask(op, f, args, answers), op \notin {"call", "cross_call"}
       PROVE  CallsInv'
  <2> DEFINE one == call_internal(f, args)
  <2>1. last'.op = op /\ last'.calls = (IF Defining(f) = {} THEN <<>> ELSE <<one>>) /\ classes' = classes
    BY <1>12 DEF Ask, Running, None_op
  <2>2. Defining(f) # {} => one.class \in DOMAIN classes
    BY CallClass
  <2> HIDE DEF one
  <2>3. CallsAnswered'
    BY <2>1, <2>2 DEF CallsAnswered
  <2> QED BY <1>12, <2>1, <2>3, OtherCalls DEF CallsInv
<1>13. CASE to_string \/ property_can_revert \/ property_get_revert
  <2>1. CASE to_string
    <3>1. \E answers : Ask("to_string", "_ToString", <<>>, answers)
      BY <2>1, Zenon DEF to_string
    <3> QED BY <1>12, <3>1
  <2>2. CASE property_can_revert
    <3>1. \E args, answers : Ask("can_revert", "_PropertyCanRevert", args, answers)
      BY <2>2, Zenon DEF property_can_revert
    <3> QED BY <1>12, <3>1
  <2>3. CASE property_get_revert
    <3>1. \E args, answers : Ask("get_revert", "_PropertyGetRevert", args, answers)
      BY <2>3, Zenon DEF property_get_revert
    <3> QED BY <1>12, <3>1
  <2> QED BY <1>13, <2>1, <2>2, <2>3
<1>14. ASSUME NEW f, NEW op, op \notin {"call", "cross_call"}, last'.op = op, classes' = classes,
              last'.calls = [i \in 1..Cardinality(Defining(f)) |-> call_internal(f, <<>>)]
       PROVE  CallsInv'
  <2>1. \A i \in DOMAIN last'.calls : last'.calls[i] = call_internal(f, <<>>) /\ Defining(f) # {}
    BY <1>14, DefiningCount
  <2>2. CallsAnswered'
    BY <1>14, <2>1, CallClass DEF CallsAnswered
  <2> QED BY <1>14, <2>2, OtherCalls DEF CallsInv
<1>15. CASE notification
  <2>1. /\ last'.op = "notification" /\ classes' = classes
        /\ last'.calls = [i \in 1..Cardinality(Defining("_Notification")) |-> call_internal("_Notification", <<>>)]
    BY <1>15 DEF notification, Running, None_op
  <2> QED BY <1>14, <2>1
<1>16. CASE get_property_list
  <2> DEFINE calls(custom) == [i \in 1..Cardinality(DOMAIN custom) |-> call_internal("_GetPropertyList", <<>>)]
  <2>1. PICK custom \in [Defining("_GetPropertyList") -> CustomLists \cup {None}] :
           \E args : last' = [None_op EXCEPT !.op = "list", !.args = args, !.calls = calls(custom)]
    BY <1>16 DEF get_property_list
  <2>2. classes' = classes
    BY <1>16 DEF get_property_list, Running
  <2>3. last'.op = "list" /\ last'.calls = calls(custom)
    <3> HIDE DEF calls
    <3> QED BY <2>1 DEF None_op
  <2>4. DOMAIN custom = Defining("_GetPropertyList")
    BY <2>1
  <2> QED BY <1>14, <2>2, <2>3, <2>4
<1> QED BY <1>2, <1>4, <1>5, <1>6, <1>7, <1>8, <1>10, <1>11, <1>13, <1>15, <1>16 DEF Next

----------------------------------------------------------------------------
(* The theorems.                                                               *)

Inv == TableInv /\ CallsInv

\* The invariant of an instance holds when its classes are loaded, and every
\* operation, each step of the construction and each assignment of Lua's keeps it.
THEOREM InvHolds == Spec => []Inv
<1>1. Init => Inv
  <2> SUFFICES ASSUME Init PROVE Inv
    OBVIOUS
  <2>1. TableInv /\ last = None_op
    BY InitTable
  <2>2. CallsInv
    BY <2>1 DEF CallsInv, CallArguments, CallsAnswered, None_op
  <2> QED BY <2>1, <2>2 DEF Inv
<1>2. Inv /\ [Next]_vars => Inv'
  <2> SUFFICES ASSUME Inv, [Next]_vars PROVE Inv'
    OBVIOUS
  <2>1. TableInv /\ CallsInv /\ ReadInv
    BY DEF Inv, TableInv
  <2> QED BY <2>1, TableKept, CallsKept DEF Inv
<1> QED BY <1>1, <1>2, PTL DEF Spec

\* The shape of the state, and no function is called that no class has: set, get,
\* call and the functions of the engine look for it first (LuauScriptInstance).
THEOREM TypeOKHolds == Spec => []TypeOK
<1>1. Inv => TypeOK
  <2> SUFFICES ASSUME Inv PROVE TypeOK
    OBVIOUS
  <2>1. StageInv /\ KeptInv /\ ReadInv /\ CallsAnswered
    BY DEF Inv, TableInv, CallsInv
  <2>2. \A c \in Range(classes) : c.errors = {}
    BY <2>1 DEF ReadInv, WellRead, Range
  <2> QED BY <2>1, <2>2 DEF TypeOK, StageInv, KeptInv, CallsAnswered
<1> QED BY <1>1, InvHolds, PTL

\* What a property accepted is what it holds from when all the classes that declare
\* it have their defaults: no default of a class takes the place of what the _Init of
\* its base or the engine assigned afterwards (set, the constructor).
THEOREM KeptAsSetHolds == Spec => []KeptAsSet
<1>1. Inv => KeptAsSet
  BY DEF Inv, TableInv
<1> QED BY <1>1, InvHolds, PTL

\* A property without setter and getter can be read at any time after its class has
\* its defaults: what set compares is enough for what get checks, but for numbers
\* that are too large (set, get, variant_types_compatible).
THEOREM AcceptedIsReadableHolds == Spec => []AcceptedIsReadable
<1>1. Inv => AcceptedIsReadable
  BY DEF Inv, TableInv
<1> QED BY <1>1, InvHolds, PTL

\* A function gets as many arguments as its method declares, those given first and
\* the last of the defaults after them, from the engine and from Lua (call,
\* luaGD_crossvm_call).
THEOREM CallArgumentsHolds == Spec => []CallArguments
<1>1. Inv => CallArguments
  BY DEF Inv, CallsInv
<1> QED BY <1>1, InvHolds, PTL

\* A property that accepted no value has the default that the script reports for it
\* (_get_property_default_value, the constructor).
THEOREM DefaultsAgreeHolds == Spec => []DefaultsAgree
<1>1. Inv => DefaultsAgree
  <2> SUFFICES ASSUME Inv, NEW n \in Names \ DOMAIN kept, NEW k \in {get_property(n)} \ {0},
                      stage = 0, Plain(property(k, n)), property(k, n).default_value # Nil
               PROVE  Entry(n) = get_property_default_value(n)
    BY DEF DefaultsAgree
  <2>1. ReadInv /\ DefaultsKept
    BY DEF Inv, TableInv
  <2>2. k \in Declaring(n) /\ k \in 1..Len(classes) /\ \A i \in Declaring(n) : k <= i
    BY <2>1, PropertyFacts DEF ReadInv
  <2>3. Entry(n) = property(k, n).default_value
    BY <2>1, <2>2 DEF DefaultsKept, Initialised
  <2> DEFINE with == {i \in Declaring(n) : property(i, n).default_value # Nil}
             first == First(with)
  <2>4. with \in SUBSET (1..Len(classes)) /\ Len(classes) \in Nat /\ k \in with
    BY <2>1, <2>2, PropertyFacts DEF ReadInv
  <2>5. first = k
    <3>1. first \in with /\ first <= k
      <4> HIDE DEF with
      <4> QED BY <2>4, FirstFacts
    <3>2. k <= first /\ first \in 1..Len(classes)
      BY <2>2, <2>4, <3>1
    <3> HIDE DEF first
    <3> QED BY <2>2, <3>1, <3>2
  <2>6. get_property_default_value(n) = property(k, n).default_value
    <3>1. first # 0
      BY <2>2, <2>5
    <3> QED BY <2>5, <3>1 DEF get_property_default_value
  <2> QED BY <2>3, <2>6
<1> QED BY <1>1, InvHolds, PTL
=============================================================================
