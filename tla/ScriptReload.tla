---------------------------- MODULE ScriptReload ----------------------------
(***************************************************************************)
(* What becomes of the objects that have a script when the script is       *)
(* edited and reloaded: their instances are taken away and made anew, and  *)
(* the values of their properties are carried over.  In the editor objects *)
(* have placeholders for instances, unless the script is a tool, and a     *)
(* script that is broken leaves placeholders in fallback mode; elsewhere a *)
(* broken script leaves no instance, and the values wait in                *)
(* pending_reload_state.                                                   *)
(*                                                                         *)
(* Which scripts a change reloads is the subject of ScriptLoading: here a  *)
(* script is reloaded after the one it extends.  Properties have one type  *)
(* and one default.                                                        *)
(***************************************************************************)
EXTENDS Naturals, SequencesExt

CONSTANTS
  Objects, Props, Values,
  Scripts,   \* sequence of the scripts, each after the one it extends
  Bases,     \* for each script, the sequence of itself, the script it extends and so on
  Modes,     \* editor: is this the editor?  tools: the scripts marked as @tool
             \* applied: the scripts whose text it may apply before it is saved
             \* texts: what the source of each script may say
  Default, Unset, NoScript, NoState,
  MayLeave   \* may an object be freed, or drop its script, while the script is broken?

ScriptSet == ToSet(Scripts)
Text == [says : {"class", "garbage", "bad annotation"}, props : SUBSET Props]

ASSUME ReloadAssumption ==
  /\ Default \in Values /\ Unset \notin Values /\ NoScript \notin ScriptSet
  /\ NoState \notin [Props -> Values \cup {Unset}] /\ MayLeave \in BOOLEAN
  /\ \A s \in ScriptSet : Bases[s] \in Seq(ScriptSet) /\ Head(Bases[s]) = s
  /\ \A m \in Modes : m.editor \in BOOLEAN /\ m.tools \subseteq ScriptSet /\ m.applied \subseteq ScriptSet
                     /\ m.texts \in [ScriptSet -> SUBSET Text]

VARIABLES
  world, \* scripts and objects, see World
  meant, \* history: the script each object was given
  want   \* history: the values given to its properties since

vars == <<world, meant, want>>

State == [Props -> Values \cup {Unset}]
Nothing == [p \in Props |-> Unset]

World ==
  [mode : Modes,
   source : [ScriptSet -> Text], changed : [ScriptSet -> BOOLEAN], \* source_changed_cache
   valid : [ScriptSet -> BOOLEAN], defined : [ScriptSet -> SUBSET Props],
   fallback : [ScriptSet -> BOOLEAN], \* placeholder_fallback_enabled
   pending : [ScriptSet -> [Objects -> State \cup {NoState}]],
   obj : [Objects -> [alive : BOOLEAN, script : ScriptSet \cup {NoScript},
                      has : {"nothing", "instance", "placeholder"},
                      values : State, listed : SUBSET Props]]]

Bare == [alive |-> TRUE, script |-> NoScript, has |-> "nothing", values |-> Nothing, listed |-> {}]

Init ==
  /\ meant = [o \in Objects |-> NoScript]
  /\ want = [o \in Objects |-> Nothing]
  /\ \E m \in Modes, source \in [ScriptSet -> Text] :
       /\ \A s \in ScriptSet : source[s] \in m.texts[s] /\ source[s].says = "class"
       /\ world = [mode |-> m, source |-> source, changed |-> [s \in ScriptSet |-> TRUE],
                   valid |-> [s \in ScriptSet |-> TRUE],
                   defined |-> [s \in ScriptSet |-> source[s].props],
                   fallback |-> [s \in ScriptSet |-> FALSE],
                   pending |-> [s \in ScriptSet |-> [o \in Objects |-> NoState]],
                   obj |-> [o \in Objects |-> Bare]]

----------------------------------------------------------------------------
(* Properties of an object *)

Ancestors(s) == Tail(Bases[s])
ClassProps(w, s) == UNION {w.defined[b] : b \in ToSet(Bases[s])}

\* LuauScriptInstance::get and PlaceHolderScriptInstance::get; Unset if they fail.
Shown(w, o, p) ==
  LET x == w.obj[o] IN
  CASE x.has = "nothing" -> Unset
    [] x.has = "instance" -> IF p \in ClassProps(w, x.script) THEN x.values[p] ELSE Unset
    [] x.has = "placeholder" -> IF x.values[p] = Unset /\ ~w.fallback[x.script] /\ p \in ClassProps(w, x.script)
                                THEN Default ELSE x.values[p]

\* get_property_state
StateOf(w, o) ==
  LET x == w.obj[o]
      list == IF x.has = "placeholder" THEN x.listed ELSE ClassProps(w, x.script)
  IN [p \in Props |-> IF p \in list THEN Shown(w, o, p) ELSE Unset]

\* LuauScriptInstance::set and PlaceHolderScriptInstance::set, which keeps no defaults.
SetValue(w, o, p, v) ==
  LET x == w.obj[o]
      known == p \in ClassProps(w, x.script)
  IN CASE x.has = "nothing" -> w
       [] x.has = "instance" -> IF known THEN [w EXCEPT !.obj[o].values[p] = v] ELSE w
       [] x.has = "placeholder" ->
            IF ~w.fallback[x.script] /\ (known \/ x.values[p] # Unset)
            THEN [w EXCEPT !.obj[o].values[p] = IF known /\ v = Default THEN Unset ELSE v] ELSE w

\* property_set_fallback
SetFallback(w, o, p, v) ==
  IF w.fallback[w.obj[o].script]
  THEN [w EXCEPT !.obj[o].values[p] = v, !.obj[o].listed = @ \cup {p}] ELSE w

\* Mutant: values are set in the normal way in fallback mode too.
RestoreValueAlways(w, o, p, v) == SetValue(w, o, p, v)

RestoreValue(w, o, p, v) ==
  IF w.obj[o].has = "placeholder" /\ w.fallback[w.obj[o].script]
  THEN SetFallback(w, o, p, v) ELSE SetValue(w, o, p, v)

----------------------------------------------------------------------------
(* Placeholders *)

\* Mutant: values that are no longer listed are kept, listed ones start anew.
UpdateAnew(w, o, props) ==
  [w EXCEPT !.obj[o].values = [p \in Props |-> IF p \in props THEN Unset ELSE @[p]],
            !.obj[o].listed = props]

\* PlaceHolderScriptInstance::update: values of properties that are gone, and
\* values equal to the default, are dropped.
Update(w, o, props) ==
  [w EXCEPT !.obj[o].values = [p \in Props |-> IF p \in props /\ @[p] # Default THEN @[p] ELSE Unset],
            !.obj[o].listed = props]

\* update_exports_values stops at a base that is not valid.
ExportedProps(w, s) ==
  UNION {w.defined[Bases[s][i]] : i \in {j \in DOMAIN Bases[s] : \A k \in 2..j : w.valid[Bases[s][k]]}}

Placeholders(w, s) == {o \in Objects : w.obj[o].script = s /\ w.obj[o].has = "placeholder"}

UpdateAll(w, s, objects) ==
  FoldSet(LAMBDA o, x : Update(x, o, ExportedProps(w, s)), w, objects)

\* Step 1 of update_exports_internal: the source, if it changed.
Reread(w, s) ==
  LET text == w.source[s]
      read == [w EXCEPT !.changed[s] = FALSE,
                        !.defined[s] = CASE text.says = "class" -> text.props
                                         [] text.says = "bad annotation" -> {}
                                         [] text.says = "garbage" -> @]
  IN IF ~w.changed[s] THEN [w |-> w, changed |-> FALSE, ok |-> ~w.fallback[s]]
     ELSE [w |-> [read EXCEPT !.fallback[s] = text.says # "class"], changed |-> TRUE,
           ok |-> text.says = "class"]

RECURSIVE UpdateExportsInternal(_, _, _)

\* Mutant: placeholders are updated only as they are made.
ReexportNew(own, base, s, objects) ==
  [w |-> UpdateAll(base.w, s, objects \cap Placeholders(base.w, s)), changed |-> own.changed \/ base.changed]

\* Steps 2 and 3: base scripts, then placeholders.
Reexport(own, base, s, objects) ==
  LET changed == own.changed \/ base.changed
      all == Placeholders(base.w, s)
  IN [w |-> UpdateAll(base.w, s, IF changed THEN all ELSE objects \cap all), changed |-> changed]

Continue(own, s, objects) ==
  IF ~own.ok THEN [w |-> own.w, changed |-> FALSE]
  ELSE Reexport(own, IF Ancestors(s) = <<>> THEN [w |-> own.w, changed |-> FALSE]
                     ELSE UpdateExportsInternal(own.w, Head(Ancestors(s)), {}), s, objects)

\* `objects` holds the object of the new placeholder, if it is called for one.
UpdateExportsInternal(w, s, objects) == Continue(Reread(w, s), s, objects)

----------------------------------------------------------------------------
(* Scripts of objects *)

CanInstantiate(w, s) == w.valid[s] /\ (s \in w.mode.tools \/ ~w.mode.editor)

NewInstance(w, o, s) ==
  [w EXCEPT !.obj[o].has = "instance",
            !.obj[o].values = [p \in Props |-> IF p \in ClassProps(w, s) THEN Default ELSE Unset]]

NewPlaceholder(w, o, s) ==
  UpdateExportsInternal([w EXCEPT !.obj[o].has = "placeholder"], s, {o}).w

\* Mutant: the placeholder or instance stays in the tables of the script.
TakeScriptOnly(w, o) == [w EXCEPT !.obj[o].script = NoScript]

\* Object::set_script
Take(w, o) == [w EXCEPT !.obj[o] = Bare]
Give(w, o, s) ==
  LET given == [w EXCEPT !.obj[o].script = s]
  IN IF CanInstantiate(w, s) THEN NewInstance(given, o, s)
     ELSE IF w.mode.editor THEN NewPlaceholder(given, o, s) ELSE given

----------------------------------------------------------------------------
(* Reloading *)

\* LuauScript::_reload with the loads it makes.
Reload(w, s) ==
  LET text == w.source[s]
      sound == text.says = "class" /\ (Ancestors(s) = <<>> \/ w.valid[Head(Ancestors(s))])
  IN [w EXCEPT !.valid[s] = sound,
               !.defined[s] = CASE text.says = "class" -> text.props
                                [] text.says = "bad annotation" -> {}
                                [] text.says = "garbage" -> @]

Dependents(s) == SelectSeq(Scripts, LAMBDA d : s \in ToSet(Bases[d]))

\* Mutant: what waits from a failed reload is left to wait.
SavedStatesNew(w, s) ==
  [o \in Objects |-> IF w.obj[o].script = s /\ w.obj[o].has # "nothing" THEN StateOf(w, o) ELSE NoState]

\* What is to be restored for each object: its present state, or else the one that
\* waits from a failed reload.
SavedStates(w, s) ==
  [o \in Objects |->
     IF w.pending[s][o] # NoState THEN w.pending[s][o]
     ELSE IF w.obj[o].script = s /\ w.obj[o].has # "nothing" THEN StateOf(w, o) ELSE NoState]

TakeAll(w, s) ==
  FoldSet(LAMBDA o, x : Take(x, o), w, {o \in Objects : w.obj[o].script = s /\ w.obj[o].has # "nothing"})

\* Step 2, of one script.
Save(r, s) ==
  [r EXCEPT !.w = TakeAll(r.w, s), !.saved = [@ EXCEPT ![s] = SavedStates(r.w, s)]]

\* Mutant: what was restored goes on waiting.
SettleNever(w, s, o, state) ==
  IF w.obj[o].has # "nothing" THEN w
  ELSE IF w.pending[s][o] = NoState THEN [w EXCEPT !.pending[s][o] = state] ELSE w

Settle(w, s, o, state) ==
  IF w.obj[o].has # "nothing" THEN [w EXCEPT !.pending[s][o] = NoState]
  ELSE IF w.pending[s][o] = NoState THEN [w EXCEPT !.pending[s][o] = state] ELSE w

RestoreValues(w, o, state) ==
  FoldSet(LAMBDA p, x : RestoreValue(x, o, p, state[p]), w, {p \in Props : state[p] # Unset})

\* Step 3, of one object: the function returns at an object that is no more.
Restore(r, s, o) ==
  IF r.stopped \/ r.saved[s][o] = NoState THEN r
  ELSE IF ~r.w.obj[o].alive THEN [r EXCEPT !.stopped = TRUE]
  ELSE [r EXCEPT !.w = Settle(RestoreValues(Give(Take(r.w, o), o, s), o, r.saved[s][o]), s, o, r.saved[s][o])]

\* Mutant: a script that fails to load is skipped.
RestoreAllIfValid(r, s, order) ==
  IF r.stopped THEN r
  ELSE IF ~Reload(r.w, s).valid[s] THEN [r EXCEPT !.w = Reload(r.w, s)]
  ELSE FoldLeft(LAMBDA x, o : Restore(x, s, o), [r EXCEPT !.w = Reload(r.w, s)], order)

RestoreAll(r, s, order) ==
  IF r.stopped THEN r
  ELSE FoldLeft(LAMBDA x, o : Restore(x, s, o), [r EXCEPT !.w = Reload(r.w, s)], order)

\* LuauLanguage::_reload_tool_script; `order` is that of the objects in the tables.
ReloadToolScript(w, s, soft, order) ==
  LET none == [w |-> w, stopped |-> FALSE, saved |-> [d \in ScriptSet |-> [o \in Objects |-> NoState]]]
      saved == IF soft THEN none ELSE FoldLeft(Save, none, Dependents(s))
  IN FoldLeft(LAMBDA r, d : RestoreAll(r, d, order), saved, Dependents(s)).w

\* LuauScript::_update_exports
UpdateExports(w, s) ==
  FoldLeft(LAMBDA x, d : UpdateExportsInternal(x, d, {}).w, w, Dependents(s))

----------------------------------------------------------------------------
(* Actions *)

ChainSays(w, s) == {w.source[b].says : b \in ToSet(Bases[s])}
ChainProps(w, s) == UNION {w.source[b].props : b \in ToSet(Bases[s])}

\* A value goes with its property, when a sound text no longer has it.
Remember(w) ==
  want' = [o \in Objects |->
             IF meant[o] = NoScript \/ ChainSays(w, meant[o]) # {"class"} THEN want[o]
             ELSE [p \in Props |-> IF p \in ChainProps(w, meant[o]) THEN want[o][p] ELSE Unset]]

Edited(s, text) == [world EXCEPT !.source[s] = text, !.changed[s] = TRUE]

\* The text is edited and saved.
SaveScript(s, text) ==
  /\ \E order \in SetToSeqs(Objects) : world' = ReloadToolScript(Edited(s, text), s, FALSE, order)
  /\ Remember(world') /\ UNCHANGED meant

\* The text is edited, and the editor refreshes what its inspector shows.
ApplyScript(s, text) ==
  /\ s \in world.mode.applied
  /\ world' = UpdateExports(Edited(s, text), s)
  /\ Remember(world') /\ UNCHANGED meant

\* The editor reloads with p_soft_reload: instances stay.
SoftReload(s) ==
  /\ \E order \in SetToSeqs(Objects) : world' = ReloadToolScript(world, s, TRUE, order)
  /\ UNCHANGED <<meant, want>>

Broken(o) == meant[o] # NoScript /\ ChainSays(world, meant[o]) # {"class"}

SetScript(o, s) ==
  /\ world.obj[o].alive /\ meant[o] = NoScript
  /\ world' = Give(world, o, s)
  /\ meant' = [meant EXCEPT ![o] = s] /\ UNCHANGED want

DropScript(o) ==
  /\ world.obj[o].alive /\ meant[o] # NoScript /\ (Broken(o) => MayLeave)
  /\ world' = Take(world, o)
  /\ meant' = [meant EXCEPT ![o] = NoScript] /\ want' = [want EXCEPT ![o] = Nothing]

Free(o) ==
  /\ world.obj[o].alive /\ (Broken(o) => MayLeave)
  /\ world' = [Take(world, o) EXCEPT !.obj[o].alive = FALSE]
  /\ meant' = [meant EXCEPT ![o] = NoScript] /\ want' = [want EXCEPT ![o] = Nothing]

SetProperty(o, p, v) ==
  /\ world.obj[o].alive /\ Shown(world, o, p) # Unset /\ ~Broken(o)
  /\ world' = SetValue(world, o, p, v)
  /\ want' = [want EXCEPT ![o][p] = v] /\ UNCHANGED meant

Next ==
  \/ \E s \in ScriptSet : SoftReload(s) \/ \E text \in world.mode.texts[s] : SaveScript(s, text) \/ ApplyScript(s, text)
  \/ \E o \in Objects : DropScript(o) \/ Free(o) \/ \E s \in ScriptSet : SetScript(o, s)
  \/ \E o \in Objects, p \in Props, v \in Values : SetProperty(o, p, v)

Spec == Init /\ [][Next]_vars

----------------------------------------------------------------------------
(* Properties *)

\* Types; and an object without a script has no instance and no placeholder.
TypeOK ==
  /\ world \in World /\ meant \in [Objects -> ScriptSet \cup {NoScript}] /\ want \in [Objects -> State]
  /\ \A o \in Objects : world.obj[o].script = NoScript => world.obj[o].has = "nothing"

\* An object has the script it was given: no reload, of this script or another,
\* takes it away for good or brings it back.
ScriptKept == \A o \in Objects : world.obj[o].alive => world.obj[o].script = meant[o]

\* Does the object's class, as loaded, say what the sources say?
Sound(s) ==
  \A b \in ToSet(Bases[s]) :
    world.source[b].says = "class" /\ world.valid[b] /\ world.defined[b] = world.source[b].props

\* The values given to the properties of an object outlive every reload, also
\* those of broken texts in between ("invalid then valid keeps state",
\* tests/scripting/luau_script.cpp:648).
StateKept ==
  \A o \in Objects, p \in Props :
    world.obj[o].alive /\ meant[o] # NoScript /\ Sound(meant[o]) /\ want[o][p] # Unset
      => Shown(world, o, p) = want[o][p]

\* No values wait for an object whose script is whole again
\* (tests/scripting/luau_script.cpp:656).
NothingPending ==
  \A s \in ScriptSet, o \in Objects : world.pending[s][o] # NoState /\ world.obj[o].alive => ~world.valid[s]

\* A placeholder lists the properties of its whole class: whichever text of the
\* class is saved, whichever of its own script is applied before that, broken ones
\* in between. It does not where the text of a base class is applied before it is
\* saved (base_applied), although _update_exports goes on to the scripts that
\* depend on it ("Update old dependent scripts", luau_script_editor.cpp:57).
PlaceholdersListed ==
  \A o \in Objects :
    world.obj[o].has = "placeholder" /\ Sound(meant[o]) => world.obj[o].listed = ClassProps(world, meant[o])

=============================================================================
