--------------------------- MODULE ScriptLoading ---------------------------
(***************************************************************************)
(* How scripts are read, compiled, analysed and run to get their class     *)
(* tables, how `require` shares what they return, and how the editor       *)
(* reloads a script that changed together with those that depend on it.    *)
(*                                                                         *)
(* Loading one script loads others, through `require`, @extends and the    *)
(* types of properties, on the native call stack.  An action is one call   *)
(* from the engine, from its first to its last nested load; the operators  *)
(* below are the functions it runs, each from one state of the world to    *)
(* the next.  `depth` counts the activations the native stack has room for.*)
(***************************************************************************)
EXTENDS Naturals, FiniteSets, SequencesExt

CONSTANTS
  Paths,      \* script files
  Modules,    \* the ones named *.mod.lua
  VMs, LoadVM, VMOrder, \* LuauRuntime::VMType, VM_SCRIPT_LOAD, in order of their numbers
  Projects,   \* by their names: what each file may say (texts, see Text), the VMs in use
  Spellings,  \* ways to write the path of a file; "plain" is Resource::get_path
  NoPath, NoText,
  MaxDepth    \* bound: nested activations of Load and RunChunk

Keys == [path : Paths, as : Spellings]

\* What a source says, as far as loading goes: the requires its chunk runs, in
\* order; the script @extends names; the scripts that type its properties.
Text == [name : STRING, parses : BOOLEAN, requires : Seq(Keys),
         extends : Paths \cup {NoPath}, types : Seq(Paths)]

ASSUME FilesAssumption ==
  /\ Modules \subseteq Paths /\ NoPath \notin Paths
  /\ LoadVM \in VMs /\ ToSet(VMOrder) = VMs /\ "plain" \in Spellings
  /\ MaxDepth \in Nat
  /\ \A q \in DOMAIN Projects : Projects[q].vms \subseteq VMs
  /\ \A q \in DOMAIN Projects, p \in Paths : \A t \in Projects[q].texts[p] :
       /\ t.name \in STRING /\ t.parses \in BOOLEAN
       /\ ToSet(t.requires) \subseteq Keys /\ ToSet(t.types) \subseteq Paths
       /\ t.extends \in Paths \cup {NoPath}
       \* Classes are named by the locals that requires are assigned to (RequireFinder).
       /\ ToSet(t.types) \cup ({t.extends} \ {NoPath}) \subseteq {k.path : k \in ToSet(t.requires)}

VARIABLES project, \* its name
          world    \* the files, the scripts, the tables of modules, the list of scripts; see World

vars == <<project, world>>

TextsOf == Projects[project].texts
AnyText == UNION {Projects[q].texts[p] : q \in DOMAIN Projects, p \in Paths}

None == 0
LOAD_COMPILE == 1
LOAD_ANALYZE == 2
LOAD_FULL == 3

\* What a run of a chunk returned is kept as the set of texts it was made from,
\* its own and those of everything it required.  A table entry holds nothing, a
\* value or an error message; `shared` says whether the value of a class is the
\* table its script uses.
Value == SUBSET (Paths \X AnyText)
Absent == [kind |-> "nil", made |-> {}, shared |-> FALSE]

Script == [known : BOOLEAN, source : AnyText \cup {NoText}, bytecode : AnyText \cup {NoText},
           dependencies : SUBSET Paths, loading : BOOLEAN, valid : BOOLEAN,
           stage : None..LOAD_FULL, defined : BOOLEAN, defbase : Paths \cup {NoPath},
           base : Paths \cup {NoPath}, table : [VMs -> Value]]

World == [disk : [Paths -> AnyText],
          scr : [Paths -> Script],
          mods : [VMs -> [Keys -> [kind : {"nil", "value", "error"}, made : Value, shared : BOOLEAN]]],
          list : Seq(Paths), overflow : BOOLEAN]

NewScript == [known |-> FALSE, source |-> NoText, bytecode |-> NoText, dependencies |-> {},
              loading |-> FALSE, valid |-> FALSE, stage |-> None, defined |-> FALSE,
              defbase |-> NoPath, base |-> NoPath, table |-> [v \in VMs |-> {}]]

Init ==
  /\ project \in DOMAIN Projects
  /\ \E disk \in [Paths -> AnyText] :
    /\ \A p \in Paths : disk[p] \in TextsOf[p]
    /\ world = [disk |-> disk, scr |-> [p \in Paths |-> NewScript],
                mods |-> [v \in VMs |-> [k \in Keys |-> Absent]],
                list |-> <<>>, overflow |-> FALSE]

----------------------------------------------------------------------------
(* One script *)

\* What a function returns: the world it leaves, its Error, the value it made.
Ok(w) == [w |-> w, ok |-> TRUE, made |-> {}]
Fail(w) == [w |-> w, ok |-> FALSE, made |-> {}]

Compile(w, p) ==
  LET text == w.scr[p].source IN
  IF text.parses
  THEN Ok([w EXCEPT !.scr[p].dependencies = {}, !.scr[p].bytecode = text])
  ELSE Fail([w EXCEPT !.scr[p].dependencies = {}, !.scr[p].bytecode = NoText])

\* Finds the cycles of two scripts.
AddDependency(w, p, q) ==
  IF p \in w.scr[q].dependencies THEN Fail(w)
  ELSE Ok([w EXCEPT !.scr[p].dependencies = @ \cup {q}])

UnloadModule(w, p) ==
  [w EXCEPT !.scr[p].bytecode = NoText,
            !.mods = [v \in VMs |-> [@[v] EXCEPT ![[path |-> p, as |-> "plain"]] = Absent]]]

\* No cached value of class p is the table its script uses in VM v any more.
Unshared(w, v, p) ==
  [w EXCEPT !.scr[p].table[v] = {},
            !.mods[v] = [k \in Keys |-> IF k.path = p THEN [@[k] EXCEPT !.shared = FALSE] ELSE @[k]]]

----------------------------------------------------------------------------
(* Loading *)

RECURSIVE Load(_, _, _, _, _), RunChunk(_, _, _, _)

Enter(w, p) == [w EXCEPT !.scr[p].known = TRUE, !.list = Cons(p, @)]
Read(w, p) == [w EXCEPT !.scr[p].source = w.disk[p]]

\* Mutant: the first load of a script is not forced.
GetScriptUnforced(w, p, ignore, stage, depth) ==
  Load(Read(IF w.scr[p].known THEN w ELSE Enter(w, p), p), p, stage, ignore, depth).w

\* LuauCache::get_script; every file can be read.
GetScript(w, p, ignore, stage, depth) ==
  LET cached == IF w.scr[p].known THEN w ELSE Enter(w, p)
      afresh == ignore \/ ~w.scr[p].known
  IN Load(IF afresh THEN Read(cached, p) ELSE cached, p, stage, afresh, depth).w

\* The type of a property, a class q; LOAD_ANALYZE is passed for p_ignore_cache.
TypedBy(w, p, q) ==
  IF q \in Modules THEN Fail(w)
  ELSE [AddDependency(w, p, q) EXCEPT !.ok = @ /\ w.scr[q].defined]

ModuleType(w, p, q, depth) == TypedBy(GetScript(w, q, TRUE, LOAD_FULL, depth), p, q)

ExtendedBy(w, p, q) == IF q \in Modules THEN Fail(w) ELSE AddDependency(w, p, q)

BaseScript(w, p, q, depth) == ExtendedBy(GetScript(w, q, FALSE, LOAD_ANALYZE, depth), p, q)

\* The annotations are read in order; an error in one does not end the reading.
ReadClass(w, p, text, depth) ==
  FoldLeft(LAMBDA r, q : LET x == ModuleType(r.w, p, q, depth) IN [x EXCEPT !.ok = @ /\ r.ok],
           IF text.extends = NoPath THEN Ok(w) ELSE BaseScript(w, p, text.extends, depth), text.types)

Define(r, p, extends) ==
  [r EXCEPT !.w.scr[p].defined = r.ok, !.w.scr[p].defbase = IF r.ok THEN extends ELSE NoPath]

Analyze(w, p, depth) ==
  Define(ReadClass(w, p, w.scr[p].source, depth), p, w.scr[p].source.extends)

\* Mutant: a load found to be going on already ends the mark of that load.
SetTableUnmarked(r, p, v) ==
  IF r.ok THEN [r EXCEPT !.w.scr[p].loading = FALSE, !.w.scr[p].table[v] = r.made] ELSE r

\* What follows the run of the chunk.
SetTable(r, p, v) ==
  IF r.ok THEN [r EXCEPT !.w.scr[p].loading = FALSE, !.w.scr[p].table[v] = r.made]
  ELSE [r EXCEPT !.w.scr[p].loading = FALSE]

LoadTable(w, p, v, force, depth) ==
  IF w.scr[p].table[v] # {} /\ ~force THEN Ok(w)
  ELSE IF w.scr[p].loading THEN Fail(Unshared(w, v, p))
  ELSE SetTable(RunChunk([Unshared(w, v, p) EXCEPT !.scr[p].loading = TRUE], p, v, depth), p, v)

\* Unlike LoadTable it does not ask whether the script is loading already.
LoadModule(w, p, v, depth) ==
  [RunChunk([w EXCEPT !.scr[p].loading = TRUE], p, v, depth) EXCEPT !.w.scr[p].loading = FALSE]

\* Only what a chunk requires while it is loading counts as a dependency.
Depend(w, p, q) == IF w.scr[p].loading THEN AddDependency(w, p, q) ELSE Ok(w)

\* The value that a load r of k made, or its error message, goes into the table.
Keep(r, v, k) ==
  LET made == IF k.path \in Modules THEN r.made ELSE r.w.scr[k.path].table[v]
      entry == IF r.ok THEN [kind |-> "value", made |-> made, shared |-> k.path \notin Modules]
               ELSE [kind |-> "error", made |-> {}, shared |-> FALSE]
  IN [w |-> [r.w EXCEPT !.mods[v][k] = entry], ok |-> r.ok, made |-> entry.made]

Returned(r, v, k, depth) ==
  LET entry == r.w.mods[v][k] IN
  IF ~r.ok THEN r
  ELSE IF entry.kind # "nil" THEN [r EXCEPT !.ok = entry.kind = "value", !.made = entry.made]
  ELSE Keep(IF k.path \in Modules THEN LoadModule(r.w, k.path, v, depth)
            ELSE LoadTable(r.w, k.path, v, FALSE, depth), v, k)

\* `require` of k by the chunk, or by a function, of p in VM v: what the table of
\* modules holds, or else what the script returns, which goes into the table.
Require(w, p, v, k, depth) ==
  Returned(Depend(GetScript(w, k.path, FALSE, LOAD_FULL, depth), p, k.path), v, k, depth)

\* The first require that fails ends the run.
Run(r, p, v, depth) ==
  LET text == r.w.scr[p].bytecode
      Then(x, k) == IF ~x.ok THEN x ELSE [Require(x.w, p, v, k, depth) EXCEPT !.made = @ \cup x.made]
  IN IF r.ok THEN FoldLeft(Then, [r EXCEPT !.made = {<<p, text>>}], text.requires) ELSE r

\* try_load and the resume that runs the chunk.
RunChunk(w, p, v, depth) ==
  IF depth = 0 \/ w.overflow THEN Fail([w EXCEPT !.overflow = TRUE])
  ELSE Run(IF w.scr[p].bytecode = NoText THEN Compile(w, p) ELSE Ok(w), p, v, depth - 1)

\* The table of VM_SCRIPT_LOAD and those there are in the other VMs.
ReloadTables(w, p, depth) ==
  FoldLeft(LAMBDA r, v : IF ~r.ok \/ (v # LoadVM /\ r.w.scr[p].table[v] = {}) THEN r
                         ELSE LoadTable(r.w, p, v, TRUE, depth),
           Ok(w), VMOrder)

LoadBase(w, base, depth) ==
  LET AskValid(x) == IF x.scr[base].valid THEN Ok(x) ELSE Fail(x)
  IN AskValid(Load(w, base, LOAD_FULL, FALSE, depth).w)

SetBase(r, p, base, depth) ==
  IF ~r.ok THEN r
  ELSE IF base = NoPath THEN Ok([r.w EXCEPT !.scr[p].base = base])
  ELSE LoadBase([r.w EXCEPT !.scr[p].base = base], base, depth - 1)

FinishLoad(w, p, depth) ==
  LET Then(r) == SetBase(r, p, r.w.scr[p].defbase, depth) IN Then(ReloadTables(w, p, depth))

LoadStage(w, p, stage, depth) ==
  IF stage = LOAD_COMPILE THEN Compile(w, p)
  ELSE IF p \in Modules THEN Ok(w)
  ELSE IF stage = LOAD_ANALYZE THEN Analyze(w, p, depth) ELSE FinishLoad(w, p, depth)

\* Mutant: the stage is set to the counter of the loop.
LoadedCounted(r, p, stage) ==
  IF r.ok THEN [r EXCEPT !.w.scr[p].stage = stage + 1, !.w.scr[p].valid = TRUE]
  ELSE [r EXCEPT !.w.scr[p].valid = FALSE]

\* The stage may be lower than the one the script had reached.
Loaded(r, p, stage) ==
  IF r.ok THEN [r EXCEPT !.w.scr[p].stage = stage, !.w.scr[p].valid = TRUE]
  ELSE [r EXCEPT !.w.scr[p].valid = FALSE]

\* LuauScript::load.
Load(w, p, stage, force, depth) ==
  LET from == IF force THEN None ELSE w.scr[p].stage
      todo == SelectSeq(<<LOAD_COMPILE, LOAD_ANALYZE, LOAD_FULL>>, LAMBDA i : from < i /\ i <= stage)
      Then(r, i) == IF r.ok THEN LoadStage(r.w, p, i, depth - 1) ELSE r
  IN IF depth = 0 \/ w.overflow THEN Fail([w EXCEPT !.overflow = TRUE])
     ELSE IF ~force /\ ~w.scr[p].valid THEN Fail(w)
     ELSE Loaded(FoldLeft(Then, Ok(w), todo), p, stage)

----------------------------------------------------------------------------
(* Reloading in the editor *)

\* The base scripts of p, itself first.
BaseChain(w, p) ==
  LET chain[n \in 0..Len(w.list)] ==
        IF n = 0 THEN <<p>>
        ELSE LET last == w.scr[Last(chain[n - 1])].base
             IN IF last = NoPath \/ Len(chain[n - 1]) < n THEN chain[n - 1] ELSE Append(chain[n - 1], last)
  IN chain[Len(w.list)]

\* LuauScriptDepSort: does p come before q?
ComesBefore(w, p, q) ==
  p # q /\ \E i \in DOMAIN BaseChain(w, q) : p \in w.scr[BaseChain(w, q)[i]].dependencies

\* List::sort_custom sorts up to 16 elements by insertion: an element goes to the
\* front if it is less than the first, and else down past those it is less than.
Insert(w, sorted, p) ==
  LET at == IF sorted = <<>> \/ ComesBefore(w, p, sorted[1]) THEN 1
            ELSE 1 + CHOOSE i \in 1..Len(sorted) :
                   ~ComesBefore(w, p, sorted[i]) /\ \A j \in i + 1..Len(sorted) : ComesBefore(w, p, sorted[j])
  IN InsertAt(sorted, at, p)

GetScripts(w) == FoldLeft(LAMBDA sorted, p : Insert(w, sorted, p), <<>>, w.list)

\* Mutant: only the scripts that extend a changed one, not those that require it.
ToReloadExtending(w, p) ==
  FoldLeft(LAMBDA chosen, q :
             IF q = p \/ w.scr[q].base \in ToSet(chosen) THEN Append(chosen, q) ELSE chosen,
           <<>>, GetScripts(w))

\* Which scripts a change of p affects, by the scripts that come before in the list.
ToReload(w, p) ==
  FoldLeft(LAMBDA chosen, q :
             IF q = p \/ ToSet(chosen) \cap (w.scr[q].dependencies \cup {w.scr[q].base}) # {}
             THEN Append(chosen, q) ELSE chosen,
           <<>>, GetScripts(w))

Reload(w, p) == IF p \in Modules THEN w ELSE Load(w, p, LOAD_FULL, TRUE, MaxDepth).w

ReloadToolScript(w, p) ==
  LET chosen == ToReload(w, p) IN FoldLeft(Reload, FoldLeft(UnloadModule, w, chosen), chosen)

ReloadAllScripts(w) ==
  LET scripts == GetScripts(w)
  IN FoldLeft(LAMBDA x, p : Reload(Read(x, p), p), FoldLeft(UnloadModule, w, scripts), scripts)

----------------------------------------------------------------------------
(* Calls from the engine *)

\* ResourceFormatLoaderLuauScript::_load, with CACHE_MODE_IGNORE or without.
LoadResource(p, ignore) ==
  /\ world' = GetScript(world, p, ignore, LOAD_FULL, MaxDepth)

\* A script instance in VM v: the tables of its class and of the bases of that.
Instantiate(p, v) ==
  /\ p \notin Modules /\ world.scr[p].valid
  /\ world' = FoldRight(LAMBDA q, w : LoadTable(w, q, v, FALSE, MaxDepth).w, BaseChain(world, p), world)

\* A function of the class p calls `require`, at some time after the load.
RequireLater(p, v, k) ==
  /\ world.scr[p].table[v] # {}
  /\ world' = Require(world, p, v, k, MaxDepth).w

\* The script editor puts a new text into the script and saves it.
Save(p, text) ==
  /\ world.scr[p].known
  /\ world' = ReloadToolScript([world EXCEPT !.scr[p].source = text, !.disk[p] = text], p)

\* Another program writes a file; the editor then reloads all scripts.
ReloadAll(p, text) == world' = ReloadAllScripts([world EXCEPT !.disk[p] = text])

Next ==
  /\ ~world.overflow /\ UNCHANGED project
  /\ \/ \E p \in Paths : LoadResource(p, FALSE) \/ LoadResource(p, TRUE)
     \/ \E p \in Paths, v \in Projects[project].vms : Instantiate(p, v) \/ \E k \in Keys : RequireLater(p, v, k)
     \/ \E p \in Paths : \E text \in TextsOf[p] : Save(p, text) \/ ReloadAll(p, text)

Spec == Init /\ [][Next]_vars

----------------------------------------------------------------------------
(* Properties *)

TypeOK == project \in DOMAIN Projects /\ world \in World

Scripts == {p \in Paths : world.scr[p].known}
Saved == \A p \in Scripts : world.scr[p].source = world.disk[p]

\* Loads end: circles of files do not recurse for ever, and no failed load leaves
\* a script marked as loading, which would make every later load of it fail.
LoadsEnd == ~world.overflow /\ \A p \in Paths : ~world.scr[p].loading

Current(made) == \A m \in made : m[2] = world.scr[m[1]].source

\* What `require` gives for a class is the table its script uses.
OneTable ==
  \A v \in VMs, k \in Keys :
    k.path \notin Modules /\ world.mods[v][k].kind = "value" => world.mods[v][k].shared

\* The scripts that loading p reaches.
Needs(p) ==
  LET text(q) == world.disk[q]
      direct(q) == {text(q).requires[i].path : i \in DOMAIN text(q).requires}
                   \cup ToSet(text(q).types) \cup ({text(q).extends} \ {NoPath})
      reach[n \in 0..Cardinality(Paths)] ==
        IF n = 0 THEN {p} ELSE reach[n - 1] \cup UNION {direct(q) : q \in reach[n - 1]}
  IN reach[Cardinality(Paths)]

CouldLoad(p) == \A q \in Needs(p) : world.disk[q].parses

\* Each text requires directly all that the scripts it requires do, and no circle.
RequiresAll ==
  LET needs(t) == {k.path : k \in ToSet(t.requires)} IN
  \A p \in Paths : \A t \in TextsOf[p] :
    /\ p \notin needs(t)
    /\ \A q \in needs(t) : \A u \in TextsOf[q] : needs(u) \subseteq needs(t)

\* "Requires are cached within the same Lua VM, and are reloaded when necessary (if
\* the script changes)" (docs/src/usage/modules.md:12): what a class or a required
\* script that can be loaded now is made from, is what the files say now. (Where
\* each script requires all it depends on: who depends on what is found by that.)
Fresh ==
  RequiresAll /\ Saved => \A v \in VMs :
    /\ \A p \in Scripts \ Modules : CouldLoad(p) => Current(world.scr[p].table[v])
    /\ \A k \in Keys : world.mods[v][k].kind = "value" /\ CouldLoad(k.path)
                       => Current(world.mods[v][k].made)

\* A class is valid if its text, and the texts it needs, could be loaded: what an
\* error broke, mending the error repairs. It is not if its base class is not.
\* (Cyclic dependencies "are not supported": docs/src/usage/modules.md:15.)
ValidTrue ==
  RequiresAll =>
    /\ Saved => \A p \in Scripts \ Modules : CouldLoad(p) => world.scr[p].valid
    /\ \A p \in Scripts : world.scr[p].valid /\ world.scr[p].base # NoPath => world.scr[world.scr[p].base].valid

=============================================================================
