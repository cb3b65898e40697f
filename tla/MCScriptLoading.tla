-------------------------- MODULE MCScriptLoading --------------------------
(***************************************************************************)
(* ScriptLoading on three files: a module m, a class b, a class a.         *)
(***************************************************************************)
EXTENDS ScriptLoading

CONSTANTS m, b, a, load, user

VMNumbers == <<load, user>>

Plain(paths) == [i \in DOMAIN paths |-> [path |-> paths[i], as |-> "plain"]]
Source(name, requires, extends, types) ==
  [name |-> name, parses |-> TRUE, requires |-> Plain(requires), extends |-> extends, types |-> types]
Broken(name) == [Source(name, <<>>, NoPath, <<>>) EXCEPT !.parses = FALSE]

Per(ofM, ofB, ofA) == [p \in Paths |-> CASE p = m -> ofM [] p = b -> ofB [] p = a -> ofA]

m1 == Source("m1", <<>>, NoPath, <<>>)
m2 == Source("m2", <<>>, NoPath, <<>>)
b1 == Source("b1", <<m>>, NoPath, <<>>)
a1 == Source("a1", <<m, b>>, b, <<>>)

\* Circles of two scripts, by `require` and by @extends, and sources that do not parse.
Mixed == Per({m1, Broken("m!")},
             {Source("ba", <<m, a>>, a, <<>>), Source("br", <<m, a>>, NoPath, <<>>)},
             {a1, Source("a2", <<m>>, NoPath, <<>>)})

\* Each class requires directly all it depends on, in order; only b may not parse.
Direct == Per({m1, m2}, {b1, Source("b2", <<>>, NoPath, <<>>), Broken("b!")},
              {a1, Source("a2", <<m, b>>, NoPath, <<b>>)})

MCProjects == [mixed |-> [texts |-> Mixed, vms |-> {load}],
               direct |-> [texts |-> Direct, vms |-> {load, user}]]

=============================================================================
