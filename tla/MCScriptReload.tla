--------------------------- MODULE MCScriptReload ---------------------------
(* ScriptReload for a class and the class it extends. *)
EXTENDS ScriptReload

CONSTANTS base, derived, o1, o2, p, q

BothScripts == <<base, derived>>
BasesOf == [s \in {base, derived} |-> IF s = base THEN <<base>> ELSE <<derived, base>>]

Says(how, props) == [says |-> how, props |-> props]

Errors == {Says("garbage", {}), Says("bad annotation", {})}
Texts(ofBase, ofDerived) == [s \in {base, derived} |-> IF s = base THEN ofBase ELSE ofDerived]

BaseClass == {Says("class", {q}), Says("class", {})}
DerivedClass == {Says("class", {p}), Says("class", {})}

Mode(editor, tools, applied, texts) ==
  [editor |-> editor, tools |-> tools, applied |-> applied, texts |-> texts]

\* In the game either text may be broken, in the editor that of the derived class.
Game == Mode(FALSE, {}, {}, Texts({Says("class", {q}), Says("garbage", {})}, DerivedClass \cup Errors))
Editor == Mode(TRUE, {}, {derived}, Texts(BaseClass, DerivedClass \cup Errors))
EditorOfTool == Mode(TRUE, {derived}, {}, Texts(BaseClass, DerivedClass \cup Errors))

\* The editor applies the text of the base class before it is saved.
EditorOfBase == Mode(TRUE, {}, {base}, Texts(BaseClass, {Says("class", {p})}))

BaseApplied == {EditorOfBase}
AllModes == {Game, Editor, EditorOfTool}

=============================================================================
