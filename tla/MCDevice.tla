------------------------------- MODULE MCDevice -------------------------------
(*****************************************************************************)
(* One device of a fleet, one component at a time: what of a source is its  *)
(* own, a push under a changing selection, what a push says of the usage    *)
(* row it captured, and the history in state.db.  Each behaviour is about   *)
(* one component, the scene, and the others stand still.                    *)
(*****************************************************************************)
EXTENDS Push, SourceScope, Evidence, TLC

CONSTANTS p1, p2, a, b, docs, events

VARIABLE scene   \* the component this behaviour is about

\* A command of up to three rows, and the one row of an upgrade.
RowsOf == [w \in {"push", "self-upgrade"} |-> IF w = "push" THEN 3 ELSE 1]

\* Two usage readers, in sweep order.
TwoReaders == <<"codex", "muse">>

WithEvents == p1 :> docs @@ p2 :> events

\* The tree of a source: a store of an agent, its memory, and beside it files no agent
\* made; dist is one of EXCLUDED.
Q == <<"projects", "q">>
TreeDirs == {<<"projects">>, Q, Q \o <<"memory">>, Q \o <<"dist">>, <<"memory">>}
TreeFiles == {Q \o <<"memory", "f">>, Q \o <<"x">>, Q \o <<"dist", "f">>, <<"memory", "g">>}
Source(type, dirs, files, left) == [type |-> type, dirs |-> dirs, files |-> files, excluded |-> left]
TreeSources ==
  { Source("claude", {}, {}, {}), Source("muse", {}, {}, {}),
    Source("generic", {<<"projects">>, Q \o <<"memory">>}, {<<"memory", "g">>}, {}),
    Source("generic", {Q \o <<"memory">>, <<"memory">>}, TreeFiles \ {<<"memory", "g">>}, {}),
    Source("generic", {Q}, {}, {Q \o <<"x">>}) }
\* Some order of the paths, by depth.
InOrder(paths) == CHOOSE order \in [1..Cardinality(paths) -> paths] : ByDepth(order, paths)
TreeOrder == [s \in TreeSources |-> [all |-> InOrder(s.dirs \cup s.files), dirs |-> InOrder(s.dirs)]]
TreePlaces == (TreeDirs \cup TreeFiles) \ {Q \o <<"dist">>, Q \o <<"dist", "f">>}

allVars == <<scene, vars, scVars, urVars, hdVars>>

Scene(name) == scene = name /\ UNCHANGED scene

DeviceInit ==
  /\ scene \in {"selection", "scope", "usage", "history"}
  /\ Init /\ (scene # "selection" => disk = [p \in Paths |-> Absent])
  /\ SCInit /\ (scene # "scope" => scSource = CHOOSE s \in SCSources : TRUE)
  /\ URInit /\ (scene # "usage" => urRun = URIdle)
  /\ HDInit /\ (scene # "history" => hdDb = NoDb)

SelectionScene == Scene("selection") /\ Next
                  /\ UNCHANGED <<scVars, urVars, hdVars>>
ScopeScene == Scene("scope") /\ SCNext
              /\ UNCHANGED <<vars, urVars, hdVars>>
UsageScene == Scene("usage") /\ URNext
              /\ UNCHANGED <<vars, scVars, hdVars>>
HistoryScene == Scene("history") /\ HDNext
                /\ UNCHANGED <<vars, scVars, urVars>>

DeviceNext == SelectionScene \/ ScopeScene \/ UsageScene \/ HistoryScene

DeviceSpec == DeviceInit /\ [][DeviceNext]_allVars
-----------------------------------------------------------------------------
\* What a source holds: a walk finds the files that are meant to be the source's, and
\* admits it where it cannot look; and what pull may write is what the walk finds.
\* Both speak of the tree alone, and every tree is there between two pushes too.
ScopeIsExact == scene = "scope" => SCTypeOK /\ (scRun.pc = "idle" => WalkIsExact /\ PullAgrees)
===============================================================================
