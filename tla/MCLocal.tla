------------------------------- MODULE MCLocal --------------------------------
(*****************************************************************************)
(* What the devices of a fleet do beside the sync itself, one component at  *)
(* a time: each behaviour is about one component, the scene, and the others *)
(* stand still.                                                             *)
(*****************************************************************************)
EXTENDS CursorUsage, Upgrade, SkillLinks, ConflictResolve, FleetKey, TLC

VARIABLE scene   \* the component this behaviour is about

\* The two commands of an upgrade, of the skill links and the two machines of a fleet
\* are given the same names: one exchange of the two leaves every scene as it is.
Symmetry == Permutations(UPProcs)

\* The request a Cursor run belongs to.
Requests == [c \in CURuns |-> CHOOSE g \in CUGens : TRUE]

\* A copy minted before the inversion, and one minted between it and the v1 names.
LegacyCopies ==
  { [era |-> "none", made |-> 0, text |-> {<<"old", 0>>}, mt |-> 0, local |-> TRUE],
    [era |-> "none", made |-> 1, text |-> {<<"theirs", 0>>}, mt |-> 1, local |-> FALSE] }

allVars == <<scene, cuVars, upVars, slVars, crVars, fkVars>>

Scene(name) == scene = name /\ UNCHANGED scene

Init ==
  /\ scene \in {"cursor", "upgrade", "skills", "resolve", "fleet"}
  /\ CUInit
  /\ UPInit /\ (scene # "upgrade" => upVenv.kind = "pinned")
  /\ SLInit /\ (scene # "skills" => slRoots = {} /\ slLink = [r \in SLRows |-> "absent"])
  /\ CRInit /\ (scene # "resolve" => copies[CHOOSE c \in CRCopies : TRUE] = [era |-> "none", made |-> 0, text |-> {<<"old", 0>>},
                                            mt |-> 0, local |-> TRUE])
  /\ FKInit

CursorScene == Scene("cursor") /\ CUNext
               /\ UNCHANGED <<upVars, slVars, crVars, fkVars>>
UpgradeScene == Scene("upgrade") /\ UPNext
                /\ UNCHANGED <<cuVars, slVars, crVars, fkVars>>
SkillScene == Scene("skills") /\ SLNext
              /\ UNCHANGED <<cuVars, upVars, crVars, fkVars>>
ResolveScene == Scene("resolve") /\ CRNext
                /\ UNCHANGED <<cuVars, upVars, slVars, fkVars>>
FleetScene == Scene("fleet") /\ FKNext
              /\ UNCHANGED <<cuVars, upVars, slVars, crVars>>
Next == CursorScene \/ UpgradeScene \/ SkillScene \/ ResolveScene \/ FleetScene

Spec == Init /\ [][Next]_allVars
-----------------------------------------------------------------------------
\* The state of the component has its shape; the others stand still.
TypeOK ==
  /\ scene = "cursor" => CUTypeOK
  /\ scene = "upgrade" => UPTypeOK
  /\ scene = "skills" => SLTypeOK
  /\ scene = "resolve" => CRTypeOK
  /\ scene = "fleet" => FKTypeOK
===============================================================================
