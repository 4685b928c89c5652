----------------------------- MODULE JsonStore -----------------------------
(***************************************************************************)
(* What a locked JSON file promises its callers: a set of facts that each *)
(* caller changes one at a time and for itself only.  A rebuildable cache *)
(* may also be lost as a whole; a durable store may not.                  *)
(***************************************************************************)
CONSTANTS Callers

VARIABLES store, losable

JSInit == store = {} /\ losable \in BOOLEAN

\* One caller's change takes effect at once and leaves the others' alone.
Commit(p) == \/ store' = store \cup {p}
             \/ store' = store \ {p}

Lose == losable /\ store' = {}

JSNext == UNCHANGED losable /\ ((\E p \in Callers : Commit(p)) \/ Lose)

JSSpec == JSInit /\ [][JSNext]_<<store, losable>>
=============================================================================
