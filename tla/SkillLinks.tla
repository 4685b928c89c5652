----------------------------- MODULE SkillLinks -----------------------------
(***************************************************************************)
(* skill_link.py: mm publishes its retro-fleet skill into a store of its   *)
(* own and points a link of each consented agent at it.  `mm push` does it *)
(* behind a drift gate; `mm init` and `mm install-skills` do it always,    *)
(* explicitly, and without the process lock, possibly from another version *)
(* of mm.  Only runs that may write are modelled: a quiet push classifies  *)
(* and changes nothing.  One link is inspected and replaced in one step.   *)
(* Two versions of the payload may have the same size.                     *)
(***************************************************************************)
EXTENDS Integers, FiniteSets

CONSTANTS SLProcs, SLRows,
          SLVersions,               \* versions of mm, positive
          SLRuns, SLUserSteps, SLFaults,  \* bounds: runs, deeds of the user, I/O faults
          SLNone

ASSUME SLConstants == SLVersions \subseteq Nat \ {0} /\ SLNone \notin SLProcs
ASSUME SLBounds == SLRuns \in Nat /\ SLUserSteps \in Nat /\ SLFaults \in Nat

VARIABLES slLink,     \* by agent: "absent", "store", "package", "checkout" or "foreign"
          slMarker,   \* by agent: the success marker is "none", "fresh" or "stale"
          slRoots,    \* agents whose root directory exists
          slDead,     \* of {"package", "checkout"}: where a link leads to nothing
          slStore,    \* what is at the store's path, its payload and metadata (0: none)
          slLock,     \* who holds the publish lock
          slRun, slEnded,  \* the run of each process; the run that ended in the last step
          slLeft      \* what is left of the bounds

slVars == <<slLink, slMarker, slRoots, slDead, slStore, slLock, slRun, slEnded, slLeft>>

SLIdle == [pc |-> "idle", ver |-> 0, explicit |-> FALSE, allowed |-> {}, todo |-> {}, clean |-> TRUE]

SLTypeOK ==
  /\ slLink \in [SLRows -> {"absent", "store", "package", "checkout", "foreign"}]
  /\ slMarker \in [SLRows -> {"none", "fresh", "stale"}]
  /\ slRoots \subseteq SLRows /\ slDead \subseteq {"package", "checkout"}
  /\ slStore \in [at : {"none", "owned", "foreign"}, payload : SLVersions \cup {0}, meta : SLVersions \cup {0}]
  /\ slLock \in SLProcs \cup {SLNone}
  /\ slRun \in [SLProcs -> [pc : {"idle", "publish", "payload", "meta", "link"},
                            ver : SLVersions \cup {0}, explicit : BOOLEAN,
                            allowed : SUBSET SLRows, todo : SUBSET SLRows, clean : BOOLEAN]]
  /\ \A p \in SLProcs : slRun[p].todo \subseteq slRun[p].allowed
  /\ slLeft \in [runs : Nat, user : Nat, faults : Nat]

NoStore == [at |-> "none", payload |-> 0, meta |-> 0]

SLInit ==
  /\ slLink \in [SLRows -> {"absent", "package", "checkout"}]
  /\ slMarker = [r \in SLRows |-> "none"] /\ slRoots \in SUBSET SLRows
  /\ slDead = {} /\ slStore = NoStore /\ slLock = SLNone
  /\ slRun = [p \in SLProcs |-> SLIdle] /\ slEnded = SLNone
  /\ slLeft = [runs |-> SLRuns, user |-> SLUserSteps, faults |-> SLFaults]
-----------------------------------------------------------------------------
\* _store_is_healthy, _owned_store_exists, _store_needs_refresh.
Healthy == slStore.at # "none" /\ slStore.payload # 0
Owned == slStore.at = "owned"
NeedsRefresh(ver) == slStore.payload = 0 \/ slStore.meta # ver

\* _symlink_lives.
Lives(link) == IF link = "store" THEN slStore.at # "none" ELSE link \notin slDead

\* Mutant: a stale marker reopens the question of a link that was removed.
RowDueWhenStale(r, ver) == /\ r \in slRoots
                           /\ slMarker[r] # "fresh" \/ slLink[r] \notin {"absent", "store"}
                              \/ ~Lives("store") \/ NeedsRefresh(ver)
\* _skill_link_check_due_for and _skill_link_check_due_at.
RowDue(r, ver) ==
  /\ r \in slRoots
  /\ IF slLink[r] = "absent" THEN slMarker[r] = "none"
     ELSE \/ slMarker[r] # "fresh" \/ slLink[r] # "store"
          \/ ~Lives("store") \/ NeedsRefresh(ver)

\* _skill_links_check_due.
LinksDue(ver, allowed) == (Owned /\ NeedsRefresh(ver)) \/ \E r \in allowed : RowDue(r, ver)

Ended(p) == [ver |-> slRun[p].ver, allowed |-> slRun[p].allowed, clean |-> slRun[p].clean]
Stop(p, ended) == slRun' = [slRun EXCEPT ![p] = SLIdle] /\ slEnded' = ended
Goto(p, pc) == slRun' = [slRun EXCEPT ![p].pc = pc] /\ slEnded' = SLNone

\* Every run under way, marked as not having had the machine to itself.
Disturbed == [p \in SLProcs |-> [slRun[p] EXCEPT !.clean = slRun[p].pc = "idle"]]

\* _ensure_retro_skill_links: which agents are there, and whether there is anything
\* to publish.  The package it publishes from may be unreadable.
Begin(p) ==
  \E ver \in SLVersions, explicit \in BOOLEAN, allowed \in SUBSET SLRows, readable \in BOOLEAN :
    LET available == allowed \cap slRoots
    IN  /\ slRun[p].pc = "idle" /\ slLeft.runs > 0
        /\ explicit \/ LinksDue(ver, allowed)
        /\ available # {} \/ Owned
        /\ readable \/ (Healthy /\ slLeft.faults > 0)
        /\ slRun' = [slRun EXCEPT ![p] = [pc |-> IF readable THEN "publish" ELSE "link", ver |-> ver,
                       explicit |-> explicit, allowed |-> allowed, todo |-> available, clean |-> readable]]
        /\ slLeft' = [slLeft EXCEPT !.runs = @ - 1, !.faults = IF readable THEN @ ELSE @ - 1]
        /\ slEnded' = SLNone
        /\ UNCHANGED <<slLink, slMarker, slRoots, slDead, slStore, slLock>>

\* _should_publish: never over a newer version, always when something is missing.
ShouldPublish(ver) == \/ slStore.payload = 0 \/ slStore.meta = 0
                      \/ ver > slStore.meta
                      \/ ver = slStore.meta /\ slStore.payload # ver

LockFree(p) == slLock = SLNone

\* _publish_skill_store, under the publish lock: _prepare_store_dir refuses a store
\* that is not mm's and creates one that is not there.
TakeStore(p) ==
  /\ slRun[p].pc = "publish" /\ LockFree(p)
  /\ IF slStore.at = "foreign"
     THEN /\ Stop(p, [Ended(p) EXCEPT !.clean = FALSE])
          /\ UNCHANGED <<slStore, slLock>>
     ELSE /\ slStore' = [slStore EXCEPT !.at = "owned"]
          /\ IF ShouldPublish(slRun[p].ver)
             THEN slLock' = p /\ Goto(p, "payload")
             ELSE UNCHANGED slLock /\ Goto(p, "link")
  /\ UNCHANGED <<slLink, slMarker, slRoots, slDead, slLeft>>
\* Each file is replaced at once; when the user took the directory away, it is not.
Write(p, store, next) ==
  /\ IF slStore.at = "owned"
     THEN slStore' = store /\ Goto(p, next)
     ELSE UNCHANGED slStore /\ Stop(p, [Ended(p) EXCEPT !.clean = FALSE])
  /\ slLock' = IF slStore.at = "owned" /\ next = "meta" THEN p ELSE SLNone
  /\ UNCHANGED <<slLink, slMarker, slRoots, slDead, slLeft>>
WritePayload(p) ==
  slRun[p].pc = "payload" /\ Write(p, [slStore EXCEPT !.payload = slRun[p].ver], "meta")
WriteMeta(p) ==
  slRun[p].pc = "meta" /\ Write(p, [slStore EXCEPT !.meta = slRun[p].ver], "link")
-----------------------------------------------------------------------------
\* _install_available_skill_target, for an inspected link.
\* Mutant: an old marker no longer counts.
KnownLately(r) == slMarker[r] = "fresh"
KnownHere(r) == slMarker[r] # "none"
Placed(r, explicit) ==
  CASE slLink[r] = "foreign" -> "foreign"
    [] slLink[r] = "checkout" -> IF Lives("checkout") /\ ~explicit THEN "checkout" ELSE "store"
    [] slLink[r] = "absent" -> IF ~explicit /\ KnownHere(r) THEN "absent" ELSE "store"
    [] OTHER -> "store"
Satisfied(r, explicit) == Placed(r, explicit) \in {"store", "checkout"}

LinkRow(p, r) ==
  /\ slRun[p].pc = "link" /\ r \in slRun[p].todo
  /\ slLink' = [slLink EXCEPT ![r] = Placed(r, slRun[p].explicit)]
  /\ slMarker' = [slMarker EXCEPT ![r] = IF Satisfied(r, slRun[p].explicit) THEN "fresh" ELSE @]
  /\ slRun' = [slRun EXCEPT ![p].todo = @ \ {r}] /\ slEnded' = SLNone
  /\ UNCHANGED <<slRoots, slDead, slStore, slLock, slLeft>>

\* The link or its marker cannot be written; _touch_marker swallows its failure.
LinkFails(p, r) ==
  /\ slRun[p].pc = "link" /\ r \in slRun[p].todo /\ slLeft.faults > 0
  /\ slLink' \in {slLink, [slLink EXCEPT ![r] = Placed(r, slRun[p].explicit)]}
  /\ slRun' = [Disturbed EXCEPT ![p].todo = @ \ {r}] /\ slEnded' = SLNone
  /\ slLeft' = [slLeft EXCEPT !.faults = @ - 1]
  /\ UNCHANGED <<slMarker, slRoots, slDead, slStore, slLock>>

EndRun(p) ==
  /\ slRun[p].pc = "link" /\ slRun[p].todo = {} /\ Stop(p, Ended(p))
  /\ UNCHANGED <<slLink, slMarker, slRoots, slDead, slStore, slLock, slLeft>>

\* The process dies; the system drops its lock.
Crash(p) ==
  /\ slRun[p].pc # "idle" /\ slLeft.faults > 0 /\ Stop(p, SLNone)
  /\ slLock' = IF slLock = p THEN SLNone ELSE slLock
  /\ slLeft' = [slLeft EXCEPT !.faults = @ - 1]
  /\ UNCHANGED <<slLink, slMarker, slRoots, slDead, slStore>>
-----------------------------------------------------------------------------
\* What the user may do at any time, and a day passing.
User(r) ==
  /\ \/ /\ slLink' = [slLink EXCEPT ![r] = "absent"] /\ UNCHANGED <<slMarker, slRoots, slDead, slStore>>
     \/ /\ r \in slRoots /\ slLink' = [slLink EXCEPT ![r] = "foreign"]
        /\ UNCHANGED <<slMarker, slRoots, slDead, slStore>>
     \/ slRoots' = slRoots \cup {r} /\ UNCHANGED <<slLink, slMarker, slDead, slStore>>
     \/ /\ slDead' \in {slDead \cup {"package"}, slDead \cup {"checkout"}}
        /\ UNCHANGED <<slLink, slMarker, slRoots, slStore>>
     \/ /\ slStore' = NoStore \/ (slLock = SLNone /\ slStore' = [NoStore EXCEPT !.at = "foreign"])
        /\ UNCHANGED <<slLink, slMarker, slRoots, slDead>>
     \/ /\ slMarker' = [a \in SLRows |-> IF slMarker[a] = "fresh" THEN "stale" ELSE slMarker[a]]
        /\ UNCHANGED <<slLink, slRoots, slDead, slStore>>
  /\ slLeft.user > 0 /\ slLeft' = [slLeft EXCEPT !.user = @ - 1]
  /\ slRun' = Disturbed /\ slEnded' = SLNone /\ UNCHANGED slLock

SLNext == \/ \E p \in SLProcs : \/ Begin(p) \/ TakeStore(p) \/ WritePayload(p) \/ WriteMeta(p)
                                \/ EndRun(p) \/ Crash(p)
                                \/ \E r \in SLRows : LinkRow(p, r) \/ LinkFails(p, r)
          \/ \E r \in SLRows : User(r)
SLSpec == SLInit /\ [][SLNext]_slVars
-----------------------------------------------------------------------------
\* Two versions of mm publishing at once, or one dying half way, never leave the
\* payload of an older version under the metadata of a newer one, which would keep
\* every agent on the old skill.
PayloadNotBehindMeta == slStore.payload # 0 => slStore.payload >= slStore.meta

\* The gate of `mm push` is due whenever the installer would change the agent's link,
\* however fresh the marker.
GateMissesNothing ==
  \A r \in slRoots, ver \in SLVersions :
    (Placed(r, FALSE) # slLink[r] \/ (slLink[r] = "store" /\ ~Healthy)) => LinksDue(ver, {r})

\* After a run nothing disturbed, the same mm is not due again, unless an agent's link
\* is one it leaves alone or a newer mm owns the store: no push runs it in vain.
SettledRowsAreQuiet ==
  (slEnded # SLNone /\ slEnded.clean /\ LinksDue(slEnded.ver, slEnded.allowed)) =>
     \/ slStore.meta > slEnded.ver
     \/ \E r \in slEnded.allowed : slLink[r] \in {"foreign", "checkout"}

\* No agent's link is pointed at a store without a skill in it, unless the user took
\* it away during that very run.
LinkedOnlyToHealthyStore ==
  [][\A r \in SLRows : (slLink'[r] = "store" /\ slLink[r] # "store") =>
       Healthy' \/ \E p \in SLProcs : r \in slRun[p].todo /\ ~slRun[p].clean]_slVars

\* A link mm was satisfied with and the user removed is brought back by an explicit
\* run only, however long ago it was removed.
RemovedStaysRemoved ==
  [][\A r \in SLRows : (slLink[r] = "absent" /\ slMarker[r] # "none" /\ slLink'[r] # "absent") =>
       \/ slLeft'.user < slLeft.user
       \/ \E p \in SLProcs : slRun[p].explicit /\ r \in slRun[p].todo \ slRun'[p].todo]_slVars

\* The gate opens exactly when there is something to do, and what it then publishes
\* is never older than it says.
GateIsExact == GateMissesNothing /\ SettledRowsAreQuiet /\ PayloadNotBehindMeta

\* Links lead to a skill, and only where the user still wants one.
LinksAreWanted == LinkedOnlyToHealthyStore /\ RemovedStaysRemoved
=============================================================================
