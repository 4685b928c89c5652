----------------------------- MODULE SetupProofs -----------------------------
(***************************************************************************)
(* What is proved of self-update (Upgrade) and of the key of a fleet       *)
(* (FleetKey).  Swaps of the package are safe, and automatic ones a retry  *)
(* gap apart, for any number of commands, releases and ticks.  A fleet's   *)
(* keys survive and stay apart, for any number of machines, salts,         *)
(* conflict copies and deliveries.                                         *)
(***************************************************************************)
EXTENDS Upgrade, FleetKey, FiniteSetTheorems, TLAPS

(* ------------------------------ self-update ---------------------------- *)

(* A command holds the mm lock while it syncs, from the claim of an install *)
(* to the end of its swap, and, if it is a hook, while it checks.           *)
InLock(p) == \/ upProc[p].pc \in {"sync", "probe", "claim", "run", "wait"}
             \/ upProc[p].pc = "check" /\ upProc[p].verb = "hook"
Locked == \A p \in UPProcs : InLock(p) => upLock = p

(* What a command has of an automatic install: a release to install.        *)
Automatic(p) == /\ upProc[p].auto => upProc[p].pc \in {"run", "wait", "failed"}
                /\ upProc[p].pc \in {"probe", "claim"} => upProc[p].verb # "update"
                /\ \/ upProc[p].auto
                   \/ upProc[p].verb # "update" /\ upProc[p].pc \in {"relock", "probe", "claim"}
                   => upProc[p].latest \in Releases

(* The rows logged and about to be are fewer than the version last seen, or *)
(* none are when the cache has forgotten it.                                *)
SeenOr1 == IF upCache.seen = 0 THEN 1 ELSE upCache.seen
Logged == upRows + Cardinality(RowsDue) < SeenOr1

(* While the clock goes on and the cache is whole, it knows of the last     *)
(* automatic install, and a command about to start one has claimed it.      *)
Claims ==
  /\ upCache.claimAt # UPNone => upCache.claimAt <= upNow
  /\ \A v \in Releases : upTried[v] # UPNone =>
       upCache.claim = v /\ upCache.claimAt # UPNone /\ upTried[v] <= upCache.claimAt
  /\ \A p \in UPProcs : upProc[p].pc = "run" /\ upProc[p].auto =>
       /\ upCache.claim = upProc[p].latest /\ upCache.claimAt = upProc[p].at
       /\ upProc[p].at # UPNone
       /\ upTried[upProc[p].latest] # UPNone =>
            upProc[p].at >= upTried[upProc[p].latest] + UPDay

(* Whoever runs a pipx runs the only one.                                   *)
Alone == \A p, q \in Installers : p = q

UPInv ==
  /\ UPTypeOK /\ Locked /\ \A p \in UPProcs : Automatic(p)
  /\ Alone /\ ForcedOnlyOverPinned
  /\ Logged
  /\ ~upBack => Claims

-----------------------------------------------------------------------------
(* A step moves at most one command.                                        *)
Proc == [pc : {"idle", "load", "log", "lock", "sync", "check", "relock", "probe", "claim",
               "run", "wait", "failed", "nudge"},
         verb : {"hook", "attended", "update"}, ver : 0..UPVersions,
         latest : 0..UPVersions, at : Stamps,
         old : 0..UPVersions, auto : BOOLEAN, forced : BOOLEAN]
Moves(p) == /\ upProc' = [upProc EXCEPT ![p] = upProc'[p]] /\ upProc'[p] \in Proc
            /\ \A q \in UPProcs \ {p} : upProc'[q] = upProc[q]

(* Between commands, in a nudge and after a failure the record has its type. *)
LEMMA ProcTypes ==
  /\ UPIdle \in Proc /\ Nudging \in Proc
  /\ \A me \in Proc : Failing(me) \in Proc
<1>1. UPIdle \in Proc
  BY UPNumbers DEF UPIdle, Proc, Stamps
<1>2. Nudging \in Proc
  BY <1>1 DEF Nudging, Proc
<1>3. ASSUME NEW me \in Proc PROVE Failing(me) \in Proc
  BY <1>1 DEF Failing, Proc
<1> QED BY <1>1, <1>2, <1>3

(* A command that goes on with another record moves alone.                  *)
LEMMA MovesTo ==
  ASSUME UPTypeOK, NEW p \in UPProcs, NEW r \in Proc, upProc' = [upProc EXCEPT ![p] = r]
  PROVE  Moves(p) /\ upProc'[p] = r
BY DEF UPTypeOK, Moves, Proc

(* Every step of a command moves that command.                              *)
LEMMA CommandMoves ==
  ASSUME UPTypeOK, NEW p \in UPProcs,
         UPDies(p) \/ UPStep(p) \/ \E verb \in {"hook", "attended", "update"} : UPStart(p, verb)
  PROVE  Moves(p)
<1>0. upProc[p] \in Proc /\ upProc \in [UPProcs -> Proc]
  BY DEF UPTypeOK, Proc
<1>1. ASSUME NEW verb \in {"hook", "attended", "update"}, UPStart(p, verb) PROVE Moves(p)
  <2>1. [UPIdle EXCEPT !.verb = verb, !.ver = upVenv.ver,
                       !.pc = IF verb = "update" THEN "check" ELSE "load"] \in Proc
    BY ProcTypes DEF Proc, UPTypeOK
  <2> QED BY <1>1, <2>1, MovesTo DEF UPStart
<1>2. CASE Transition(p)
  BY SMTT(40), <1>0, <1>2 DEF Transition, UPGoto, Proc, Moves, UPTypeOK
<1>3. CASE LogTransition(p)
  BY <1>0, <1>3, UPNumbers DEF LogTransition, Proc, Moves
<1>4. CASE SyncEnds(p) \/ AcquireLock(p)
  BY <1>0, <1>4, ProcTypes DEF SyncEnds, AcquireLock, UPGoto, UPEnd, Proc, Moves
<1>5. CASE CheckForUpgrade(p)
  <2>1. PICK outcome \in {"ok", "empty", "failed", "quiet"}, next \in {"idle", "nudge", "relock", "probe"}, known \in BOOLEAN :
          upProc' = [upProc EXCEPT ![p] =
                IF next = "idle" THEN UPIdle
                ELSE IF next = "nudge" THEN Nudging
                ELSE [@ EXCEPT !.pc = next, !.ver = 0, !.latest = IF known THEN Fetched(outcome).latest ELSE 0]]
    BY <1>5, Zenon DEF CheckForUpgrade, AfterCheck
  <2>2. Fetched(outcome).latest \in 0..UPVersions
    BY DEF Fetched, UPTypeOK, Releases
  <2> DEFINE found == IF known THEN Fetched(outcome).latest ELSE 0
  <2>3. found \in 0..UPVersions
    BY <2>2, UPNumbers
  <2> HIDE DEF found
  <2>4. [upProc[p] EXCEPT !.pc = next, !.ver = 0, !.latest = found] \in Proc
    <3>1. 0 \in 0..UPVersions
      BY UPNumbers
    <3>2. ASSUME NEW me \in Proc PROVE [me EXCEPT !.pc = next, !.ver = 0, !.latest = found] \in Proc
      BY <2>3, <3>1 DEF Proc
    <3> QED BY <1>0, <3>2
  <2>5. upProc' = [upProc EXCEPT ![p] =
                IF next = "idle" THEN UPIdle
                ELSE IF next = "nudge" THEN Nudging
                ELSE [@ EXCEPT !.pc = next, !.ver = 0, !.latest = found]]
    BY <2>1 DEF found
  <2> QED BY <1>0, <2>4, <2>5, ProcTypes DEF Moves
<1>6. CASE Nudge(p) \/ UPDies(p)
  BY <1>0, <1>6, ProcTypes DEF Nudge, UPDies, UPEnd, Moves
<1>7. CASE Relock(p)
  <2>1. PICK next \in {"idle", "probe", "nudge", "run"} :
          upProc' = [upProc EXCEPT ![p] =
              IF next = "idle" THEN UPIdle
              ELSE IF next = "nudge" THEN Nudging
              ELSE [@ EXCEPT !.pc = next, !.old = upVenv.ver, !.forced = (upVenv.kind = "pinned")]]
    BY <1>7 DEF Relock
  <2>2. [upProc[p] EXCEPT !.pc = next, !.old = upVenv.ver, !.forced = (upVenv.kind = "pinned")] \in Proc
    BY <1>0 DEF Proc, UPTypeOK
  <2> QED BY <1>0, <2>1, <2>2, ProcTypes DEF Moves
<1>8. CASE Probe(p)
  BY <1>0, <1>8, ProcTypes DEF Probe, UPEnd, UPGoto, Proc, Moves
<1>9. CASE Claim(p)
  BY <1>0, <1>9, ProcTypes, UPNumbers DEF Claim, UPEnd, UPNudges, Proc, Moves, Stamps, UPTypeOK
<1>10. CASE RunPipx(p)
  <2>1. [upProc[p] EXCEPT !.pc = "wait", !.at = UPNone] \in Proc
    BY <1>0 DEF Proc, Stamps
  <2>2. \/ upProc' = [upProc EXCEPT ![p] = UPIdle]
        \/ upProc' = [upProc EXCEPT ![p] = [upProc[p] EXCEPT !.pc = "wait", !.at = UPNone]]
        \/ upProc' = [upProc EXCEPT ![p] = Failing(upProc[p])]
    BY <1>10, Zenon DEF RunPipx, UPEnd, UPFails
  <2> QED BY <1>0, <2>1, <2>2, ProcTypes DEF Moves
<1>11. CASE Waited(p)
  BY <1>0, <1>11, ProcTypes DEF Waited, Moves
<1>12. CASE RecordFailed(p)
  BY <1>0, <1>12, ProcTypes DEF RecordFailed, UPEnd, UPNudges, Moves
<1> QED BY <1>1, <1>2, <1>3, <1>4, <1>5, <1>6, <1>7, <1>8, <1>9, <1>10, <1>11, <1>12 DEF UPStep

(* Whoever is about to log an upgrade can be counted.                       *)
LEMMA DueCounts == IsFiniteSet(RowsDue) /\ Cardinality(RowsDue) \in Nat
<1>1. RowsDue \subseteq UPProcs
  BY DEF RowsDue
<1> QED BY <1>1, UPFinite, FS_Subset, FS_CardinalityType

(* Every variable keeps its kind of value.                                  *)
LEMMA TypeStep == UPTypeOK /\ [UPNext]_upVars => UPTypeOK'
<1> SUFFICES ASSUME UPTypeOK, [UPNext]_upVars PROVE UPTypeOK'
  OBVIOUS
<1> DEFINE Venvs == [kind : {"tracking", "pinned", "gone"}, ver : 0..UPVersions]
           Caches == [latest : 0..UPVersions, checked : Stamps, attempted : Stamps,
                      seen : 0..UPVersions, claim : 0..UPVersions, claimAt : Stamps, failed : BOOLEAN]
           Pipxs == [on : BOOLEAN, forced : BOOLEAN, over : {"tracking", "pinned", "gone"}]
           Rest == /\ upNow \in 0..UPLastTick /\ upTag \in Releases /\ upBranch \in Releases
                   /\ upVenv \in Venvs /\ upCache \in Caches /\ upLock \in UPProcs \cup {UPNone}
                   /\ upPipx \in [UPProcs -> Pipxs] /\ upTried \in [Releases -> Stamps]
                   /\ upRows \in Int /\ upBack \in BOOLEAN
<1>0. UPTypeOK = (Rest /\ upProc \in [UPProcs -> Proc])
  BY DEF UPTypeOK, Proc
<1>a. /\ upNow \in 0..UPLastTick /\ upTag \in Releases /\ upBranch \in Releases
      /\ upVenv \in Venvs /\ upCache \in Caches /\ upLock \in UPProcs \cup {UPNone}
      /\ upPipx \in [UPProcs -> Pipxs] /\ upTried \in [Releases -> Stamps]
      /\ upRows \in Int /\ upBack \in BOOLEAN /\ upProc \in [UPProcs -> Proc]
  BY <1>0
<1>b. /\ UPNone \in Stamps /\ upNow \in Stamps /\ 0 \in 0..UPVersions
      /\ upTag \in 0..UPVersions /\ upBranch \in 0..UPVersions
  BY <1>a, UPNumbers DEF Stamps, Releases
<1>c. EmptyCache \in Caches /\ NoPipx \in Pipxs
  BY <1>b DEF EmptyCache, NoPipx
<1>d. (UPTypeOK)' = (Rest' /\ upProc' \in [UPProcs -> Proc])
  BY DEF UPTypeOK, Proc, Releases, Stamps
<1>1. CASE UNCHANGED upVars
  BY <1>1, <1>a, <1>d DEF upVars, upWorld, Releases, Stamps
<1>2. CASE Tick
  <2>1. UPLastTick \in Nat
    BY UPTimes
  <2>2. upNow' \in 0..UPLastTick /\ upBack' \in BOOLEAN
    <3>1. upNow \in 0..UPLastTick /\ upBack \in BOOLEAN
      BY <1>a
    <3>2. \/ upNow < UPLastTick /\ upNow' = upNow + 1 /\ upBack' = upBack
          \/ upNow > 0 /\ upNow' = upNow - 1 /\ upBack' = TRUE
      BY <1>2 DEF Tick
    <3>3. upNow' \in 0..UPLastTick
      BY <2>1, <3>1, <3>2
    <3> QED BY <3>1, <3>2, <3>3
  <2> QED BY <1>2, <1>a, <1>d, <2>2 DEF Tick, Releases, Stamps
<1>3. CASE Release
  <2>1. upTag' \in Releases /\ upBranch' \in Releases
    BY <1>3, <1>a, UPNumbers DEF Release, Releases
  <2> QED BY <1>3, <1>a, <1>d, <2>1 DEF Release, Releases, Stamps
<1>4. ASSUME NEW p \in UPProcs, PipxEnds(p) PROVE UPTypeOK'
  <2>1. upVenv' \in Venvs
    BY <1>4, <1>a, <1>b DEF PipxEnds
  <2>2. upPipx' \in [UPProcs -> Pipxs]
    BY <1>4, <1>a, <1>c DEF PipxEnds
  <2> QED BY <1>4, <1>a, <1>d, <2>1, <2>2 DEF PipxEnds, upWorld, Releases, Stamps
<1>5. ASSUME NEW p \in UPProcs,
             UPDies(p) \/ UPStep(p) \/ \E verb \in {"hook", "attended", "update"} : UPStart(p, verb)
      PROVE UPTypeOK'
  <2>1. upProc' \in [UPProcs -> Proc] /\ upProc[p] \in Proc
    BY <1>5, <1>a, CommandMoves DEF Moves
  <2>2. SUFFICES Rest'
    BY <1>d, <2>1
  <2>3. \A q \in UPProcs : Unlocked(q) \in UPProcs \cup {UPNone}
    BY <1>a DEF Unlocked
  <2>4. ASSUME NEW verb \in {"hook", "attended", "update"}, UPStart(p, verb) PROVE Rest'
    BY <2>4, <1>a DEF UPStart, upWorld, Releases, Stamps
  <2>5. CASE Transition(p)
    <3>1. upCache' \in Caches
      BY <2>5, <1>a, <2>1 DEF Transition, Proc
    <3>2. upRows' \in Int
      <4>1. upCache.seen \in Int /\ upProc[p].ver \in Int
        BY <1>a, <2>1 DEF Proc
      <4> QED BY <2>5, <1>a, <4>1 DEF Transition
    <3> QED BY <2>5, <1>a, <3>1, <3>2 DEF Transition, upWorld, Releases, Stamps
  <2>6. CASE LogTransition(p)
    <3>1. upRows' \in Int
      BY <2>6, <1>a DEF LogTransition
    <3> QED BY <2>6, <1>a, <3>1 DEF LogTransition, upWorld, Releases, Stamps
  <2>7. CASE SyncEnds(p) \/ AcquireLock(p)
    BY <2>7, <1>a, <2>3 DEF SyncEnds, AcquireLock, upWorld, Releases, Stamps
  <2>8. CASE CheckForUpgrade(p)
    <3>1. \A outcome \in {"ok", "empty", "failed", "quiet"} : Fetched(outcome) \in Caches
      BY <1>a, <1>b DEF Fetched
    <3>2. upCache' \in Caches /\ upLock' \in {Unlocked(p), upLock}
      BY <2>8, <3>1, Zenon DEF CheckForUpgrade
    <3> QED BY <2>8, <1>a, <2>3, <3>2 DEF CheckForUpgrade, upWorld, Releases, Stamps
  <2>9. CASE Nudge(p) \/ UPDies(p)
    BY <2>9, <1>a, <2>3 DEF Nudge, UPDies, upWorld, Releases, Stamps
  <2>10. CASE Relock(p)
    <3>1. upLock' \in UPProcs \cup {UPNone}
      BY <2>10, <1>a, Zenon DEF Relock, SwapLock
    <3> QED BY <2>10, <1>a, <3>1 DEF Relock, upWorld, Releases, Stamps
  <2>11. CASE Probe(p)
    BY <2>11, <1>a, <2>3 DEF Probe, upWorld, Releases, Stamps
  <2>12. CASE Claim(p)
    <3>1. upCache' \in Caches
      <4>1. upProc[p].latest \in 0..UPVersions
        BY <2>1 DEF Proc
      <4>2. \/ upCache' = [upCache EXCEPT !.claim = upProc[p].latest, !.claimAt = upNow, !.failed = FALSE]
            \/ upCache' = EmptyCache \/ upCache' = upCache
        BY <2>12, Zenon DEF Claim
      <4> QED BY <1>a, <1>b, <1>c, <4>1, <4>2
    <3>2. upTried' \in [Releases -> Stamps]
      BY <2>12, <1>a, <1>b DEF Claim
    <3>3. upRows' \in Int
      <4>1. upRows' = upRows \/ upRows' = -Cardinality(RowsDue)
        BY <2>12, Zenon DEF Claim
      <4> QED BY <1>a, <4>1, DueCounts
    <3> QED BY <2>12, <1>a, <2>3, <3>1, <3>2, <3>3 DEF Claim, upWorld, Releases, Stamps
  <2>13. CASE RunPipx(p)
    <3>1. upTried' \in [Releases -> Stamps]
      BY <2>13, <1>a, <2>1 DEF RunPipx, Proc
    <3>2. upPipx' \in [UPProcs -> Pipxs]
      <4>1. [on |-> TRUE, forced |-> upProc[p].forced,
             over |-> IF upProc[p].forced THEN upVenv.kind ELSE "tracking"] \in Pipxs
        BY <1>a, <2>1 DEF Proc
      <4> QED BY <2>13, <1>a, <4>1 DEF RunPipx
    <3> QED BY <2>13, <1>a, <2>3, <3>1, <3>2 DEF RunPipx, upWorld, Releases, Stamps
  <2>14. CASE Waited(p)
    <3>1. upVenv' \in Venvs /\ upPipx' \in [UPProcs -> Pipxs]
      BY <2>14, <1>a, <1>b, <1>c DEF Waited
    <3> QED BY <2>14, <1>a, <2>3, <3>1 DEF Waited, upWorld, Releases, Stamps
  <2>15. CASE RecordFailed(p)
    <3>1. upCache' \in Caches
      BY <2>15, <1>a DEF RecordFailed
    <3> QED BY <2>15, <1>a, <2>3, <3>1 DEF RecordFailed, upWorld, Releases, Stamps
  <2> QED BY <1>5, <2>4, <2>5, <2>6, <2>7, <2>8, <2>9, <2>10, <2>11, <2>12, <2>13, <2>14, <2>15 DEF UPStep
<1> QED BY <1>1, <1>2, <1>3, <1>4, <1>5 DEF UPNext

-----------------------------------------------------------------------------
(* A step of p that takes or gives back nothing but its own lock, and has it *)
(* afterwards where it has to, keeps the lock's discipline.                 *)
LEMMA LockedBy ==
  ASSUME Locked, NEW p \in UPProcs, \A q \in UPProcs \ {p} : upProc'[q] = upProc[q],
         upLock' = upLock \/ upLock \in {p, UPNone}, InLock(p)' => upLock' = p
  PROVE  Locked'
<1> SUFFICES ASSUME NEW q \in UPProcs, q # p, InLock(q)' PROVE upLock' = q
  BY DEF Locked
<1>1. upProc'[q] = upProc[q]
  OBVIOUS
<1>2. InLock(q)
  BY <1>1 DEF InLock
<1> QED BY <1>2, UPNumbers DEF Locked

(* The command in its critical section is the only one there.               *)
LEMMA OneInLock ==
  ASSUME Locked, NEW p \in UPProcs, NEW q \in UPProcs, InLock(p), InLock(q) PROVE p = q
BY DEF Locked

(* What a check comes to: an outcome of the fetch, whether a release is     *)
(* known, and where the command goes from there.                            *)
Outcomes == {"ok", "empty", "failed", "quiet"}
Checked(p, outcome, next, known) ==
  /\ upProc[p].pc = "check" /\ upCache' = Fetched(outcome)
  /\ known => Fetched(outcome).latest > 0
  /\ upProc' = [upProc EXCEPT ![p] =
       IF next = "idle" THEN UPIdle
       ELSE IF next = "nudge" THEN Nudging
       ELSE [@ EXCEPT !.pc = next, !.ver = 0, !.latest = IF known THEN Fetched(outcome).latest ELSE 0]]
  /\ upLock' = IF next = "idle" THEN Unlocked(p) ELSE upLock
  /\ next = "probe" => upProc[p].verb = "hook"
  /\ next \in {"probe", "relock"} /\ upProc[p].verb # "update" => known
LEMMA CheckEnds ==
  ASSUME NEW p \in UPProcs, CheckForUpgrade(p)
  PROVE  \E outcome \in Outcomes, next \in {"idle", "nudge", "relock", "probe"}, known \in BOOLEAN :
           Checked(p, outcome, next, known)
<1> DEFINE Known(o) == /\ Fetched(o).latest > 0 /\ o # "empty"
                       /\ ~(o = "failed" /\ upProc[p].verb = "update")
           Leads(o) == AfterCheck(p, Fetched(o).latest, Known(o))
<1>1. PICK outcome \in Outcomes :
        /\ upProc[p].pc = "check" /\ upCache' = Fetched(outcome)
        /\ upProc' = [upProc EXCEPT ![p] =
             IF Leads(outcome) = "idle" THEN UPIdle
             ELSE IF Leads(outcome) = "nudge" THEN Nudging
             ELSE [@ EXCEPT !.pc = Leads(outcome), !.ver = 0,
                            !.latest = IF Known(outcome) THEN Fetched(outcome).latest ELSE 0]]
        /\ upLock' = IF Leads(outcome) = "idle" THEN Unlocked(p) ELSE upLock
  <2>1. PICK outcome \in IF Due(upProc[p].verb) THEN {"ok", "empty", "failed"} ELSE {"quiet"} :
          LET cache == Fetched(outcome)
              known == /\ cache.latest > 0 /\ outcome # "empty"
                       /\ ~(outcome = "failed" /\ upProc[p].verb = "update")
              next  == AfterCheck(p, cache.latest, known)
          IN  /\ upCache' = cache
              /\ upProc' = [upProc EXCEPT ![p] =
                   IF next = "idle" THEN UPIdle
                   ELSE IF next = "nudge" THEN Nudging
                   ELSE [@ EXCEPT !.pc = next, !.ver = 0, !.latest = IF known THEN cache.latest ELSE 0]]
              /\ upLock' = IF next = "idle" THEN Unlocked(p) ELSE upLock
    BY Zenon DEF CheckForUpgrade
  <2>2. outcome \in Outcomes
    BY DEF Outcomes
  <2>3. upProc[p].pc = "check"
    BY DEF CheckForUpgrade
  <2> QED BY <2>1, <2>2, <2>3, Zenon
<1>2. Known(outcome) \in BOOLEAN
  OBVIOUS
<1>3. /\ Leads(outcome) \in {"idle", "nudge", "relock", "probe"}
      /\ Leads(outcome) = "probe" => upProc[p].verb = "hook"
      /\ Leads(outcome) \in {"probe", "relock"} /\ upProc[p].verb # "update" => Known(outcome)
  BY DEF AfterCheck
<1>4. Checked(p, outcome, Leads(outcome), Known(outcome))
  BY <1>1, <1>3, Zenon DEF Checked
<1> QED BY <1>2, <1>3, <1>4

(* The lock's discipline is kept by every step.                             *)
LEMMA LockedStep == UPTypeOK /\ Locked /\ [UPNext]_upVars => Locked'
<1> SUFFICES ASSUME UPTypeOK, Locked, [UPNext]_upVars PROVE Locked'
  OBVIOUS
<1>0. upProc \in [UPProcs -> Proc]
  BY DEF UPTypeOK, Proc
<1>1. CASE upProc' = upProc /\ upLock' = upLock
  BY <1>1 DEF Locked, InLock
<1>2. ASSUME NEW p \in UPProcs,
             UPDies(p) \/ UPStep(p) \/ \E verb \in {"hook", "attended", "update"} : UPStart(p, verb)
      PROVE Locked'
  <2>0. /\ upProc' = [upProc EXCEPT ![p] = upProc'[p]] /\ upProc'[p] \in Proc /\ upProc[p] \in Proc
        /\ \A q \in UPProcs \ {p} : upProc'[q] = upProc[q]
    BY <1>0, <1>2, CommandMoves DEF Moves
  <2>a. Unlocked(p) = upLock \/ upLock = p
    BY DEF Unlocked
  <2>b. InLock(p) => upLock = p
    BY DEF Locked
  <2>c. UPIdle.pc = "idle" /\ Nudging.pc = "nudge" /\ \A me \in Proc : Failing(me).pc = "failed"
    BY DEF UPIdle, Nudging, Failing
  <2>d. SUFFICES /\ upLock' = upLock \/ upLock \in {p, UPNone}
                 /\ InLock(p)' => upLock' = p
    BY <2>0, LockedBy
  <2>4. ASSUME NEW verb \in {"hook", "attended", "update"}, UPStart(p, verb)
        PROVE  /\ upLock' = upLock \/ upLock \in {p, UPNone}
               /\ InLock(p)' => upLock' = p
    <3>1. upProc'[p].verb = verb /\ upProc'[p].pc = (IF verb = "update" THEN "check" ELSE "load")
      BY <1>0, <2>4 DEF UPStart, UPIdle
    <3> QED BY <2>4, <3>1 DEF UPStart, InLock
  <2>5. CASE Transition(p) \/ LogTransition(p)
    <3>1. upProc'[p].pc \in {"log", "lock"}
      BY <1>0, <2>5 DEF Transition, LogTransition, UPGoto, Proc
    <3> QED BY <2>5, <3>1 DEF Transition, LogTransition, InLock
  <2>6. CASE AcquireLock(p)
    <3>1. CASE upLock = UPNone
      BY <2>6, <3>1 DEF AcquireLock, InLock
    <3>2. CASE upLock # UPNone
      BY <1>0, <2>6, <2>c, <3>2 DEF AcquireLock, UPEnd, InLock
    <3> QED BY <3>1, <3>2
  <2>7. CASE SyncEnds(p)
    <3>1. upLock = p /\ upProc'[p].verb = upProc[p].verb /\ upProc'[p].pc = "check"
      BY <1>0, <2>0, <2>7, <2>b DEF SyncEnds, UPGoto, InLock, Proc
    <3> QED BY <2>7, <3>1 DEF SyncEnds, InLock
  <2>8. CASE CheckForUpgrade(p)
    <3>1. PICK outcome \in Outcomes, next \in {"idle", "nudge", "relock", "probe"}, known \in BOOLEAN :
            Checked(p, outcome, next, known)
      BY <2>8, CheckEnds
    <3>2. next \notin {"idle", "nudge"} => upProc'[p].pc = next
      BY <1>0, <3>1 DEF Proc, Checked
    <3>3. next \in {"idle", "nudge"} => upProc'[p].pc = next
      BY <1>0, <2>c, <3>1 DEF Checked
    <3> QED BY <3>1, <3>2, <3>3, <2>a, <2>b DEF InLock, Checked
  <2>9. CASE Nudge(p) \/ UPDies(p)
    BY <1>0, <2>9, <2>a, <2>c DEF Nudge, UPDies, UPEnd, InLock
  <2>10. CASE Relock(p)
    <3>1. PICK next \in {"idle", "probe", "nudge", "run"} :
            /\ upProc' = [upProc EXCEPT ![p] =
                  IF next = "idle" THEN UPIdle
                  ELSE IF next = "nudge" THEN Nudging
                  ELSE [@ EXCEPT !.pc = next, !.old = upVenv.ver, !.forced = (upVenv.kind = "pinned")]]
            /\ upLock' = SwapLock(p, next)
            /\ upLock # UPNone => next = "idle"
      BY <2>10 DEF Relock
    <3>2. next \notin {"idle", "nudge"} => upProc'[p].pc = next
      BY <1>0, <3>1 DEF Proc
    <3>3. next \in {"idle", "nudge"} => upProc'[p].pc = next
      BY <1>0, <2>c, <3>1
    <3> QED BY <3>1, <3>2, <3>3 DEF InLock, SwapLock
  <2>11. CASE Probe(p) \/ Claim(p)
    <3>1. upLock = p
      BY <2>11, <2>b DEF Probe, Claim, InLock
    <3>2. upLock' = upLock \/ upProc'[p] = UPIdle
      BY <1>0, <2>11 DEF Probe, Claim, UPEnd
    <3> QED BY <3>1, <3>2, <2>c DEF InLock
  <2>13. CASE RunPipx(p)
    <3>1. upLock = p
      BY <2>13, <2>b DEF RunPipx, InLock
    <3>2. upLock' = upLock \/ upProc'[p] = UPIdle
      BY <1>0, <2>13 DEF RunPipx, UPEnd
    <3> QED BY <3>1, <3>2, <2>c DEF InLock
  <2>14. CASE Waited(p)
    <3>1. upProc'[p] \in {UPIdle, Failing(upProc[p])}
      BY <1>0, <2>14 DEF Waited
    <3> QED BY <2>0, <2>14, <3>1, <2>a, <2>c DEF Waited, InLock
  <2>15. CASE RecordFailed(p)
    <3>1. upProc'[p] \in {UPIdle, Nudging}
      BY <1>0, <2>15 DEF RecordFailed, UPEnd, UPNudges
    <3> QED BY <2>15, <3>1, <2>a, <2>c DEF RecordFailed, InLock
  <2> QED BY <1>2, <2>4, <2>5, <2>6, <2>7, <2>8, <2>9, <2>10, <2>11, <2>13, <2>14, <2>15 DEF UPStep
<1>3. (Tick \/ Release \/ UNCHANGED upVars \/ \E p \in UPProcs : PipxEnds(p))
      => upProc' = upProc /\ upLock' = upLock
  BY DEF Tick, Release, PipxEnds, upVars
<1> QED BY <1>1, <1>2, <1>3 DEF UPNext

-----------------------------------------------------------------------------
(* An automatic install is one of a release, from the check to the end.     *)
LEMMA AutomaticStep ==
  UPTypeOK /\ (\A p \in UPProcs : Automatic(p)) /\ [UPNext]_upVars => (\A p \in UPProcs : Automatic(p))'
<1> SUFFICES ASSUME UPTypeOK, \A p \in UPProcs : Automatic(p), [UPNext]_upVars
             PROVE  \A p \in UPProcs : Automatic(p)'
  OBVIOUS
<1>0. upProc \in [UPProcs -> Proc]
  BY DEF UPTypeOK, Proc
<1>1. CASE upProc' = upProc
  BY <1>1 DEF Automatic
<1>2. ASSUME NEW p \in UPProcs,
             UPDies(p) \/ UPStep(p) \/ \E verb \in {"hook", "attended", "update"} : UPStart(p, verb)
      PROVE \A q \in UPProcs : Automatic(q)'
  <2>0. /\ upProc'[p] \in Proc /\ upProc[p] \in Proc
        /\ \A q \in UPProcs \ {p} : upProc'[q] = upProc[q]
    BY <1>0, <1>2, CommandMoves DEF Moves
  <2>c. /\ UPIdle.pc = "idle" /\ UPIdle.auto = FALSE /\ Nudging.pc = "nudge" /\ Nudging.auto = FALSE
        /\ UPIdle.verb = "hook"
        /\ \A me \in Proc : /\ Failing(me).pc = "failed" /\ Failing(me).auto = me.auto
                            /\ Failing(me).latest = me.latest
    BY DEF UPIdle, Nudging, Failing, Proc
  <2>d. SUFFICES Automatic(p)'
    BY <2>0 DEF Automatic
  <2>e. Automatic(p)
    OBVIOUS
  <2>f. upProc'[p] = UPIdle \/ upProc'[p] = Nudging => Automatic(p)'
    BY <2>c DEF Automatic
  <2>g. upProc'[p] = Failing(upProc[p]) => Automatic(p)'
    BY <2>0, <2>c, <2>e DEF Automatic
  <2>4. ASSUME NEW verb \in {"hook", "attended", "update"}, UPStart(p, verb) PROVE Automatic(p)'
    <3>1. upProc'[p].auto = FALSE /\ upProc'[p].pc = (IF verb = "update" THEN "check" ELSE "load")
      BY <1>0, <2>4 DEF UPStart, UPIdle
    <3> QED BY <3>1 DEF Automatic
  <2>5. CASE Transition(p) \/ LogTransition(p) \/ SyncEnds(p)
    <3>1. upProc[p].pc \in {"load", "log", "sync"} /\ upProc'[p].pc \in {"log", "lock", "check"}
      BY <1>0, <2>5 DEF Transition, LogTransition, SyncEnds, UPGoto, Proc
    <3>2. upProc'[p].auto = upProc[p].auto
      BY <1>0, <2>5 DEF Transition, LogTransition, SyncEnds, UPGoto, Proc
    <3> QED BY <3>1, <3>2, <2>e DEF Automatic
  <2>6. CASE AcquireLock(p)
    <3>1. CASE upProc'[p] = UPIdle
      BY <2>f, <3>1
    <3>2. CASE upProc' = [upProc EXCEPT ![p].pc = "sync"]
      <4>1. upProc'[p].pc = "sync" /\ upProc'[p].auto = upProc[p].auto /\ upProc[p].pc = "lock"
        BY <1>0, <2>6, <3>2 DEF AcquireLock, Proc
      <4> QED BY <4>1, <2>e DEF Automatic
    <3> QED BY <1>0, <2>6, <3>1, <3>2 DEF AcquireLock, UPGoto, UPEnd
  <2>8. CASE CheckForUpgrade(p)
    <3>1. PICK outcome \in Outcomes, next \in {"idle", "nudge", "relock", "probe"}, known \in BOOLEAN :
            Checked(p, outcome, next, known)
      BY <2>8, CheckEnds
    <3>2. CASE next \in {"idle", "nudge"}
      BY <1>0, <3>1, <3>2, <2>f DEF Checked
    <3>3. CASE next \in {"probe", "relock"}
      <4>1. /\ upProc'[p].pc = next /\ upProc'[p].verb = upProc[p].verb
            /\ upProc'[p].auto = upProc[p].auto
            /\ upProc'[p].latest = IF known THEN Fetched(outcome).latest ELSE 0
        BY <1>0, <3>1, <3>3 DEF Checked, Proc
      <4>2. upProc[p].auto = FALSE
        BY <3>1, <2>0, <2>e DEF Checked, Automatic, Proc
      <4>3. known => Fetched(outcome).latest \in Releases
        <5>1. Fetched(outcome).latest \in 0..UPVersions
          BY DEF Fetched, UPTypeOK, Releases, Outcomes
        <5> QED BY <3>1, <5>1 DEF Checked, Releases
      <4> QED BY <3>1, <3>3, <4>1, <4>2, <4>3 DEF Checked, Automatic
    <3> QED BY <3>2, <3>3
  <2>9. CASE Nudge(p) \/ UPDies(p)
    BY <1>0, <2>9, <2>f DEF Nudge, UPDies, UPEnd
  <2>10. CASE Relock(p)
    <3>1. PICK next \in {"idle", "probe", "nudge", "run"} :
            /\ upProc' = [upProc EXCEPT ![p] =
                  IF next = "idle" THEN UPIdle
                  ELSE IF next = "nudge" THEN Nudging
                  ELSE [@ EXCEPT !.pc = next, !.old = upVenv.ver, !.forced = (upVenv.kind = "pinned")]]
            /\ upProc[p].pc = "relock" /\ next = "probe" => upProc[p].verb = "attended"
      BY <2>10 DEF Relock
    <3>2. CASE next \in {"idle", "nudge"}
      BY <1>0, <3>1, <3>2, <2>f
    <3>3. CASE next \in {"probe", "run"}
      <4>1. /\ upProc'[p].pc = next /\ upProc'[p].verb = upProc[p].verb
            /\ upProc'[p].auto = upProc[p].auto /\ upProc'[p].latest = upProc[p].latest
        BY <1>0, <3>1, <3>3 DEF Proc
      <4>2. upProc[p].pc = "relock"
        BY <2>10 DEF Relock
      <4> QED BY <3>1, <3>3, <4>1, <4>2, <2>e DEF Automatic
    <3> QED BY <3>2, <3>3
  <2>11. CASE Probe(p)
    <3>1. CASE upProc'[p] = UPIdle
      BY <3>1, <2>f
    <3>2. CASE upProc'[p] # UPIdle
      <4>1. /\ upProc[p].pc = "probe" /\ upProc'[p].pc = "claim" /\ upProc'[p].verb = upProc[p].verb
            /\ upProc'[p].auto = upProc[p].auto /\ upProc'[p].latest = upProc[p].latest
        BY <1>0, <2>11, <3>2 DEF Probe, UPGoto, UPEnd, Proc
      <4> QED BY <4>1, <2>e DEF Automatic
    <3> QED BY <3>1, <3>2
  <2>12. CASE Claim(p)
    <3>1. CASE upProc'[p] \in {UPIdle, Nudging}
      BY <3>1, <2>f
    <3>2. CASE upProc'[p] \notin {UPIdle, Nudging}
      <4>1. /\ upProc[p].pc = "claim" /\ upProc'[p].pc = "run" /\ upProc'[p].latest = upProc[p].latest
        BY <1>0, <2>12, <3>2 DEF Claim, UPNudges, UPEnd, Proc
      <4> QED BY <4>1, <2>e DEF Automatic
    <3> QED BY <3>1, <3>2
  <2>13. CASE RunPipx(p)
    <3>1. CASE upProc'[p] \in {UPIdle, Failing(upProc[p])}
      BY <3>1, <2>f, <2>g
    <3>2. CASE upProc'[p] \notin {UPIdle, Failing(upProc[p])}
      <4>1. upProc' = [upProc EXCEPT ![p] = [upProc[p] EXCEPT !.pc = "wait", !.at = UPNone]]
        BY <1>0, <2>13, <3>2 DEF RunPipx, UPEnd, UPFails
      <4>2. /\ upProc[p].pc = "run" /\ upProc'[p].pc = "wait"
            /\ upProc'[p].auto = upProc[p].auto /\ upProc'[p].latest = upProc[p].latest
        BY <1>0, <2>13, <4>1 DEF RunPipx, Proc
      <4> QED BY <4>2, <2>e DEF Automatic
    <3> QED BY <3>1, <3>2
  <2>14. CASE Waited(p)
    BY <1>0, <2>14, <2>f, <2>g DEF Waited
  <2>15. CASE RecordFailed(p)
    BY <1>0, <2>15, <2>f DEF RecordFailed, UPEnd, UPNudges
  <2> QED BY <1>2, <2>4, <2>5, <2>6, <2>8, <2>9, <2>10, <2>11, <2>12, <2>13, <2>14, <2>15 DEF UPStep
<1>3. (Tick \/ Release \/ UNCHANGED upVars \/ \E p \in UPProcs : PipxEnds(p)) => upProc' = upProc
  BY DEF Tick, Release, PipxEnds, upVars
<1> QED BY <1>1, <1>2, <1>3 DEF UPNext

-----------------------------------------------------------------------------
(* Pipx runs never overlap, and a forced one starts over a pinned install.  *)
LEMMA PipxStep ==
  UPTypeOK /\ Alone /\ ForcedOnlyOverPinned /\ [UPNext]_upVars => Alone' /\ ForcedOnlyOverPinned'
<1> SUFFICES ASSUME UPTypeOK, Alone, ForcedOnlyOverPinned, [UPNext]_upVars
             PROVE  Alone' /\ ForcedOnlyOverPinned'
  OBVIOUS
<1>1. CASE upPipx' = upPipx
  BY <1>1 DEF Alone, Installers, ForcedOnlyOverPinned
<1>2. ASSUME NEW p \in UPProcs, RunPipx(p), upPipx' # upPipx PROVE Alone' /\ ForcedOnlyOverPinned'
  <2>1. /\ Installers = {}
        /\ upPipx' = [upPipx EXCEPT ![p] = [on |-> TRUE, forced |-> upProc[p].forced,
                                             over |-> IF upProc[p].forced THEN upVenv.kind ELSE "tracking"]]
        /\ upProc[p].forced => upVenv.kind = "pinned"
    BY <1>2 DEF RunPipx, Busy, StillPinned
  <2>2. \A q \in UPProcs : q # p => upPipx'[q] = upPipx[q]
    BY <2>1 DEF UPTypeOK
  <2>3. /\ upPipx'[p].on /\ upPipx'[p].forced = upProc[p].forced
        /\ upPipx'[p].over = IF upProc[p].forced THEN upVenv.kind ELSE "tracking"
    BY <2>1 DEF UPTypeOK
  <2>4. Installers' \subseteq {p}
    BY <2>1, <2>2 DEF Installers
  <2>5. ForcedOnlyOverPinned'
    BY <2>1, <2>2, <2>3 DEF ForcedOnlyOverPinned, Installers
  <2> QED BY <2>4, <2>5 DEF Alone
<1>3. ASSUME NEW p \in UPProcs, upPipx' = [upPipx EXCEPT ![p] = NoPipx]
      PROVE  Alone' /\ ForcedOnlyOverPinned'
  <2>1. \A q \in UPProcs : upPipx'[q] = IF q = p THEN NoPipx ELSE upPipx[q]
    BY <1>3 DEF UPTypeOK
  <2>2. Installers' \subseteq Installers
    BY <2>1 DEF Installers, NoPipx
  <2> QED BY <2>1, <2>2 DEF Alone, ForcedOnlyOverPinned, NoPipx
<1>4. \/ upPipx' = upPipx
      \/ \E p \in UPProcs : RunPipx(p) \/ upPipx' = [upPipx EXCEPT ![p] = NoPipx]
  <2>1. CASE Tick \/ Release \/ UNCHANGED upVars
    BY <2>1 DEF Tick, Release, upVars
  <2>2. ASSUME NEW p \in UPProcs, PipxEnds(p) \/ Waited(p)
        PROVE  upPipx' = [upPipx EXCEPT ![p] = NoPipx]
    BY <2>2 DEF PipxEnds, Waited
  <2>3. ASSUME NEW p \in UPProcs,
               \/ \E verb \in {"hook", "attended", "update"} : UPStart(p, verb)
               \/ UPDies(p) \/ Transition(p) \/ LogTransition(p) \/ AcquireLock(p) \/ SyncEnds(p)
               \/ CheckForUpgrade(p) \/ Nudge(p) \/ Relock(p) \/ Probe(p) \/ Claim(p) \/ RecordFailed(p)
        PROVE  upPipx' = upPipx
    BY <2>3 DEF UPStart, UPDies, Transition, LogTransition, AcquireLock, SyncEnds, CheckForUpgrade, Nudge, Relock,
                Probe, Claim, RecordFailed
  <2> QED BY <2>1, <2>2, <2>3 DEF UPNext, UPStep
<1> QED BY <1>1, <1>2, <1>3, <1>4

-----------------------------------------------------------------------------
(* Most steps of a command neither note a version nor log one; only a claim *)
(* cut short forgets the version last seen.                                 *)
Ordinary(p) ==
  /\ \A q \in UPProcs \ {p} : upProc'[q] = upProc[q]
  /\ upProc'[p].pc # "log"
  /\ \/ upCache'.seen = upCache.seen /\ upRows' = upRows
     \/ upCache'.seen = 0 /\ upRows' = -Cardinality(RowsDue)
LEMMA OrdinarySteps ==
  ASSUME UPTypeOK, NEW p \in UPProcs,
         \/ UPStart(p, "hook") \/ UPStart(p, "attended") \/ UPStart(p, "update") \/ AcquireLock(p)
         \/ UPDies(p) \/ SyncEnds(p) \/ CheckForUpgrade(p) \/ Nudge(p) \/ Relock(p)
         \/ Probe(p) \/ Claim(p) \/ RunPipx(p) \/ Waited(p) \/ RecordFailed(p)
  PROVE  Ordinary(p)
<1>0. upProc \in [UPProcs -> Proc] /\ upProc[p] \in Proc
  BY DEF UPTypeOK, Proc
<1>1. \A q \in UPProcs \ {p} : upProc'[q] = upProc[q]
  BY CommandMoves DEF Moves, UPStep
<1>c. /\ UPIdle.pc = "idle" /\ Nudging.pc = "nudge"
      /\ \A me \in Proc : Failing(me).pc = "failed"
  BY DEF UPIdle, Nudging, Failing
<1>d. upCache \in [latest : 0..UPVersions, checked : Stamps, attempted : Stamps, seen : 0..UPVersions,
                   claim : 0..UPVersions, claimAt : Stamps, failed : BOOLEAN]
  BY DEF UPTypeOK
<1>2. CASE SyncEnds(p)
  BY <1>0, <1>1, <1>2 DEF SyncEnds, UPGoto, Proc, Ordinary
<1>11. CASE AcquireLock(p)
  BY <1>0, <1>1, <1>c, <1>11 DEF AcquireLock, UPGoto, UPEnd, Proc, Ordinary
<1>12. ASSUME NEW verb \in {"hook", "attended", "update"}, UPStart(p, verb) PROVE Ordinary(p)
  <2>1. upProc'[p].pc \in {"load", "check"}
    BY <1>0, <1>12 DEF UPStart, UPIdle
  <2> QED BY <1>1, <1>12, <2>1 DEF UPStart, Ordinary
<1>3. CASE CheckForUpgrade(p)
  <2>1. PICK outcome \in Outcomes, next \in {"idle", "nudge", "relock", "probe"}, known \in BOOLEAN :
          Checked(p, outcome, next, known)
    BY <1>3, CheckEnds
  <2>2. upProc'[p].pc = next
    <3>1. CASE next \in {"idle", "nudge"}
      BY <1>0, <1>c, <2>1, <3>1 DEF Checked
    <3>2. CASE next \in {"probe", "relock"}
      BY <1>0, <2>1, <3>2 DEF Checked, Proc
    <3> QED BY <3>1, <3>2
  <2>3. upCache'.seen = upCache.seen
    BY <1>d, <2>1 DEF Checked, Fetched
  <2>4. upRows' = upRows
    BY <1>3 DEF CheckForUpgrade
  <2> QED BY <1>1, <2>2, <2>3, <2>4 DEF Ordinary
<1>4. CASE UPDies(p) \/ Nudge(p)
  BY <1>0, <1>1, <1>c, <1>4 DEF UPDies, Nudge, UPEnd, Ordinary
<1>5. CASE Relock(p)
  <2>1. PICK next \in {"idle", "probe", "nudge", "run"} :
          upProc' = [upProc EXCEPT ![p] =
              IF next = "idle" THEN UPIdle
              ELSE IF next = "nudge" THEN Nudging
              ELSE [@ EXCEPT !.pc = next, !.old = upVenv.ver, !.forced = (upVenv.kind = "pinned")]]
    BY <1>5 DEF Relock
  <2>2. upProc'[p].pc = next
    <3>1. CASE next \in {"idle", "nudge"}
      BY <1>0, <1>c, <2>1, <3>1
    <3>2. CASE next \in {"probe", "run"}
      BY <1>0, <2>1, <3>2 DEF Proc
    <3> QED BY <3>1, <3>2
  <2> QED BY <1>1, <1>5, <2>2 DEF Relock, Ordinary
<1>6. CASE Probe(p)
  BY <1>0, <1>1, <1>c, <1>6 DEF Probe, UPGoto, UPEnd, Proc, Ordinary
<1>7. CASE Claim(p)
  <2>1. upProc'[p].pc \in {"idle", "nudge", "run"}
    BY <1>0, <1>c, <1>7 DEF Claim, UPNudges, UPEnd, Proc
  <2>2. \/ /\ upCache' = [upCache EXCEPT !.claim = upProc[p].latest, !.claimAt = upNow, !.failed = FALSE]
           /\ upRows' = upRows
        \/ upCache' = EmptyCache /\ upRows' = -Cardinality(RowsDue)
        \/ upCache' = upCache /\ upRows' = upRows
    BY <1>7, Zenon DEF Claim
  <2>3. EmptyCache.seen = 0
    BY DEF EmptyCache
  <2>4. [upCache EXCEPT !.claim = upProc[p].latest, !.claimAt = upNow, !.failed = FALSE].seen = upCache.seen
    BY <1>d
  <2> QED BY <1>1, <2>1, <2>2, <2>3, <2>4 DEF Ordinary
<1>8. CASE RunPipx(p)
  <2>1. \/ upProc'[p] \in {UPIdle, Failing(upProc[p])}
        \/ upProc'[p] = [upProc[p] EXCEPT !.pc = "wait", !.at = UPNone]
    BY <1>0, <1>8 DEF RunPipx, UPEnd, UPFails
  <2>2. upProc'[p].pc \in {"idle", "failed", "wait"}
    BY <1>0, <1>c, <2>1 DEF Proc
  <2> QED BY <1>1, <1>8, <2>2 DEF RunPipx, Ordinary
<1>9. CASE Waited(p)
  <2>1. upProc'[p] \in {UPIdle, Failing(upProc[p])}
    BY <1>0, <1>9 DEF Waited
  <2> QED BY <1>0, <1>1, <1>c, <1>9, <2>1 DEF Waited, Ordinary
<1>10. CASE RecordFailed(p)
  <2>1. upProc'[p] \in {UPIdle, Nudging}
    BY <1>0, <1>10 DEF RecordFailed, UPEnd, UPNudges
  <2>2. upCache'.seen = upCache.seen
    BY <1>d, <1>10 DEF RecordFailed
  <2> QED BY <1>0, <1>1, <1>c, <1>10, <2>1, <2>2 DEF RecordFailed, Ordinary
<1> QED BY <1>2, <1>3, <1>4, <1>5, <1>6, <1>7, <1>8, <1>9, <1>10, <1>11, <1>12

(* A row is counted when it is due, once per step of the version seen.      *)
LEMMA LoggedStep == UPTypeOK /\ Logged /\ [UPNext]_upVars => Logged'
<1> SUFFICES ASSUME UPTypeOK, Logged, [UPNext]_upVars PROVE Logged'
  OBVIOUS
<1>0. upProc \in [UPProcs -> Proc] /\ \A p \in UPProcs : upProc[p] \in Proc
  BY DEF UPTypeOK, Proc
<1> DEFINE due == Cardinality(RowsDue)
           dueNext == Cardinality(RowsDue')
<1>1. /\ upRows \in Int /\ upCache.seen \in Nat /\ due \in Nat
      /\ upCache \in [latest : 0..UPVersions, checked : Stamps, attempted : Stamps, seen : 0..UPVersions,
                      claim : 0..UPVersions, claimAt : Stamps, failed : BOOLEAN]
  BY DueCounts, UPNumbers DEF UPTypeOK
<1>2. upRows + due < SeenOr1
  BY DEF Logged
<1>3. Logged' <=> upRows' + dueNext < SeenOr1'
  BY DEF Logged
<1>4. RowsDue' \subseteq RowsDue => dueNext \in Nat /\ dueNext <= due
  BY DueCounts, FS_Subset, FS_CardinalityType
<1>5. ASSUME NEW p \in UPProcs, RowsDue' \subseteq RowsDue \cup {p}
      PROVE  dueNext \in Nat /\ dueNext <= due + 1
  <2>1. /\ IsFiniteSet(RowsDue \cup {p})
        /\ Cardinality(RowsDue \cup {p}) = (IF p \in RowsDue THEN due ELSE due + 1)
    BY DueCounts, FS_AddElement
  <2>2. dueNext <= Cardinality(RowsDue \cup {p}) /\ dueNext \in Nat
    BY <1>5, <2>1, FS_Subset, FS_CardinalityType
  <2> QED BY <1>1, <2>1, <2>2
<1>6. CASE upProc' = upProc /\ upCache' = upCache /\ upRows' = upRows
  BY <1>6 DEF Logged, RowsDue, SeenOr1
<1>7. ASSUME NEW p \in UPProcs, Ordinary(p) PROVE Logged'
  <2>1. RowsDue' \subseteq RowsDue
    BY <1>7 DEF RowsDue, Ordinary
  <2>2. dueNext \in Nat /\ dueNext <= due
    BY <1>4, <2>1
  <2>3. CASE upCache'.seen = upCache.seen /\ upRows' = upRows
    BY <1>1, <1>2, <1>3, <2>2, <2>3 DEF SeenOr1
  <2>4. CASE upCache'.seen = 0 /\ upRows' = -due
    BY <1>1, <1>3, <2>2, <2>4 DEF SeenOr1
  <2> QED BY <1>7, <2>3, <2>4 DEF Ordinary
<1>8. ASSUME NEW p \in UPProcs, Transition(p) PROVE Logged'
  <2> DEFINE seen == upCache.seen
             mine == upProc[p].ver
  <2>0. /\ \A q \in UPProcs \ {p} : upProc'[q] = upProc[q]
        /\ upProc[p].pc = "load" /\ mine \in Nat
    BY <1>0, <1>8, CommandMoves DEF UPStep, Moves, Transition, Proc
  <2>1. RowsDue' \subseteq RowsDue \cup {p} /\ (upProc'[p].pc # "log" => RowsDue' \subseteq RowsDue)
    BY <2>0 DEF RowsDue
  <2>2. CASE upProc'[p].pc = "lock" /\ upCache' = upCache /\ upRows' = upRows
    BY <1>1, <1>2, <1>3, <1>4, <2>1, <2>2 DEF SeenOr1
  <2>3. CASE /\ upCache' = [upCache EXCEPT !.seen = mine]
             /\ upRows' = IF seen > mine THEN upRows - (seen - mine) ELSE upRows
             /\ IF seen \in {0, mine} THEN upProc'[p].pc = "lock"
                ELSE upProc'[p].old = seen /\ upProc'[p].ver = mine
    <3>1. upCache'.seen = mine
      BY <1>1, <2>3
    <3>2. SeenOr1' = IF mine = 0 THEN 1 ELSE mine
      BY <3>1 DEF SeenOr1
    <3>3. CASE seen \in {0, mine}
      <4>1. upProc'[p].pc # "log" /\ upRows' = upRows
        BY <1>1, <2>0, <2>3, <3>3
      <4> QED BY <1>1, <1>2, <1>3, <1>4, <2>0, <2>1, <3>2, <3>3, <4>1 DEF SeenOr1
    <3>4. CASE seen # 0 /\ seen < mine
      <4>1. upRows' = upRows /\ dueNext \in Nat /\ dueNext <= due + 1
        BY <1>1, <1>5, <2>0, <2>1, <2>3, <3>4
      <4> QED BY <1>1, <1>2, <1>3, <2>0, <3>2, <3>4, <4>1 DEF SeenOr1
    <3>5. CASE seen > mine
      <4>1. RowsDue' \subseteq RowsDue
        BY <1>1, <2>0, <2>1, <2>3, <3>5 DEF RowsDue
      <4>2. upRows' = upRows - (seen - mine)
        BY <2>3, <3>5
      <4> QED BY <1>1, <1>2, <1>3, <1>4, <2>0, <3>2, <3>5, <4>1, <4>2 DEF SeenOr1
    <3> QED BY <1>1, <2>0, <3>3, <3>4, <3>5
  <2> QED BY <1>0, <1>8, <2>2, <2>3 DEF Transition, UPGoto, Proc
<1>9. ASSUME NEW p \in UPProcs, LogTransition(p) PROVE Logged'
  <2>1. /\ \A q \in UPProcs \ {p} : upProc'[q] = upProc[q]
        /\ upProc'[p].pc = "lock" /\ upCache' = upCache
    BY <1>0, <1>9 DEF LogTransition, Proc
  <2>2. RowsDue' = RowsDue \ {p}
    BY <2>1 DEF RowsDue
  <2>3. dueNext = IF p \in RowsDue THEN due - 1 ELSE due
    BY <2>2, DueCounts, FS_RemoveElement
  <2>4. upRows' \in {upRows, IF p \in RowsDue THEN upRows + 1 ELSE upRows}
    BY <1>9 DEF LogTransition
  <2> QED BY <1>1, <1>2, <1>3, <2>1, <2>3, <2>4 DEF SeenOr1
<1>10. CASE Tick \/ Release \/ UNCHANGED upVars \/ \E p \in UPProcs : PipxEnds(p)
  BY <1>6, <1>10 DEF Tick, Release, PipxEnds, upVars
<1>11. ASSUME NEW p \in UPProcs, NEW verb \in {"hook", "attended", "update"}, UPStart(p, verb)
       PROVE  Logged'
  BY <1>7, <1>11, OrdinarySteps
<1> QED BY <1>7, <1>8, <1>9, <1>10, <1>11, OrdinarySteps DEF UPNext, UPStep

-----------------------------------------------------------------------------
(* Most steps leave the claim and its time alone, and start no automatic    *)
(* install.                                                                 *)
Unclaiming(p) ==
  /\ \A q \in UPProcs \ {p} : upProc'[q] = upProc[q]
  /\ ~(upProc'[p].pc = "run" /\ upProc'[p].auto)
  /\ upCache'.claim = upCache.claim /\ upCache'.claimAt = upCache.claimAt
  /\ upTried' = upTried /\ upNow' = upNow /\ upBack' = upBack
LEMMA UnclaimingSteps ==
  ASSUME UPTypeOK, NEW p \in UPProcs, Automatic(p),
         \/ UPDies(p) \/ SyncEnds(p) \/ AcquireLock(p) \/ CheckForUpgrade(p) \/ Nudge(p) \/ Relock(p)
         \/ Probe(p) \/ Waited(p) \/ RecordFailed(p) \/ Transition(p) \/ LogTransition(p)
         \/ \E verb \in {"hook", "attended", "update"} : UPStart(p, verb)
  PROVE  Unclaiming(p)
<1>0. upProc \in [UPProcs -> Proc] /\ upProc[p] \in Proc
  BY DEF UPTypeOK, Proc
<1>1. \A q \in UPProcs \ {p} : upProc'[q] = upProc[q]
  BY CommandMoves DEF Moves, UPStep
<1>c. /\ UPIdle.pc = "idle" /\ Nudging.pc = "nudge"
      /\ \A me \in Proc : Failing(me).pc = "failed"
  BY DEF UPIdle, Nudging, Failing
<1>d. upCache \in [latest : 0..UPVersions, checked : Stamps, attempted : Stamps, seen : 0..UPVersions,
                   claim : 0..UPVersions, claimAt : Stamps, failed : BOOLEAN]
  BY DEF UPTypeOK
<1>2. CASE SyncEnds(p)
  BY <1>0, <1>1, <1>2 DEF SyncEnds, UPGoto, Proc, Unclaiming, upWorld
<1>12. CASE AcquireLock(p)
  BY <1>0, <1>1, <1>c, <1>12 DEF AcquireLock, UPGoto, UPEnd, Proc, Unclaiming, upWorld
<1>3. CASE CheckForUpgrade(p)
  <2>1. PICK outcome \in Outcomes, next \in {"idle", "nudge", "relock", "probe"}, known \in BOOLEAN :
          Checked(p, outcome, next, known)
    BY <1>3, CheckEnds
  <2>2. upProc'[p].pc = next
    <3>1. CASE next \in {"idle", "nudge"}
      BY <1>0, <1>c, <2>1, <3>1 DEF Checked
    <3>2. CASE next \in {"probe", "relock"}
      BY <1>0, <2>1, <3>2 DEF Checked, Proc
    <3> QED BY <3>1, <3>2
  <2>3. upCache'.claim = upCache.claim /\ upCache'.claimAt = upCache.claimAt
    BY <1>d, <2>1 DEF Checked, Fetched
  <2> QED BY <1>1, <1>3, <2>2, <2>3 DEF Unclaiming, CheckForUpgrade, upWorld
<1>4. CASE UPDies(p) \/ Nudge(p)
  BY <1>0, <1>1, <1>c, <1>4 DEF UPDies, Nudge, UPEnd, Unclaiming, upWorld
<1>5. CASE Relock(p)
  <2>1. PICK next \in {"idle", "probe", "nudge", "run"} :
          upProc' = [upProc EXCEPT ![p] =
              IF next = "idle" THEN UPIdle
              ELSE IF next = "nudge" THEN Nudging
              ELSE [@ EXCEPT !.pc = next, !.old = upVenv.ver, !.forced = (upVenv.kind = "pinned")]]
    BY <1>5 DEF Relock
  <2>2. ~(upProc'[p].pc = "run" /\ upProc'[p].auto)
    <3>1. CASE next \in {"idle", "nudge"}
      BY <1>0, <1>c, <2>1, <3>1
    <3>2. CASE next \in {"probe", "run"}
      <4>1. upProc[p].pc = "relock"
        BY <1>5 DEF Relock
      <4>2. ~upProc[p].auto
        BY <4>1 DEF Automatic
      <4>3. upProc'[p].auto = upProc[p].auto
        BY <1>0, <2>1, <3>2 DEF Proc
      <4> QED BY <4>2, <4>3
    <3> QED BY <3>1, <3>2
  <2> QED BY <1>1, <1>5, <2>2 DEF Relock, Unclaiming, upWorld
<1>6. CASE Probe(p)
  BY <1>0, <1>1, <1>c, <1>6 DEF Probe, UPGoto, UPEnd, Proc, Unclaiming, upWorld
<1>7. CASE Waited(p)
  <2>1. upProc'[p] \in {UPIdle, Failing(upProc[p])}
    BY <1>0, <1>7 DEF Waited
  <2> QED BY <1>0, <1>1, <1>c, <1>7, <2>1 DEF Waited, Unclaiming, upWorld
<1>8. CASE RecordFailed(p)
  <2>1. upProc'[p] \in {UPIdle, Nudging}
    BY <1>0, <1>8 DEF RecordFailed, UPEnd, UPNudges
  <2>2. upCache'.claim = upCache.claim /\ upCache'.claimAt = upCache.claimAt
    BY <1>d, <1>8 DEF RecordFailed
  <2> QED BY <1>0, <1>1, <1>c, <1>8, <2>1, <2>2 DEF RecordFailed, Unclaiming, upWorld
<1>9. CASE Transition(p)
  <2>1. upProc'[p].pc \in {"lock", "log"}
    BY <1>0, <1>9 DEF Transition, UPGoto, Proc
  <2>2. upCache'.claim = upCache.claim /\ upCache'.claimAt = upCache.claimAt
    BY <1>d, <1>9 DEF Transition
  <2> QED BY <1>1, <1>9, <2>1, <2>2 DEF Transition, Unclaiming, upWorld
<1>10. CASE LogTransition(p)
  BY <1>0, <1>1, <1>10 DEF LogTransition, Proc, Unclaiming, upWorld
<1>11. ASSUME NEW verb \in {"hook", "attended", "update"}, UPStart(p, verb) PROVE Unclaiming(p)
  <2>1. upProc'[p].pc \in {"load", "check"}
    BY <1>0, <1>11 DEF UPStart, UPIdle
  <2> QED BY <1>1, <1>11, <2>1 DEF UPStart, Unclaiming, upWorld
<1> QED BY <1>2, <1>3, <1>4, <1>5, <1>6, <1>7, <1>8, <1>9, <1>10, <1>11, <1>12

(* A claim for the release last installed automatically is refused until a  *)
(* retry gap has passed.                                                    *)
LEMMA ClaimWaits ==
  ASSUME UPTypeOK, Claims, NEW v \in Releases, upTried[v] # UPNone, Claimable(v)
  PROVE  upNow >= upTried[v] + UPDay
<1>1. /\ upCache.claim = v /\ upCache.claimAt # UPNone /\ upTried[v] <= upCache.claimAt
      /\ upCache.claimAt <= upNow
  BY DEF Claims
<1>2. upCache.claimAt \in Int /\ upTried[v] \in Int /\ upNow \in Int /\ UPDay \in Int
  <2>1. upCache.claimAt \in Stamps /\ upTried[v] \in Stamps /\ upNow \in 0..UPLastTick
    BY DEF UPTypeOK
  <2>2. UPLastTick \in Nat /\ UPDay \in Nat
    BY UPTimes
  <2> QED BY <1>1, <2>1, <2>2 DEF Stamps
<1>3. AttemptState(v) # "none"
  BY <1>1, <1>2 DEF AttemptState
<1>4. Elapsed(upCache.claimAt, UPDay)
  BY <1>3 DEF Claimable
<1> QED BY <1>1, <1>2, <1>4 DEF Elapsed

(* The cache knows of the last automatic install as long as it is whole.    *)
LEMMA ClaimsStep ==
  ASSUME UPTypeOK, Locked, \A p \in UPProcs : Automatic(p), ~upBack => Claims, [UPNext]_upVars
  PROVE  ~upBack' => Claims'
<1>0. upProc \in [UPProcs -> Proc] /\ \A p \in UPProcs : upProc[p] \in Proc
  BY DEF UPTypeOK, Proc
<1>d. upCache \in [latest : 0..UPVersions, checked : Stamps, attempted : Stamps, seen : 0..UPVersions,
                   claim : 0..UPVersions, claimAt : Stamps, failed : BOOLEAN]
  BY DEF UPTypeOK
<1> SUFFICES ASSUME ~upBack' PROVE Claims'
  OBVIOUS
<1>1. ASSUME NEW p \in UPProcs, Unclaiming(p) PROVE Claims'
  BY <1>1 DEF Unclaiming, Claims
<1>2. CASE UNCHANGED <<upProc, upTried, upCache, upNow, upBack>>
  BY <1>2 DEF Claims
<1>3. CASE Tick
  <2>1. ~upBack /\ upNow' = upNow + 1 /\ UNCHANGED <<upProc, upTried, upCache>>
    BY <1>3 DEF Tick
  <2>2. upNow \in Int /\ (upCache.claimAt # UPNone => upCache.claimAt \in Int)
    <3>1. UPLastTick \in Nat /\ upNow \in 0..UPLastTick /\ upCache.claimAt \in Stamps
      BY <1>d, UPTimes DEF UPTypeOK
    <3> QED BY <3>1 DEF Stamps
  <2>3. upCache'.claimAt # UPNone => upCache'.claimAt <= upNow'
    BY <2>1, <2>2 DEF Claims
  <2> QED BY <2>1, <2>3 DEF Claims
<1>4. ASSUME NEW p \in UPProcs, Claim(p) PROVE Claims'
  <2> DEFINE v == upProc[p].latest
  <2>1. /\ upProc[p].pc = "claim" /\ upNow' = upNow /\ v \in Releases /\ ~upBack
        /\ \A q \in UPProcs \ {p} : upProc'[q] = upProc[q] /\ upProc[q].pc # "run"
    <3>1. upProc[p].pc = "claim" /\ upNow' = upNow /\ ~upBack
      BY <1>4 DEF Claim, upWorld
    <3>2. v \in Releases
      BY <3>1 DEF Automatic
    <3>3. \A q \in UPProcs \ {p} : upProc'[q] = upProc[q] /\ upProc[q].pc # "run"
      BY <1>4, <3>1, CommandMoves, OneInLock DEF Moves, UPStep, InLock
    <3> QED BY <3>1, <3>2, <3>3
  <2>2. CASE /\ upCache' = upCache /\ upTried' = upTried /\ upProc'[p] \in {UPIdle, Nudging}
    <3>1. \A q \in UPProcs : upProc'[q].pc # "run"
      BY <2>1, <2>2 DEF UPIdle, Nudging
    <3> QED BY <2>1, <2>2, <3>1 DEF Claims
  <2>3. CASE /\ Claimable(v)
             /\ upCache' = [upCache EXCEPT !.claim = v, !.claimAt = upNow, !.failed = FALSE]
             /\ upProc' = [upProc EXCEPT ![p].pc = "run", ![p].at = upNow, ![p].auto = TRUE]
             /\ upTried' = [w \in Releases |-> IF w = v THEN upTried[w] ELSE UPNone]
    <3>1. /\ upCache'.claim = v /\ upCache'.claimAt = upNow
          /\ upProc'[p].pc = "run" /\ upProc'[p].at = upNow /\ upProc'[p].latest = v
      BY <1>0, <1>d, <2>3 DEF Proc
    <3>2. upNow \in Int /\ upNow # UPNone /\ UPDay \in Nat
      <4>1. upNow \in Int
        BY DEF UPTypeOK
      <4> QED BY <4>1, UPNumbers, UPTimes
    <3>3. upTried'[v] = upTried[v] /\ \A w \in Releases : w # v => upTried'[w] = UPNone
      BY <2>1, <2>3
    <3>4. upTried[v] # UPNone => upNow >= upTried[v] + UPDay
      BY <2>1, <2>3, ClaimWaits
    <3>5. upTried[v] # UPNone => upTried[v] <= upNow
      <4>1. upTried[v] \in Stamps
        BY <2>1 DEF UPTypeOK
      <4>2. upTried[v] # UPNone => upTried[v] \in Int
        BY <4>1 DEF Stamps
      <4> QED BY <3>2, <3>4, <4>2
    <3>6. upCache'.claimAt # UPNone => upCache'.claimAt <= upNow'
      BY <2>1, <3>1, <3>2
    <3>7. \A w \in Releases : upTried'[w] # UPNone =>
            upCache'.claim = w /\ upCache'.claimAt # UPNone /\ upTried'[w] <= upCache'.claimAt
      BY <3>1, <3>2, <3>3, <3>5
    <3>8. ASSUME NEW q \in UPProcs, upProc'[q].pc = "run", upProc'[q].auto
          PROVE  /\ upCache'.claim = upProc'[q].latest /\ upCache'.claimAt = upProc'[q].at
                 /\ upProc'[q].at # UPNone
                 /\ upTried'[upProc'[q].latest] # UPNone =>
                      upProc'[q].at >= upTried'[upProc'[q].latest] + UPDay
      <4>1. q = p
        BY <2>1, <3>8
      <4> QED BY <3>1, <3>2, <3>3, <3>4, <4>1
    <3> QED BY <3>6, <3>7, <3>8 DEF Claims
  <2>4. \/ /\ Claimable(v)
           /\ upCache' = [upCache EXCEPT !.claim = v, !.claimAt = upNow, !.failed = FALSE]
           /\ upProc' = [upProc EXCEPT ![p].pc = "run", ![p].at = upNow, ![p].auto = TRUE]
           /\ upTried' = [w \in Releases |-> IF w = v THEN upTried[w] ELSE UPNone]
        \/ /\ upCache' = upCache /\ upTried' = upTried
           /\ upProc' = [upProc EXCEPT ![p] = Nudging] \/ upProc' = [upProc EXCEPT ![p] = UPIdle]
    BY <1>4, Zenon DEF Claim, UPNudges, UPEnd
  <2> QED BY <1>0, <2>2, <2>3, <2>4
<1>5. ASSUME NEW p \in UPProcs, RunPipx(p) PROVE Claims'
  <2> DEFINE me == upProc[p]
  <2>1. /\ me.pc = "run" /\ upNow' = upNow /\ upCache' = upCache /\ ~upBack
        /\ \A q \in UPProcs \ {p} : upProc'[q] = upProc[q] /\ upProc[q].pc # "run"
    <3>1. me.pc = "run" /\ upNow' = upNow /\ upCache' = upCache /\ ~upBack
      BY <1>5 DEF RunPipx, upWorld
    <3>2. \A q \in UPProcs \ {p} : upProc'[q] = upProc[q] /\ upProc[q].pc # "run"
      BY <1>5, <3>1, CommandMoves, OneInLock DEF Moves, UPStep, InLock
    <3> QED BY <3>1, <3>2
  <2>2. /\ \/ upProc' = [upProc EXCEPT ![p] = UPIdle]
           \/ upProc' = [upProc EXCEPT ![p] = [me EXCEPT !.pc = "wait", !.at = UPNone]]
           \/ upProc' = [upProc EXCEPT ![p] = Failing(me)]
        /\ upTried' = upTried \/ (me.auto /\ upTried' = [upTried EXCEPT ![me.latest] = me.at])
    BY <1>5, Zenon DEF RunPipx, UPEnd, UPFails
  <2>3. \A q \in UPProcs : upProc'[q].pc # "run"
    <3>1. upProc'[p].pc # "run"
      <4>1. upProc'[p] = UPIdle \/ upProc'[p] = [me EXCEPT !.pc = "wait", !.at = UPNone]
            \/ upProc'[p] = Failing(me)
        BY <1>0, <2>2, Zenon
      <4>2. \A r \in Proc : [r EXCEPT !.pc = "wait", !.at = UPNone].pc = "wait"
        BY DEF Proc
      <4>3. UPIdle.pc = "idle" /\ Failing(me).pc = "failed"
        BY DEF UPIdle, Failing
      <4> QED BY <1>0, <4>1, <4>2, <4>3
    <3> QED BY <2>1, <3>1
  <2>4. \A v \in Releases : upTried'[v] # UPNone =>
          upCache.claim = v /\ upCache.claimAt # UPNone /\ upTried'[v] <= upCache.claimAt
    <3>1. CASE upTried' = upTried
      BY <2>1, <3>1 DEF Claims
    <3>2. CASE me.auto /\ upTried' = [upTried EXCEPT ![me.latest] = me.at]
      <4>1. upCache.claim = me.latest /\ upCache.claimAt = me.at /\ me.at # UPNone
        BY <2>1, <3>2 DEF Claims
      <4>2. upCache.claimAt \in Int
        BY <1>d, <4>1 DEF Stamps
      <4>3. upTried \in [Releases -> Stamps]
        BY DEF UPTypeOK
      <4>4. ASSUME NEW v \in Releases, v # me.latest PROVE upTried'[v] = UPNone
        BY <2>1, <3>2, <4>1, <4>3, <4>4 DEF Claims
      <4>5. ASSUME NEW v \in Releases, v = me.latest PROVE upTried'[v] = me.at
        BY <3>2, <4>3, <4>5
      <4> QED BY <4>1, <4>2, <4>4, <4>5
    <3> QED BY <2>2, <3>1, <3>2
  <2> QED BY <2>1, <2>3, <2>4 DEF Claims
<1>6. CASE Release \/ UNCHANGED upVars \/ \E p \in UPProcs : PipxEnds(p)
  BY <1>2, <1>6 DEF Release, PipxEnds, upVars, upWorld
<1>7. ASSUME NEW p \in UPProcs,
             \/ UPDies(p) \/ SyncEnds(p) \/ AcquireLock(p) \/ CheckForUpgrade(p) \/ Nudge(p) \/ Relock(p)
             \/ Probe(p) \/ Waited(p) \/ RecordFailed(p) \/ Transition(p) \/ LogTransition(p)
             \/ \E verb \in {"hook", "attended", "update"} : UPStart(p, verb)
      PROVE  Claims'
  BY <1>1, <1>7, UnclaimingSteps
<1> QED BY <1>3, <1>4, <1>5, <1>6, <1>7 DEF UPNext, UPStep

-----------------------------------------------------------------------------
LEMMA InitInv == UPInit => UPInv
<1> SUFFICES ASSUME UPInit PROVE UPInv
  OBVIOUS
<1>0. upProc = [p \in UPProcs |-> UPIdle] /\ upPipx = [p \in UPProcs |-> NoPipx]
  BY DEF UPInit
<1>1. UPTypeOK
  <2>1. /\ 0 \in 0..UPLastTick /\ 0 \in 0..UPVersions /\ 1 \in Releases /\ UPNone \in Stamps
        /\ 1 \in 0..UPVersions
    BY UPTimes, UPNumbers DEF Releases, Stamps
  <2>2. upProc \in [UPProcs -> Proc]
    BY <1>0, ProcTypes
  <2>3. upCache \in [latest : 0..UPVersions, checked : Stamps, attempted : Stamps, seen : 0..UPVersions,
                     claim : 0..UPVersions, claimAt : Stamps, failed : BOOLEAN]
    BY <2>1 DEF UPInit, EmptyCache
  <2>4. upPipx \in [UPProcs -> [on : BOOLEAN, forced : BOOLEAN, over : {"tracking", "pinned", "gone"}]]
    BY <1>0 DEF NoPipx
  <2>5. upVenv \in [kind : {"tracking", "pinned", "gone"}, ver : 0..UPVersions]
    BY <2>1 DEF UPInit
  <2>6. upTried \in [Releases -> Stamps]
    BY <2>1 DEF UPInit
  <2>7. /\ upNow \in 0..UPLastTick /\ upTag \in Releases /\ upBranch \in Releases
        /\ upLock \in UPProcs \cup {UPNone} /\ upRows \in Int /\ upBack \in BOOLEAN
    <3>1. upNow = 0 /\ upTag = 1 /\ upBranch = 1 /\ upLock = UPNone /\ upRows = 0
      BY DEF UPInit
    <3>2. upBack \in BOOLEAN
      BY DEF UPInit
    <3> QED BY <2>1, <3>1, <3>2
  <2> QED BY <2>2, <2>3, <2>4, <2>5, <2>6, <2>7 DEF UPTypeOK, Proc
<1>2. \A p \in UPProcs : upProc[p].pc = "idle" /\ ~upProc[p].auto /\ ~upPipx[p].on
  BY <1>0 DEF UPIdle, NoPipx
<1>3. Locked /\ (\A p \in UPProcs : Automatic(p)) /\ Alone /\ ForcedOnlyOverPinned
  BY <1>2 DEF Locked, InLock, Automatic, Alone, Installers, ForcedOnlyOverPinned
<1>4. upVenv.ver = 1 /\ upVenv.kind # "gone" /\ upBranch = 1 /\ upRows = 0
      /\ upCache.seen = 1 /\ upCache.claimAt = UPNone
  BY DEF UPInit, EmptyCache
<1>5. Logged
  <2>1. RowsDue = {}
    BY <1>2 DEF RowsDue
  <2> QED BY <1>4, <2>1, FS_EmptySet DEF Logged, SeenOr1
<1>6. Claims
  BY <1>2, <1>4 DEF Claims, UPInit
<1> QED BY <1>1, <1>3, <1>5, <1>6 DEF UPInv

LEMMA InvStep == UPInv /\ [UPNext]_upVars => UPInv'
<1> SUFFICES ASSUME UPInv, [UPNext]_upVars PROVE UPInv'
  OBVIOUS
<1>1. UPTypeOK'
  BY TypeStep DEF UPInv
<1>2. Locked'
  BY LockedStep DEF UPInv
<1>3. (\A p \in UPProcs : Automatic(p))'
  BY AutomaticStep DEF UPInv
<1>4. Alone' /\ ForcedOnlyOverPinned'
  BY PipxStep DEF UPInv
<1>5. Logged'
  BY LoggedStep DEF UPInv
<1>6. (~upBack => Claims)'
  BY ClaimsStep DEF UPInv
<1> QED BY <1>1, <1>2, <1>3, <1>4, <1>5, <1>6 DEF UPInv

THEOREM UpgradeInvariant == UPSpec => []UPInv
BY InitInv, InvStep, PTL DEF UPSpec

(* Whatever commands, releases, deaths and clocks do: the state has its     *)
(* types, from the cache's stamps to the record of every command.           *)
THEOREM UpgradeTypeCorrect == UPSpec => []UPTypeOK
<1>1. UPInv => UPTypeOK
  BY DEF UPInv
<1> QED BY <1>1, UpgradeInvariant, PTL

(* At most one pipx works on the venv, no command syncs while a live one    *)
(* swaps the package, a forced reinstall starts over a pinned install only, *)
(* and every version step is logged at most once, whatever commands note it *)
(* together, before they have the lock or while another one swaps:          *)
(* run_update, _auto_install and detect_self_version_transition, for any    *)
(* number of commands.                                                      *)
THEOREM SwapsSafe == UPSpec => []SwapsAreSafe
<1>1. ASSUME UPInv PROVE SwapsAreSafe
  <2>1. OneInstaller
    <3>1. CASE Installers = {}
      BY <3>1, FS_EmptySet DEF OneInstaller
    <3>2. ASSUME NEW p \in Installers PROVE OneInstaller
      <4>1. Installers = {p}
        BY <1>1, <3>2 DEF UPInv, Alone
      <4>2. Cardinality({p}) = 1
        BY FS_Singleton
      <4> QED BY <4>1, <4>2 DEF OneInstaller
    <3> QED BY <3>1, <3>2
  <2>2. NoSyncDuringSwap
    <3> SUFFICES ASSUME NEW p \in UPProcs, NEW q \in UPProcs, upProc[p].pc = "wait",
                        upProc[q].pc = "sync"
                 PROVE  FALSE
      BY DEF NoSyncDuringSwap
    <3>1. p = q
      BY <1>1, OneInLock DEF UPInv, InLock
    <3> QED BY <3>1
  <2>3. UpgradeLoggedOnce
    <3>1. upRows + Cardinality(RowsDue) < SeenOr1
      BY <1>1 DEF UPInv, Logged
    <3>2. upRows \in Int /\ SeenOr1 \in 0..UPVersions /\ UPVersions \in Nat
      BY <1>1, UPNumbers DEF UPInv, UPTypeOK, SeenOr1
    <3> QED BY <3>1, <3>2, DueCounts DEF UpgradeLoggedOnce
  <2> QED BY <1>1, <2>1, <2>2, <2>3 DEF UPInv, SwapsAreSafe
<1> QED BY <1>1, UpgradeInvariant, PTL

(* While the clock goes on and the cache is whole, two automatic pipx runs  *)
(* for one release are a retry gap apart, through deaths, failed claims and *)
(* any interleaving of hooks and attended commands (_claim_install_attempt).*)
THEOREM RetriesWait == UPSpec => RetryGap
<1> DEFINE Apart == \A p \in UPProcs :
              (upProc[p].auto /\ ~upPipx[p].on /\ upPipx'[p].on /\ ~upBack) =>
                 upTried[upProc[p].latest] = UPNone
                 \/ upProc[p].at >= upTried[upProc[p].latest] + UPDay
<1>1. ASSUME UPInv, [UPNext]_upVars PROVE [Apart]_upVars
  <2> SUFFICES ASSUME NEW p \in UPProcs, upProc[p].auto, ~upPipx[p].on, upPipx'[p].on, ~upBack, UPNext
               PROVE  upTried[upProc[p].latest] = UPNone
                      \/ upProc[p].at >= upTried[upProc[p].latest] + UPDay
    BY <1>1
  <2>0. upPipx \in [UPProcs -> [on : BOOLEAN, forced : BOOLEAN, over : {"tracking", "pinned", "gone"}]]
    BY <1>1 DEF UPInv, UPTypeOK
  <2>1. upProc[p].pc = "run"
    <3>1. CASE upPipx' = upPipx
      BY <3>1
    <3>2. ASSUME NEW q \in UPProcs, upPipx' = [upPipx EXCEPT ![q] = NoPipx] PROVE FALSE
      BY <2>0, <3>2 DEF NoPipx
    <3>3. ASSUME NEW q \in UPProcs, RunPipx(q) PROVE upProc[p].pc = "run"
      <4>1. CASE q = p
        BY <3>3, <4>1 DEF RunPipx
      <4>2. CASE q # p
        BY <2>0, <3>3, <4>2 DEF RunPipx
      <4> QED BY <4>1, <4>2
    <3>4. \/ upPipx' = upPipx
          \/ \E q \in UPProcs : upPipx' = [upPipx EXCEPT ![q] = NoPipx] \/ RunPipx(q)
      BY DEF UPNext, UPStep, Tick, Release, UPStart, Transition, LogTransition, AcquireLock, SyncEnds,
             CheckForUpgrade, Nudge, Relock, Probe, Claim, Waited, RecordFailed, PipxEnds, UPDies
    <3> QED BY <3>1, <3>2, <3>3, <3>4
  <2> QED BY <1>1, <2>1 DEF UPInv, Claims
<1>2. UPInv /\ [UPNext]_upVars => [Apart]_upVars
  BY <1>1
<1>3. RetryGap <=> [][Apart]_upVars
  BY PTL DEF RetryGap
<1> QED BY <1>2, <1>3, UpgradeInvariant, PTL DEF UPSpec

(* ------------------------------- fleet key ----------------------------- *)

(* What a command knows at each of its steps.                               *)
Plans == [winner : Salts, canonical : Headers \cup {FKNone}, any : BOOLEAN, copies : SUBSET FKNames]
Runs == [pc : {"idle"}] \cup [pc : {"recheck", "create"}, id : FKIds]
        \cup [pc : {"repair", "unlink"}, kind : {"join", "sync"}, id : FKIds, plan : Plans]
        \cup [pc : {"register", "save", "push"}, id : FKIds, salt : Salts]
Typed == FKTypeOK /\ fkRun \in [FKMachines -> Runs] /\ fkFaults \in Int

Planned(r) == r.pc \in {"repair", "unlink"}
Joins(r) == \/ r.pc \in {"recheck", "create", "register", "save"}
            \/ Planned(r) /\ r.kind = "join"
Syncs(r) == r.pc = "push" \/ (Planned(r) /\ r.kind = "sync")
Key(r) == IF Planned(r) THEN r.plan.winner ELSE r.salt
KeyIn(r, S) == (Planned(r) \/ r.pc \in {"register", "save", "push"}) => Key(r) \in S

(* Blobs carry the key they were stored under; records carry none.          *)
Stored(m) == {f \in fkFiles[m] : f.salt # FKNone}
Record(id) == [id |-> id, salt |-> FKNone]

(* Every readable header is one that was drawn, and so is every key in use. *)
Drawn == /\ \A m \in FKMachines : fkHead[m] \in Salts => fkHead[m] \in fkDrawn
         /\ \A m \in FKMachines, c \in FKNames : fkCopies[m][c] \in Salts => fkCopies[m][c] \in fkDrawn
         /\ \A m \in FKMachines : KeyIn(fkRun[m], fkDrawn)

(* What a device stored anywhere is in its own folder, all of it under one  *)
(* key, which is the key of the config that names the device.               *)
OwnerHas == \A m \in FKMachines : \A f \in Stored(m) : f \in Stored(f.id[1])
OwnKey == \A m \in FKMachines : \A f, g \in Stored(m) :
            f.id = g.id /\ f.id[1] = m => f.salt = g.salt
ConfigKey == \A m \in FKMachines : fkConf[m] # FKNone =>
               /\ fkConf[m].id[1] = m
               /\ \A f \in Stored(m) : f.id = fkConf[m].id => f.salt = fkConf[m].salt

(* A run that makes a device uses an id nothing was stored under, and one   *)
(* that syncs uses the config's device and key.                             *)
Fresh(m, r) == Joins(r) =>
  /\ r.id[1] = m
  /\ \A f \in Stored(m) : f.id # r.id
  /\ fkConf[m] # FKNone => fkConf[m].id # r.id
  /\ r.pc = "save" => Record(r.id) \in fkFiles[m]
Synced(m, r) == Syncs(r) =>
  fkConf[m] # FKNone /\ r.id = fkConf[m].id /\ Key(r) = fkConf[m].salt

FKInv == /\ Typed /\ Drawn
         /\ OwnerHas /\ OwnKey /\ ConfigKey /\ ConfigHasRecord
         /\ \A m \in FKMachines : Fresh(m, fkRun[m]) /\ Synced(m, fkRun[m])

-----------------------------------------------------------------------------
(* A nonempty set of numbers has a least one, and Min is it.                *)
LEMMA MinIsMember ==
  ASSUME NEW S, S \subseteq Nat, S # {}
  PROVE  Min(S) \in S /\ \A y \in S : Min(S) <= y
<1> DEFINE F == {0..x : x \in S}
<1>1. F \subseteq FiniteSubsetsOf(Nat)
  <2> SUFFICES ASSUME NEW x \in S PROVE 0..x \in SUBSET Nat /\ IsFiniteSet(0..x)
    BY DEF FiniteSubsetsOf
  <2>1. x \in Int
    OBVIOUS
  <2>2. IsFiniteSet(0..x)
    BY <2>1, FS_Interval
  <2> QED BY <2>2
<1>2. PICK U \in F : \A V \in F : ~(<<V, U>> \in StrictSubsetOrdering(Nat))
  <2>1. F # {}
    OBVIOUS
  <2>2. IsWellFoundedOn(StrictSubsetOrdering(Nat), FiniteSubsetsOf(Nat))
    BY FS_StrictSubsetOrderingWellFounded
  <2> HIDE DEF F
  <2> QED BY <1>1, <2>1, <2>2, WFMin
<1>3. PICK x \in S : U = 0..x
  OBVIOUS
<1>4. ASSUME NEW y \in S PROVE x <= y
  <2>1. CASE y < x
    <3>1. 0..y \in F /\ 0..y \subseteq 0..x /\ 0..y # 0..x
      <4>1. x \in 0..x /\ x \notin 0..y
        BY <2>1
      <4>2. 0..y \subseteq 0..x
        BY <2>1
      <4> QED BY <4>1, <4>2
    <3>2. <<0..y, 0..x>> \in StrictSubsetOrdering(Nat)
      BY <3>1 DEF StrictSubsetOrdering
    <3> QED BY <1>2, <1>3, <3>1, <3>2
  <2>2. x \in Nat /\ y \in Nat
    OBVIOUS
  <2> QED BY <2>1, <2>2
<1>5. \E z \in S : \A y \in S : z =< y
  BY <1>4
<1> HIDE DEF F
<1> QED BY <1>5 DEF Min

(* The winner is one of the readable headers, wherever there is one.        *)
LEMMA WinnerIsValid ==
  ASSUME NEW m \in FKMachines, Status(m) = "ok"
  PROVE  Winner(m) \in Valid(m) /\ Winner(m) \in Salts
<1>1. Valid(m) # {}
  BY DEF Status
<1>2. Valid(m) \subseteq Nat
  BY DEF Valid, Salts
<1> QED BY <1>1, <1>2, MinIsMember DEF Winner, Valid

LEMMA ValidAreDrawn ==
  ASSUME Typed, Drawn, NEW m \in FKMachines PROVE Valid(m) \subseteq fkDrawn
BY DEF Valid, Contents, CopiesOf, Drawn

-----------------------------------------------------------------------------
(* The records a run may hold.                                              *)
LEMMA RunRecords ==
  ASSUME Typed, NEW m \in FKMachines
  PROVE  /\ fkRun[m] \in Runs /\ FKIdle \in Runs
         /\ fkRun[m].pc \in {"recheck", "create"} =>
              fkRun[m] \in [pc : {"recheck", "create"}, id : FKIds]
         /\ Planned(fkRun[m]) =>
              fkRun[m] \in [pc : {"repair", "unlink"}, kind : {"join", "sync"}, id : FKIds, plan : Plans]
         /\ fkRun[m].pc \in {"register", "save", "push"} =>
              fkRun[m] \in [pc : {"register", "save", "push"}, id : FKIds, salt : Salts]
<1>1. fkRun[m] \in Runs
  BY DEF Typed
<1>2. FKIdle \in Runs
  BY DEF FKIdle, Runs
<1> HIDE DEF Typed
<1> QED BY <1>1, <1>2 DEF Runs, Planned

LEMMA PlanIsTyped ==
  ASSUME Typed, NEW m \in FKMachines, Status(m) = "ok" PROVE Plan(m) \in Plans
<1>1. Winner(m) \in Salts
  BY WinnerIsValid
<1>2. fkHead[m] \in Headers \cup {FKNone}
  BY DEF Typed, FKTypeOK
<1>3. SafeCopies(m) \in SUBSET FKNames /\ (CopiesOf(m) # {}) \in BOOLEAN
  BY DEF SafeCopies, CopiesOf
<1> QED BY <1>1, <1>2, <1>3 DEF Plan, Plans

(* A step of one command that stores nothing leaves it with a record that   *)
(* is right for what is stored and configured.                              *)
Local(m) ==
  /\ \E r \in Runs : /\ fkRun' = [fkRun EXCEPT ![m] = r]
                     /\ Fresh(m, r) /\ Synced(m, r) /\ KeyIn(r, fkDrawn')
  /\ UNCHANGED <<fkFiles, fkConf>>

StoresNothing(m) == \/ LookForNew(m) \/ Recheck(m) \/ Create(m) \/ LookToJoin(m)
                    \/ StartSync(m) \/ Repair(m) \/ Unlink(m) \/ Dies(m)
CarriesHeader(m, n) == DeliverHeader(m, n) \/ DeliverCopy(m, n) \/ Duplicate(m) \/ Meddle(m)

LEMMA Steps ==
  ASSUME FKNext
  PROVE  \E m, n \in FKMachines :
           \/ StoresNothing(m) \/ CarriesHeader(m, n) \/ DeliverFiles(m, n)
           \/ Register(m) \/ SaveConfig(m) \/ PushBlobs(m)
BY Zenon DEF FKNext, Deliver, Initialise, Sync, StoresNothing, CarriesHeader

LEMMA StopIsLocal ==
  ASSUME Typed, NEW m \in FKMachines, Goes(m, FKIdle), UNCHANGED <<fkFiles, fkConf>>
  PROVE  Local(m)
<1>1. FKIdle \in Runs /\ FKIdle.pc = "idle"
  BY DEF FKIdle, Runs
<1>2. Fresh(m, FKIdle) /\ Synced(m, FKIdle) /\ KeyIn(FKIdle, fkDrawn')
  BY <1>1 DEF Fresh, Synced, KeyIn, Joins, Syncs, Planned
<1> QED BY <1>1, <1>2 DEF Goes, Local

LEMMA LocalSteps ==
  ASSUME FKInv, NEW m \in FKMachines, StoresNothing(m)
  PROVE  Local(m)
<1>t. Typed /\ Drawn /\ Fresh(m, fkRun[m]) /\ Synced(m, fkRun[m]) /\ KeyIn(fkRun[m], fkDrawn)
  BY DEF FKInv, Drawn
<1>f. ASSUME NEW id \in FreshIds(m)
      PROVE  /\ id \in FKIds /\ id[1] = m /\ \A f \in Stored(m) : f.id # id
             /\ fkConf[m] # FKNone => fkConf[m].id # id
  BY DEF FreshIds, FKIds, Minted, Stored
<1>s. ASSUME Stops(m) PROVE Local(m)
  BY <1>t, <1>s, StopIsLocal DEF Stops
<1>1. CASE LookForNew(m)
  <2>1. PICK id \in FreshIds(m) : fkRun' = [fkRun EXCEPT ![m] = [pc |-> "recheck", id |-> id]]
    BY <1>1 DEF LookForNew, Goes
  <2>a. /\ id \in FKIds /\ id[1] = m /\ \A f \in Stored(m) : f.id # id
        /\ fkConf[m] # FKNone => fkConf[m].id # id
    BY <1>f
  <2> DEFINE r == [pc |-> "recheck", id |-> id]
  <2>2. r \in Runs
    BY <2>a DEF Runs
  <2>3. Fresh(m, r) /\ Synced(m, r) /\ KeyIn(r, fkDrawn')
    BY <2>a DEF Fresh, Synced, KeyIn, Syncs, Planned
  <2> QED BY <1>1, <2>1, <2>2, <2>3 DEF LookForNew, Local
<1>2. CASE Recheck(m)
  <2>1. CASE Stops(m)
    BY <1>s, <2>1
  <2>2. CASE Advances(m, "create") /\ UNCHANGED <<fkHead, fkCopies, fkFiles, fkConf, fkShared>>
    <3> DEFINE r == [fkRun[m] EXCEPT !.pc = "create"]
    <3>1. r \in Runs /\ r.id = fkRun[m].id /\ r.pc = "create" /\ fkRun[m].pc = "recheck"
      BY <1>2, <1>t, RunRecords DEF Recheck, FKAt, Runs
    <3>2. Fresh(m, r) /\ Synced(m, r) /\ KeyIn(r, fkDrawn')
      <4> HIDE DEF r
      <4> QED BY <1>t, <3>1 DEF Fresh, Synced, KeyIn, Joins, Syncs, Planned
    <3> QED BY <2>2, <3>1, <3>2 DEF Advances, Goes, Local
  <2> QED BY <1>2, <2>1, <2>2 DEF Recheck
<1>3. CASE Create(m)
  <2>1. CASE Goes(m, FKIdle)
    <3>1. UNCHANGED <<fkFiles, fkConf>>
      BY <1>3 DEF Create, Stops
    <3> QED BY <1>t, <2>1, <3>1, StopIsLocal
  <2>2. ASSUME NEW s \in Salts \ fkDrawn, fkDrawn' = fkDrawn \cup {s},
               Goes(m, [pc |-> "register", id |-> fkRun[m].id, salt |-> s]),
               UNCHANGED <<fkFiles, fkConf>>
        PROVE  Local(m)
    <3> DEFINE r == [pc |-> "register", id |-> fkRun[m].id, salt |-> s]
    <3>1. fkRun[m].pc = "create" /\ fkRun[m].id \in FKIds
      BY <1>3, <1>t, RunRecords DEF Create, FKAt
    <3>2. r \in Runs
      BY <3>1 DEF Runs
    <3>3. Fresh(m, r) /\ Synced(m, r) /\ KeyIn(r, fkDrawn')
      BY <1>t, <2>2, <3>1 DEF Fresh, Synced, KeyIn, Key, Joins, Syncs, Planned
    <3> QED BY <2>2, <3>2, <3>3 DEF Goes, Local
  <2> QED BY <1>3, <2>1, <2>2, <1>s DEF Create
<1>4. CASE LookToJoin(m)
  <2>0. Status(m) = "ok" /\ Winner(m) \in fkDrawn /\ fkDrawn' = fkDrawn
    BY <1>4, <1>t, WinnerIsValid, ValidAreDrawn DEF LookToJoin, fkShared
  <2>1. PICK id \in FreshIds(m) :
          fkRun' = [fkRun EXCEPT ![m] = [pc |-> "repair", kind |-> "join", id |-> id, plan |-> Plan(m)]]
    BY <1>4 DEF LookToJoin, Goes
  <2>a. /\ id \in FKIds /\ id[1] = m /\ \A f \in Stored(m) : f.id # id
        /\ fkConf[m] # FKNone => fkConf[m].id # id
    BY <1>f
  <2> DEFINE r == [pc |-> "repair", kind |-> "join", id |-> id, plan |-> Plan(m)]
  <2>2. r \in Runs
    BY <1>t, <2>0, <2>a, PlanIsTyped DEF Runs
  <2>3. Fresh(m, r) /\ Synced(m, r)
    BY <2>a DEF Fresh, Synced, Syncs, Planned
  <2>4. KeyIn(r, fkDrawn')
    BY <2>0 DEF KeyIn, Key, Planned, Plan
  <2> QED BY <1>4, <2>1, <2>2, <2>3, <2>4 DEF LookToJoin, Local
<1>5. CASE StartSync(m)
  <2>0. /\ Status(m) = "ok" /\ Winner(m) \in fkDrawn /\ fkDrawn' = fkDrawn
        /\ fkConf[m] # FKNone /\ fkConf[m].salt = Winner(m) /\ fkConf[m].id \in FKIds
    BY <1>5, <1>t, WinnerIsValid, ValidAreDrawn DEF StartSync, Drifted, fkShared, Typed, FKTypeOK
  <2> DEFINE r == [pc |-> "repair", kind |-> "sync", id |-> fkConf[m].id, plan |-> Plan(m)]
  <2>1. fkRun' = [fkRun EXCEPT ![m] = r]
    BY <1>5 DEF StartSync, Goes
  <2>2. r \in Runs
    BY <1>t, <2>0, PlanIsTyped DEF Runs
  <2>3. Fresh(m, r) /\ Synced(m, r)
    BY <2>0 DEF Fresh, Synced, Joins, Key, Planned, Plan
  <2>4. KeyIn(r, fkDrawn')
    BY <2>0 DEF KeyIn, Key, Planned, Plan
  <2> QED BY <1>5, <2>1, <2>2, <2>3, <2>4 DEF StartSync, Local
<1>v. ASSUME Planned(fkRun[m]), fkDrawn' = fkDrawn,
             Goes(m, Verified(m, fkRun[m].plan)), UNCHANGED <<fkFiles, fkConf>>
      PROVE  Local(m)
  <2> DEFINE r == Verified(m, fkRun[m].plan)
  <2>1. fkRun[m] \in [pc : {"repair", "unlink"}, kind : {"join", "sync"}, id : FKIds, plan : Plans]
    BY <1>t, <1>v, RunRecords
  <2>2. /\ r.id = fkRun[m].id /\ r.salt = fkRun[m].plan.winner
        /\ r.pc = IF fkRun[m].kind = "join" THEN "register" ELSE "push"
        /\ r \in Runs
    BY <2>1 DEF Verified, Runs, Plans
  <2> HIDE DEF r
  <2>3. Fresh(m, r) /\ Synced(m, r) /\ KeyIn(r, fkDrawn')
    BY <1>t, <1>v, <2>1, <2>2 DEF Fresh, Synced, KeyIn, Key, Joins, Syncs, Planned
  <2> QED BY <1>v, <2>2, <2>3 DEF Goes, Local, r
<1>c. ASSUME Planned(fkRun[m]), fkDrawn' = fkDrawn, NEW C \in SUBSET FKNames,
             Goes(m, [fkRun[m] EXCEPT !.pc = "unlink", !.plan.copies = C]), UNCHANGED <<fkFiles, fkConf>>
      PROVE  Local(m)
  <2> DEFINE r == [fkRun[m] EXCEPT !.pc = "unlink", !.plan.copies = C]
  <2>1. fkRun[m] \in [pc : {"repair", "unlink"}, kind : {"join", "sync"}, id : FKIds, plan : Plans]
    BY <1>t, <1>v, <1>c, RunRecords
  <2>2. /\ r.id = fkRun[m].id /\ r.kind = fkRun[m].kind /\ r.plan.winner = fkRun[m].plan.winner
        /\ r.pc = "unlink" /\ r \in Runs
    BY <2>1 DEF Runs, Plans
  <2> HIDE DEF r
  <2>3. Fresh(m, r) /\ Synced(m, r) /\ KeyIn(r, fkDrawn')
    BY <1>t, <1>c, <2>1, <2>2 DEF Fresh, Synced, KeyIn, Key, Joins, Syncs, Planned
  <2> QED BY <1>c, <2>2, <2>3 DEF Goes, Local, r
<1>6. CASE Repair(m)
  <2>1. CASE Stops(m)
    BY <1>s, <2>1
  <2>2. CASE ~Stops(m)
    <3> DEFINE copies == {c \in fkRun[m].plan.copies : fkCopies[m][c] = fkRun[m].plan.canonical}
    <3>1. /\ Planned(fkRun[m]) /\ fkDrawn' = fkDrawn /\ UNCHANGED <<fkFiles, fkConf>>
          /\ \/ Goes(m, Verified(m, fkRun[m].plan))
             \/ Goes(m, [fkRun[m] EXCEPT !.pc = "unlink", !.plan.copies = copies])
      BY <1>6, <2>2 DEF Repair, FKAt, Planned, fkShared
    <3>2. copies \in SUBSET FKNames
      BY <1>t, <3>1, RunRecords DEF Plans
    <3> HIDE DEF copies
    <3> QED BY <1>c, <1>v, <3>1, <3>2
  <2> QED BY <2>1, <2>2
<1>7. CASE Unlink(m)
  <2>0. /\ Planned(fkRun[m]) /\ fkRun[m].pc = "unlink" /\ fkDrawn' = fkDrawn /\ UNCHANGED <<fkFiles, fkConf>>
    BY <1>7 DEF Unlink, FKAt, Planned, fkShared
  <2>1. CASE Goes(m, Verified(m, fkRun[m].plan))
    BY <1>v, <2>0, <2>1
  <2>2. ASSUME NEW c \in fkRun[m].plan.copies, Goes(m, [fkRun[m] EXCEPT !.plan.copies = @ \ {c}])
        PROVE  Local(m)
    <3>1. fkRun[m] \in [pc : {"repair", "unlink"}, kind : {"join", "sync"}, id : FKIds, plan : Plans]
      BY <1>t, <2>0, RunRecords
    <3> DEFINE C == fkRun[m].plan.copies \ {c}
    <3>2. C \in SUBSET FKNames
      BY <3>1 DEF Plans
    <3>3. [fkRun[m] EXCEPT !.plan.copies = @ \ {c}] = [fkRun[m] EXCEPT !.pc = "unlink", !.plan.copies = C]
      BY <2>0, <3>1
    <3> HIDE DEF C
    <3> QED BY <1>c, <2>0, <2>2, <3>2, <3>3
  <2> QED BY <1>7, <2>1, <2>2 DEF Unlink
<1>8. CASE Dies(m)
  BY <1>8, <1>s DEF Dies
<1> QED BY <1>1, <1>2, <1>3, <1>4, <1>5, <1>6, <1>7, <1>8 DEF StoresNothing

-----------------------------------------------------------------------------
(* What is stored and configured, and what the commands know of it.         *)
KeysSettled == /\ OwnerHas /\ OwnKey /\ ConfigKey /\ ConfigHasRecord
           /\ \A m \in FKMachines : Fresh(m, fkRun[m]) /\ Synced(m, fkRun[m])

(* The device that stored something is the machine its id names.            *)
LEMMA Owners ==
  ASSUME Typed, NEW m \in FKMachines, NEW f \in Stored(m)
  PROVE  f.id[1] \in FKMachines /\ f.salt \in Salts /\ f \in fkFiles[m]
BY DEF Typed, FKTypeOK, Stored, Records, Blobs, FKIds

LEMMA LocalKeeps ==
  ASSUME Typed, KeysSettled, NEW m \in FKMachines, Local(m), fkDrawn \subseteq fkDrawn'
  PROVE  KeysSettled'
<1>1. PICK r \in Runs : /\ fkRun' = [fkRun EXCEPT ![m] = r] /\ Fresh(m, r) /\ Synced(m, r)
  BY DEF Local
<1>2. fkFiles' = fkFiles /\ fkConf' = fkConf
  BY DEF Local
<1>3. fkRun'[m] = r /\ \A n \in FKMachines \ {m} : fkRun'[n] = fkRun[n]
  BY <1>1 DEF Typed
<1>4. \A n \in FKMachines : Stored(n)' = Stored(n)
  BY <1>2 DEF Stored
<1>5. ASSUME NEW n \in FKMachines PROVE Fresh(n, fkRun[n])' /\ Synced(n, fkRun[n])'
  <2>1. fkRun'[n] = fkRun[n] \/ (n = m /\ fkRun'[n] = r)
    BY <1>3
  <2>2. Fresh(n, fkRun'[n]) /\ Synced(n, fkRun'[n])
    BY <1>1, <2>1 DEF KeysSettled
  <2> QED BY <1>2, <1>4, <2>2 DEF Fresh, Synced, Joins, Syncs, Planned, Key, Record
<1>6. OwnerHas' /\ OwnKey'
  <2>1. ASSUME NEW k \in FKMachines, NEW f \in Stored(k)' PROVE f \in Stored(f.id[1])'
    <3>1. f \in Stored(k) /\ f.id[1] \in FKMachines
      BY <1>4, Owners
    <3>2. f \in Stored(f.id[1])
      BY <3>1 DEF KeysSettled, OwnerHas
    <3> QED BY <1>4, <3>1, <3>2
  <2>2. OwnKey'
    BY <1>4 DEF KeysSettled, OwnKey
  <2> QED BY <2>1, <2>2 DEF OwnerHas
<1>7. ConfigKey' /\ ConfigHasRecord'
  BY <1>2, <1>4 DEF KeysSettled, ConfigKey, ConfigHasRecord
<1> QED BY <1>5, <1>6, <1>7 DEF KeysSettled

(* Delivered files were stored by their owners before.                      *)
LEMMA DeliveredFilesKeep ==
  ASSUME FKInv, NEW m \in FKMachines, NEW n \in FKMachines, DeliverFiles(m, n)
  PROVE  KeysSettled'
<1>0. Typed /\ KeysSettled
  BY DEF FKInv, KeysSettled
<1>1. /\ fkFiles' = [fkFiles EXCEPT ![m] = @ \cup fkFiles[n]]
      /\ fkRun' = fkRun /\ fkConf' = fkConf /\ fkDrawn' = fkDrawn
  BY DEF DeliverFiles, fkShared
<1>2. \A k \in FKMachines : /\ fkFiles[k] \subseteq fkFiles'[k] /\ Stored(k) \subseteq Stored(k)'
                            /\ \A f \in Stored(k)' : f \in Stored(k) \/ f \in Stored(n)
  BY <1>0, <1>1 DEF Stored, Typed, FKTypeOK
<1>3. ASSUME NEW k \in FKMachines, NEW f \in Stored(k)' PROVE f \in Stored(f.id[1]) /\ f.id[1] \in FKMachines
  BY <1>0, <1>2, Owners DEF KeysSettled, OwnerHas
<1>4. OwnerHas'
  BY <1>2, <1>3 DEF OwnerHas
<1>5. OwnKey'
  BY <1>0, <1>3 DEF OwnKey, KeysSettled
<1>6. ConfigKey'
  BY <1>0, <1>1, <1>3 DEF ConfigKey, KeysSettled
<1>7. ConfigHasRecord'
  BY <1>0, <1>1, <1>2 DEF ConfigHasRecord, KeysSettled
<1>8. ASSUME NEW k \in FKMachines PROVE Fresh(k, fkRun[k])' /\ Synced(k, fkRun[k])'
  <2>1. Fresh(k, fkRun[k]) /\ Synced(k, fkRun[k])
    BY <1>0 DEF KeysSettled
  <2>2. \A f \in Stored(k)' : f.id[1] = k => f \in Stored(k)
    BY <1>3
  <2>3. Fresh(k, fkRun[k])'
    BY <1>1, <1>2, <2>1, <2>2 DEF Fresh, Joins, Planned, Record
  <2>4. Synced(k, fkRun[k])'
    BY <1>1, <2>1 DEF Synced, Syncs, Key, Planned
  <2> QED BY <2>3, <2>4
<1> QED BY <1>4, <1>5, <1>6, <1>7, <1>8 DEF KeysSettled

(* A device record is no blob: what is stored stays as it was.              *)
LEMMA RegisterKeeps ==
  ASSUME FKInv, NEW m \in FKMachines, Register(m), ~Stops(m)
  PROVE  KeysSettled'
<1>0. Typed /\ KeysSettled /\ Fresh(m, fkRun[m])
  BY DEF FKInv, KeysSettled
<1>1. /\ fkRun[m].pc = "register"
      /\ fkFiles' = [fkFiles EXCEPT ![m] = @ \cup {Record(fkRun[m].id)}]
      /\ fkRun' = [fkRun EXCEPT ![m] = [fkRun[m] EXCEPT !.pc = "save"]]
      /\ fkConf' = fkConf /\ fkDrawn' = fkDrawn
  BY DEF Register, FKAt, Advances, Goes, fkShared, Record
<1>2. \A k \in FKMachines : /\ fkFiles[k] \subseteq fkFiles'[k] /\ Stored(k)' = Stored(k)
  BY <1>0, <1>1 DEF Stored, Typed, FKTypeOK, Record
<1>3. /\ \A k \in FKMachines \ {m} : fkRun'[k] = fkRun[k]
      /\ fkRun'[m].pc = "save" /\ fkRun'[m].id = fkRun[m].id
      /\ Record(fkRun[m].id) \in fkFiles'[m]
  <2>1. fkRun[m] \in [pc : {"register", "save", "push"}, id : FKIds, salt : Salts]
    BY <1>0, <1>1, RunRecords
  <2> QED BY <1>0, <1>1, <2>1 DEF Typed, FKTypeOK
<1>4. OwnerHas' /\ OwnKey' /\ ConfigKey'
  BY <1>0, <1>1, <1>2, Owners DEF OwnerHas, OwnKey, ConfigKey, KeysSettled
<1>5. ConfigHasRecord'
  BY <1>0, <1>1, <1>2 DEF ConfigHasRecord, KeysSettled
<1>6. ASSUME NEW k \in FKMachines PROVE Fresh(k, fkRun[k])' /\ Synced(k, fkRun[k])'
  <2>1. CASE k = m
    BY <1>0, <1>1, <1>2, <1>3, <2>1 DEF Fresh, Synced, Joins, Syncs, Planned, Record
  <2>2. CASE k # m
    <3>1. Fresh(k, fkRun[k]) /\ Synced(k, fkRun[k]) /\ fkRun'[k] = fkRun[k]
      BY <1>0, <1>3, <2>2 DEF KeysSettled
    <3> QED BY <1>1, <1>2, <3>1 DEF Fresh, Synced, Joins, Syncs, Planned, Key, Record
  <2> QED BY <2>1, <2>2
<1> QED BY <1>4, <1>5, <1>6 DEF KeysSettled

(* The config that is saved names a device under which nothing is stored,   *)
(* and a record taken back is not the one an older config names.            *)
LEMMA SaveKeeps ==
  ASSUME FKInv, NEW m \in FKMachines, SaveConfig(m)
  PROVE  KeysSettled'
<1>0. Typed /\ KeysSettled /\ Fresh(m, fkRun[m]) /\ KeyIn(fkRun[m], fkDrawn)
  BY DEF FKInv, KeysSettled, Drawn
<1>1. /\ fkRun[m].pc = "save" /\ fkRun' = [fkRun EXCEPT ![m] = FKIdle] /\ fkDrawn' = fkDrawn
      /\ \/ /\ fkConf' = [fkConf EXCEPT ![m] = [id |-> fkRun[m].id, salt |-> fkRun[m].salt]]
            /\ fkFiles' = fkFiles
         \/ /\ fkFiles' \in {fkFiles, [fkFiles EXCEPT ![m] = @ \ {Record(fkRun[m].id)}]}
            /\ fkConf' = fkConf
  BY DEF SaveConfig, FKAt, Goes, fkShared, Record
<1>2. /\ fkRun[m].id[1] = m /\ Record(fkRun[m].id) \in fkFiles[m] /\ fkRun[m].salt \in fkDrawn
      /\ \A f \in Stored(m) : f.id # fkRun[m].id
      /\ fkConf[m] # FKNone => fkConf[m].id # fkRun[m].id
  BY <1>0, <1>1 DEF Fresh, Joins, KeyIn, Key, Planned
<1>3. \A k \in FKMachines : Stored(k)' = Stored(k)
  BY <1>0, <1>1 DEF Stored, Typed, FKTypeOK, Record
<1>4. /\ fkRun'[m].pc = "idle" /\ \A k \in FKMachines \ {m} : fkRun'[k] = fkRun[k]
      /\ \A k \in FKMachines \ {m} : fkFiles'[k] = fkFiles[k] /\ fkConf'[k] = fkConf[k]
  <2>1. fkRun'[m].pc = "idle" /\ \A k \in FKMachines \ {m} : fkRun'[k] = fkRun[k]
    BY <1>0, <1>1 DEF Typed, FKIdle
  <2>2. \A k \in FKMachines \ {m} : fkFiles'[k] = fkFiles[k] /\ fkConf'[k] = fkConf[k]
    BY <1>0, <1>1 DEF Typed, FKTypeOK
  <2> QED BY <2>1, <2>2
<1>5. OwnerHas' /\ OwnKey'
  BY <1>0, <1>3, Owners DEF OwnerHas, OwnKey, KeysSettled
<1>6. ASSUME NEW k \in FKMachines, fkConf'[k] # FKNone
      PROVE  /\ fkConf'[k].id[1] = k
             /\ \A f \in Stored(k)' : f.id = fkConf'[k].id => f.salt = fkConf'[k].salt
             /\ Record(fkConf'[k].id) \in fkFiles'[k] /\ fkConf'[k].salt \in fkDrawn'
  <2>1. CASE fkConf'[k] = fkConf[k] /\ fkFiles'[k] = fkFiles[k]
    BY <1>0, <1>1, <1>3, <1>6, <2>1 DEF ConfigKey, ConfigHasRecord, KeysSettled, Record
  <2>2. CASE k = m /\ fkConf' = [fkConf EXCEPT ![m] = [id |-> fkRun[m].id, salt |-> fkRun[m].salt]]
             /\ fkFiles' = fkFiles
    <3>1. fkConf'[m] = [id |-> fkRun[m].id, salt |-> fkRun[m].salt]
      BY <2>2, <1>0, <1>6 DEF Typed, FKTypeOK
    <3> QED BY <1>1, <1>2, <1>3, <2>2, <3>1
  <2>3. CASE k = m /\ fkConf' = fkConf /\ fkFiles' = [fkFiles EXCEPT ![m] = @ \ {Record(fkRun[m].id)}]
    <3>1. /\ fkConf[m].id[1] = m /\ fkConf[m].salt \in fkDrawn /\ Record(fkConf[m].id) \in fkFiles[m]
          /\ \A f \in Stored(m) : f.id = fkConf[m].id => f.salt = fkConf[m].salt
      BY <1>0, <1>6, <2>3 DEF ConfigKey, ConfigHasRecord, KeysSettled, Record
    <3>2. Record(fkConf[m].id) # Record(fkRun[m].id)
      BY <1>2, <1>6, <2>3 DEF Record
    <3>3. fkFiles'[m] = fkFiles[m] \ {Record(fkRun[m].id)}
      BY <1>0, <2>3 DEF Typed, FKTypeOK
    <3> QED BY <1>1, <1>3, <2>3, <3>1, <3>2, <3>3
  <2> QED BY <1>1, <1>4, <2>1, <2>2, <2>3
<1>7. ConfigKey' /\ ConfigHasRecord'
  BY <1>6 DEF ConfigKey, ConfigHasRecord, Record
<1>8. ASSUME NEW k \in FKMachines PROVE Fresh(k, fkRun[k])' /\ Synced(k, fkRun[k])'
  <2>1. CASE k = m
    BY <1>4, <2>1 DEF Fresh, Synced, Joins, Syncs, Planned
  <2>2. CASE k # m
    <3>1. Fresh(k, fkRun[k]) /\ Synced(k, fkRun[k]) /\ fkRun'[k] = fkRun[k]
          /\ fkFiles'[k] = fkFiles[k] /\ fkConf'[k] = fkConf[k]
      BY <1>0, <1>4, <2>2 DEF KeysSettled
    <3> QED BY <1>3, <3>1 DEF Fresh, Synced, Joins, Syncs, Planned, Key, Record
  <2> QED BY <2>1, <2>2
<1> QED BY <1>5, <1>7, <1>8 DEF KeysSettled

(* A push stores under the config's device and key.                         *)
LEMMA PushKeeps ==
  ASSUME FKInv, NEW m \in FKMachines, PushBlobs(m)
  PROVE  KeysSettled'
<1> DEFINE blob == [id |-> fkRun[m].id, salt |-> fkRun[m].salt]
<1>0. Typed /\ KeysSettled /\ Synced(m, fkRun[m])
  BY DEF FKInv, KeysSettled
<1>1. /\ fkRun[m].pc = "push" /\ fkRun' = [fkRun EXCEPT ![m] = FKIdle]
      /\ fkFiles' = [fkFiles EXCEPT ![m] = @ \cup {Record(fkRun[m].id), blob}]
      /\ fkConf' = fkConf /\ fkDrawn' = fkDrawn
  BY DEF PushBlobs, FKAt, Goes, fkShared, Record
<1>2. /\ fkConf[m] # FKNone /\ blob.id = fkConf[m].id /\ blob.salt = fkConf[m].salt
      /\ blob.id[1] = m
  <2>1. fkConf[m] # FKNone /\ fkRun[m].id = fkConf[m].id /\ fkRun[m].salt = fkConf[m].salt
    BY <1>0, <1>1 DEF Synced, Syncs, Key, Planned
  <2>2. fkConf[m].id[1] = m
    BY <1>0, <2>1 DEF KeysSettled, ConfigKey
  <2> QED BY <2>1, <2>2
<1> HIDE DEF blob
<1>3. /\ \A k \in FKMachines : fkFiles[k] \subseteq fkFiles'[k] /\ Stored(k) \subseteq Stored(k)'
      /\ \A k \in FKMachines \ {m} : Stored(k)' = Stored(k)
      /\ \A f \in Stored(m)' : f \in Stored(m) \/ f = blob
  BY <1>0, <1>1 DEF Stored, Typed, FKTypeOK, Record
<1>4. /\ fkRun'[m].pc = "idle" /\ \A k \in FKMachines \ {m} : fkRun'[k] = fkRun[k]
  BY <1>0, <1>1 DEF Typed, FKIdle
<1>5. OwnerHas'
  <2> SUFFICES ASSUME NEW k \in FKMachines, NEW f \in Stored(k)' PROVE f \in Stored(f.id[1])'
    BY DEF OwnerHas
  <2>1. CASE f \in Stored(k)
    BY <1>0, <1>3, <2>1, Owners DEF KeysSettled, OwnerHas
  <2>2. CASE f \notin Stored(k)
    <3>1. k = m /\ f = blob
      BY <1>3, <2>2
    <3> QED BY <1>2, <3>1
  <2> QED BY <2>1, <2>2
<1>6. \A f \in Stored(m)' : f.id = blob.id => f.salt = blob.salt
  BY <1>0, <1>2, <1>3 DEF KeysSettled, ConfigKey
<1>7. OwnKey'
  <2> SUFFICES ASSUME NEW k \in FKMachines, NEW f \in Stored(k)', NEW g \in Stored(k)',
                      f.id = g.id, f.id[1] = k
               PROVE  f.salt = g.salt
    BY DEF OwnKey
  <2>1. CASE f \in Stored(k) /\ g \in Stored(k)
    BY <1>0, <2>1 DEF KeysSettled, OwnKey
  <2>2. CASE k = m /\ (f = blob \/ g = blob)
    BY <1>6, <2>2
  <2> QED BY <1>3, <2>1, <2>2
<1>8. ConfigKey'
  <2> SUFFICES ASSUME NEW k \in FKMachines, fkConf[k] # FKNone
               PROVE  /\ fkConf[k].id[1] = k
                      /\ \A f \in Stored(k)' : f.id = fkConf[k].id => f.salt = fkConf[k].salt
    BY <1>1 DEF ConfigKey
  <2>1. CASE k = m
    BY <1>2, <1>6, <2>1
  <2>2. CASE k # m
    BY <1>0, <1>3, <2>2 DEF KeysSettled, ConfigKey
  <2> QED BY <2>1, <2>2
<1>9. ConfigHasRecord'
  BY <1>0, <1>1, <1>3 DEF ConfigHasRecord, KeysSettled
<1>10. ASSUME NEW k \in FKMachines PROVE Fresh(k, fkRun[k])' /\ Synced(k, fkRun[k])'
  <2>1. CASE k = m
    BY <1>4, <2>1 DEF Fresh, Synced, Joins, Syncs, Planned
  <2>2. CASE k # m
    <3>1. Fresh(k, fkRun[k]) /\ Synced(k, fkRun[k]) /\ fkRun'[k] = fkRun[k]
          /\ Stored(k)' = Stored(k) /\ fkFiles[k] \subseteq fkFiles'[k]
      BY <1>0, <1>3, <1>4, <2>2 DEF KeysSettled
    <3> QED BY <1>1, <3>1 DEF Fresh, Synced, Joins, Syncs, Planned, Key, Record
  <2> QED BY <2>1, <2>2
<1> QED BY <1>5, <1>7, <1>8, <1>9, <1>10 DEF KeysSettled

-----------------------------------------------------------------------------
(* Headers and their conflict copies: what a step may put in their place.   *)
MayCarry(h) == h = FKNone \/ h \in {FKJunk, FKNewer} \/ \E m \in FKMachines :
                h = fkHead[m] \/ \E c \in FKNames : h = fkCopies[m][c]

LEMMA HeadersStep ==
  ASSUME Typed, FKNext
  PROVE  /\ fkHead' \in [FKMachines -> Headers \cup {FKNone}]
         /\ fkCopies' \in [FKMachines -> [FKNames -> Headers \cup {FKNone}]]
         /\ fkDrawn \subseteq fkDrawn' /\ fkDrawn' \subseteq Salts
         /\ \A m \in FKMachines : MayCarry(fkHead'[m]) \/ fkHead'[m] \in fkDrawn'
         /\ \A m \in FKMachines, c \in FKNames : MayCarry(fkCopies'[m][c])
<1>0. /\ fkHead \in [FKMachines -> Headers \cup {FKNone}] /\ fkDrawn \subseteq Salts
      /\ fkCopies \in [FKMachines -> [FKNames -> Headers \cup {FKNone}]]
  BY DEF Typed, FKTypeOK
<1>h. \A m \in FKMachines : MayCarry(fkHead[m])
  BY DEF MayCarry
<1>c. \A m \in FKMachines, c \in FKNames : MayCarry(fkCopies[m][c])
  BY DEF MayCarry
<1> DEFINE HeadStays == fkHead' = fkHead
           CopiesStay == fkCopies' = fkCopies
           DrawnStays == fkDrawn' = fkDrawn
<1>1. CASE HeadStays /\ CopiesStay /\ DrawnStays
  BY <1>0, <1>1, <1>h, <1>c
<1>2. ASSUME NEW m \in FKMachines, NEW s \in Salts \ fkDrawn, fkDrawn' = fkDrawn \cup {s},
             fkHead' = [fkHead EXCEPT ![m] = s], CopiesStay
      PROVE  /\ fkHead' \in [FKMachines -> Headers \cup {FKNone}]
             /\ \A k \in FKMachines : MayCarry(fkHead'[k]) \/ fkHead'[k] \in fkDrawn'
  <2>1. fkHead' \in [FKMachines -> Headers \cup {FKNone}]
    BY <1>0, <1>2 DEF Headers
  <2>2. ASSUME NEW k \in FKMachines PROVE fkHead'[k] = fkHead[k] \/ fkHead'[k] \in fkDrawn'
    BY <1>0, <1>2
  <2> QED BY <1>h, <2>1, <2>2
<1>3. ASSUME NEW m \in FKMachines, NEW c \in FKNames, NEW h \in Headers \cup {FKNone}, MayCarry(h),
             fkCopies' = [fkCopies EXCEPT ![m][c] = h]
      PROVE  /\ fkCopies' \in [FKMachines -> [FKNames -> Headers \cup {FKNone}]]
             /\ \A k \in FKMachines, d \in FKNames : MayCarry(fkCopies'[k][d])
  <2>1. fkCopies' \in [FKMachines -> [FKNames -> Headers \cup {FKNone}]]
    BY <1>0, <1>3
  <2>2. ASSUME NEW k \in FKMachines, NEW d \in FKNames
        PROVE  fkCopies'[k][d] = fkCopies[k][d] \/ fkCopies'[k][d] = h
    BY <1>0, <1>3
  <2>3. ASSUME NEW k \in FKMachines, NEW d \in FKNames PROVE MayCarry(fkCopies'[k][d])
    <3>1. MayCarry(fkCopies[k][d])
      BY <1>c
    <3> QED BY <1>3, <2>2, <3>1
  <2> QED BY <2>1, <2>3
<1>4. ASSUME NEW m \in FKMachines, NEW h \in Headers \cup {FKNone}, MayCarry(h),
             fkHead' = [fkHead EXCEPT ![m] = h]
      PROVE  /\ fkHead' \in [FKMachines -> Headers \cup {FKNone}]
             /\ \A k \in FKMachines : MayCarry(fkHead'[k])
  <2>1. fkHead' \in [FKMachines -> Headers \cup {FKNone}]
    BY <1>0, <1>4
  <2>2. ASSUME NEW k \in FKMachines PROVE fkHead'[k] = fkHead[k] \/ fkHead'[k] = h
    BY <1>0, <1>4
  <2> QED BY <1>h, <1>4, <2>1, <2>2
<1>5. ASSUME NEW m \in FKMachines, NEW n \in FKMachines, DeliverHeader(m, n)
      PROVE  /\ DrawnStays /\ fkHead' = [fkHead EXCEPT ![m] = fkHead[n]]
             /\ CopiesStay \/ \E c \in FKNames : fkCopies' = [fkCopies EXCEPT ![m][c] = fkHead[m]]
  BY <1>5 DEF DeliverHeader, fkShared
<1>6. ASSUME NEW m \in FKMachines, Unlink(m)
      PROVE  /\ DrawnStays /\ HeadStays
             /\ CopiesStay \/ \E c \in FKNames : fkCopies' = [fkCopies EXCEPT ![m][c] = FKNone]
  <2>1. fkRun[m].plan.copies \subseteq FKNames
    BY <1>6, RunRecords DEF Unlink, FKAt, Planned, Plans
  <2> QED BY <1>6, <2>1 DEF Unlink, fkShared
<1>7. ASSUME NEW m \in FKMachines, NEW n \in FKMachines, DeliverCopy(m, n) \/ Duplicate(m)
      PROVE  /\ DrawnStays /\ HeadStays
             /\ \/ \E c \in FKNames : fkCopies' = [fkCopies EXCEPT ![m][c] = fkHead[m]]
                \/ \E c \in FKNames : fkCopies' = [fkCopies EXCEPT ![m][c] = fkCopies[n][c]]
  BY <1>7 DEF DeliverCopy, Duplicate, fkShared
<1>8. ASSUME NEW m \in FKMachines, Meddle(m)
      PROVE  /\ DrawnStays /\ CopiesStay
             /\ \E h \in {FKJunk, FKNewer, FKNone} : fkHead' = [fkHead EXCEPT ![m] = h]
  BY <1>8 DEF Meddle
<1>9. ASSUME NEW m \in FKMachines, Create(m)
      PROVE  \/ HeadStays /\ CopiesStay /\ DrawnStays
             \/ /\ CopiesStay
                /\ \E s \in Salts \ fkDrawn : fkDrawn' = fkDrawn \cup {s} /\ fkHead' = [fkHead EXCEPT ![m] = s]
  BY <1>9 DEF Create, Stops, fkShared
<1>10. ASSUME NEW m \in FKMachines, NEW n \in FKMachines,
              \/ DeliverFiles(m, n) \/ LookForNew(m) \/ Recheck(m) \/ LookToJoin(m) \/ Register(m)
              \/ SaveConfig(m) \/ StartSync(m) \/ Repair(m) \/ PushBlobs(m) \/ Dies(m)
       PROVE  HeadStays /\ CopiesStay /\ DrawnStays
  BY <1>10 DEF DeliverFiles, LookForNew, Recheck, LookToJoin, Register, SaveConfig, StartSync,
               Repair, PushBlobs, Dies, Stops, fkShared
<1>11. /\ \A h \in {FKJunk, FKNewer, FKNone} : h \in Headers \cup {FKNone} /\ MayCarry(h)
       /\ \A m \in FKMachines : fkHead[m] \in Headers \cup {FKNone} /\ MayCarry(fkHead[m])
       /\ \A m \in FKMachines, c \in FKNames :
            fkCopies[m][c] \in Headers \cup {FKNone} /\ MayCarry(fkCopies[m][c])
  BY <1>0, <1>h, <1>c DEF Headers, MayCarry
<1> HIDE DEF HeadStays, CopiesStay, DrawnStays
<1> DEFINE Heads == /\ fkHead' \in [FKMachines -> Headers \cup {FKNone}]
                    /\ \A m \in FKMachines : MayCarry(fkHead'[m]) \/ fkHead'[m] \in fkDrawn'
           Copies == /\ fkCopies' \in [FKMachines -> [FKNames -> Headers \cup {FKNone}]]
                     /\ \A m \in FKMachines, c \in FKNames : MayCarry(fkCopies'[m][c])
<1>12. (HeadStays => Heads) /\ (CopiesStay => Copies)
  BY <1>0, <1>h, <1>c DEF HeadStays, CopiesStay
<1>13. ASSUME NEW m \in FKMachines, NEW n \in FKMachines,
              DeliverHeader(m, n) \/ DeliverCopy(m, n) \/ Duplicate(m) \/ Unlink(m) \/ Meddle(m)
       PROVE  Heads /\ Copies /\ DrawnStays
  <2>1. CASE DeliverHeader(m, n)
    BY <1>3, <1>4, <1>5, <1>11, <1>12, <2>1
  <2>2. CASE DeliverCopy(m, n) \/ Duplicate(m)
    BY <1>3, <1>7, <1>11, <1>12, <2>2
  <2>3. CASE Unlink(m)
    BY <1>3, <1>6, <1>11, <1>12, <2>3
  <2>4. CASE Meddle(m)
    BY <1>4, <1>8, <1>11, <1>12, <2>4
  <2> QED BY <1>13, <2>1, <2>2, <2>3, <2>4
<1>14. ASSUME NEW m \in FKMachines, Create(m)
       PROVE  Heads /\ Copies /\ fkDrawn \subseteq fkDrawn' /\ fkDrawn' \subseteq Salts
  BY <1>0, <1>2, <1>9, <1>12, <1>14 DEF DrawnStays, CopiesStay
<1>15. Heads /\ Copies /\ fkDrawn \subseteq fkDrawn' /\ fkDrawn' \subseteq Salts
  <2>1. DrawnStays => fkDrawn \subseteq fkDrawn' /\ fkDrawn' \subseteq Salts
    BY <1>0 DEF DrawnStays
  <2> HIDE DEF Heads, Copies
  <2> QED BY <1>10, <1>12, <1>13, <1>14, <2>1 DEF FKNext, Deliver, Initialise, Sync
<1> QED BY <1>15

-----------------------------------------------------------------------------
(* Every step of a machine leaves it with a record of its type.             *)
LEMMA TypedStep == FKInv /\ [FKNext]_fkVars => Typed'
<1> SUFFICES ASSUME FKInv, [FKNext]_fkVars PROVE Typed'
  OBVIOUS
<1>0. Typed /\ fkFaults \in Int /\ fkFaults \in 0..FKFaults
  BY DEF FKInv, Typed, FKTypeOK
<1>a. /\ fkFiles \in [FKMachines -> SUBSET (Records \cup Blobs)]
      /\ fkConf \in [FKMachines -> [id : FKIds, salt : Salts] \cup {FKNone}]
      /\ fkRun \in [FKMachines -> Runs]
  BY <1>0 DEF Typed, FKTypeOK
<1>1. CASE UNCHANGED fkVars
  BY <1>0, <1>1 DEF Typed, FKTypeOK, fkVars
<1>2. CASE FKNext
  <2>1. /\ fkHead' \in [FKMachines -> Headers \cup {FKNone}]
        /\ fkCopies' \in [FKMachines -> [FKNames -> Headers \cup {FKNone}]]
        /\ fkDrawn' \subseteq Salts
    BY <1>0, <1>2, HeadersStep
  <2> DEFINE Others == /\ fkFiles' \in [FKMachines -> SUBSET (Records \cup Blobs)]
                       /\ fkConf' \in [FKMachines -> [id : FKIds, salt : Salts] \cup {FKNone}]
                       /\ fkRun' \in [FKMachines -> Runs]
  <2>2. fkFaults' \in 0..FKFaults /\ fkFaults' \in Int
    <3>1. CASE fkFaults' = fkFaults
      BY <1>0, <3>1
    <3>2. CASE fkFaults < FKFaults /\ fkFaults' = fkFaults + 1
      <4>1. FKFaults \in Int
        BY FKNumbers
      <4> QED BY <1>0, <3>2, <4>1
    <3> QED BY <1>2, <3>1, <3>2 DEF FKNext, Deliver, DeliverHeader, DeliverCopy, DeliverFiles, Initialise,
               LookForNew, Recheck, Create, LookToJoin, Register, SaveConfig, Sync, StartSync, Repair,
               Unlink, PushBlobs, Dies, Stops, Duplicate, Meddle, fkShared
  <2>3. ASSUME NEW m \in FKMachines, Local(m) PROVE Others
    BY <1>a, <2>3 DEF Local
  <2>4. ASSUME UNCHANGED <<fkFiles, fkConf, fkRun>> PROVE Others
    <3>1. fkFiles' = fkFiles /\ fkConf' = fkConf /\ fkRun' = fkRun
      BY <2>4
    <3> QED BY <1>a, <3>1
  <2>5. ASSUME NEW m \in FKMachines, NEW n \in FKMachines, DeliverFiles(m, n) PROVE Others
    BY <1>a, <2>5 DEF DeliverFiles
  <2>6. ASSUME NEW m \in FKMachines, Register(m) PROVE Others
    <3>1. CASE Stops(m)
      BY <1>0, <2>3, <3>1, StopIsLocal DEF Stops
    <3>2. CASE ~Stops(m)
      <4>1. /\ fkRun[m].pc = "register" /\ fkConf' = fkConf
            /\ fkFiles' = [fkFiles EXCEPT ![m] = @ \cup {Record(fkRun[m].id)}]
            /\ fkRun' = [fkRun EXCEPT ![m] = [fkRun[m] EXCEPT !.pc = "save"]]
        BY <2>6, <3>2 DEF Register, FKAt, Advances, Goes, Record
      <4>2. fkRun[m] \in [pc : {"register", "save", "push"}, id : FKIds, salt : Salts]
        BY <1>0, <4>1, RunRecords
      <4>3. Record(fkRun[m].id) \in Records /\ [fkRun[m] EXCEPT !.pc = "save"] \in Runs
        BY <4>2 DEF Record, Records, Runs
      <4> QED BY <1>a, <4>1, <4>3
    <3> QED BY <3>1, <3>2
  <2>7. ASSUME NEW m \in FKMachines, SaveConfig(m) PROVE Others
    <3>1. fkRun[m] \in [pc : {"register", "save", "push"}, id : FKIds, salt : Salts] /\ FKIdle \in Runs
      BY <1>0, <2>7, RunRecords DEF SaveConfig, FKAt
    <3>2. [id |-> fkRun[m].id, salt |-> fkRun[m].salt] \in [id : FKIds, salt : Salts]
      BY <3>1
    <3>3. fkRun' \in [FKMachines -> Runs]
      BY <1>a, <2>7, <3>1 DEF SaveConfig, Goes
    <3>4. /\ fkFiles' \in [FKMachines -> SUBSET (Records \cup Blobs)]
          /\ fkConf' \in [FKMachines -> [id : FKIds, salt : Salts] \cup {FKNone}]
      BY <1>a, <2>7, <3>2 DEF SaveConfig
    <3> QED BY <3>3, <3>4
  <2>8. ASSUME NEW m \in FKMachines, PushBlobs(m) PROVE Others
    <3>1. fkRun[m] \in [pc : {"register", "save", "push"}, id : FKIds, salt : Salts] /\ FKIdle \in Runs
      BY <1>0, <2>8, RunRecords DEF PushBlobs, FKAt
    <3>2. {[id |-> fkRun[m].id, salt |-> FKNone], [id |-> fkRun[m].id, salt |-> fkRun[m].salt]}
            \subseteq Records \cup Blobs
      BY <3>1 DEF Records, Blobs
    <3> QED BY <1>a, <2>8, <3>1, <3>2 DEF PushBlobs, Goes
  <2>9. ASSUME NEW m \in FKMachines, NEW n \in FKMachines,
               CarriesHeader(m, n)
        PROVE  UNCHANGED <<fkFiles, fkConf, fkRun>>
    BY <2>9 DEF CarriesHeader, DeliverHeader, DeliverCopy, Duplicate, Meddle
  <2>10. Others
    <3>1. PICK m \in FKMachines, n \in FKMachines :
             \/ StoresNothing(m) \/ CarriesHeader(m, n) \/ DeliverFiles(m, n)
             \/ Register(m) \/ SaveConfig(m) \/ PushBlobs(m)
      BY <1>2, Steps
    <3> HIDE DEF Others
    <3> QED BY <2>3, <2>4, <2>5, <2>6, <2>7, <2>8, <2>9, <3>1, LocalSteps
  <2>11. \A m \in FKMachines : fkRun'[m].pc \in FKPcs
    BY <2>10 DEF Runs, FKPcs
  <2> QED BY <2>1, <2>2, <2>10, <2>11 DEF Typed, FKTypeOK
<1> QED BY <1>1, <1>2

(* No step brings a readable header or a key from nowhere.                  *)
LEMMA DrawnStep == FKInv /\ [FKNext]_fkVars => Drawn'
<1> SUFFICES ASSUME FKInv, [FKNext]_fkVars PROVE Drawn'
  OBVIOUS
<1>0. Typed /\ Drawn /\ Typed'
  BY TypedStep DEF FKInv
<1>1. CASE UNCHANGED fkVars
  BY <1>0, <1>1 DEF Drawn, fkVars, KeyIn, Key, Planned
<1>2. CASE FKNext
  <2>1. /\ fkDrawn \subseteq fkDrawn'
        /\ \A m \in FKMachines : MayCarry(fkHead'[m]) \/ fkHead'[m] \in fkDrawn'
        /\ \A m \in FKMachines, c \in FKNames : MayCarry(fkCopies'[m][c])
    BY <1>0, <1>2, HeadersStep
  <2>2. \A h \in Salts : MayCarry(h) => h \in fkDrawn
    BY <1>0, FKNumbers DEF MayCarry, Drawn, Salts
  <2>3. /\ \A m \in FKMachines : fkHead'[m] \in Salts => fkHead'[m] \in fkDrawn'
        /\ \A m \in FKMachines, c \in FKNames : fkCopies'[m][c] \in Salts => fkCopies'[m][c] \in fkDrawn'
    BY <2>1, <2>2
  <2>4. ASSUME NEW r, NEW S, NEW T, KeyIn(r, S), S \subseteq T PROVE KeyIn(r, T)
    BY <2>4 DEF KeyIn
  <2> DEFINE Keys == \A m \in FKMachines : KeyIn(fkRun'[m], fkDrawn')
  <2>5. ASSUME fkRun' = fkRun PROVE Keys
    <3>1. \A m \in FKMachines : KeyIn(fkRun[m], fkDrawn')
      BY <1>0, <2>1, <2>4 DEF Drawn
    <3> QED BY <2>5, <3>1
  <2>6. ASSUME NEW m \in FKMachines, NEW r, fkRun' = [fkRun EXCEPT ![m] = r], KeyIn(r, fkDrawn') PROVE Keys
    <3>1. \A n \in FKMachines : KeyIn(fkRun[n], fkDrawn')
      BY <1>0, <2>1, <2>4 DEF Drawn
    <3>2. \A n \in FKMachines : fkRun'[n] = fkRun[n] \/ fkRun'[n] = r
      BY <1>0, <2>6 DEF Typed
    <3> QED BY <2>6, <3>1, <3>2
  <2>7. ASSUME NEW m \in FKMachines, Local(m) PROVE Keys
    BY <2>6, <2>7 DEF Local
  <2>8. ASSUME NEW m \in FKMachines, Register(m) PROVE Keys
    <3>1. CASE Stops(m)
      BY <1>0, <2>7, <3>1, StopIsLocal DEF Stops
    <3>2. CASE ~Stops(m)
      <4> DEFINE r == [fkRun[m] EXCEPT !.pc = "save"]
      <4>1. fkRun[m].pc = "register" /\ fkRun' = [fkRun EXCEPT ![m] = r]
        BY <2>8, <3>2 DEF Register, FKAt, Advances, Goes
      <4>2. fkRun[m] \in [pc : {"register", "save", "push"}, id : FKIds, salt : Salts]
        BY <1>0, <4>1, RunRecords
      <4>3. r.pc = "save" /\ r.salt = fkRun[m].salt
        BY <4>2
      <4>4. fkRun[m].salt \in fkDrawn'
        BY <1>0, <2>1, <4>1 DEF Drawn, KeyIn, Key, Planned
      <4>5. KeyIn(r, fkDrawn')
        BY <4>3, <4>4 DEF KeyIn, Key, Planned
      <4> HIDE DEF r
      <4> QED BY <2>6, <4>1, <4>5
    <3> QED BY <3>1, <3>2
  <2>9. ASSUME NEW m \in FKMachines, SaveConfig(m) \/ PushBlobs(m) PROVE Keys
    <3>1. fkRun' = [fkRun EXCEPT ![m] = FKIdle]
      BY <2>9 DEF SaveConfig, PushBlobs, Goes
    <3>2. KeyIn(FKIdle, fkDrawn')
      BY DEF KeyIn, FKIdle, Planned
    <3> QED BY <2>6, <3>1, <3>2
  <2>10. ASSUME NEW m \in FKMachines, NEW n \in FKMachines,
               CarriesHeader(m, n) \/ DeliverFiles(m, n)
        PROVE  fkRun' = fkRun
    BY <2>10 DEF CarriesHeader, DeliverHeader, DeliverCopy, DeliverFiles, Duplicate, Meddle
  <2>11. Keys
    <3>1. PICK m \in FKMachines, n \in FKMachines :
             \/ StoresNothing(m) \/ CarriesHeader(m, n) \/ DeliverFiles(m, n)
             \/ Register(m) \/ SaveConfig(m) \/ PushBlobs(m)
      BY <1>2, Steps
    <3> HIDE DEF Keys
    <3> QED BY <2>5, <2>7, <2>8, <2>9, <2>10, <3>1, LocalSteps
  <2>12. \A m \in FKMachines : KeyIn(fkRun[m], fkDrawn)'
    BY <2>11 DEF KeyIn, Key, Planned
  <2> QED BY <2>3, <2>12 DEF Drawn
<1> QED BY <1>1, <1>2

LEMMA FKInvStep == FKInv /\ [FKNext]_fkVars => FKInv'
<1> SUFFICES ASSUME FKInv, [FKNext]_fkVars PROVE FKInv'
  OBVIOUS
<1>0. Typed /\ KeysSettled /\ Typed' /\ Drawn'
  BY TypedStep, DrawnStep DEF FKInv, KeysSettled
<1>1. ASSUME UNCHANGED <<fkFiles, fkConf, fkRun>>, fkDrawn \subseteq fkDrawn' PROVE KeysSettled'
  <2>1. fkFiles' = fkFiles /\ fkConf' = fkConf /\ fkRun' = fkRun
    BY <1>1
  <2>2. \A m \in FKMachines : Stored(m)' = Stored(m)
    BY <2>1 DEF Stored
  <2>3. ASSUME NEW m \in FKMachines, NEW f \in Stored(m)' PROVE f \in Stored(f.id[1])'
    <3>1. f \in Stored(m) /\ f.id[1] \in FKMachines
      BY <1>0, <2>2, Owners
    <3>2. f \in Stored(f.id[1])
      BY <1>0, <3>1 DEF KeysSettled, OwnerHas
    <3> QED BY <2>2, <3>1, <3>2
  <2>4. OwnKey' /\ ConfigKey' /\ ConfigHasRecord'
    BY <1>0, <1>1, <2>1, <2>2 DEF KeysSettled, OwnKey, ConfigKey, ConfigHasRecord
  <2>5. ASSUME NEW m \in FKMachines PROVE Fresh(m, fkRun[m])' /\ Synced(m, fkRun[m])'
    <3>1. Fresh(m, fkRun[m]) /\ Synced(m, fkRun[m])
      BY <1>0 DEF KeysSettled
    <3> QED BY <2>1, <2>2, <3>1 DEF Fresh, Synced, Joins, Syncs, Planned, Key, Record
  <2> QED BY <2>3, <2>4, <2>5 DEF KeysSettled, OwnerHas
<1>2. CASE UNCHANGED fkVars
  <2>1. KeysSettled'
    BY <1>1, <1>2 DEF fkVars
  <2> QED BY <1>0, <2>1 DEF FKInv, KeysSettled
<1>3. CASE FKNext
  <2>1. fkDrawn \subseteq fkDrawn'
    BY <1>0, <1>3, HeadersStep
  <2>2. ASSUME NEW m \in FKMachines, Register(m) PROVE KeysSettled'
    <3>1. CASE Stops(m)
      <4>1. Local(m)
        BY <1>0, <3>1, StopIsLocal DEF Stops
      <4> QED BY <1>0, <2>1, <4>1, LocalKeeps
    <3> QED BY <2>2, <3>1, RegisterKeeps
  <2>3. ASSUME NEW m \in FKMachines, Local(m) PROVE KeysSettled'
    BY <1>0, <2>1, <2>3, LocalKeeps
  <2>4. ASSUME NEW m \in FKMachines, NEW n \in FKMachines,
               CarriesHeader(m, n)
        PROVE  UNCHANGED <<fkFiles, fkConf, fkRun>>
    BY <2>4 DEF CarriesHeader, DeliverHeader, DeliverCopy, Duplicate, Meddle
  <2>5. ASSUME UNCHANGED <<fkFiles, fkConf, fkRun>> PROVE KeysSettled'
    BY <1>1, <2>1, <2>5
  <2>6. KeysSettled'
    <3>1. PICK m \in FKMachines, n \in FKMachines :
             \/ StoresNothing(m) \/ CarriesHeader(m, n) \/ DeliverFiles(m, n)
             \/ Register(m) \/ SaveConfig(m) \/ PushBlobs(m)
      BY <1>3, Steps
    <3> QED BY <2>2, <2>3, <2>4, <2>5, <3>1, LocalSteps, SaveKeeps, PushKeeps, DeliveredFilesKeep
  <2> QED BY <1>0, <2>6 DEF FKInv, KeysSettled
<1> QED BY <1>2, <1>3

LEMMA FKInitInv == FKInit => FKInv
<1> SUFFICES ASSUME FKInit PROVE FKInv
  OBVIOUS
<1>1. /\ \A m \in FKMachines : fkRun[m] = FKIdle /\ fkConf[m] = FKNone /\ Stored(m) = {}
      /\ \A m \in FKMachines : fkHead[m] = FKNone /\ \A c \in FKNames : fkCopies[m][c] = FKNone
  BY DEF FKInit, Stored
<1>2. FKIdle.pc = "idle" /\ FKIdle \in Runs
  BY DEF FKIdle, Runs
<1>3. Typed
  BY <1>2, FKNumbers DEF FKInit, Typed, FKTypeOK, FKPcs
<1>4. Drawn
  BY <1>1, <1>2, FKNumbers DEF Drawn, KeyIn, Planned, Salts
<1>5. OwnerHas /\ OwnKey /\ ConfigKey /\ ConfigHasRecord
  BY <1>1 DEF OwnerHas, OwnKey, ConfigKey, ConfigHasRecord
<1>6. \A m \in FKMachines : Fresh(m, fkRun[m]) /\ Synced(m, fkRun[m])
  BY <1>1, <1>2 DEF Fresh, Synced, Joins, Syncs, Planned
<1> QED BY <1>3, <1>4, <1>5, <1>6 DEF FKInv

THEOREM FleetKeyInvariant == FKSpec => []FKInv
BY FKInitInv, FKInvStep, PTL DEF FKSpec

-----------------------------------------------------------------------------
(* A header that is damaged or removed by others than mm aside, no step     *)
(* takes the last readable copy of a header from any folder.                *)
LEMMA KeysStay ==
  ASSUME Typed, FKNext, fkFaults' = fkFaults
  PROVE  \A m \in FKMachines : Valid(m) \subseteq Valid(m)'
<1>0. /\ fkHead \in [FKMachines -> Headers \cup {FKNone}] /\ fkFaults \in Int
      /\ fkCopies \in [FKMachines -> [FKNames -> Headers \cup {FKNone}]]
  BY DEF Typed, FKTypeOK
<1> DEFINE Kept == \A m \in FKMachines : Valid(m) \subseteq Valid(m)'
<1>1. CASE fkHead' = fkHead /\ fkCopies' = fkCopies
  BY <1>1 DEF Valid, Contents, CopiesOf
<1>2. ASSUME NEW m \in FKMachines, NEW h, fkHead[m] = FKNone, fkHead' = [fkHead EXCEPT ![m] = h],
             fkCopies' = fkCopies
      PROVE  Kept
  BY <1>0, <1>2 DEF Valid, Contents, CopiesOf
<1>3. ASSUME NEW m \in FKMachines, NEW c \in FKNames, NEW h, fkCopies' = [fkCopies EXCEPT ![m][c] = h],
             fkCopies[m][c] \in {FKNone, fkHead[m]}, fkHead' = fkHead
      PROVE  Kept
  <2> SUFFICES ASSUME NEW n \in FKMachines, NEW s \in Valid(n) PROVE s \in Valid(n)'
    OBVIOUS
  <2>1. s # FKNone /\ s \in Salts /\ (s = fkHead[n] \/ \E d \in FKNames : fkCopies[n][d] = s)
    BY DEF Valid, Contents, CopiesOf
  <2>2. s = fkHead'[n] \/ \E d \in FKNames : fkCopies'[n][d] = s
    <3>1. CASE s = fkHead[n]
      BY <1>3, <3>1
    <3>2. ASSUME NEW d \in FKNames, fkCopies[n][d] = s, s # fkHead[n] PROVE fkCopies'[n][d] = s
      BY <1>0, <1>3, <2>1, <3>2
    <3> QED BY <2>1, <3>1, <3>2
  <2> QED BY <2>1, <2>2 DEF Valid, Contents, CopiesOf
<1>4. ASSUME NEW m \in FKMachines, NEW c \in FKNames, NEW h, fkCopies[m][c] = FKNone,
             fkCopies' = [fkCopies EXCEPT ![m][c] = fkHead[m]], fkHead' = [fkHead EXCEPT ![m] = h]
      PROVE  Kept
  <2> SUFFICES ASSUME NEW n \in FKMachines, NEW s \in Valid(n) PROVE s \in Valid(n)'
    OBVIOUS
  <2>1. s # FKNone /\ s \in Salts /\ (s = fkHead[n] \/ \E d \in FKNames : fkCopies[n][d] = s)
    BY DEF Valid, Contents, CopiesOf
  <2>2. s = fkHead'[n] \/ \E d \in FKNames : fkCopies'[n][d] = s
    <3>1. CASE s = fkHead[n]
      BY <1>0, <1>4, <3>1
    <3>2. ASSUME NEW d \in FKNames, fkCopies[n][d] = s PROVE fkCopies'[n][d] = s
      BY <1>0, <1>4, <2>1, <3>2
    <3> QED BY <2>1, <3>1, <3>2
  <2> QED BY <2>1, <2>2 DEF Valid, Contents, CopiesOf
<1>5. ASSUME NEW m \in FKMachines, NEW n \in FKMachines, CarriesHeader(m, n) PROVE Kept
  <2>1. CASE DeliverHeader(m, n)
    BY <1>2, <1>4, <2>1 DEF DeliverHeader
  <2>2. CASE DeliverCopy(m, n)
    BY <1>3, <2>2 DEF DeliverCopy
  <2>3. CASE Duplicate(m)
    BY <1>3, <2>3 DEF Duplicate
  <2>4. CASE Meddle(m)
    BY <1>0, <2>4 DEF Meddle
  <2> QED BY <1>5, <2>1, <2>2, <2>3, <2>4 DEF CarriesHeader
<1>6. ASSUME NEW m \in FKMachines, Unlink(m) PROVE Kept
  <2>1. fkRun[m].plan.copies \subseteq FKNames /\ fkHead' = fkHead
    BY <1>6, RunRecords DEF Unlink, FKAt, Planned, Plans
  <2>2. CASE fkCopies' = fkCopies
    BY <1>1, <2>1, <2>2
  <2>3. ASSUME NEW c \in FKNames, StillThere(m), fkCopies[m][c] = fkRun[m].plan.canonical,
               fkCopies' = [fkCopies EXCEPT ![m][c] = FKNone]
        PROVE  Kept
    BY <1>3, <2>1, <2>3 DEF StillThere
  <2> QED BY <1>6, <2>1, <2>2, <2>3 DEF Unlink
<1>7. ASSUME NEW m \in FKMachines, Create(m) PROVE Kept
  BY <1>1, <1>2, <1>7 DEF Create, Stops, Taken
<1>8. ASSUME NEW m \in FKMachines, NEW n \in FKMachines,
             \/ DeliverFiles(m, n) \/ LookForNew(m) \/ Recheck(m) \/ LookToJoin(m) \/ Register(m)
             \/ SaveConfig(m) \/ StartSync(m) \/ Repair(m) \/ PushBlobs(m) \/ Dies(m)
      PROVE  fkHead' = fkHead /\ fkCopies' = fkCopies
  BY <1>8 DEF DeliverFiles, LookForNew, Recheck, LookToJoin, Register, SaveConfig, StartSync,
              Repair, PushBlobs, Dies, Stops
<1>9. PICK m \in FKMachines, n \in FKMachines :
         \/ StoresNothing(m) \/ CarriesHeader(m, n) \/ DeliverFiles(m, n)
         \/ Register(m) \/ SaveConfig(m) \/ PushBlobs(m)
  BY Steps
<1> HIDE DEF Kept
<1>10. CASE fkHead' = fkHead /\ fkCopies' = fkCopies
  BY <1>1, <1>10
<1> QED BY <1>5, <1>6, <1>7, <1>8, <1>9, <1>10 DEF StoresNothing, Kept

(* One device never stores under two keys, whatever headers arrive between  *)
(* and during its commands: blobs travel, so the invariant ties every copy  *)
(* to the owner's folder, the owner's blobs to its config and the config to *)
(* the run; a config names a record and a key that was drawn; and no key is *)
(* lost from a folder (apply_crypto_init_repair, _register_and_save).       *)
THEOREM FleetKeySafe == FKSpec => FleetKeyIsSafe
<1>1. ASSUME FKInv PROVE OneKeyPerDevice /\ ConfigHasRecord
  <2>0. Typed /\ OwnerHas /\ OwnKey /\ ConfigHasRecord
    BY <1>1 DEF FKInv
  <2> SUFFICES ASSUME NEW m \in FKMachines, NEW f \in fkFiles[m], NEW g \in fkFiles[m],
                      f.id = g.id, FKNone \notin {f.salt, g.salt}
               PROVE  f.salt = g.salt
    BY <2>0 DEF OneKeyPerDevice
  <2>1. f \in Stored(m) /\ g \in Stored(m)
    BY DEF Stored
  <2>2. f.id[1] \in FKMachines /\ f \in Stored(f.id[1]) /\ g \in Stored(f.id[1])
    BY <2>0, <2>1, Owners DEF OwnerHas
  <2> QED BY <2>0, <2>2 DEF OwnKey
<1> DEFINE Kept == fkFaults' = fkFaults => \A m \in FKMachines : Valid(m) \subseteq Valid(m)'
<1>2. FKInv /\ [FKNext]_fkVars => [Kept]_fkVars
  BY KeysStay DEF FKInv
<1>3. NoKeyLost <=> [][Kept]_fkVars
  BY PTL DEF NoKeyLost
<1> QED BY <1>1, <1>2, <1>3, FleetKeyInvariant, PTL DEF FKSpec, FleetKeyIsSafe
=============================================================================
