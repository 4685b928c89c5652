------------------------------ MODULE Upgrade ------------------------------
(***************************************************************************)
(* upgrade.py: the daily release check, its cache, and the pipx runs that *)
(* replace the installed package.  A command first notes, outside the mm    *)
(* lock, that its version is new here.  Three kinds of command end in it: a *)
(* hook (autopull, autopush) spawns pipx detached and leaves while it      *)
(* holds the mm lock; an attended pull or push gives the lock back and     *)
(* takes it again for the swap; mm update checks by force and may          *)
(* reinstall a pinned install.  The installer lock is held by the command  *)
(* and inherited by its pipx, which outlives a command that dies.          *)
(***************************************************************************)
EXTENDS Integers, FiniteSets

CONSTANTS UPProcs,
          UPVersions,   \* 1..UPVersions are releases; 0 is none
          UPGrace,      \* INSTALL_GRACE
          UPBackoff,    \* DEFAULT_FAILURE_BACKOFF
          UPDay,        \* throttle, nudge gap and retry gap
          UPLastTick,   \* the clock stops here
          UPNone

ASSUME UPTimes == /\ {UPGrace, UPBackoff, UPDay, UPLastTick} \subseteq Nat
                  /\ 0 < UPGrace /\ UPGrace <= UPBackoff /\ UPBackoff < UPDay
ASSUME UPNumbers == UPVersions \in Nat \ {0} /\ UPNone \notin UPProcs \cup Int
ASSUME UPFinite == IsFiniteSet(UPProcs)

VARIABLES upNow, upTag, upBranch,  \* the clock, the newest tag, the build on the release branch
          upVenv,                  \* pipx metadata: [kind, ver]
          upCache,                 \* upgrade-state.json
          upLock,                  \* holder of the mm lock
          upProc, upPipx,          \* the commands, and the pipx each one started
          upTried,                 \* history: claim time of the last automatic pipx of a release,
                                   \* none once another release has been claimed since
          upRows,                  \* history: upgrades logged since the cache was last whole,
                                   \* less the versions stepped back and the rows due then
          upBack                   \* history: the clock moved back, or a cache write was cut short

upWorld == <<upNow, upTag, upBranch>>
upVars == <<upWorld, upVenv, upCache, upLock, upProc, upPipx, upTried, upRows, upBack>>

Releases == 1..UPVersions
Stamps == (0..UPLastTick) \cup {UPNone}
EmptyCache == [latest |-> 0, checked |-> UPNone, attempted |-> UPNone,
               seen |-> 0,
               claim |-> 0, claimAt |-> UPNone, failed |-> FALSE]
UPIdle == [pc |-> "idle", verb |-> "hook", ver |-> 0, latest |-> 0,
           at |-> UPNone, old |-> 0, auto |-> FALSE, forced |-> FALSE]
NoPipx == [on |-> FALSE, forced |-> FALSE, over |-> "tracking"]

UPTypeOK ==
  /\ upNow \in 0..UPLastTick /\ upTag \in Releases /\ upBranch \in Releases
  /\ upVenv \in [kind : {"tracking", "pinned", "gone"}, ver : 0..UPVersions]
  /\ upCache \in [latest : 0..UPVersions, checked : Stamps, attempted : Stamps,
                  seen : 0..UPVersions,
                  claim : 0..UPVersions, claimAt : Stamps, failed : BOOLEAN]
  /\ upLock \in UPProcs \cup {UPNone}
  /\ upProc \in [UPProcs -> [pc : {"idle", "load", "log", "lock", "sync", "check", "relock", "probe",
                                   "claim", "run", "wait", "failed", "nudge"},
                             verb : {"hook", "attended", "update"}, ver : 0..UPVersions,
                             latest : 0..UPVersions, at : Stamps,
                             old : 0..UPVersions, auto : BOOLEAN, forced : BOOLEAN]]
  /\ upPipx \in [UPProcs -> [on : BOOLEAN, forced : BOOLEAN, over : {"tracking", "pinned", "gone"}]]
  /\ upTried \in [Releases -> Stamps] /\ upRows \in Int /\ upBack \in BOOLEAN

UPInit ==
  /\ upNow = 0 /\ upTag = 1 /\ upBranch = 1
  /\ upVenv \in [kind : {"tracking", "pinned"}, ver : {1}]
  /\ upCache = [EmptyCache EXCEPT !.seen = 1]
  /\ upLock = UPNone
  /\ upProc = [p \in UPProcs |-> UPIdle]
  /\ upPipx = [p \in UPProcs |-> NoPipx]
  /\ upTried = [v \in Releases |-> UPNone]
  /\ upRows = 0 /\ upBack = FALSE

Elapsed(stamp, gap) == stamp = UPNone \/ upNow >= stamp + gap
UPGoto(p, pc) == upProc' = [upProc EXCEPT ![p].pc = pc]
Failing(me) == [UPIdle EXCEPT !.pc = "failed", !.latest = me.latest, !.auto = me.auto]
UPFails(p) == upProc' = [upProc EXCEPT ![p] = Failing(@)]
Nudging == [UPIdle EXCEPT !.pc = "nudge"]
UPNudges(p) == upProc' = [upProc EXCEPT ![p] = Nudging]
UPEnd(p) == upProc' = [upProc EXCEPT ![p] = UPIdle]
Unlocked(p) == IF upLock = p THEN UPNone ELSE upLock

-----------------------------------------------------------------------------
\* External: time, releases (the branch may lag the tag), the user's own pipx.
Tick ==
  /\ \/ upNow < UPLastTick /\ upNow' = upNow + 1 /\ UNCHANGED upBack
     \/ upNow > 0 /\ ~upBack /\ upNow' = upNow - 1 /\ upBack' = TRUE
  /\ UNCHANGED <<upTag, upBranch, upVenv, upCache, upLock, upProc, upPipx, upTried, upRows>>

Release ==
  /\ \/ upTag < UPVersions /\ upTag' = upTag + 1 /\ UNCHANGED upBranch
     \/ upBranch < upTag /\ upBranch' = upBranch + 1 /\ UNCHANGED upTag
  /\ UNCHANGED <<upNow, upVenv, upCache, upLock, upProc, upPipx, upTried, upRows, upBack>>

\* A command loads the installed package and its configuration; no lock is asked for.
UPStart(p, verb) ==
  /\ upProc[p].pc = "idle" /\ ~upPipx[p].on /\ upVenv.kind # "gone"
  /\ upProc' = [upProc EXCEPT ![p] = [UPIdle EXCEPT !.verb = verb, !.ver = upVenv.ver,
                                       !.pc = IF verb = "update" THEN "check" ELSE "load"]]
  /\ UNCHANGED <<upWorld, upVenv, upCache, upLock, upPipx, upTried, upRows, upBack>>

\* detect_self_version_transition: read, compare and write under one flock of the
\* cache, outside the mm lock; without the flock, or with the check switched off,
\* nothing is noted.  The row is appended to the pull history afterwards.
Transition(p) ==
  LET seen == upCache.seen
      mine == upProc[p].ver
  IN  /\ upProc[p].pc = "load"
      /\ \/ UPGoto(p, "lock") /\ UNCHANGED <<upCache, upRows>>
         \/ /\ upCache' = [upCache EXCEPT !.seen = mine]
            /\ IF seen \in {0, mine} THEN UPGoto(p, "lock")
               ELSE upProc' = [upProc EXCEPT ![p].old = seen, ![p].pc = "log"]
            /\ upRows' = IF seen > mine THEN upRows - (seen - mine) ELSE upRows
      /\ UNCHANGED <<upWorld, upVenv, upLock, upPipx, upTried, upBack>>

\* Who is about to log an upgrade.
RowsDue == {p \in UPProcs : upProc[p].pc = "log" /\ upProc[p].old < upProc[p].ver}

\* append_self_upgrade; a history that cannot be written is let go.
LogTransition(p) ==
  /\ upProc[p].pc = "log"
  /\ upProc' = [upProc EXCEPT ![p].old = 0, ![p].pc = "lock"]
  /\ upRows' \in {upRows, IF p \in RowsDue THEN upRows + 1 ELSE upRows}
  /\ UNCHANGED <<upWorld, upVenv, upCache, upLock, upPipx, upTried, upBack>>

\* acquire_lock: a pull, a push or a hook has it at once or ends.
AcquireLock(p) ==
  /\ upProc[p].pc = "lock"
  /\ IF upLock = UPNone THEN UPGoto(p, "sync") /\ upLock' = p
                        ELSE UPEnd(p) /\ UNCHANGED upLock
  /\ UNCHANGED <<upWorld, upVenv, upCache, upPipx, upTried, upRows, upBack>>

\* A hook checks before it exits, with the lock; an attended command without it.
SyncEnds(p) ==
  /\ upProc[p].pc = "sync"
  /\ UPGoto(p, "check")
  /\ upLock' = IF upProc[p].verb = "hook" THEN upLock ELSE Unlocked(p)
  /\ UNCHANGED <<upWorld, upVenv, upCache, upPipx, upTried, upRows, upBack>>

-----------------------------------------------------------------------------
\* check_for_upgrade, under the flock of the cache: fetch when asked to, or when
\* the last answer is a day old and the last attempt past the backoff; a failed
\* fetch falls back to the cached release, but never answers a forced check.
Due(verb) == \/ verb = "update"
             \/ Elapsed(upCache.checked, UPDay) /\ Elapsed(upCache.attempted, UPBackoff)

Fetched(outcome) ==
  CASE outcome = "ok"    -> [upCache EXCEPT !.latest = upTag, !.checked = upNow, !.attempted = upNow]
    [] outcome = "quiet" -> upCache
    [] OTHER             -> [upCache EXCEPT !.attempted = upNow]

\* What follows a check: nothing, an automatic install, or the nudge.
Tracking(latest) == upVenv.kind = "tracking" /\ upVenv.ver < latest
AfterCheck(p, latest, known) ==
  LET verb == upProc[p].verb
  IN  IF verb = "update"
        THEN IF (known /\ upVenv.ver >= latest) \/ upVenv.kind = "gone"
                \/ (upVenv.kind = "pinned" /\ ~known)
             THEN "idle" ELSE "relock"
      ELSE IF ~known \/ latest <= upProc[p].ver THEN "idle"
      ELSE IF upVenv.kind # "tracking" THEN "nudge"
      ELSE IF upVenv.ver >= latest THEN "idle"
      ELSE IF verb = "hook" THEN "probe" ELSE "relock"

CheckForUpgrade(p) ==
  /\ upProc[p].pc = "check"
  /\ \E outcome \in IF Due(upProc[p].verb) THEN {"ok", "empty", "failed"} ELSE {"quiet"} :
       LET cache == Fetched(outcome)
           known == /\ cache.latest > 0 /\ outcome # "empty"
                    /\ ~(outcome = "failed" /\ upProc[p].verb = "update")
           next  == AfterCheck(p, cache.latest, known)
       IN  /\ upCache' = cache
           /\ upProc' = [upProc EXCEPT ![p] =
                IF next = "idle" THEN UPIdle
                ELSE IF next = "nudge" THEN Nudging
                ELSE [@ EXCEPT !.pc = next, !.ver = 0, !.latest = IF known THEN cache.latest ELSE 0]]
           /\ upLock' = IF next = "idle" THEN Unlocked(p) ELSE upLock
  /\ UNCHANGED <<upWorld, upVenv, upPipx, upTried, upRows, upBack>>

\* _nudge_if_due prints, and record_nudge stamps the cache for the next one; the
\* stamps decide nothing else and are left out.
Nudge(p) ==
  /\ upProc[p].pc = "nudge"
  /\ UPEnd(p) /\ upLock' = Unlocked(p)
  /\ UNCHANGED <<upWorld, upVenv, upCache, upPipx, upTried, upRows, upBack>>

SwapLock(p, next) == IF next \in {"probe", "run"} THEN p ELSE upLock

\* The mm lock before the swap, and the install classified again under it.
Relock(p) ==
  /\ upProc[p].pc = "relock"
  /\ LET me == upProc[p]
         next == IF upLock # UPNone THEN "idle"
                 ELSE IF me.verb = "attended"
                   THEN IF Tracking(me.latest) THEN "probe"
                        ELSE IF upVenv.kind # "tracking" THEN "nudge" ELSE "idle"
                 ELSE IF \/ upVenv.kind = "gone" \/ (me.latest > 0 /\ upVenv.ver >= me.latest)
                         \/ (upVenv.kind = "pinned" /\ me.latest = 0)
                   THEN "idle" ELSE "run"
     IN  /\ upProc' = [upProc EXCEPT ![p] =
              IF next = "idle" THEN UPIdle
              ELSE IF next = "nudge" THEN Nudging
              ELSE [@ EXCEPT !.pc = next, !.old = upVenv.ver, !.forced = (upVenv.kind = "pinned")]]
         /\ upLock' = SwapLock(p, next)
  /\ UNCHANGED <<upWorld, upVenv, upCache, upPipx, upTried, upRows, upBack>>

-----------------------------------------------------------------------------
\* Who holds a descriptor of install.lock: a pipx, whose command may be gone.
Installers == {p \in UPProcs : upPipx[p].on}
\* Mutant: a pipx whose command has gone is forgotten.
BusyWhileAlive == \E p \in Installers : upProc[p].pc # "idle"
Busy == Installers # {}

Probe(p) ==
  /\ upProc[p].pc = "probe"
  /\ IF Busy THEN UPEnd(p) /\ upLock' = Unlocked(p) ELSE UPGoto(p, "claim") /\ UNCHANGED upLock
  /\ UNCHANGED <<upWorld, upVenv, upCache, upPipx, upTried, upRows, upBack>>

\* _attempt_state: a stamp of the future, or of another release, counts as none.
AttemptState(latest) ==
  IF upCache.claim # latest \/ upCache.claimAt = UPNone THEN "none"
  ELSE IF upCache.claimAt > upNow THEN "none"
  ELSE IF upCache.failed \/ Elapsed(upCache.claimAt, UPGrace) THEN "failed" ELSE "in-flight"

\* Mutant: a failed attempt is retried at once.
ClaimableAtOnce(latest) == AttemptState(latest) # "in-flight"
Claimable(latest) == \/ AttemptState(latest) = "none"
                     \/ AttemptState(latest) = "failed" /\ Elapsed(upCache.claimAt, UPDay)

\* _claim_install_attempt: unrecorded means unclaimed; a write cut short leaves
\* an empty cache behind.
Claim(p) ==
  LET latest == upProc[p].latest
  IN  /\ upProc[p].pc = "claim"
      /\ \/ /\ Claimable(latest)
            /\ upCache' = [upCache EXCEPT !.claim = latest, !.claimAt = upNow, !.failed = FALSE]
            /\ upProc' = [upProc EXCEPT ![p].pc = "run", ![p].at = upNow, ![p].auto = TRUE]
            /\ upTried' = [v \in Releases |-> IF v = latest THEN upTried[v] ELSE UPNone]
            /\ UNCHANGED <<upLock, upRows, upBack>>
         \/ /\ Claimable(latest)
            /\ upCache' = EmptyCache /\ upBack' = TRUE
            /\ upRows' = -Cardinality(RowsDue)
            /\ UPNudges(p) /\ UNCHANGED <<upLock, upTried>>
         \/ /\ ~Claimable(latest)
            /\ IF AttemptState(latest) = "failed"
                 THEN UPNudges(p) /\ UNCHANGED upLock
                 ELSE UPEnd(p) /\ upLock' = Unlocked(p)
            /\ UNCHANGED <<upCache, upRows, upBack, upTried>>
      /\ UNCHANGED <<upWorld, upVenv, upPipx>>

StillPinned(p) == upProc[p].forced => upVenv.kind = "pinned"

\* _pipx_install_lock and Popen.  Another installer means leave; a forced
\* reinstall checks again that the install is pinned; Popen may fail.
RunPipx(p) ==
  LET me == upProc[p]
      next == IF me.verb = "hook" THEN "idle" ELSE "wait"
  IN  /\ me.pc = "run"
      /\ \/ /\ ~Busy /\ StillPinned(p)
            /\ upPipx' = [upPipx EXCEPT ![p] = [on |-> TRUE, forced |-> me.forced,
                                                 over |-> IF me.forced THEN upVenv.kind ELSE "tracking"]]
            /\ upTried' = IF me.auto THEN [upTried EXCEPT ![me.latest] = me.at] ELSE upTried
            /\ upProc' = [upProc EXCEPT ![p] = IF next = "idle" THEN UPIdle ELSE [@ EXCEPT !.pc = next, !.at = UPNone]]
            /\ upLock' = IF next = "idle" THEN Unlocked(p) ELSE upLock
         \/ Busy /\ UPEnd(p) /\ upLock' = Unlocked(p) /\ UNCHANGED <<upPipx, upTried>>
         \/ ~Busy /\ UPFails(p) /\ UNCHANGED <<upPipx, upTried, upLock>>
      /\ UNCHANGED <<upWorld, upVenv, upCache, upRows, upBack>>

\* pipx ends: the branch is installed, or nothing moved, or a failed forced
\* reinstall removed the venv.
PipxEnds(p) ==
  /\ upPipx[p].on
  /\ \/ /\ upVenv.kind = "gone" => upPipx[p].forced
        /\ upVenv' = [kind |-> "tracking", ver |-> upBranch]
     \/ upVenv' = IF upPipx[p].forced THEN [kind |-> "gone", ver |-> 0] ELSE upVenv
  /\ upPipx' = [upPipx EXCEPT ![p] = NoPipx]
  /\ UNCHANGED <<upWorld, upCache, upLock, upProc, upTried, upRows, upBack>>

\* run_update: a timeout or Ctrl-C kills the group before the lock is released;
\* otherwise the metadata decides.
Verdict(p) ==
  LET moved == upVenv.ver # upProc[p].old \/ upProc[p].forced
  IN  IF upVenv.kind = "tracking" /\ moved /\ upVenv.ver >= upProc[p].latest THEN "updated" ELSE "failed"

Waited(p) ==
  /\ upProc[p].pc = "wait"
  /\ LET ok == ~upPipx[p].on /\ Verdict(p) = "updated"
     IN  /\ upProc' = [upProc EXCEPT ![p] = IF ok \/ ~upProc[p].auto THEN UPIdle
                                            ELSE Failing(@)]
         /\ upPipx' = [upPipx EXCEPT ![p] = NoPipx]
         /\ upVenv' \in IF upPipx[p].on /\ upPipx[p].forced
                          THEN {upVenv, [kind |-> "gone", ver |-> 0]} ELSE {upVenv}
  /\ upLock' = Unlocked(p)
  /\ UNCHANGED <<upWorld, upCache, upTried, upRows, upBack>>

\* _record_install_failed, then the nudge (a hook that could not start pipx, or
\* an attended run whose swap failed).
RecordFailed(p) ==
  LET me == upProc[p]
  IN  /\ me.pc = "failed"
      /\ upCache' = [upCache EXCEPT !.failed = @ \/ (me.auto /\ upCache.claim = me.latest)]
      /\ IF me.auto THEN UPNudges(p) /\ UNCHANGED upLock
                    ELSE UPEnd(p) /\ upLock' = Unlocked(p)
      /\ UNCHANGED <<upWorld, upVenv, upPipx, upTried, upRows, upBack>>

\* A command dies; its lock goes with it, its pipx does not.
UPDies(p) ==
  /\ upProc[p].pc # "idle"
  /\ UPEnd(p) /\ upLock' = Unlocked(p)
  /\ UNCHANGED <<upWorld, upVenv, upCache, upPipx, upTried, upRows, upBack>>

UPStep(p) ==
  \/ Transition(p) \/ LogTransition(p) \/ AcquireLock(p) \/ SyncEnds(p)
  \/ CheckForUpgrade(p) \/ Nudge(p) \/ Relock(p) \/ Probe(p) \/ Claim(p) \/ RunPipx(p) \/ Waited(p) \/ RecordFailed(p)

UPNext ==
  \/ Tick \/ Release
  \/ \E p \in UPProcs : \/ \E verb \in {"hook", "attended", "update"} : UPStart(p, verb)
                        \/ UPStep(p) \/ PipxEnds(p) \/ UPDies(p)

UPSpec == UPInit /\ [][UPNext]_upVars
-----------------------------------------------------------------------------
\* At most one pipx works on the venv, counting those whose command has exited
\* or died.  (_pipx_install_lock, "for the lifetime of their pipx process".)
OneInstaller == Cardinality(Installers) <= 1

\* While a command that is alive swaps the package, no other command syncs: the
\* swap holds the mm lock through its cleanup.  A command that has only loaded may
\* note its version meanwhile, which the code means to allow.  (_auto_install,
\* attended; acquire_lock.)
NoSyncDuringSwap ==
  \A p, q \in UPProcs : upProc[p].pc = "wait" /\ upPipx[p].on => upProc[q].pc # "sync"

\* A forced reinstall, which deletes the venv if it fails, never starts over an
\* install that already tracks the release branch.  (_pipx_environment.)
ForcedOnlyOverPinned == \A p \in UPProcs : upPipx[p].on /\ upPipx[p].forced => upPipx[p].over = "pinned"

\* Automatic pipx runs for one release are a retry gap apart, through deaths and
\* failed claims, unless a claim for another release came in between, the clock
\* moved back or the cache was cut short.  (_claim_install_attempt.)
RetryGap ==
  [][\A p \in UPProcs :
       LET me == upProc[p]
       IN  (me.auto /\ ~upPipx[p].on /\ upPipx'[p].on /\ ~upBack) =>
             upTried[me.latest] = UPNone \/ me.at >= upTried[me.latest] + UPDay]_upVars

\* An upgrade is logged once, however many commands of the new version note it at
\* once: the rows are no more than the versions there are to upgrade to and those
\* that commands of an older version, or a lost cache, set back in between.
\* (detect_self_version_transition, "race-correct under two concurrent mm processes".)
UpgradeLoggedOnce == upRows <= UPVersions - 1

\* Swaps of the package never overlap each other or a sync, never force without need,
\* and are logged once.
SwapsAreSafe == OneInstaller /\ NoSyncDuringSwap /\ ForcedOnlyOverPinned /\ UpgradeLoggedOnce
=============================================================================
