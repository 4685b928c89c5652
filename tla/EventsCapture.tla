--------------------------- MODULE EventsCapture ---------------------------
(***************************************************************************)
(* events.py and events_tail.py: how a push captures the commits of this  *)
(* machine's repositories.  Each push walks every repository it discovers *)
(* from that repository's cursor to now, appends one git row and then the  *)
(* mm-push row, whose presence moves the global cursor, and commits the    *)
(* repository cursors to a rebuildable cache once it sees its row in the   *)
(* log.  A push may discover only some repositories, a walk may be cut     *)
(* short, an append may stop between the rows, and the run may die.        *)
(* Recapture and init walk a window of their own and write no mm-push row. *)
(* A repository stands for a group of worktrees with one object store.     *)
(***************************************************************************)
EXTENDS Naturals, Sequences, FiniteSets, FiniteSetsExt

CONSTANTS ECRepos,
          ECLast,       \* the clock stops here; 0 is the lookback floor
          ECCaptures,   \* bound on captures
          ECCommits,    \* bound on commits
          ECFaults,     \* which of "orphan", "narrow", "missed" and "during" happen
          ECNone

ASSUME ECNumbers == ECLast \in Nat /\ ECNone \notin Nat

VARIABLES ecNow, ecCommits,  \* the clock, and the times of each repository's commits
          ecLog,             \* rows of the event log, oldest first
          ecCache,           \* git-capture cache: cursors and the last committed push
          ecRun,             \* the capture under way
          ecCount,
          ecSeen             \* history: commits some git row recorded

ecVars == <<ecNow, ecCommits, ecLog, ecCache, ecRun, ecCount, ecSeen>>

Times == 0..ECLast
EmptyCapture == [marker |-> ECNone, cursor |-> [r \in ECRepos |-> ECNone]]
ECIdle == [pc |-> "idle", origin |-> FALSE, since |-> 0, disc |-> "complete", roots |-> {},
           walked |-> {}, failed |-> {}, got |-> <<>>, started |-> 0, stamp |-> 0]

GitRow(run)  == [kind |-> "git", origin |-> run.origin, ts |-> run.started, since |-> run.since,
                 disc |-> run.disc, done |-> run.walked, failed |-> run.failed]
PushRow(run) == [kind |-> "push", origin |-> FALSE, ts |-> run.stamp, since |-> run.since,
                 disc |-> run.disc, done |-> {}, failed |-> {}]

ECTypeOK ==
  /\ ecNow \in Times /\ ecCommits \in [ECRepos -> SUBSET Times]
  /\ ecCache.marker \in Times \cup {ECNone}
  /\ ecCache.cursor \in [ECRepos -> Times \cup {ECNone}]
  /\ \A i \in 1..Len(ecLog) : ecLog[i].ts \in Times /\ ecLog[i].done \subseteq ECRepos
  /\ ecRun.pc \in {"idle", "reconcile", "discover", "walk", "walked", "append", "push", "commit"}
  /\ ecRun.walked \cup ecRun.failed \subseteq ecRun.roots
  /\ ecSeen \in [ECRepos -> SUBSET Times]

ECInit ==
  /\ ecNow = 0 /\ ecCommits = [r \in ECRepos |-> {}]
  /\ ecLog = <<>> /\ ecCache = EmptyCapture /\ ecRun = ECIdle /\ ecCount = 0
  /\ ecSeen = [r \in ECRepos |-> {}]

-----------------------------------------------------------------------------
\* External: the clock and the user's commits.  They move between captures and on
\* both sides of the walks; elsewhere in a capture nothing reads them.
ECTick ==
  /\ ecRun.pc \in {"idle", "walk", "walked"} /\ ecNow < ECLast
  /\ ecNow' = ecNow + 1
  /\ UNCHANGED <<ecCommits, ecLog, ecCache, ecRun, ecCount, ecSeen>>

\* "during": a commit after its repository was walked and before the push's row is
\* stamped, which no capture takes.
MakeCommit(r) ==
  /\ ecRun.pc \in {"idle", "walk"} \/ (ecRun.pc = "walked" /\ "during" \in ECFaults)
  /\ SumSet({Cardinality(ecCommits[q]) : q \in ECRepos}) < ECCommits
  /\ ecNow \notin ecCommits[r]
  /\ ecCommits' = [ecCommits EXCEPT ![r] = @ \cup {ecNow}]
  /\ UNCHANGED <<ecNow, ecLog, ecCache, ecRun, ecCount, ecSeen>>

-----------------------------------------------------------------------------
\* resolve_push_cursor: the newest mm-push row whose discovery was not partial,
\* else the since of the newest partial one, else the lookback floor.
Pushes == {i \in 1..Len(ecLog) : ecLog[i].kind = "push" /\ ecLog[i].ts <= ecNow}
\* Mutant: a push moves the cursor however much it discovered.
AdvancingPartial == Pushes
Advancing == {i \in Pushes : ecLog[i].disc = "complete"}
GlobalSince == IF Advancing # {} THEN ecLog[Max(Advancing)].ts
               ELSE IF Pushes # {} THEN ecLog[Max(Pushes)].since ELSE 0

\* effective_capture_since: the oldest interval some repository still owes.
Owed(since) == Min({since} \cup ({ecCache'.cursor[r] : r \in ECRepos} \ {ECNone}))
RootSince(r, since) == IF ecCache.cursor[r] = ECNone THEN since ELSE ecCache.cursor[r]

\* A push holds the mm lock from here to the end of the tail.  Two pushes never
\* have one timestamp.
StartPush ==
  /\ ecRun.pc = "idle" /\ ecCount < ECCaptures
  /\ \A i \in Pushes : ecLog[i].ts < ecNow
  /\ ecRun' = [ECIdle EXCEPT !.pc = "reconcile"]
  /\ ecCount' = ecCount + 1
  /\ UNCHANGED <<ecNow, ecCommits, ecLog, ecCache, ecSeen>>

\* recapture WINDOW, and init with the whole lookback: the window given, whatever
\* the cursors say, and no reconciliation before it.
StartRecapture(since) ==
  /\ ecRun.pc = "idle" /\ ecCount < ECCaptures /\ since <= ecNow
  /\ ecRun' = [ECIdle EXCEPT !.pc = "discover", !.origin = TRUE, !.since = since]
  /\ ecCount' = ecCount + 1
  /\ "narrow" \in ECFaults \/ \A r \in ECRepos : ecCache.cursor[r] = ECNone => since <= GlobalSince
  /\ UNCHANGED <<ecNow, ecCommits, ecLog, ecCache, ecSeen>>

-----------------------------------------------------------------------------
\* _apply_repo_cursors_to_cache.  A recapture (recorded FALSE) moves a cursor only
\* over an interval it covers and gives failed repositories none.
Applied(cache, done, failed, since, stamp, recorded, reconciling) ==
  LET old(r) == cache.cursor[r]
      moved == {r \in done \ failed : recorded \/ old(r) = ECNone \/ since <= old(r)}
      pinned == {r \in failed : recorded /\ (old(r) = ECNone \/ (reconciling /\ since < old(r)))}
  IN  IF recorded /\ cache.marker # ECNone /\ stamp <= cache.marker THEN cache
      ELSE [marker |-> IF recorded THEN stamp ELSE cache.marker,
            cursor |-> [r \in ECRepos |->
              IF r \in moved THEN Min({Max({stamp} \cup IF old(r) \in Times THEN {old(r)} ELSE {}), ecNow})
              ELSE IF r \in pinned THEN since ELSE old(r)]]

\* reconcile_uncommitted_push_cursors replays every batch newer than the cache's
\* marker, oldest first.  Git rows without an origin belong to the next mm-push row.
Batch(i) == LET before == {j \in 1..(i - 1) : ecLog[j].kind = "push"}
                first == IF before = {} THEN 1 ELSE Max(before) + 1
            IN  {j \in first..i : ecLog[j].kind = "git" /\ ~ecLog[j].origin}

Due == {i \in Pushes : ecCache.marker = ECNone \/ ecLog[i].ts > ecCache.marker}

Replay[i \in 0..Len(ecLog)] ==
  IF i = 0 THEN ecCache
  ELSE IF i \notin Due THEN Replay[i - 1]
  ELSE Applied(Replay[i - 1], UNION {ecLog[j].done : j \in Batch(i)},
               UNION {ecLog[j].failed : j \in Batch(i)}, ecLog[i].since, ecLog[i].ts, TRUE, TRUE)

Replayed == Replay[Len(ecLog)]

\* "missed": the write fails and the push goes on; its own commit then moves the
\* marker past the batches it did not replay.
Reconcile ==
  /\ ecRun.pc = "reconcile"
  /\ ecCache' = Replayed \/ ("missed" \in ECFaults /\ ecCache' = ecCache)
  /\ ecRun' = [ecRun EXCEPT !.pc = "discover", !.since = Owed(GlobalSince)]
  /\ UNCHANGED <<ecNow, ecCommits, ecLog, ecCount, ecSeen>>

\* discover_git_roots finds every repository, or some within its deadline; with
\* no root found the push is held like a partial one.
Discover ==
  /\ ecRun.pc = "discover"
  /\ \E roots \in SUBSET ECRepos :
       ecRun' = [ecRun EXCEPT !.pc = "walk", !.roots = roots, !.started = ecNow,
                   !.disc = IF roots = ECRepos THEN "complete" ELSE "partial"]
  /\ UNCHANGED <<ecNow, ecCommits, ecLog, ecCache, ecCount, ecSeen>>

\* git log of every root from its cutoff.  The budget or a timeout ends the walk
\* of some, or git fails there.
Walk(walked) ==
  LET cutoff(r) == IF ecRun.origin THEN ecRun.since ELSE RootSince(r, ecRun.since)
  IN  /\ ecRun.pc = "walk" /\ walked \subseteq ecRun.roots
      /\ ecRun' = [ecRun EXCEPT !.pc = "walked", !.walked = walked, !.failed = ecRun.roots \ walked,
                      !.got = [r \in walked |-> {t \in ecCommits[r] : t >= cutoff(r)}]]
      /\ UNCHANGED <<ecNow, ecCommits, ecLog, ecCache, ecCount, ecSeen>>

\* The mm-push row is stamped when it is made, after the walks.
StampPush ==
  /\ ecRun.pc = "walked"
  /\ ecRun' = [ecRun EXCEPT !.pc = "append", !.stamp = ecNow]
  /\ UNCHANGED <<ecNow, ecCommits, ecLog, ecCache, ecCount, ecSeen>>

\* write_push_event: one write, in order; it is skipped, ends between the rows,
\* or succeeds, and a failure is not reported.
AppendGitRow ==
  /\ ecRun.pc = "append"
  /\ ecLog' = Append(ecLog, GitRow(ecRun))
  /\ ecSeen' = [r \in ECRepos |-> ecSeen[r] \cup IF r \in ecRun.walked THEN ecRun.got[r] ELSE {}]
  /\ ecRun' = [ecRun EXCEPT !.pc = IF ecRun.origin THEN "commit" ELSE "push", !.got = <<>>]
  /\ UNCHANGED <<ecNow, ecCommits, ecCache, ecCount>>

AppendPushRow ==
  /\ ecRun.pc = "push"
  /\ ecLog' = Append(ecLog, PushRow(ecRun))
  /\ ecRun' = [ecRun EXCEPT !.pc = "commit"]
  /\ UNCHANGED <<ecNow, ecCommits, ecCache, ecCount, ecSeen>>

\* commit_repo_cursors, once the row just written is the newest of its kind.  The
\* write may fail: nothing is said and the cache stays as it was.
CommitCursors ==
  /\ ecRun.pc = "commit"
  /\ ecCache' \in {ecCache, Applied(ecCache, ecRun.walked, ecRun.failed, ecRun.since,
                       IF ecRun.origin THEN ecRun.started ELSE ecRun.stamp, ~ecRun.origin, FALSE)}
  /\ ecRun' = ECIdle
  /\ UNCHANGED <<ecNow, ecCommits, ecLog, ecCount, ecSeen>>

\* The run dies, or the tail swallows an error: nothing more is written, and a
\* cache write cut short leaves an unreadable file, read as an empty cache.
\* "orphan": it dies with a git row in the log and no mm-push row after it.
ECDies ==
  /\ ecRun.pc # "idle"
  /\ ecRun.pc = "push" => "orphan" \in ECFaults
  /\ ecCache' = ecCache \/ (ecRun.pc \in {"reconcile", "commit"} /\ ecCache' = EmptyCapture)
  /\ ecRun' = ECIdle
  /\ UNCHANGED <<ecNow, ecCommits, ecLog, ecCount, ecSeen>>

ECNext ==
  \/ ECTick \/ (\E r \in ECRepos : MakeCommit(r)) \/ (\E walked \in SUBSET ECRepos : Walk(walked))
  \/ StartPush \/ \E since \in Times : StartRecapture(since)
  \/ Reconcile \/ Discover \/ StampPush
  \/ AppendGitRow \/ AppendPushRow \/ CommitCursors \/ ECDies

ECSpec == ECInit /\ [][ECNext]_ecVars
-----------------------------------------------------------------------------
\* Where the next push would walk a repository from, if it found it.
NextCutoff(r) == LET cursor == Replayed.cursor[r]
                 IN  IF cursor = ECNone THEN GlobalSince ELSE cursor

\* No commit falls between two captures: whatever was partial, aborted, not
\* written, lost or replayed before, every commit is in the log or the next push
\* still walks over it.  The four gaps ECFaults names are left out of the run.
NoCommitSkipped ==
  ecRun.pc = "idle" =>
    \A r \in ECRepos : \A t \in ecCommits[r] \ ecSeen[r] : NextCutoff(r) <= t
=============================================================================
