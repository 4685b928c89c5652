----------------------------- MODULE CodexScan ------------------------------
(***************************************************************************)
(* hosts/codex.py: one pass over the Codex rollouts, which live in day     *)
(* directories and in a flat archive.  A pass lists the live tree, then    *)
(* the archive, looks at the live tree again, and reads the files newest   *)
(* first through the cache; a complete pass replaces the cache, a partial  *)
(* one merges into it.  A settled day's entries are taken without looking  *)
(* at its files, on trust of its listing, one day a pass being checked.    *)
(* Codex writes and moves rollouts at any moment of a pass.                *)
(***************************************************************************)
EXTENDS Integers, Sequences, FiniteSets, FiniteSetsExt, SequencesExt, Functions

CONSTANTS CXFiles,    \* rollouts, numbered in the order of their names
          CXDay,      \* the day directory of each
          CXTurns,    \* the turns each names; "" is a turn without an id
          CXStart, CXEnd,   \* bounds: the first and the last day of the clock
          CXChanges,  \* bound: appends, moves and deletions
          CXNone

\* A rollout lies in the directory of the day it was begun.
ASSUME CXAssumption == /\ IsFiniteSet(CXFiles) /\ CXFiles = 1..Cardinality(CXFiles)
                       /\ CXStart \in Nat /\ \A f \in CXFiles : CXDay[f] \in 0..CXStart

SettleDays == 2   \* SETTLE_DAYS

VARIABLES cxFile,   \* the rollouts on disk: where, stat identity, day last written
          cxNow,
          cxCache,  \* the cache file: files, and the settled days' records
          cxRun,    \* the pass under way, which holds the cache lock
          cxLeft,   \* changes left
          cxQuiet   \* complete passes committed since the last change

cxVars == <<cxFile, cxNow, cxCache, cxRun, cxLeft, cxQuiet>>

CXDays == {CXDay[f] : f \in CXFiles}
\* A path is a name in the live tree or in the archive, and the key of an entry.
Paths == CXFiles \X {"live", "archive"}
ListedAt(place) == {f \in CXFiles : cxFile[f].at = place}
InDay(files, d) == {f \in files : CXDay[f] = d}
Identity(f) == [ver |-> cxFile[f].ver, wrote |-> cxFile[f].wrote]

\* settled lists the days in the order of check_seq, stalest first; a record is what
\* the digest of the day was made of.
NoCache == [files |-> <<>>, settled |-> <<>>, records |-> <<>>, why |-> CXNone]
CXIdle == [pc |-> "idle"]

CXTypeOK ==
  /\ \A f \in CXFiles : cxFile[f].at \in {"live", "archive", "gone"} /\ cxFile[f].wrote <= cxNow
  /\ DOMAIN cxCache.files \subseteq Paths
  /\ ToSet(cxCache.settled) = DOMAIN cxCache.records /\ DOMAIN cxCache.records \subseteq CXDays
  /\ cxRun.pc \in {"idle", "live", "archive", "check", "read", "done"}

CXInit ==
  /\ cxFile = [f \in CXFiles |-> [at |-> "live", ver |-> 1, wrote |-> CXDay[f]]]
  /\ cxNow = CXStart /\ cxCache = NoCache /\ cxRun = CXIdle
  /\ cxLeft = CXChanges /\ cxQuiet = 0
-----------------------------------------------------------------------------
\* External: Codex.  An append changes size and mtime, a move keeps both.
Disturb(f, file) ==
  /\ cxLeft > 0 /\ cxLeft' = cxLeft - 1
  /\ cxFile' = [cxFile EXCEPT ![f] = file]
  /\ cxQuiet' = 0
  /\ cxRun' = IF cxRun.pc = "idle" THEN cxRun
              ELSE [cxRun EXCEPT !.moves[f] = IF file.at = cxFile[f].at THEN @ ELSE @ + 1]
  /\ UNCHANGED <<cxNow, cxCache>>

AppendRollout(f) == cxFile[f].at = "live"
  /\ Disturb(f, [at |-> "live", ver |-> cxFile[f].ver + 1, wrote |-> cxNow])
ArchiveRollout(f) == cxFile[f].at = "live" /\ Disturb(f, [cxFile[f] EXCEPT !.at = "archive"])
UnarchiveRollout(f) == cxFile[f].at = "archive" /\ Disturb(f, [cxFile[f] EXCEPT !.at = "live"])
DeleteRollout(f) == cxFile[f].at # "gone" /\ Disturb(f, [cxFile[f] EXCEPT !.at = "gone"])

ClockTurns == cxNow < CXEnd /\ cxNow' = cxNow + 1 /\ UNCHANGED <<cxFile, cxCache, cxRun, cxLeft, cxQuiet>>
-----------------------------------------------------------------------------
\* read_codex_usage takes the lock, without waiting, and loads the cache.
BeginPass ==
  /\ cxRun.pc = "idle"
  /\ cxRun' = [pc |-> "live", live |-> {}, archived |-> {}, todo |-> {}, carried |-> {},
               staged |-> <<>>, learned |-> FALSE, queue |-> <<>>, moves |-> [f \in CXFiles |-> 0],
               from |-> [f \in ListedAt("live") \cup ListedAt("archive") |-> cxFile[f].ver]]
  /\ UNCHANGED <<cxFile, cxNow, cxCache, cxLeft, cxQuiet>>

Steps(pc) == cxRun.pc = pc /\ UNCHANGED <<cxFile, cxNow, cxLeft>>

\* _iter_rollout_days, then _iter_archived_rollouts.
ListLive ==
  /\ Steps("live") /\ cxRun' = [cxRun EXCEPT !.pc = "archive", !.live = ListedAt("live")]
  /\ UNCHANGED <<cxCache, cxQuiet>>
ListArchive ==
  /\ Steps("archive") /\ cxRun' = [cxRun EXCEPT !.pc = "check", !.archived = ListedAt("archive")]
  /\ UNCHANGED <<cxCache, cxQuiet>>

NothingReappears == {}   \* Mutant: the live tree is not listed again
\* A live path the first listing lacks came out of the archive between the two.
Reappeared == ListedAt("live") \ cxRun.live

\* The days whose listing is that of their record, and whose entries are all cached.
Trusted(run) ==
  {d \in DOMAIN cxCache.records :
     LET r == cxCache.records[d]
     IN  InDay(run.live, d) = DOMAIN r /\ DOMAIN r # {}
         /\ \A f \in DOMAIN r : <<f, "live">> \in DOMAIN cxCache.files}

\* The day whose digest this pass checks: the one checked longest ago.
Stalest(days) == SelectSeq(cxCache.settled, LAMBDA d : d \in days)[1]

\* _day_disk_digest: how many files, and their sizes and mtimes summed up.
Digest(vers) == <<Cardinality(DOMAIN vers), FoldFunction(+, 0, vers)>>
StatOf(d) == [f \in InDay(ListedAt("live"), d) |-> cxFile[f].ver]

\* _carry_settled_days: the day checked goes to the back of the queue, or is read
\* file by file when its digest differs.
Carry(run) ==
  LET days == Trusted(run)
      checked == Stalest(days)
      bad == IF days = {} THEN {}
             ELSE IF Digest(StatOf(checked)) = Digest(cxCache.records[checked]) THEN {} ELSE {checked}
      carried == days \ bad
      keys == {<<f, "live">> : f \in {g \in run.live : CXDay[g] \in carried}}
      rest == SelectSeq(cxCache.settled, LAMBDA d : d \in carried /\ d # checked)
  IN  [run EXCEPT !.pc = "read", !.carried = carried,
                  !.staged = [k \in keys |-> cxCache.files[k]],
                  !.queue = IF days = {} \/ bad # {} THEN rest ELSE Append(rest, checked),
                  !.todo = ({f \in run.live : CXDay[f] \notin carried} \X {"live"})
                           \cup (run.archived \X {"archive"})]

CheckListings ==
  /\ Steps("check") /\ Reappeared = {} /\ cxRun' = Carry(cxRun)
  /\ UNCHANGED <<cxCache, cxQuiet>>

\* Newest day first, newest name first within the day, the archive last.
Before(p, q) == \/ p[2] = "live" /\ q[2] = "archive"
                \/ p[2] = q[2] /\ (CXDay[p[1]] > CXDay[q[1]] \/ (CXDay[p[1]] = CXDay[q[1]] /\ p[1] > q[1]))
NextPath == CHOOSE p \in cxRun.todo : \A q \in cxRun.todo \ {p} : Before(p, q)
Found(p) == cxFile[p[1]].at = p[2]

\* A hit by stat identity, or a parse of the file, whole or resumed: the entry is
\* what the file holds between two equal stats.
ReadRollout ==
  LET p == NextPath
      hit == p \in DOMAIN cxCache.files /\ cxCache.files[p] = Identity(p[1])
  IN  /\ Steps("read") /\ cxRun.todo # {} /\ Found(p)
      /\ cxRun' = [cxRun EXCEPT !.todo = @ \ {p}, !.learned = @ \/ ~hit,
                                !.staged = [q \in {p} \cup DOMAIN @ |-> IF q = p THEN Identity(p[1]) ELSE @[q]]]
      /\ UNCHANGED <<cxCache, cxQuiet>>

\* A live path archived since it was listed is read where it went.
SkipMoved ==
  LET p == NextPath
  IN  /\ Steps("read") /\ cxRun.todo # {} /\ ~Found(p)
      /\ p[2] = "live" /\ p[1] \in cxRun.archived
      /\ cxRun' = [cxRun EXCEPT !.todo = @ \ {p}]
      /\ UNCHANGED <<cxCache, cxQuiet>>

\* _carry_reason: a blocker a retry cannot fix outlasts the failures after it.
Reason(prior, now) == IF prior = "unsupported" THEN prior ELSE now

\* A pass that fails keeps what it learned: it merges, and leaves the settled days.
\* Nothing learned and the same blocker: nothing is written.
Merges(why) ==
  cxCache' = IF ~cxRun.learned /\ Reason(cxCache.why, why) = cxCache.why THEN cxCache
             ELSE [cxCache EXCEPT !.files = cxRun.staged @@ @, !.why = Reason(@, why)]

\* The deadline passes, a path is gone or is being written, a record is not understood.
FailPass ==
  /\ cxRun.pc \in {"live", "archive", "check", "read"} /\ UNCHANGED <<cxFile, cxNow, cxLeft>>
  /\ \E why \in {"deadline", "io_error", "unsupported"} :
       /\ (why = "unsupported" => cxRun.pc = "read")
       /\ Merges(why)
  /\ cxRun' = CXIdle
  /\ UNCHANGED cxQuiet

\* _freeze_settled_days: old, idle, read whole, and sharing no turn with another day
\* or with the archive.
Shares(d, run) ==
  LET names == UNION {CXTurns[f] : f \in InDay(run.live, d)}
  IN  \/ "" \in names
      \/ \E p \in DOMAIN run.staged :
           /\ p[2] = "archive" \/ CXDay[p[1]] # d
           /\ CXTurns[p[1]] \cap names # {}

Freezes(d, run) ==
  LET files == InDay(run.live, d)
  IN  /\ d \notin run.carried /\ files # {}
      /\ files \X {"live"} \subseteq DOMAIN run.staged
      /\ cxNow - d >= SettleDays
      /\ \A f \in files : cxNow - run.staged[<<f, "live">>].wrote >= 1
      /\ ~Shares(d, run)

WholePass(run) ==
  LET new == {d \in CXDays : Freezes(d, run)}
      record(d) == [f \in InDay(run.live, d) |-> run.staged[<<f, "live">>].ver]
  IN  [files |-> run.staged,
       settled |-> run.queue \o SetToSortSeq(new, >),
       records |-> [d \in run.carried \cup new |->
                      IF d \in new THEN record(d) ELSE cxCache.records[d]],
       why |-> CXNone]

\* One pass for each settled day, and one that was under way at the last change.
Enough == Cardinality(CXDays) + 1
OneMore(n) == IF n < Enough THEN n + 1 ELSE n

\* Everything was read: publish, and replace the cache.  A pass past its deadline
\* keeps what it learned and publishes nothing; a cache that cannot be written
\* does not stop the publication.
FinishPass ==
  /\ Steps("read") /\ cxRun.todo = {}
  /\ \/ /\ cxCache' = WholePass(cxRun)
        /\ cxQuiet' = OneMore(cxQuiet)
        /\ cxRun' = [cxRun EXCEPT !.pc = "done"]
     \/ /\ cxCache' = [WholePass(cxRun) EXCEPT !.why = "deadline"]
        /\ cxQuiet' = OneMore(cxQuiet) /\ cxRun' = CXIdle
     \/ /\ cxRun' = [cxRun EXCEPT !.pc = "done"] /\ UNCHANGED <<cxCache, cxQuiet>>

EndPass == Steps("done") /\ cxRun' = CXIdle /\ UNCHANGED <<cxCache, cxQuiet>>

\* The process dies with the pass; a cache that cannot be read back is empty.
ScanDies == cxRun.pc # "idle" /\ cxRun' = CXIdle /\ UNCHANGED <<cxFile, cxNow, cxCache, cxLeft, cxQuiet>>
LoseCache == /\ cxRun.pc = "idle" /\ cxCache # NoCache /\ cxCache' = NoCache /\ cxQuiet' = 0
             /\ UNCHANGED <<cxFile, cxNow, cxRun, cxLeft>>

CXNext ==
  \/ \E f \in CXFiles : AppendRollout(f) \/ ArchiveRollout(f) \/ UnarchiveRollout(f) \/ DeleteRollout(f)
  \/ ClockTurns \/ BeginPass \/ ListLive \/ ListArchive \/ CheckListings \/ ReadRollout \/ SkipMoved
  \/ FailPass \/ FinishPass \/ EndPass \/ ScanDies \/ LoseCache

CXSpec == CXInit /\ [][CXNext]_cxVars
-----------------------------------------------------------------------------
\* A published pass counts every rollout that was on disk throughout and moved at
\* most once meanwhile, as of some moment of the pass; only a settled day taken on
\* trust may be older.
NothingMissed ==
  cxRun.pc = "done" =>
    \A f \in DOMAIN cxRun.from :
      cxFile[f].at # "gone" /\ cxRun.moves[f] <= 1 =>
        \E place \in {"live", "archive"} :
          /\ <<f, place>> \in DOMAIN cxRun.staged
          /\ \/ cxRun.staged[<<f, place>>].ver >= cxRun.from[f]
             \/ CXDay[f] \in cxRun.carried

\* What was taken on trust is put right while nothing changes: a complete pass checks
\* another day, so after one for each day the published pass is what is on disk.
TrustExpires ==
  cxRun.pc = "done" /\ cxQuiet = Enough =>
    cxRun.staged = [p \in {q \in Paths : Found(q)} |-> Identity(p[1])]

\* A rollout read both where it was and where it went is one lineage to the sum,
\* so two different entries of it both name a turn.  One that moves three times in a
\* pass, between its readings too, may be read twice whatever it names.
OneLineage ==
  cxRun.pc = "done" =>
    \A f \in CXFiles :
      (/\ cxRun.moves[f] <= 2
       /\ {<<f, "live">>, <<f, "archive">>} \subseteq DOMAIN cxRun.staged
       /\ cxRun.staged[<<f, "live">>] # cxRun.staged[<<f, "archive">>])
        => "" \notin CXTurns[f]

CodexIsExact == NothingMissed /\ TrustExpires /\ OneLineage
=============================================================================
