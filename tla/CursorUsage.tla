---------------------------- MODULE CursorUsage ----------------------------
(***************************************************************************)
(* host_usage.py (Cursor) with the rotatable spool of fsutil.py.  Hooks   *)
(* queue finished generations in a spool file; the reader of a push (one  *)
(* at a time, under the mm lock) renames the spool aside, folds it into    *)
(* the durable history, reads the Conductor stores directory by directory, *)
(* replaces the history and only then unlinks the renamed spool.  A run of *)
(* a store names the generation it stands for (its request), and the two   *)
(* must not both count.  Hooks and the reader can die between any steps.   *)
(***************************************************************************)
EXTENDS Naturals, Sequences, FiniteSets, FiniteSetsExt

CONSTANTS CUGens,      \* generations a hook reports (history keys)
          CURuns,      \* Conductor runs (history keys)
          CURequest,   \* [CURuns -> CUGens], the generation a run stands for
          CUDirs,      \* number of workspace directories, read in order
          CUHooks,     \* hook processes
          CUNone,      \* no entry, no run
          CULastDay,   \* the clock stops here
          CURetention, \* days of history kept
          CUSpoolMax,  \* rows a spool holds (CURSOR_SPOOL_MAX_BYTES)
          CUAttempts,  \* reopens of one append
          CUEvents     \* bound on completions and changes of the stores

Keys == CUGens \cup CURuns

Entry(day, rank) == [day |-> day, rank |-> rank]
Pending == Entry(0, 0)                     \* queued, running, cancelled or error
Entries == [day : 0..CULastDay, rank : 1..2]   \* 1: usageRef placeholder, 2: counters
Rows    == Entries \cup {Pending, CUNone}
NoFile  == [ino |-> 0, rows |-> <<>>]
Torn    == [key |-> CUNone, day |-> 0]

Reasons == {"none", "transient", "malformed", "unsupported", "absent"}
Blockers == {"malformed", "unsupported"}       \* _CURSOR_STORE_BLOCKERS

\* A run has another key than any generation (where a run is its own request, the
\* code has nothing to drop).
ASSUME CUSets ==
  /\ IsFiniteSet(CUHooks) /\ CUGens \cap CURuns = {} /\ CURequest \in [CURuns -> CUGens]
  /\ CUNone \notin Keys \cup Entries \cup 0..CULastDay
  /\ {CUDirs, CULastDay, CURetention, CUSpoolMax, CUAttempts, CUEvents} \subseteq Nat

VARIABLES cuToday, cuSpool, cuMerging, cuHook, cuJson, cuDb, cuDrift, cuRoot, cuEvents,
          cuHist,      \* the durable history file, once cuWritten
          cuWritten,
          cuPass,      \* the reader's pass
          cuAcked,     \* history: the first day a hook reported each generation complete
          cuSettled    \* history: generations a counted Conductor run superseded

cuStores == <<cuJson, cuDb, cuDrift, cuRoot>>
cuVars == <<cuEvents, cuToday, cuSpool, cuMerging, cuHook, cuStores, cuHist, cuWritten, cuPass, cuAcked,
            cuSettled>>

Empty == [k \in Keys |-> CUNone]
NoRequests == [g \in CUGens |-> CUNone]
NoPass == [pc |-> "idle", runs |-> Empty, requests |-> NoRequests, retained |-> {}, once |-> FALSE,
           learned |-> Empty, named |-> {}, removed |-> {}, sqlite |-> {}, seen |-> Empty,
           dir |-> 1, taken |-> FALSE, skipped |-> {}, reason |-> "none"]
HookIdle == [pc |-> "idle", key |-> CUNone, ino |-> 0, tries |-> 0]

CUInit ==
  /\ cuToday = 0
  /\ cuSpool = NoFile /\ cuMerging = NoFile
  /\ cuHook = [h \in CUHooks |-> HookIdle]
  /\ cuJson = [d \in 1..CUDirs |-> [c \in CURuns |-> CUNone]]
  /\ cuDb = [d \in 1..CUDirs |-> [c \in CURuns |-> CUNone]]
  /\ cuDrift = {} /\ cuRoot = TRUE /\ cuEvents = 0
  /\ cuHist = [runs |-> Empty, requests |-> NoRequests, retained |-> {}, once |-> FALSE,
               reason |-> "none"]
  /\ cuWritten = FALSE
  /\ cuPass = NoPass
  /\ cuAcked = [g \in CUGens |-> CUNone] /\ cuSettled = {}

CUTypeOK ==
  /\ cuToday \in 0..CULastDay
  /\ \A f \in {cuSpool, cuMerging} : Len(f.rows) <= CUSpoolMax /\ f.ino \in Nat
  /\ \A d \in 1..CUDirs, c \in CURuns : cuJson[d][c] \in Rows /\ cuDb[d][c] \in Rows
  /\ cuHist.runs \in [Keys -> Entries \cup {CUNone}]
  /\ cuHist.requests \in [CUGens -> CURuns \cup {CUNone}]
  /\ cuWritten \in BOOLEAN /\ cuHist.reason \in Reasons /\ cuHist.retained \subseteq CURuns
  /\ cuPass.runs \in [Keys -> Entries \cup {CUNone}] /\ cuPass.reason \in Reasons
  /\ cuAcked \in [CUGens -> 0..CULastDay \cup {CUNone}] /\ cuSettled \subseteq CUGens

Counted(runs, k) == runs[k] # CUNone /\ runs[k].rank = 2
Expired(day) == day + CURetention < cuToday

-----------------------------------------------------------------------------
\* The hook: record_cursor_usage and append_rotatable_jsonl.

FreshInode == CHOOSE i \in 1..(Cardinality(CUHooks) + 3) :
                i \notin {cuSpool.ino, cuMerging.ino} \cup {cuHook[h].ino : h \in CUHooks}

OpenSpool(h, hook) ==
  LET ino == IF cuSpool.ino = 0 THEN FreshInode ELSE cuSpool.ino
  IN  /\ cuSpool' = IF cuSpool.ino = 0 THEN [ino |-> ino, rows |-> <<>>] ELSE cuSpool
      /\ cuHook' = [cuHook EXCEPT ![h] = [hook EXCEPT !.ino = ino, !.pc = "opened"]]

HookStart(h, g) ==
  /\ cuHook[h].pc = "idle"
  /\ cuEvents < CUEvents /\ cuEvents' = cuEvents + 1
  /\ OpenSpool(h, [HookIdle EXCEPT !.key = g])
  /\ UNCHANGED <<cuToday, cuMerging, cuStores, cuHist, cuWritten, cuPass, cuAcked, cuSettled>>

Holder(ino) == {h \in CUHooks : cuHook[h].pc = "locked" /\ cuHook[h].ino = ino}

\* Mutants: the path is not looked at again; a spool may hold one row too many.
SpoolNeverMoves(h) == FALSE
SpoolOverfull == Len(cuSpool.rows) > CUSpoolMax
SpoolFull == Len(cuSpool.rows) >= CUSpoolMax

\* After the blocking flock the path must still name the locked inode; a spool
\* rotated away in between is reopened, a full one refused.
SpoolMoved(h) == cuSpool.ino # cuHook[h].ino

HookLock(h) ==
  /\ cuHook[h].pc = "opened" /\ Holder(cuHook[h].ino) = {}
  /\ IF SpoolMoved(h)
       THEN IF cuHook[h].tries < CUAttempts
              THEN OpenSpool(h, [cuHook[h] EXCEPT !.tries = @ + 1])
              ELSE cuHook' = [cuHook EXCEPT ![h] = HookIdle] /\ UNCHANGED cuSpool
       ELSE /\ cuHook' = [cuHook EXCEPT ![h] =
                 IF SpoolFull THEN HookIdle
                 ELSE [cuHook[h] EXCEPT !.pc = "locked"]]
            /\ UNCHANGED cuSpool
  /\ UNCHANGED <<cuEvents, cuToday, cuMerging, cuStores, cuHist, cuWritten, cuPass, cuAcked, cuSettled>>

\* The row is appended and flushed before the hook reports success.  A death
\* during the write leaves a torn row, which the next append isolates.
AppendTo(ino, row) ==
  /\ cuSpool' = IF cuSpool.ino = ino THEN [cuSpool EXCEPT !.rows = Append(@, row)] ELSE cuSpool
  /\ cuMerging' = IF cuMerging.ino = ino THEN [cuMerging EXCEPT !.rows = Append(@, row)]
                  ELSE cuMerging

HookWrite(h) ==
  /\ cuHook[h].pc = "locked"
  /\ \/ /\ AppendTo(cuHook[h].ino, [key |-> cuHook[h].key, day |-> cuToday])
        /\ cuAcked' = [cuAcked EXCEPT ![cuHook[h].key] = IF @ = CUNone THEN cuToday ELSE @]
        /\ cuSettled' = cuSettled \ {cuHook[h].key}
     \/ AppendTo(cuHook[h].ino, Torn) /\ UNCHANGED <<cuAcked, cuSettled>>
  /\ cuHook' = [cuHook EXCEPT ![h] = HookIdle]
  /\ UNCHANGED <<cuEvents, cuToday, cuStores, cuHist, cuWritten, cuPass>>

HookDies(h) ==
  /\ cuHook[h].pc # "idle"
  /\ cuHook' = [cuHook EXCEPT ![h] = HookIdle]
  /\ UNCHANGED <<cuEvents, cuToday, cuSpool, cuMerging, cuStores, cuHist, cuWritten, cuPass, cuAcked, cuSettled>>

-----------------------------------------------------------------------------
\* Conductor: rewrites runs in place, adds stores, drops them, changes layout.
\* Only what happens before a directory is read is seen by a pass.

Observable == cuPass.pc = "idle" \/ (cuPass.pc = "scan" /\ cuPass.dir <= CUDirs)

StoreEdit ==
  /\ Observable
  /\ cuEvents < CUEvents /\ cuEvents' = cuEvents + 1
  /\ \/ \E d \in 1..CUDirs, c \in CURuns,
           row \in {Pending, CUNone, Entry(cuToday, 1), Entry(cuToday, 2)} :
          \/ cuJson' = [cuJson EXCEPT ![d][c] = row] /\ UNCHANGED <<cuDb, cuDrift>>
          \/ cuDb' = [cuDb EXCEPT ![d][c] = row] /\ UNCHANGED <<cuJson, cuDrift>>
     \/ \E d \in 1..CUDirs : /\ cuDrift' = (cuDrift \cup {d}) \ (cuDrift \cap {d})
                             /\ UNCHANGED <<cuJson, cuDb>>
  /\ UNCHANGED <<cuToday, cuSpool, cuMerging, cuHook, cuRoot, cuHist, cuWritten, cuPass, cuAcked, cuSettled>>

StoreGone ==
  /\ cuPass.pc = "idle" /\ cuRoot /\ cuEvents < CUEvents /\ cuEvents' = cuEvents + 1 /\ cuRoot' = FALSE
  /\ UNCHANGED <<cuToday, cuSpool, cuMerging, cuHook, cuJson, cuDb, cuDrift, cuHist, cuWritten, cuPass,
                 cuAcked, cuSettled>>

\* A pass works with the date it started on.
NextDay ==
  /\ cuPass.pc = "idle" /\ cuToday < CULastDay /\ cuToday' = cuToday + 1
  /\ UNCHANGED <<cuEvents, cuSpool, cuMerging, cuHook, cuStores, cuHist, cuWritten, cuPass, cuAcked, cuSettled>>

-----------------------------------------------------------------------------
\* The reader: read_cursor_usage.

\* Under the history lock: expired runs go, and a spool nobody holds is renamed
\* aside unless a leftover of a dead pass still has to be folded.
Prune(runs) == [k \in Keys |-> IF runs[k] # CUNone /\ ~Expired(runs[k].day) THEN runs[k] ELSE CUNone]

TakeSpool ==
  /\ cuPass.pc = "idle"
  /\ cuPass' = [NoPass EXCEPT !.pc = "fold", !.runs = Prune(cuHist.runs),
                  !.requests = cuHist.requests, !.once = cuHist.once,
                  !.retained = {c \in cuHist.retained : cuHist.runs[c] # CUNone}]
  /\ IF cuMerging.ino = 0 /\ cuSpool.ino # 0 /\ Holder(cuSpool.ino) = {}
       THEN cuMerging' = cuSpool /\ cuSpool' = NoFile
       ELSE UNCHANGED <<cuMerging, cuSpool>>
  /\ UNCHANGED <<cuEvents, cuToday, cuHook, cuStores, cuHist, cuWritten, cuAcked, cuSettled>>

\* A Conductor run with counters already stands for a generation; of the others the
\* rows in time count, a replay on the generation's first day.
Superseded(p, g) == p.requests[g] # CUNone /\ Counted(p.runs, p.requests[g])
InTime(rows, g) == {i \in 1..Len(rows) : rows[i].key = g /\ ~Expired(rows[i].day)}
FoldRows(p, rows, g) ==
  IF Superseded(p, g) \/ InTime(rows, g) = {} THEN p.runs[g]
  ELSE Entry(IF p.runs[g] # CUNone THEN p.runs[g].day ELSE rows[Min(InTime(rows, g))].day, 2)
Completed(rows, g) == \E i \in 1..Len(rows) : rows[i].key = g

Fold(p, rows) ==
  [p EXCEPT !.skipped = @ \cup {g \in CUGens : Superseded(p, g) /\ Completed(rows, g)},
            !.runs = [k \in Keys |-> IF k \in CUGens THEN FoldRows(p, rows, k) ELSE p.runs[k]]]

\* A batch with no valid row is retired at once; a spool that cannot be read (a
\* row of a newer mm, an I/O error) stops the pass and keeps its batch.
FoldSpool ==
  /\ cuPass.pc = "fold"
  /\ LET valid == \E g \in CUGens : Completed(cuMerging.rows, g)
     IN  \/ /\ cuPass' = [Fold(cuPass, cuMerging.rows) EXCEPT
                 !.taken = valid, !.pc = "scan",
                 !.once = cuPass.once \/ (valid /\ cuHist.reason \notin Blockers)]
            /\ cuMerging' = IF valid THEN cuMerging ELSE NoFile
         \/ /\ cuMerging.ino # 0
            /\ \E r \in {"transient", "unsupported"} :
                 cuPass' = [cuPass EXCEPT !.reason = r, !.pc = "learn"]
            /\ UNCHANGED cuMerging
  /\ UNCHANGED <<cuEvents, cuToday, cuSpool, cuHook, cuStores, cuHist, cuWritten, cuAcked, cuSettled>>

\* Without a store, history that was once complete stands; otherwise nothing is
\* published, and a blocker of an unreadable store outlives the store.
RootGone ==
  /\ cuPass.pc = "scan" /\ cuPass.dir = 1 /\ ~cuRoot
  /\ LET r == IF cuHist.reason \in Blockers \/ (cuHist.reason # "none" /\ ~cuPass.once)
                THEN cuHist.reason
              ELSE IF cuPass.once THEN "none"
              ELSE IF cuPass.runs = Empty /\ ~cuWritten THEN "absent" ELSE "transient"
     IN  cuPass' = [cuPass EXCEPT !.reason = r, !.pc = IF r = "none" THEN "write" ELSE "learn"]
  /\ UNCHANGED <<cuEvents, cuToday, cuSpool, cuMerging, cuHook, cuStores, cuHist, cuWritten, cuAcked, cuSettled>>

\* One directory, both formats: counted beats placeholder beats neither, SQLite
\* wins a tie; only runs whose winning copy is JSONL may retract history.
Rank(row) == IF row = CUNone THEN 0 ELSE row.rank
FromDb(d, c) ==
  /\ d \notin cuDrift /\ cuDb[d][c] # CUNone
  /\ cuJson[d][c] = CUNone \/ Rank(cuDb[d][c]) >= Rank(cuJson[d][c])
Staged(d) == [c \in CURuns |-> IF FromDb(d, c) THEN cuDb[d][c] ELSE cuJson[d][c]]
RetractedBy(d) == {c \in CURuns : Staged(d)[c] # CUNone /\ ~FromDb(d, c)}
SqliteOf(d) == {c \in CURuns : FromDb(d, c)}

\* A JSONL row always names its request, a SQLite row only when it contributes.
Named(d) == {c \in CURuns : \/ cuJson[d][c] # CUNone
                            \/ d \notin cuDrift /\ Rank(cuDb[d][c]) > 0}

Clash(p, d) == \E c \in CURuns : /\ Staged(d)[c] # CUNone /\ p.seen[c] # CUNone
                                 /\ p.seen[c] # Staged(d)[c]

\* One request may name one run, in a scan and while the earlier run is kept.
AliasClash(p, named) ==
  \E c \in named : LET g == CURequest[c]
                   IN  \/ \E e \in p.named \cup named : e # c /\ CURequest[e] = g
                       \/ /\ p.requests[g] \notin {CUNone, c}
                          /\ p.runs[p.requests[g]] # CUNone

ReadDirectory ==
  /\ cuPass.pc = "scan" /\ cuPass.dir <= CUDirs /\ (cuPass.dir > 1 \/ cuRoot)
  /\ LET d == cuPass.dir
         staged == {c \in CURuns : Staged(d)[c] # CUNone}
     IN  cuPass' = IF Clash(cuPass, d) \/ AliasClash(cuPass, Named(d))
                     THEN [cuPass EXCEPT !.reason = "malformed", !.pc = "write"]
                     ELSE [cuPass EXCEPT
           !.dir = d + 1,
           !.seen = [k \in Keys |-> IF k \in staged THEN Staged(d)[k] ELSE @[k]],
           !.sqlite = @ \cup SqliteOf(d),
           !.named = @ \cup Named(d),
           !.removed = @ \cup RetractedBy(d),
           !.learned = [k \in Keys |->
              IF k \notin staged THEN @[k]
              ELSE IF Rank(Staged(d)[k]) = 0 \/ Expired(Staged(d)[k].day) THEN CUNone
              ELSE Staged(d)[k]]]
  /\ UNCHANGED <<cuEvents, cuToday, cuSpool, cuMerging, cuHook, cuStores, cuHist, cuWritten, cuAcked, cuSettled>>

\* A directory that is torn, changing, malformed or unsupported, or the deadline,
\* ends the scan; what earlier directories showed is still learned, unless it was
\* an I/O error that ended it.
StopScan ==
  /\ cuPass.pc = "scan" /\ cuPass.dir <= CUDirs
  /\ \/ \E r \in {"transient", "malformed", "unsupported"} :
          cuPass' = [cuPass EXCEPT !.reason = r, !.pc = "learn"]
     \/ cuPass' = [cuPass EXCEPT !.reason = "transient", !.pc = "write"]
  /\ UNCHANGED <<cuEvents, cuToday, cuSpool, cuMerging, cuHook, cuStores, cuHist, cuWritten, cuAcked, cuSettled>>

\* A placeholder meets counters SQLite vouched for; a generation gives way to its run.
CountersStand(p, retained, base, k) ==
  k \in retained /\ p.learned[k].rank = 1 /\ Counted(base, k)
GivesWay(runs, requests, k) ==
  k \in CUGens /\ requests[k] # CUNone /\ Counted(runs, requests[k])

\* _commit_learned: retract what JSONL withdrew unless SQLite ever vouched for it;
\* a placeholder never undoes counters SQLite vouched for; a generation gives way
\* to its run once that has counters, and an alias of a run not kept is dropped.
Learned(p) ==
  LET retained == p.retained \cup p.sqlite
      base == [k \in Keys |-> IF k \in p.removed \ retained THEN CUNone ELSE p.runs[k]]
      runs == [k \in Keys |->
                 IF p.learned[k] = CUNone \/ CountersStand(p, retained, base, k)
                 THEN base[k] ELSE p.learned[k]]
      named == [g \in CUGens |-> IF \E c \in p.named : CURequest[c] = g
                                   THEN CHOOSE c \in p.named : CURequest[c] = g
                                   ELSE p.requests[g]]
      requests == [g \in CUGens |-> IF named[g] # CUNone /\ runs[named[g]] # CUNone
                                      THEN named[g] ELSE CUNone]
  IN  [p EXCEPT !.retained = retained, !.requests = requests,
                !.runs = [k \in Keys |->
                   IF GivesWay(runs, requests, k) THEN CUNone ELSE runs[k]]]

\* An unresolved run alone on its day cannot be published as an empty day.
UnresolvedDay(runs) ==
  \E k \in Keys : /\ runs[k] # CUNone /\ runs[k].rank = 1
                  /\ ~\E j \in Keys : Counted(runs, j) /\ runs[j].day = runs[k].day

Outcome(p) == IF p.reason = "none" /\ UnresolvedDay(p.runs) THEN "transient" ELSE p.reason

\* _carry_reason: a permanent blocker outlives later transient failures.
Carried(outcome) ==
  IF outcome \in {"none", "absent"} THEN (IF outcome = "none" THEN "none" ELSE cuHist.reason)
  ELSE IF cuHist.reason = "unsupported" THEN "unsupported" ELSE outcome

\* The history is replaced durably, unless a clash between directories left only
\* what was folded; a complete read that ran over its budget is kept but not
\* published, and stands as a deadline.  Nothing at all is not written.
WriteHistory ==
  /\ \/ cuPass.pc \in {"learn", "write"}
     \/ cuPass.pc = "scan" /\ cuPass.dir = CUDirs + 1
  /\ LET p == IF cuPass.pc = "write" THEN cuPass ELSE Learned(cuPass)
         outcome == Outcome(p)
         replaced == p.skipped \cup {g \in CUGens : p.requests[g] # CUNone
                                                     /\ Counted(p.runs, p.requests[g])}
     IN  IF outcome = "absent" THEN cuPass' = NoPass /\ UNCHANGED <<cuHist, cuSettled, cuWritten>>
         ELSE /\ \E late \in BOOLEAN :
                   cuHist' = [runs |-> p.runs, requests |-> p.requests,
                              retained |-> {c \in p.retained : p.runs[c] # CUNone},
                              once |-> p.once \/ outcome = "none",
                              reason |-> IF late /\ outcome = "none" THEN "transient"
                                         ELSE Carried(outcome)]
              /\ cuWritten' = TRUE
              /\ cuSettled' = cuSettled \cup replaced
              /\ cuPass' = IF p.taken THEN [NoPass EXCEPT !.pc = "unlink"] ELSE NoPass
  /\ UNCHANGED <<cuEvents, cuToday, cuSpool, cuMerging, cuHook, cuStores, cuAcked>>

UnlinkMerged ==
  /\ cuPass.pc = "unlink"
  /\ cuMerging' = NoFile /\ cuPass' = NoPass
  /\ UNCHANGED <<cuEvents, cuToday, cuSpool, cuHook, cuStores, cuHist, cuWritten, cuAcked, cuSettled>>

\* The run dies, the history cannot be replaced, or the unlink fails.
PassDies ==
  /\ cuPass.pc # "idle"
  /\ cuPass' = NoPass
  /\ UNCHANGED <<cuEvents, cuToday, cuSpool, cuMerging, cuHook, cuStores, cuHist, cuWritten, cuAcked, cuSettled>>

PassStep == TakeSpool \/ FoldSpool \/ RootGone \/ ReadDirectory \/ WriteHistory \/ UnlinkMerged

CUNext ==
  \/ \E h \in CUHooks : \/ \E g \in CUGens : HookStart(h, g)
                        \/ HookLock(h) \/ HookWrite(h) \/ HookDies(h)
  \/ StoreEdit \/ StoreGone \/ NextDay
  \/ PassStep \/ StopScan \/ PassDies

CUSpec == CUInit /\ [][CUNext]_cuVars
-----------------------------------------------------------------------------
RowsOf(file) == {file.rows[i] : i \in 1..Len(file.rows)}

\* A completion whose hook reported success is still queued or in the history,
\* unless a Conductor run with counters took its place, until the first day it was
\* reported on goes out of retention: rotations, deaths, full spools and failed
\* passes lose none.  (record_cursor_usage "durably queue"; the reader unlinks after
\* the write; a replay keeps the first day.)
InRetention(g) == cuAcked[g] # CUNone /\ ~Expired(cuAcked[g])
AckedNeverLost ==
  \A g \in CUGens : InRetention(g) =>
    \/ \E r \in RowsOf(cuSpool) \cup RowsOf(cuMerging) : r.key = g
    \/ cuHist.runs[g] # CUNone
    \/ g \in cuSettled

\* The history never counts a generation and the Conductor run that stands for
\* it at the same time, in whichever order and through whichever failed passes
\* the two arrived.  (_fold_cursor_spool and _commit_learned.)
CountedOnce ==
  \A c \in CURuns : Counted(cuHist.runs, c) /\ cuHist.requests[CURequest[c]] = c
                      => cuHist.runs[CURequest[c]] = CUNone

\* Counters a SQLite store ever vouched for leave the history only by age: no
\* later placeholder, unfinished row, vanished or drifted store takes them back.
SqliteNeverRetracts ==
  [][\A c \in cuHist.retained :
       Counted(cuHist.runs, c) /\ ~Expired(cuHist.runs[c].day) =>
         Counted(cuHist'.runs, c)]_cuVars

\* The history keeps what was acknowledged or vouched for and counts it once.
HistoryKept == [](AckedNeverLost /\ CountedOnce) /\ SqliteNeverRetracts
=============================================================================
