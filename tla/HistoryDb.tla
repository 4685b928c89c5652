------------------------------ MODULE HistoryDb ------------------------------
(***************************************************************************)
(* The history of pulls, pushes and upgrades: rows that commands buffer    *)
(* and flush to state.db, each flush one SQLite transaction that first     *)
(* imports the JSONL files an older mm kept, and then keeps the newest     *)
(* rows of each class.  An older mm may still append to those files and    *)
(* rotate them, a newer one may raise the schema, a process may die in a   *)
(* transaction, and mm log reads at any moment.                            *)
(***************************************************************************)
EXTENDS Integers, Sequences, FiniteSets, SequencesExt

CONSTANTS HDWriters,   \* commands that record rows, each of one class
          HDRows,      \* bound: rows of each of them
          HDBatch,     \* BATCH_SIZE
          HDLimit,     \* HISTORY_CLASS_LIMIT
          HDOld,       \* bound: what the older mm does
          HDFaults     \* bound: failures

ASSUME HDAssumption ==
  /\ HDBatch \in Nat \ {0} /\ HDLimit \in Nat
  /\ HDWriters # {} /\ "nobody" \notin HDWriters /\ "older-mm" \notin HDWriters

VARIABLES hdDb,       \* state.db as last committed; rows in the order of their ids
          hdHot,      \* its journal is hot: a writer died in a transaction
          hdLock,     \* who holds the write lock
          hdFiles,    \* pull-history.jsonl.1 and pull-history.jsonl
          hdWriter,   \* each command
          hdReader,   \* mm log
          hdLog,      \* every row committed since state.db was made
          hdOld, hdFaults

hdVars == <<hdDb, hdHot, hdLock, hdFiles, hdWriter, hdReader, hdLog, hdOld, hdFaults>>

SCHEMA_VERSION == 1
File(there, rows) == [there |-> there, rows |-> rows]
NoFile == File(FALSE, <<>>)
NoOneWrites == "nobody"
OldMm == "older-mm"
Row(by, n, class) == [by |-> by, n |-> n, class |-> class]

NoDb == [there |-> FALSE, version |-> 0, compat |-> 0, rows |-> <<>>,
         imported |-> FALSE, pending |-> FALSE, stat |-> <<>>]
NoBatch == [stat |-> <<>>, legacy |-> <<>>, refused |-> FALSE]
Resting == [pc |-> "idle", done |-> 0, first |-> 0, buffer |-> <<>>, failed |-> FALSE,
            ending |-> FALSE, import |-> NoBatch]
NotReading == [pc |-> "idle", rows |-> <<>>, pending |-> FALSE, stat |-> <<>>,
               hides |-> FALSE, legacy |-> <<>>, diverged |-> FALSE]

HDInit ==
  /\ hdDb = NoDb /\ hdHot = FALSE /\ hdLock = NoOneWrites
  /\ hdFiles = [one |-> NoFile, live |-> File(TRUE, <<Row(OldMm, 0, CHOOSE w \in HDWriters : TRUE)>>)]
  /\ hdWriter = [w \in HDWriters |-> Resting] /\ hdReader = NotReading
  /\ hdLog = <<>> /\ hdOld = 0 /\ hdFaults = 0

At(w, pc) == hdWriter[w].pc = pc
Does(w, me) == hdWriter' = [hdWriter EXCEPT ![w] = me]
Breaks == hdFaults < HDFaults /\ hdFaults' = hdFaults + 1
TooNew == hdDb.compat > SCHEMA_VERSION
AfterFlush(w) == IF hdWriter[w].ending THEN "idle" ELSE "work"
\* A failed flush drops its rows, and the command records no more.
Drops(w) == Does(w, [hdWriter[w] EXCEPT !.pc = AfterFlush(w), !.buffer = <<>>, !.failed = TRUE,
                                        !.import = NoBatch])
Goes(w, pc) == Does(w, [hdWriter[w] EXCEPT !.pc = pc])
-----------------------------------------------------------------------------
\* command_scope and recover_if_needed: a hot journal is rolled back.
StartCommand(w) ==
  /\ At(w, "idle") /\ hdWriter[w].done < HDRows[w] /\ hdLock = NoOneWrites
  /\ Does(w, [hdWriter[w] EXCEPT !.pc = "work", !.first = hdWriter[w].done,
                                  !.failed = hdHot /\ TooNew, !.ending = FALSE])
  /\ hdHot' = FALSE
  /\ UNCHANGED <<hdDb, hdLock, hdFiles, hdReader, hdLog, hdOld, hdFaults>>

\* append: a full batch is flushed.
Record(w) ==
  /\ At(w, "work") /\ hdWriter[w].done < HDRows[w]
  /\ LET me == hdWriter[w]
         buffer == IF me.failed THEN <<>> ELSE Append(me.buffer, Row(w, me.done + 1, w))
     IN  Does(w, [me EXCEPT !.done = @ + 1, !.buffer = buffer,
                            !.pc = IF Len(buffer) >= HDBatch THEN "open" ELSE "work"])
  /\ UNCHANGED <<hdDb, hdHot, hdLock, hdFiles, hdReader, hdLog, hdOld, hdFaults>>

\* The end of batch, also by an interrupt: what was attempted is flushed.
EndCommand(w) ==
  /\ At(w, "work")
  /\ Does(w, [hdWriter[w] EXCEPT !.pc = IF hdWriter[w].buffer = <<>> THEN "idle" ELSE "open",
                                  !.ending = TRUE])
  /\ UNCHANGED <<hdDb, hdHot, hdLock, hdFiles, hdReader, hdLog, hdOld, hdFaults>>

\* connect: the file is made, its compatibility looked at; what it finds of a dead
\* transaction SQLite rolls back.
Open(w) ==
  /\ At(w, "open") /\ (hdHot => hdLock = NoOneWrites)
  /\ hdDb' = [hdDb EXCEPT !.there = TRUE] /\ hdHot' = FALSE
  /\ IF TooNew THEN Drops(w) ELSE Goes(w, "migrate")
  /\ UNCHANGED <<hdLock, hdFiles, hdReader, hdLog, hdOld, hdFaults>>

\* The migrations, in a transaction that looks at compat_version again.
Migrate(w) ==
  /\ At(w, "migrate") /\ hdLock = NoOneWrites
  /\ IF TooNew THEN Drops(w) /\ UNCHANGED hdDb
     ELSE /\ Goes(w, "begin")
          /\ hdDb' = IF hdDb.version = 0 THEN [hdDb EXCEPT !.version = 1, !.compat = 1] ELSE hdDb
  /\ hdHot' = FALSE
  /\ UNCHANGED <<hdLock, hdFiles, hdReader, hdLog, hdOld, hdFaults>>

\* BEGIN IMMEDIATE of the flush, and import_if_needed up to its decision.
BeginFlush(w) ==
  /\ At(w, "begin") /\ hdLock = NoOneWrites
  /\ IF TooNew THEN Drops(w) /\ UNCHANGED hdLock
     ELSE /\ hdLock' = w
          /\ Goes(w, IF hdDb.imported /\ ~hdDb.pending THEN "commit" ELSE "stat")
  /\ hdHot' = FALSE
  /\ UNCHANGED <<hdDb, hdFiles, hdReader, hdLog, hdOld, hdFaults>>

Imports(w, pc, import) == Does(w, [hdWriter[w] EXCEPT !.pc = pc, !.import = import])
Reads == UNCHANGED <<hdDb, hdHot, hdLock, hdFiles, hdReader, hdLog, hdOld>>

\* The files are measured, then read, the rotated one first.
StatLegacy(w) ==
  /\ At(w, "stat") /\ Imports(w, "read-one", [hdWriter[w].import EXCEPT !.stat = hdFiles])
  /\ UNCHANGED hdFaults /\ Reads
ReadRotated(w) ==
  /\ At(w, "read-one")
  /\ Imports(w, "read-live", [hdWriter[w].import EXCEPT !.legacy = hdFiles.one.rows])
  /\ UNCHANGED hdFaults /\ Reads
ReadLive(w) ==
  /\ At(w, "read-live")
  /\ Imports(w, "commit", [hdWriter[w].import EXCEPT !.legacy = @ \o hdFiles.live.rows])
  /\ UNCHANGED hdFaults /\ Reads
CannotRead(w) ==
  /\ hdWriter[w].pc \in {"stat", "read-one", "read-live"} /\ Breaks
  /\ Imports(w, "commit", [hdWriter[w].import EXCEPT !.refused = TRUE, !.legacy = <<>>]) /\ Reads

\* Of each class the newest are kept.
NewerRows(rows, i) == {j \in DOMAIN rows : j > i /\ rows[j].class = rows[i].class}
KeptAt(rows) == {i \in DOMAIN rows : Cardinality(NewerRows(rows, i)) < HDLimit}
Place(places, k) == CHOOSE i \in places : Cardinality({j \in places : j <= i}) = k
Prune(rows) == [k \in 1 .. Cardinality(KeptAt(rows)) |-> rows[Place(KeptAt(rows), k)]]

\* Imported rows get the ids below every other, the command's those above.
CommitFlush(w) ==
  /\ At(w, "commit")
  /\ LET me == hdWriter[w]
         due == ~hdDb.imported \/ hdDb.pending
         db == IF ~due THEN hdDb
               ELSE IF me.import.refused THEN [hdDb EXCEPT !.imported = TRUE, !.pending = TRUE]
               ELSE [hdDb EXCEPT !.imported = TRUE, !.pending = FALSE, !.stat = me.import.stat,
                                 !.rows = me.import.legacy \o @]
     IN  hdDb' = [db EXCEPT !.rows = Prune(@ \o me.buffer)]
  /\ hdLog' = hdLog \o hdWriter[w].buffer /\ hdLock' = NoOneWrites
  /\ Does(w, [hdWriter[w] EXCEPT !.pc = AfterFlush(w), !.buffer = <<>>, !.import = NoBatch])
  /\ UNCHANGED <<hdHot, hdFiles, hdReader, hdOld, hdFaults>>

\* A transaction is rolled back, or the lock is not had in time.
FlushFails(w) ==
  /\ hdWriter[w].pc \in {"migrate", "begin", "stat", "read-one", "read-live", "commit"}
  /\ IF hdLock \in {NoOneWrites, w} THEN Breaks ELSE UNCHANGED hdFaults
  /\ Drops(w) /\ hdLock' = IF hdLock = w THEN NoOneWrites ELSE hdLock
  /\ UNCHANGED <<hdDb, hdHot, hdFiles, hdReader, hdLog, hdOld>>

\* The process dies; in a transaction it can leave a hot journal.
Killed(w) ==
  /\ ~At(w, "idle") /\ Breaks
  /\ Does(w, [hdWriter[w] EXCEPT !.pc = "idle", !.first = hdWriter[w].done, !.buffer = <<>>, !.import = NoBatch])
  /\ IF hdLock = w THEN hdLock' = NoOneWrites /\ hdHot' \in BOOLEAN ELSE UNCHANGED <<hdLock, hdHot>>
  /\ UNCHANGED <<hdDb, hdFiles, hdReader, hdLog, hdOld>>
-----------------------------------------------------------------------------
\* _read_table: rows and marks of one snapshot, else the legacy files.
ReadSnapshot ==
  /\ hdReader.pc = "idle" /\ ~(hdHot \/ TooNew)
  /\ hdReader' = IF ~hdDb.there \/ hdDb.version = 0 \/ ~hdDb.imported
                 THEN [NotReading EXCEPT !.pc = "legacy", !.hides = hdLog # <<>>]
                 ELSE [NotReading EXCEPT !.pc = "notices", !.rows = hdDb.rows,
                                         !.pending = hdDb.pending, !.stat = hdDb.stat]
  /\ UNCHANGED <<hdDb, hdHot, hdLock, hdFiles, hdWriter, hdLog, hdOld, hdFaults>>

\* Mutant: only the live file is compared with what was imported.
LiveFileOnly(now, then) == {now.live} \ {NoFile, then.live} # {}
\* A legacy file that is not as it was when it was imported.
Diverged(now, then) == \E f \in {"one", "live"} : now[f] # NoFile /\ now[f] # then[f]

\* The connection is closed; the notices compare the files as they are now.
ReadNotices ==
  /\ hdReader.pc = "notices"
  /\ hdReader' = [hdReader EXCEPT !.pc = "shown",
                    !.legacy = hdFiles.one.rows \o hdFiles.live.rows,
                    !.diverged = ~hdReader.pending /\ Diverged(hdFiles, hdReader.stat)]
  /\ UNCHANGED <<hdDb, hdHot, hdLock, hdFiles, hdWriter, hdLog, hdOld, hdFaults>>
EndRead ==
  /\ hdReader.pc \in {"shown", "legacy"} /\ hdReader' = NotReading
  /\ UNCHANGED <<hdDb, hdHot, hdLock, hdFiles, hdWriter, hdLog, hdOld, hdFaults>>
-----------------------------------------------------------------------------
\* Other programs.
Meanwhile == hdOld < HDOld /\ hdOld' = hdOld + 1 /\ UNCHANGED <<hdHot, hdLock, hdReader, hdFaults>>
OldMmAppends(class) ==
  /\ Meanwhile /\ hdFiles' = [hdFiles EXCEPT !.live = File(TRUE, Append(@.rows, Row(OldMm, hdOld + 1, class)))]
  /\ UNCHANGED <<hdDb, hdWriter, hdLog>>
OldMmRotates ==
  /\ Meanwhile /\ hdFiles.live # NoFile /\ hdFiles' = [one |-> hdFiles.live, live |-> NoFile]
  /\ UNCHANGED <<hdDb, hdWriter, hdLog>>
MoveFilesAside ==
  /\ Meanwhile /\ hdDb.imported /\ hdFiles' = [one |-> NoFile, live |-> NoFile]
  /\ UNCHANGED <<hdDb, hdWriter, hdLog>>
NewerMmMigrates ==
  /\ Meanwhile /\ hdLock = NoOneWrites /\ ~hdHot /\ hdDb.version = 1
  /\ hdDb' = [hdDb EXCEPT !.version = 2, !.compat = 2] /\ UNCHANGED <<hdFiles, hdWriter, hdLog>>
\* A damaged state.db and its journal are moved aside with no mm running.
MoveDbAside ==
  /\ hdDb.there /\ hdReader.pc = "idle" /\ \A w \in HDWriters : At(w, "idle")
  /\ Breaks /\ hdDb' = NoDb /\ hdHot' = FALSE /\ hdLog' = <<>>
  /\ hdWriter' = [w \in HDWriters |-> [hdWriter[w] EXCEPT !.first = hdWriter[w].done]]
  /\ UNCHANGED <<hdLock, hdFiles, hdReader, hdOld>>

HDNext ==
  \/ \E w \in HDWriters :
       \/ StartCommand(w) \/ Record(w) \/ EndCommand(w) \/ Open(w) \/ Migrate(w) \/ BeginFlush(w)
       \/ StatLegacy(w) \/ ReadRotated(w) \/ ReadLive(w) \/ CannotRead(w) \/ CommitFlush(w)
       \/ FlushFails(w) \/ Killed(w) \/ OldMmAppends(w)
  \/ ReadSnapshot \/ ReadNotices \/ EndRead
  \/ OldMmRotates \/ MoveFilesAside \/ NewerMmMigrates \/ MoveDbAside

HDSpec == HDInit /\ [][HDNext]_hdVars
-----------------------------------------------------------------------------
HDTypeOK ==
  /\ hdLock \in HDWriters \cup {NoOneWrites} /\ hdDb.compat \in 0..2
  /\ \A w \in HDWriters : Len(hdWriter[w].buffer) <= HDBatch

\* state.db holds the rows of each writer in the order it wrote them, each once, and
\* of those a command committed the newest.
NewestAreKept ==
  /\ \A i, j \in DOMAIN hdDb.rows :
       (i < j /\ hdDb.rows[i].by = hdDb.rows[j].by) => hdDb.rows[i].n < hdDb.rows[j].n
  /\ \A w \in HDWriters :
       LET Newer(r) == {q \in ToSet(hdLog) : q.by = w /\ q.n > r.n}
       IN  {r \in ToSet(hdDb.rows) : r.by = w}
             = {r \in ToSet(hdLog) : r.by = w /\ Cardinality(Newer(r)) < HDLimit}

\* What a command recorded is where it began up to some row, without gaps; and is all
\* of it where the command ended well.
NoRowReplayed ==
  \A w \in HDWriters :
    LET me == hdWriter[w]
        mine == {r.n : r \in {q \in ToSet(hdLog) : q.by = w /\ q.n > me.first}}
    IN  /\ mine = {n \in me.first + 1 .. me.done : n <= me.first + Cardinality(mine)}
        /\ (me.pc = "idle" /\ ~me.failed) => mine = me.first + 1 .. me.done

\* Where mm log shows the table without a notice, every row that was then in the legacy
\* files is among the rows, or older than the newest that are kept; and where it
\* shows the files instead, no row had been committed.
NoFileHidden ==
  (hdReader.pc = "shown" /\ ~hdReader.pending /\ ~hdReader.diverged) =>
    \A r \in ToSet(hdReader.legacy) :
      \/ r \in ToSet(hdReader.rows)
      \/ Cardinality({q \in ToSet(hdReader.rows) : q.class = r.class}) >= HDLimit
NoTableHidden == hdReader.pc = "legacy" => ~hdReader.hides
NothingHidden == NoFileHidden /\ NoTableHidden

\* A schema this mm does not know is written by no one but the mm that knows it.
NewerIsUntouched == hdDb.compat > SCHEMA_VERSION /\ hdDb'.there => hdDb' = hdDb

HistoryIsExact ==
  [](HDTypeOK /\ NewestAreKept /\ NoRowReplayed /\ NothingHidden) /\ [][NewerIsUntouched]_hdVars
=============================================================================
