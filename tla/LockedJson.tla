----------------------------- MODULE LockedJson -----------------------------
(***************************************************************************)
(* lockedjson.py: one JSON file shared by processes.  ljDurable says which *)
(* of the two protocols the path is used with (never both): the cache     *)
(* protocol locks the data file and rewrites it in place, the durable one  *)
(* locks a sibling inode and replaces the file.  A caller's change is the  *)
(* membership of its own name in the data.  A crash releases the lock and *)
(* leaves the file as it is.                                               *)
(***************************************************************************)
EXTENDS Naturals, FiniteSets

CONSTANTS LJProcs,    \* processes that use the file
          LJRetries   \* sleeps a non-blocking cache call may spend

ASSUME LJRetriesAssumption == LJRetries \in Nat

VARIABLES ljDurable, ljFile, ljExcl, ljShared, ljProc, ljCut

ljVars == <<ljDurable, ljFile, ljExcl, ljShared, ljProc, ljCut>>

Writers == {"block", "raise", "warn"}
Readers == {"snapshot", "peek"}            \* blocking and non-blocking snapshot
Bodies  == {"missing", "empty", "torn", "valid"}
Answers == {"none", "missing", "empty", "malformed", "valid", "lock_failed"}

Content(state, data) == [state |-> state, data |-> data]
Idle(answer) == [pc |-> "idle", mode |-> "block", tries |-> 0, locked |-> FALSE,
                 data |-> {}, answer |-> answer]

LJTypeOK ==
  /\ ljDurable \in BOOLEAN
  /\ ljFile \in [state : Bodies, data : SUBSET LJProcs]
  /\ ljExcl \subseteq LJProcs /\ ljShared \subseteq LJProcs
  /\ ljProc \in [LJProcs -> [pc : {"idle", "lock", "read", "body", "part"},
                             mode : Writers \cup Readers, tries : 0..LJRetries,
                             locked : BOOLEAN, data : SUBSET LJProcs, answer : Answers]]
  /\ ljCut \in BOOLEAN

LJInit ==
  /\ ljDurable \in BOOLEAN
  /\ ljFile = Content("missing", {})
  /\ ljExcl = {} /\ ljShared = {}
  /\ ljProc = [p \in LJProcs |-> Idle("none")]
  /\ ljCut = FALSE

At(p, pc) == ljProc[p].pc = pc
Release(p) == ljExcl' = ljExcl \ {p} /\ ljShared' = ljShared \ {p}
End(p, answer) == ljProc' = [ljProc EXCEPT ![p] = Idle(answer)] /\ Release(p)

\* Parsed content of the file, as _read_json_snapshot classifies it.
ReadState == CASE ljFile.state = "torn" -> "malformed" [] OTHER -> ljFile.state

-----------------------------------------------------------------------------
\* locked_json_rmw opens with O_CREAT, so an empty file exists before the lock.
OpenWriter(p, mode) ==
  /\ At(p, "idle")
  /\ ljDurable => mode = "raise"
  /\ ljProc' = [ljProc EXCEPT ![p] = [Idle("none") EXCEPT !.pc = "lock", !.mode = mode]]
  /\ ljFile' = IF ~ljDurable /\ ljFile.state = "missing" THEN Content("empty", {}) ELSE ljFile
  /\ UNCHANGED <<ljDurable, ljExcl, ljShared, ljCut>>

\* locked_json_snapshot never creates the file.  Over a durable store it takes
\* the lock of the data inode, which no writer of that protocol holds.
OpenReader(p, mode) ==
  /\ At(p, "idle")
  /\ ljProc' = [ljProc EXCEPT ![p] =
       IF ljFile.state = "missing" THEN Idle("missing")
       ELSE [Idle("none") EXCEPT !.pc = "lock", !.mode = mode]]
  /\ UNCHANGED <<ljDurable, ljFile, ljExcl, ljShared, ljCut>>

Free(p) == IF ljProc[p].mode \in Readers
             THEN ljDurable \/ ljExcl = {}
             ELSE ljExcl = {} /\ (ljDurable \/ ljShared = {})

Acquire(p) ==
  /\ At(p, "lock") /\ Free(p)
  /\ IF ljProc[p].mode \in Readers THEN ljShared' = ljShared \cup {p} /\ UNCHANGED ljExcl
                                   ELSE ljExcl' = ljExcl \cup {p} /\ UNCHANGED ljShared
  /\ ljProc' = [ljProc EXCEPT ![p].pc = "read", ![p].locked = TRUE]
  /\ UNCHANGED <<ljDurable, ljFile, ljCut>>

\* Mutant: one try too many.
BudgetOneMore(p) == LJRetries + 1
\* A busy lock: sleep and try again while the budget lasts.  The durable store
\* and a peek have no budget at all.
Budget(p) == IF ljDurable \/ ljProc[p].mode = "peek" THEN 0 ELSE LJRetries

\* Mutant: the tries are not counted.
RetryUncounted(p) == At(p, "lock") /\ ~Free(p) /\ ljProc[p].mode \in {"raise", "warn"} /\ UNCHANGED ljVars
Retry(p) ==
  /\ At(p, "lock") /\ ~Free(p)
  /\ ljProc[p].mode \in {"raise", "warn"} /\ ljProc[p].tries < Budget(p)
  /\ ljProc' = [ljProc EXCEPT ![p].tries = @ + 1]
  /\ UNCHANGED <<ljDurable, ljFile, ljExcl, ljShared, ljCut>>

\* The budget is spent: "raise" and a peek report it; "warn" goes on without the
\* lock over a placeholder, as "block" does when flock itself fails.
GiveUp(p) ==
  /\ At(p, "lock")
  /\ \/ /\ ~Free(p)
        /\ ljProc[p].mode \in {"raise", "peek"} /\ ljProc[p].tries = Budget(p)
        /\ End(p, "lock_failed")
     \/ /\ \/ ljProc[p].mode = "block"
           \/ ljProc[p].mode = "warn" /\ ~Free(p) /\ ljProc[p].tries = Budget(p)
        /\ ljProc' = [ljProc EXCEPT ![p].pc = "body", ![p].answer = "lock_failed"]
        /\ UNCHANGED <<ljExcl, ljShared>>
  /\ UNCHANGED <<ljDurable, ljFile, ljCut>>

\* Under the lock: a reader leaves with what it saw; a cache writer starts over
\* from nothing unless the file parses; a durable one refuses damaged data.
ReadUnderLock(p) ==
  /\ At(p, "read")
  /\ IF \/ ljProc[p].mode \in Readers
        \/ ljDurable /\ ReadState \in {"empty", "malformed"}
     THEN End(p, ReadState)
     ELSE /\ ljProc' = [ljProc EXCEPT ![p].pc = "body", ![p].answer = ReadState,
                                      ![p].data = IF ReadState = "valid" THEN ljFile.data ELSE {}]
          /\ UNCHANGED <<ljExcl, ljShared>>
  /\ UNCHANGED <<ljDurable, ljFile, ljCut>>

\* The caller raised, set write_on_exit to False, or never had the lock.
LeaveUnwritten(p) ==
  /\ At(p, "body")
  /\ End(p, ljProc[p].answer)
  /\ UNCHANGED <<ljDurable, ljFile, ljCut>>

Change(p) == {ljProc[p].data \cup {p}, ljProc[p].data \ {p}}

\* Mutant: the placeholder of a caller without the lock is written back.
MayWriteUnlocked(p) == At(p, "body")
MayWrite(p) == At(p, "body") /\ ljProc[p].locked

\* _write_json truncates and rewrites in place, without fsync; data keeps the
\* content read, so that the change is taken when the last byte is written.
Truncate(p) ==
  /\ MayWrite(p) /\ ~ljDurable
  /\ ljFile' = Content("empty", {})
  /\ ljProc' = [ljProc EXCEPT ![p].pc = "part"]
  /\ UNCHANGED <<ljDurable, ljExcl, ljShared, ljCut>>

WritePart(p) ==
  /\ At(p, "part") /\ ljFile.state = "empty"
  /\ ljFile' = Content("torn", {})
  /\ UNCHANGED <<ljDurable, ljExcl, ljShared, ljProc, ljCut>>

WriteRest(p) ==
  /\ At(p, "part")
  /\ \E d \in Change(p) : ljFile' = Content("valid", d)
  /\ End(p, ljProc[p].answer)
  /\ UNCHANGED <<ljDurable, ljCut>>

\* A failed write is handed back as write_error; the file stays cut short.
WriteFails(p) ==
  /\ At(p, "part")
  /\ ljCut' = TRUE
  /\ End(p, ljProc[p].answer)
  /\ UNCHANGED <<ljDurable, ljFile>>

\* The durable store replaces the file in one step; the directory's fsync may
\* still fail, and the new bytes are visible all the same.
ReplaceDurable(p) ==
  /\ MayWrite(p) /\ ljDurable
  /\ \E d \in Change(p) : ljFile' = Content("valid", d)
  /\ \E a \in {ljProc[p].answer, "none"} : End(p, a)
  /\ UNCHANGED <<ljDurable, ljCut>>

Crash(p) ==
  /\ ~At(p, "idle")
  /\ ljCut' = (ljCut \/ At(p, "part"))
  /\ End(p, "none")
  /\ UNCHANGED <<ljDurable, ljFile>>

LJStep(p) ==
  \/ Acquire(p) \/ Retry(p) \/ GiveUp(p) \/ ReadUnderLock(p) \/ LeaveUnwritten(p)
  \/ Truncate(p) \/ WritePart(p) \/ WriteRest(p) \/ WriteFails(p) \/ ReplaceDurable(p)

LJNext ==
  \E p \in LJProcs :
    \/ \E mode \in Writers : OpenWriter(p, mode)
    \/ \E mode \in Readers : OpenReader(p, mode)
    \/ LJStep(p)
    \/ Crash(p)

\* A process that is running goes on running; only a crash stops it.
LJFairness == \A p \in LJProcs : WF_ljVars(LJStep(p))

LJSpec == LJInit /\ [][LJNext]_ljVars /\ LJFairness
-----------------------------------------------------------------------------
\* A content that does not parse is read only after a write was cut short: by a
\* crash or a write error, never by a writer still at work, whoever reads.  Over
\* a durable store it is never read.  (read_state of locked_json_rmw and of
\* locked_json_snapshot; the durable reader takes no writer's lock.)
TornOnlyAfterCut ==
  \A p \in LJProcs : ljProc[p].answer = "malformed" => ljCut /\ ~ljDurable

\* What callers see: while a writer is inside its rewrite, the content it read;
\* otherwise the file, where anything unparsable counts as nothing.
Visible == IF \E p \in LJProcs : At(p, "part")
             THEN ljProc[CHOOSE p \in LJProcs : At(p, "part")].data
             ELSE IF ljFile.state = "valid" THEN ljFile.data ELSE {}

Store == INSTANCE JsonStore WITH Callers <- LJProcs, store <- Visible, losable <- ~ljDurable

\* Both protocols implement the abstract store: no update of one process undoes
\* another's, a call without the lock changes nothing, and only the cache
\* protocol can lose everything, by a write cut short.
RefinesStore == Store!JSSpec

\* A non-blocking call leaves the lock queue however long another process holds
\* the file: with the lock, with a report, or with a placeholder.
NonBlockingCallEnds ==
  \A p \in LJProcs :
    (At(p, "lock") /\ ljProc[p].mode \in {"raise", "warn", "peek"}) ~> ~At(p, "lock")
=============================================================================
