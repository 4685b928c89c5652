----------------------------- MODULE RetroProofs -----------------------------
(***************************************************************************)
(* LockedJson implements JsonStore, and an unparsable content is read only *)
(* after a cut write, for any number of processes and any retry budget.    *)
(* The capture of EventsCapture skips no commit, for any number of         *)
(* repositories, captures and commits.  The walk of SessionWalk keeps exact *)
(* records and drops none, for any number of projects and logs.  A source  *)
(* acknowledged in SeenSources is not hinted at again.                     *)
(***************************************************************************)
EXTENDS LockedJson, SeenSources, EventsCapture, SessionWalk, FiniteSetTheorems, TLAPS

(* ----------------------------- locked caches --------------------------- *)

(* Who holds which lock.  A process has a lock only between Acquire and the *)
(* end of its call; writers hold the exclusive one, one at a time, and the  *)
(* cache protocol keeps readers out meanwhile.                              *)
HeldRight(p) ==
  /\ ljProc[p].locked => ljProc[p].pc \in {"read", "body", "part"}
  /\ ~ljProc[p].locked => p \notin ljExcl /\ p \notin ljShared
  /\ ljProc[p].locked => IF ljProc[p].mode \in Readers THEN p \in ljShared ELSE p \in ljExcl
  /\ p \in ljExcl => ljProc[p].mode \in Writers
  /\ At(p, "read") => ljProc[p].locked
  /\ At(p, "body") => ljProc[p].mode \in Writers
  /\ At(p, "part") => ljProc[p].locked /\ ljProc[p].mode \in Writers /\ ~ljDurable

Locks ==
  /\ \A p \in LJProcs : HeldRight(p)
  /\ \A p, q \in ljExcl : p = q
  /\ ~ljDurable /\ ljExcl # {} => ljShared = {}

(* The parsed content of the file, and what each process knows of it.       *)
FileSays == IF ljFile.state = "valid" THEN ljFile.data ELSE {}
KnownRight(p) ==
  /\ At(p, "body") /\ ljProc[p].locked => ljProc[p].data = FileSays
  /\ At(p, "part") => ljFile.state \in {"empty", "torn"}
  /\ ljProc[p].answer = "malformed" => ljCut /\ ~ljDurable

Knowledge ==
  /\ \A p \in LJProcs : KnownRight(p)
  /\ ljDurable => ljFile.state \in {"missing", "valid"}
  /\ ljFile.state = "torn" => ljCut \/ \E p \in LJProcs : At(p, "part")

LJInv == LJTypeOK /\ Locks /\ Knowledge

-----------------------------------------------------------------------------
(* Only the holder of the exclusive lock is inside its rewrite.             *)
LEMMA OneRewrite ==
  ASSUME Locks, NEW p \in LJProcs, NEW q \in LJProcs, At(p, "part"), q \in ljExcl
  PROVE  p = q
BY DEF Locks, HeldRight, Writers, Readers

(* A step moves one process; the record it moves to has the type.           *)
Record == [pc : {"idle", "lock", "read", "body", "part"}, mode : Writers \cup Readers,
           tries : 0..LJRetries, locked : BOOLEAN, data : SUBSET LJProcs, answer : Answers]

(* A process between calls has the record's type, whatever its answer.       *)
LEMMA IdleType == ASSUME NEW a \in Answers PROVE Idle(a) \in Record
BY LJRetriesAssumption DEF Idle, Record, Writers, Readers

(* Ending a call keeps the types and gives the locks back.                    *)
LEMMA EndType ==
  ASSUME LJTypeOK, NEW p \in LJProcs, NEW a \in Answers, End(p, a)
  PROVE  ljProc' \in [LJProcs -> Record] /\ ljExcl' \subseteq LJProcs /\ ljShared' \subseteq LJProcs
BY IdleType DEF End, Release, LJTypeOK, Record

(* Nothing is held and nothing is known at first.                            *)
LEMMA InitInv == LJInit => LJInv
<1> SUFFICES ASSUME LJInit PROVE LJInv
  OBVIOUS
<1>1. LJTypeOK
  BY IdleType DEF LJInit, LJTypeOK, Record, Content, Bodies, Answers
<1>2. \A p \in LJProcs : /\ ljProc[p].pc = "idle" /\ ljProc[p].locked = FALSE
                         /\ ljProc[p].answer = "none"
  BY DEF LJInit, Idle
<1>3. Locks
  BY <1>2 DEF LJInit, Locks, HeldRight, At
<1>4. Knowledge
  BY <1>2 DEF LJInit, Knowledge, KnownRight, At, Content
<1> QED BY <1>1, <1>3, <1>4 DEF LJInv

(* Every step keeps the type invariant.                                      *)
LEMMA TypeStep == LJTypeOK /\ [LJNext]_ljVars => LJTypeOK'
<1> SUFFICES ASSUME LJTypeOK, [LJNext]_ljVars PROVE LJTypeOK'
  OBVIOUS
<1>0. ljProc \in [LJProcs -> Record]
  BY DEF LJTypeOK, Record
<1>t. ASSUME ljProc' \in [LJProcs -> Record], ljFile' \in [state : Bodies, data : SUBSET LJProcs],
             ljExcl' \subseteq LJProcs, ljShared' \subseteq LJProcs, ljDurable' = ljDurable,
             ljCut' \in BOOLEAN
      PROVE  LJTypeOK'
  BY <1>t DEF LJTypeOK, Record
<1>1. CASE UNCHANGED ljVars
  BY <1>1 DEF ljVars, LJTypeOK
<1>2. CASE LJNext
  <2>1. PICK p \in LJProcs : \/ \E mode \in Writers : OpenWriter(p, mode)
                             \/ \E mode \in Readers : OpenReader(p, mode)
                             \/ LJStep(p)
                             \/ Crash(p)
    BY <1>2 DEF LJNext
  <2>0. ljProc[p] \in Record /\ ljProc[p].answer \in Answers /\ ljProc[p].data \subseteq LJProcs
    BY <1>0 DEF Record
  <2>f. /\ ljFile \in [state : Bodies, data : SUBSET LJProcs] /\ ljExcl \subseteq LJProcs
        /\ ljShared \subseteq LJProcs /\ ljCut \in BOOLEAN
    BY DEF LJTypeOK
  <2>c. /\ \A d \in SUBSET LJProcs : Content("valid", d) \in [state : Bodies, data : SUBSET LJProcs]
        /\ Content("empty", {}) \in [state : Bodies, data : SUBSET LJProcs]
        /\ Content("torn", {}) \in [state : Bodies, data : SUBSET LJProcs]
    BY DEF Content, Bodies
  <2>a. ReadState \in Answers /\ {"none", "missing", "lock_failed"} \subseteq Answers
    BY <2>f DEF ReadState, Answers, Bodies
  <2>2. ASSUME NEW mode \in Writers, OpenWriter(p, mode) PROVE LJTypeOK'
    <3>1. [Idle("none") EXCEPT !.pc = "lock", !.mode = mode] \in Record
      <4>1. Idle("none") \in Record
        BY <2>a, IdleType
      <4> QED BY <4>1 DEF Record
    <3> QED BY <1>0, <1>t, <2>2, <2>f, <2>c, <3>1 DEF OpenWriter
  <2>3. ASSUME NEW mode \in Readers, OpenReader(p, mode) PROVE LJTypeOK'
    <3>1. [Idle("none") EXCEPT !.pc = "lock", !.mode = mode] \in Record
      <4>1. Idle("none") \in Record
        BY <2>a, IdleType
      <4> QED BY <4>1 DEF Record
    <3>2. Idle("missing") \in Record
      BY <2>a, IdleType
    <3> QED BY <1>0, <1>t, <2>3, <2>f, <3>1, <3>2 DEF OpenReader
  <2>4. CASE Acquire(p)
    <3>1. [ljProc[p] EXCEPT !.pc = "read", !.locked = TRUE] \in Record
      BY <2>0 DEF Record
    <3>2. ljProc' = [ljProc EXCEPT ![p] = [ljProc[p] EXCEPT !.pc = "read", !.locked = TRUE]]
      BY <1>0, <2>4 DEF Acquire, Record
    <3> QED BY <1>0, <1>t, <2>4, <2>f, <3>1, <3>2 DEF Acquire
  <2>5. CASE Retry(p)
    <3>1. ljProc[p].tries + 1 \in 0..LJRetries
      BY <2>0, <2>5, LJRetriesAssumption DEF Retry, Budget, Record
    <3> QED BY <1>0, <1>t, <2>5, <2>f, <3>1 DEF Retry, Record
  <2>6. CASE GiveUp(p)
    <3>1. CASE End(p, "lock_failed")
      BY <1>t, <2>6, <2>a, <2>f, <3>1, EndType DEF GiveUp
    <3>2. CASE ~End(p, "lock_failed")
      BY <1>0, <1>t, <2>6, <2>a, <2>f, <3>2 DEF GiveUp, Record
    <3> QED BY <3>1, <3>2
  <2>7. CASE ReadUnderLock(p)
    <3>1. CASE End(p, ReadState)
      BY <1>t, <2>7, <2>a, <2>f, <3>1, EndType DEF ReadUnderLock
    <3>2. CASE ~End(p, ReadState)
      <4>1. (IF ReadState = "valid" THEN ljFile.data ELSE {}) \in SUBSET LJProcs
        BY <2>f
      <4> QED BY <1>0, <1>t, <2>7, <2>a, <2>f, <3>2, <4>1 DEF ReadUnderLock, Record
    <3> QED BY <3>1, <3>2
  <2>8. CASE LeaveUnwritten(p)
    BY <1>t, <2>0, <2>8, <2>f, EndType DEF LeaveUnwritten
  <2>9. CASE Truncate(p)
    BY <1>0, <1>t, <2>9, <2>c, <2>f DEF Truncate, Record
  <2>10. CASE WritePart(p)
    BY <1>0, <1>t, <2>10, <2>c, <2>f DEF WritePart
  <2>11. CASE WriteRest(p) \/ ReplaceDurable(p)
    <3>1. Change(p) \subseteq SUBSET LJProcs
      BY <2>0 DEF Change
    <3>2. \E a \in Answers : End(p, a)
      BY <2>0, <2>11, <2>a DEF WriteRest, ReplaceDurable
    <3> QED BY <1>t, <2>11, <2>c, <2>f, <3>1, <3>2, EndType DEF WriteRest, ReplaceDurable
  <2>12. CASE WriteFails(p)
    BY <1>t, <2>0, <2>12, <2>f, EndType DEF WriteFails
  <2>13. CASE Crash(p)
    BY <1>t, <2>13, <2>a, <2>f, EndType DEF Crash, At
  <2> QED BY <2>1, <2>2, <2>3, <2>4, <2>5, <2>6, <2>7, <2>8, <2>9, <2>10, <2>11, <2>12, <2>13 DEF LJStep
<1> QED BY <1>1, <1>2

(* The fields a step leaves in the process that takes it; the others' stay.  *)
Moves(p, pc, mode, locked, data, answer) ==
  /\ \A q \in LJProcs : q # p => ljProc'[q] = ljProc[q]
  /\ ljProc'[p].pc = pc /\ ljProc'[p].mode = mode /\ ljProc'[p].locked = locked
  /\ ljProc'[p].data = data /\ ljProc'[p].answer = answer

(* A call ends with its process back to idle and the answer it reports.      *)
LEMMA EndMoves ==
  ASSUME LJTypeOK, NEW p \in LJProcs, NEW a, End(p, a)
  PROVE  Moves(p, "idle", "block", FALSE, {}, a)
BY DEF End, Idle, Moves, LJTypeOK

(* The locks and the knowledge a step disturbs: what is left to show for p.   *)
LEMMA EndKeepsLocks ==
  ASSUME LJTypeOK, Locks, NEW p \in LJProcs, NEW a, End(p, a), ljDurable' = ljDurable
  PROVE  Locks'
<1>1. Moves(p, "idle", "block", FALSE, {}, a)
  BY EndMoves
<1>2. ljExcl' = ljExcl \ {p} /\ ljShared' = ljShared \ {p}
  BY DEF End, Release
<1>3. HeldRight(p)'
  BY <1>1, <1>2 DEF HeldRight, Moves, At
<1>4. ASSUME NEW q \in LJProcs, q # p PROVE HeldRight(q)'
  <2>1. ljProc'[q] = ljProc[q]
    BY <1>1, <1>4 DEF Moves
  <2>2. HeldRight(q)
    BY DEF Locks
  <2>3. (q \in ljExcl' <=> q \in ljExcl) /\ (q \in ljShared' <=> q \in ljShared)
    BY <1>2, <1>4
  <2> QED BY <2>1, <2>2, <2>3 DEF HeldRight, At
<1>5. (\A q, r \in ljExcl : q = r)'
  BY <1>2 DEF Locks
<1>6. (~ljDurable /\ ljExcl # {} => ljShared = {})'
  BY <1>2 DEF Locks
<1> QED BY <1>3, <1>4, <1>5, <1>6 DEF Locks

(* A step that takes and gives back no lock.                                 *)
LEMMA MoveKeepsLocks ==
  ASSUME Locks, NEW p \in LJProcs, NEW pc, NEW mode, NEW locked, NEW data, NEW answer,
         Moves(p, pc, mode, locked, data, answer), HeldRight(p)',
         UNCHANGED <<ljDurable, ljExcl, ljShared>>
  PROVE  Locks'
<1>1. ASSUME NEW q \in LJProcs, q # p PROVE HeldRight(q)'
  <2>1. ljProc'[q] = ljProc[q]
    BY <1>1 DEF Moves
  <2>2. HeldRight(q)
    BY DEF Locks
  <2> QED BY <2>1, <2>2 DEF HeldRight, At
<1>2. (\A q, r \in ljExcl : q = r)'
  BY DEF Locks
<1>3. (~ljDurable /\ ljExcl # {} => ljShared = {})'
  BY DEF Locks
<1> QED BY <1>1, <1>2, <1>3 DEF Locks

(* Every step keeps the lock discipline.                                     *)
LEMMA LocksStep == LJTypeOK /\ Locks /\ [LJNext]_ljVars => Locks'
<1> SUFFICES ASSUME LJTypeOK, Locks, [LJNext]_ljVars PROVE Locks'
  OBVIOUS
<1>1. CASE UNCHANGED ljVars
  BY <1>1 DEF ljVars, Locks, HeldRight, At
<1>2. CASE LJNext
  <2>1. PICK p \in LJProcs : \/ \E mode \in Writers : OpenWriter(p, mode)
                             \/ \E mode \in Readers : OpenReader(p, mode)
                             \/ LJStep(p)
                             \/ Crash(p)
    BY <1>2 DEF LJNext
  <2>h. HeldRight(p)
    BY DEF Locks
  <2>t. ljProc \in [LJProcs -> Record]
    BY DEF LJTypeOK, Record
  <2>e. ASSUME NEW a, End(p, a), ljDurable' = ljDurable PROVE Locks'
    BY <2>e, EndKeepsLocks
  <2>2. ASSUME NEW mode \in Writers, OpenWriter(p, mode) PROVE Locks'
    <3>1. Moves(p, "lock", mode, FALSE, {}, "none")
      BY <2>2, <2>t DEF OpenWriter, Idle, Moves
    <3>2. HeldRight(p)'
      BY <2>2, <2>h, <3>1 DEF OpenWriter, HeldRight, At, Moves
    <3> QED BY <2>2, <3>1, <3>2, MoveKeepsLocks DEF OpenWriter
  <2>3. ASSUME NEW mode \in Readers, OpenReader(p, mode) PROVE Locks'
    <3>1. CASE ljFile.state = "missing"
      <4>1. Moves(p, "idle", "block", FALSE, {}, "missing")
        BY <2>3, <2>t, <3>1 DEF OpenReader, Idle, Moves
      <4>2. HeldRight(p)'
        BY <2>3, <2>h, <4>1 DEF OpenReader, HeldRight, At, Moves
      <4> QED BY <2>3, <4>1, <4>2, MoveKeepsLocks DEF OpenReader
    <3>2. CASE ljFile.state # "missing"
      <4>1. Moves(p, "lock", mode, FALSE, {}, "none")
        BY <2>3, <2>t, <3>2 DEF OpenReader, Idle, Moves
      <4>2. HeldRight(p)'
        BY <2>3, <2>h, <4>1 DEF OpenReader, HeldRight, At, Moves
      <4> QED BY <2>3, <4>1, <4>2, MoveKeepsLocks DEF OpenReader
    <3> QED BY <3>1, <3>2
  <2>4. CASE Acquire(p)
    <3>1. Moves(p, "read", ljProc[p].mode, TRUE, ljProc[p].data, ljProc[p].answer)
      BY <2>4, <2>t DEF Acquire, Moves, Record
    <3>2. ~ljProc[p].locked /\ ljProc[p].mode \in Writers \cup Readers
      BY <2>4, <2>h, <2>t DEF Acquire, HeldRight, At, Record
    <3>3. HeldRight(p)'
      BY <2>4, <2>h, <3>1, <3>2 DEF Acquire, HeldRight, At, Moves
    <3>4. ASSUME NEW q \in LJProcs, q # p PROVE HeldRight(q)'
      <4>1. ljProc'[q] = ljProc[q]
        BY <3>1, <3>4 DEF Moves
      <4>2. HeldRight(q)
        BY DEF Locks
      <4>3. (q \in ljExcl' <=> q \in ljExcl) /\ (q \in ljShared' <=> q \in ljShared)
        BY <2>4, <3>4 DEF Acquire
      <4>4. ljDurable' = ljDurable
        BY <2>4 DEF Acquire
      <4> QED BY <4>1, <4>2, <4>3, <4>4 DEF HeldRight, At
    <3>5. (\A q, r \in ljExcl : q = r)' /\ (~ljDurable /\ ljExcl # {} => ljShared = {})'
      BY <2>4, <3>2 DEF Acquire, Free, Locks, Readers, Writers
    <3> QED BY <3>3, <3>4, <3>5 DEF Locks
  <2>5. CASE Retry(p)
    <3>1. Moves(p, "lock", ljProc[p].mode, ljProc[p].locked, ljProc[p].data, ljProc[p].answer)
      BY <2>5, <2>t DEF Retry, Moves, Record, At
    <3>2. HeldRight(p)'
      BY <2>5, <2>h, <3>1 DEF Retry, HeldRight, At, Moves
    <3> QED BY <2>5, <3>1, <3>2, MoveKeepsLocks DEF Retry
  <2>6. CASE GiveUp(p)
    <3>1. CASE End(p, "lock_failed")
      BY <2>6, <2>e, <3>1 DEF GiveUp
    <3>2. CASE ~End(p, "lock_failed")
      <4>1. Moves(p, "body", ljProc[p].mode, ljProc[p].locked, ljProc[p].data, "lock_failed")
        BY <2>6, <2>t, <3>2 DEF GiveUp, Moves, Record
      <4>2. HeldRight(p)' /\ UNCHANGED <<ljDurable, ljExcl, ljShared>>
        BY <2>6, <2>h, <3>2, <4>1 DEF GiveUp, HeldRight, At, Moves, Writers
      <4> QED BY <4>1, <4>2, MoveKeepsLocks
    <3> QED BY <3>1, <3>2
  <2>7. CASE ReadUnderLock(p)
    <3>1. CASE End(p, ReadState)
      BY <2>7, <2>e, <3>1 DEF ReadUnderLock
    <3>2. CASE ~End(p, ReadState)
      <4> DEFINE data == IF ReadState = "valid" THEN ljFile.data ELSE {}
      <4>0. ljProc' = [ljProc EXCEPT ![p].pc = "body", ![p].answer = ReadState, ![p].data = data]
        BY <2>7, <3>2 DEF ReadUnderLock
      <4> HIDE DEF data
      <4>1. Moves(p, "body", ljProc[p].mode, ljProc[p].locked, data, ReadState)
        BY <2>t, <4>0 DEF Moves, Record
      <4>2. ljProc[p].mode \in Writers /\ UNCHANGED <<ljDurable, ljExcl, ljShared>>
        BY <2>7, <2>t, <3>2 DEF ReadUnderLock, Record
      <4>3. HeldRight(p)'
        BY <2>7, <2>h, <4>1, <4>2 DEF ReadUnderLock, HeldRight, At, Moves
      <4> QED BY <4>1, <4>2, <4>3, MoveKeepsLocks
    <3> QED BY <3>1, <3>2
  <2>8. CASE LeaveUnwritten(p) \/ WriteFails(p) \/ Crash(p) \/ WriteRest(p) \/ ReplaceDurable(p)
    BY <2>8, <2>e DEF LeaveUnwritten, WriteFails, Crash, WriteRest, ReplaceDurable
  <2>9. CASE Truncate(p)
    <3>1. Moves(p, "part", ljProc[p].mode, ljProc[p].locked, ljProc[p].data, ljProc[p].answer)
      BY <2>9, <2>t DEF Truncate, Moves, Record
    <3>2. HeldRight(p)' /\ UNCHANGED <<ljDurable, ljExcl, ljShared>>
      BY <2>9, <2>h, <3>1 DEF Truncate, MayWrite, HeldRight, At, Moves
    <3> QED BY <3>1, <3>2, MoveKeepsLocks
  <2>10. CASE WritePart(p)
    BY <2>10 DEF WritePart, Locks, HeldRight, At
  <2> QED BY <2>1, <2>2, <2>3, <2>4, <2>5, <2>6, <2>7, <2>8, <2>9, <2>10 DEF LJStep
<1> QED BY <1>1, <1>2

(* The holder of the exclusive lock is the only one that has read what it may *)
(* write, or is writing it.                                                   *)
LEMMA Alone ==
  ASSUME Locks, NEW p \in ljExcl, NEW q \in LJProcs, q # p
  PROVE  ~At(q, "part") /\ ~(At(q, "body") /\ ljProc[q].locked)
BY DEF Locks, HeldRight, Writers, Readers

(* A step that leaves the file alone.                                        *)
LEMMA MoveKeepsKnowledge ==
  ASSUME Knowledge, NEW p \in LJProcs, NEW pc, NEW mode, NEW locked, NEW data, NEW answer,
         Moves(p, pc, mode, locked, data, answer), KnownRight(p)',
         UNCHANGED <<ljDurable, ljFile>>, ljCut => ljCut',
         At(p, "part") => ljCut' \/ At(p, "part")'
  PROVE  Knowledge'
<1>1. ASSUME NEW q \in LJProcs, q # p
      PROVE  KnownRight(q)' /\ (At(q, "part") => At(q, "part")')
  <2>1. ljProc'[q] = ljProc[q]
    BY <1>1 DEF Moves
  <2>2. KnownRight(q)
    BY DEF Knowledge
  <2>3. FileSays' = FileSays
    BY DEF FileSays
  <2> QED BY <2>1, <2>2, <2>3 DEF KnownRight, At
<1> QED BY <1>1 DEF Knowledge

(* A call that ends without writing; inside a rewrite it leaves a cut file.  *)
LEMMA EndKeepsKnowledge ==
  ASSUME LJTypeOK, Knowledge, NEW p \in LJProcs, NEW a, End(p, a),
         UNCHANGED <<ljDurable, ljFile>>, ljCut => ljCut', At(p, "part") => ljCut',
         a = "malformed" => ljCut /\ ~ljDurable
  PROVE  Knowledge'
<1>1. Moves(p, "idle", "block", FALSE, {}, a)
  BY EndMoves
<1>2. KnownRight(p)'
  BY <1>1 DEF KnownRight, Moves, At
<1> QED BY <1>1, <1>2, MoveKeepsKnowledge

(* A content that does not parse is a cut one for whoever holds a lock.       *)
LEMMA LockedRead ==
  ASSUME LJTypeOK, Locks, Knowledge, NEW p \in LJProcs, At(p, "read"), ReadState = "malformed"
  PROVE  ljCut /\ ~ljDurable
<1>1. ljFile.state = "torn" /\ ~ljDurable
  BY DEF ReadState, Knowledge, LJTypeOK, Bodies
<1>2. ASSUME NEW q \in LJProcs, At(q, "part") PROVE FALSE
  <2>1. q \in ljExcl /\ HeldRight(p) /\ ~At(p, "part")
    BY <1>2 DEF Locks, HeldRight, Writers, Readers, At
  <2>2. p \in ljShared \/ p \in ljExcl
    BY <2>1 DEF HeldRight
  <2>3. CASE p \in ljShared
    BY <1>1, <2>1, <2>3 DEF Locks
  <2>4. CASE p \in ljExcl
    BY <1>2, <2>1, <2>4, OneRewrite
  <2> QED BY <2>2, <2>3, <2>4
<1> QED BY <1>1, <1>2 DEF Knowledge

(* Every step keeps what the processes know of the file.                     *)
LEMMA KnowledgeStep == LJInv /\ [LJNext]_ljVars => Knowledge'
<1> SUFFICES ASSUME LJTypeOK, Locks, Knowledge, [LJNext]_ljVars PROVE Knowledge'
  BY DEF LJInv
<1>1. CASE UNCHANGED ljVars
  BY <1>1 DEF ljVars, Knowledge, KnownRight, FileSays, At
<1>2. CASE LJNext
  <2>1. PICK p \in LJProcs : \/ \E mode \in Writers : OpenWriter(p, mode)
                             \/ \E mode \in Readers : OpenReader(p, mode)
                             \/ LJStep(p)
                             \/ Crash(p)
    BY <1>2 DEF LJNext
  <2>k. KnownRight(p) /\ HeldRight(p)
    BY DEF Knowledge, Locks
  <2>t. ljProc \in [LJProcs -> Record] /\ ljFile \in [state : Bodies, data : SUBSET LJProcs]
    BY DEF LJTypeOK, Record
  <2>2. ASSUME NEW mode \in Writers, OpenWriter(p, mode) PROVE Knowledge'
    <3>1. Moves(p, "lock", mode, FALSE, {}, "none")
      BY <2>2, <2>t DEF OpenWriter, Idle, Moves
    <3>2. KnownRight(p)'
      BY <3>1 DEF KnownRight, At, Moves
    <3>3. CASE ljFile' = ljFile
      <4>1. ~At(p, "part") /\ UNCHANGED <<ljDurable, ljFile, ljCut>>
        BY <2>2, <3>3 DEF OpenWriter, At
      <4> QED BY <3>1, <3>2, <4>1, MoveKeepsKnowledge
    <3>4. CASE ljFile' # ljFile
      <4>1. /\ ~ljDurable /\ ljFile.state = "missing" /\ ljFile' = Content("empty", {})
            /\ UNCHANGED <<ljDurable, ljCut>>
        BY <2>2, <3>4 DEF OpenWriter
      <4>2. FileSays' = FileSays
        BY <4>1 DEF FileSays, Content
      <4>3. ASSUME NEW q \in LJProcs, q # p PROVE KnownRight(q)'
        <5>1. ljProc'[q] = ljProc[q]
          BY <3>1, <4>3 DEF Moves
        <5>2. KnownRight(q) /\ ~At(q, "part")
          BY <4>1 DEF Knowledge, KnownRight
        <5> QED BY <4>1, <4>2, <5>1, <5>2 DEF KnownRight, At
      <4> QED BY <3>2, <4>1, <4>3 DEF Knowledge, Content
    <3> QED BY <3>3, <3>4
  <2>3. ASSUME NEW mode \in Readers, OpenReader(p, mode) PROVE Knowledge'
    <3>1. ~At(p, "part") /\ UNCHANGED <<ljDurable, ljFile, ljCut>>
      BY <2>3 DEF OpenReader, At
    <3>2. CASE ljFile.state = "missing"
      <4>1. Moves(p, "idle", "block", FALSE, {}, "missing")
        BY <2>3, <2>t, <3>2 DEF OpenReader, Idle, Moves
      <4>2. KnownRight(p)'
        BY <4>1 DEF KnownRight, At, Moves
      <4> QED BY <3>1, <4>1, <4>2, MoveKeepsKnowledge
    <3>3. CASE ljFile.state # "missing"
      <4>1. Moves(p, "lock", mode, FALSE, {}, "none")
        BY <2>3, <2>t, <3>3 DEF OpenReader, Idle, Moves
      <4>2. KnownRight(p)'
        BY <4>1 DEF KnownRight, At, Moves
      <4> QED BY <3>1, <4>1, <4>2, MoveKeepsKnowledge
    <3> QED BY <3>2, <3>3
  <2>4. CASE Acquire(p)
    <3>1. Moves(p, "read", ljProc[p].mode, TRUE, ljProc[p].data, ljProc[p].answer)
      BY <2>4, <2>t DEF Acquire, Moves, Record
    <3>2. KnownRight(p)' /\ ~At(p, "part") /\ UNCHANGED <<ljDurable, ljFile, ljCut>>
      BY <2>4, <2>k, <3>1 DEF Acquire, KnownRight, At, Moves
    <3> QED BY <3>1, <3>2, MoveKeepsKnowledge
  <2>5. CASE Retry(p)
    <3>1. Moves(p, "lock", ljProc[p].mode, ljProc[p].locked, ljProc[p].data, ljProc[p].answer)
      BY <2>5, <2>t DEF Retry, Moves, Record, At
    <3>2. KnownRight(p)' /\ ~At(p, "part") /\ UNCHANGED <<ljDurable, ljFile, ljCut>>
      BY <2>5, <2>k, <3>1 DEF Retry, KnownRight, At, Moves
    <3> QED BY <3>1, <3>2, MoveKeepsKnowledge
  <2>6. CASE GiveUp(p)
    <3>0. ~At(p, "part") /\ UNCHANGED <<ljDurable, ljFile, ljCut>>
      BY <2>6 DEF GiveUp, At
    <3>1. CASE End(p, "lock_failed")
      BY <3>0, <3>1, EndKeepsKnowledge
    <3>2. CASE ~End(p, "lock_failed")
      <4>1. Moves(p, "body", ljProc[p].mode, ljProc[p].locked, ljProc[p].data, "lock_failed")
        BY <2>6, <2>t, <3>2 DEF GiveUp, Moves, Record
      <4>2. ~ljProc[p].locked
        BY <2>6, <2>k DEF GiveUp, HeldRight, At
      <4>3. KnownRight(p)'
        BY <4>1, <4>2 DEF KnownRight, At, Moves
      <4> QED BY <3>0, <4>1, <4>3, MoveKeepsKnowledge
    <3> QED BY <3>1, <3>2
  <2>7. CASE ReadUnderLock(p)
    <3>0. At(p, "read") /\ ~At(p, "part") /\ UNCHANGED <<ljDurable, ljFile, ljCut>>
      BY <2>7 DEF ReadUnderLock, At
    <3>m. ReadState = "malformed" => ljCut /\ ~ljDurable
      BY <3>0, LockedRead
    <3>1. CASE End(p, ReadState)
      BY <3>0, <3>m, <3>1, EndKeepsKnowledge
    <3>2. CASE ~End(p, ReadState)
      <4>0. ljProc' = [ljProc EXCEPT ![p].pc = "body", ![p].answer = ReadState,
                                     ![p].data = IF ReadState = "valid" THEN ljFile.data ELSE {}]
        BY <2>7, <3>2 DEF ReadUnderLock
      <4>1. (IF ReadState = "valid" THEN ljFile.data ELSE {}) = FileSays
        BY DEF ReadState, FileSays
      <4>2. Moves(p, "body", ljProc[p].mode, ljProc[p].locked, FileSays, ReadState)
        BY <2>t, <4>0, <4>1 DEF Moves, Record
      <4>3. FileSays' = FileSays
        BY <3>0 DEF FileSays
      <4>4. KnownRight(p)'
        BY <3>0, <3>m, <4>2, <4>3 DEF KnownRight, At, Moves
      <4> QED BY <3>0, <4>2, <4>4, MoveKeepsKnowledge
    <3> QED BY <3>1, <3>2
  <2>8. CASE LeaveUnwritten(p)
    BY <2>8, <2>k, EndKeepsKnowledge DEF LeaveUnwritten, KnownRight, At
  <2>9. CASE WriteFails(p)
    BY <2>9, <2>k, EndKeepsKnowledge DEF WriteFails, KnownRight, At
  <2>10. CASE Crash(p)
    BY <2>10, <2>k, EndKeepsKnowledge DEF Crash, At
  <2>11. CASE Truncate(p)
    <3>1. Moves(p, "part", ljProc[p].mode, ljProc[p].locked, ljProc[p].data, ljProc[p].answer)
      BY <2>11, <2>t DEF Truncate, Moves, Record
    <3>2. /\ ljFile' = Content("empty", {}) /\ ljProc[p].locked /\ ~ljDurable /\ At(p, "body")
          /\ UNCHANGED <<ljDurable, ljCut>>
      BY <2>11 DEF Truncate, MayWrite
    <3>3. KnownRight(p)'
      BY <2>k, <3>1, <3>2 DEF KnownRight, At, Moves, Content
    <3>4. p \in ljExcl
      BY <2>k, <3>2 DEF HeldRight, Writers, Readers
    <3>5. ASSUME NEW q \in LJProcs, q # p PROVE KnownRight(q)'
      <4>1. ljProc'[q] = ljProc[q]
        BY <3>1, <3>5 DEF Moves
      <4>2. KnownRight(q)
        BY DEF Knowledge
      <4>3. ~At(q, "part") /\ ~(At(q, "body") /\ ljProc[q].locked)
        BY <3>4, <3>5, Alone
      <4> QED BY <3>2, <4>1, <4>2, <4>3 DEF KnownRight, At
    <3> QED BY <3>2, <3>3, <3>5 DEF Knowledge, Content
  <2>12. CASE WritePart(p)
    <3>1. /\ At(p, "part") /\ ljFile.state = "empty" /\ ljFile' = Content("torn", {})
          /\ UNCHANGED <<ljDurable, ljProc, ljCut>> /\ ~ljDurable
      BY <2>12, <2>k DEF WritePart, HeldRight
    <3>2. FileSays' = FileSays
      BY <3>1 DEF FileSays, Content
    <3>3. ASSUME NEW q \in LJProcs PROVE KnownRight(q)'
      BY <3>1, <3>2 DEF Knowledge, KnownRight, At, Content
    <3> QED BY <3>1, <3>3 DEF Knowledge, At, Content
  <2>13. CASE WriteRest(p) \/ ReplaceDurable(p)
    <3>1. PICK a : End(p, a) /\ (a = ljProc[p].answer \/ a = "none")
      BY <2>13 DEF WriteRest, ReplaceDurable
    <3>2. Moves(p, "idle", "block", FALSE, {}, a)
      BY <3>1, EndMoves
    <3>3. /\ ljFile'.state = "valid" /\ UNCHANGED <<ljDurable, ljCut>>
          /\ p \in ljExcl
      BY <2>13, <2>k DEF WriteRest, ReplaceDurable, MayWrite, Content, HeldRight, Writers, Readers, At
    <3>4. KnownRight(p)'
      BY <2>k, <3>1, <3>2, <3>3 DEF KnownRight, Moves, At
    <3>5. ASSUME NEW q \in LJProcs, q # p PROVE KnownRight(q)'
      <4>1. ljProc'[q] = ljProc[q]
        BY <3>2, <3>5 DEF Moves
      <4>2. KnownRight(q)
        BY DEF Knowledge
      <4>3. ~At(q, "part") /\ ~(At(q, "body") /\ ljProc[q].locked)
        BY <3>3, <3>5, Alone
      <4> QED BY <3>3, <4>1, <4>2, <4>3 DEF KnownRight, At
    <3> QED BY <3>3, <3>4, <3>5 DEF Knowledge
  <2> QED BY <2>1, <2>2, <2>3, <2>4, <2>5, <2>6, <2>7, <2>8, <2>9, <2>10, <2>11, <2>12, <2>13 DEF LJStep
<1> QED BY <1>1, <1>2

(* The three parts together are inductive.                                   *)
LEMMA InvStep == LJInv /\ [LJNext]_ljVars => LJInv'
BY TypeStep, LocksStep, KnowledgeStep DEF LJInv

(* The inductive invariant holds in every state of every behaviour.           *)
THEOREM LockedJsonInvariant == LJSpec => []LJInv
<1>1. LJInit => LJInv
  BY InitInv
<1>2. LJInv /\ [LJNext]_ljVars => LJInv'
  BY InvStep
<1> QED BY <1>1, <1>2, PTL DEF LJSpec

(* What a reader of the file may meet: a content that does not parse only     *)
(* after a write was cut short, and never over a durable store.               *)
THEOREM OnlyCutIsMalformed == LJSpec => []TornOnlyAfterCut
<1>1. LJInv => TornOnlyAfterCut
  BY DEF LJInv, Knowledge, KnownRight, TornOnlyAfterCut
<1> QED BY <1>1, LockedJsonInvariant, PTL

-----------------------------------------------------------------------------
(* What callers see, with a rewrite under way and without, before a step and  *)
(* after it.                                                                  *)
LEMMA ViewBefore ==
  /\ (\A q \in LJProcs : ~At(q, "part")) => Visible = FileSays
  /\ \A p \in LJProcs : At(p, "part") /\ (\A q \in LJProcs : At(q, "part") => q = p)
                          => Visible = ljProc[p].data
BY DEF Visible, FileSays

LEMMA ViewAfter ==
  /\ (\A q \in LJProcs : ~At(q, "part")') => Visible' = FileSays'
  /\ \A p \in LJProcs : At(p, "part")' /\ (\A q \in LJProcs : At(q, "part")' => q = p)
                          => Visible' = ljProc'[p].data
BY DEF Visible, FileSays

(* A step that neither begins nor ends a rewrite, nor changes the content,    *)
(* is not seen.                                                               *)
LEMMA SameView ==
  ASSUME Locks, FileSays' = FileSays,
         \A q \in LJProcs : At(q, "part")' <=> At(q, "part"),
         \A q \in LJProcs : At(q, "part") => ljProc'[q].data = ljProc[q].data
  PROVE  Visible' = Visible
<1>1. CASE \A q \in LJProcs : ~At(q, "part")
  BY <1>1, ViewBefore, ViewAfter
<1>2. CASE \E q \in LJProcs : At(q, "part")
  <2>1. PICK p \in LJProcs : At(p, "part")
    BY <1>2
  <2>2. \A q \in LJProcs : At(q, "part") => q = p
    BY <2>1, OneRewrite DEF Locks, HeldRight, Writers, Readers
  <2>3. Visible = ljProc[p].data
    BY <2>1, <2>2, ViewBefore
  <2>4. Visible' = ljProc'[p].data
    BY <2>1, <2>2, ViewAfter
  <2> QED BY <2>1, <2>3, <2>4
<1> QED BY <1>1, <1>2

(* A step of one process that is outside a rewrite before and after.         *)
LEMMA QuietMove ==
  ASSUME Locks, NEW p \in LJProcs, ~At(p, "part"), ~At(p, "part")', FileSays' = FileSays,
         \A q \in LJProcs : q # p => ljProc'[q] = ljProc[q]
  PROVE  Visible' = Visible
<1>1. \A q \in LJProcs : At(q, "part")' <=> At(q, "part")
  BY DEF At
<1>2. \A q \in LJProcs : At(q, "part") => ljProc'[q].data = ljProc[q].data
  OBVIOUS
<1> QED BY <1>1, <1>2, SameView

(* NotAfter its write the holder sees what everyone sees.                       *)
LEMMA HolderSees ==
  ASSUME Locks, Knowledge, NEW p \in LJProcs, MayWrite(p)
  PROVE  Visible = ljProc[p].data /\ p \in ljExcl /\ \A q \in LJProcs : ~At(q, "part")
<1>1. p \in ljExcl /\ ~At(p, "part")
  BY DEF MayWrite, Locks, HeldRight, Writers, Readers, At
<1>2. \A q \in LJProcs : ~At(q, "part")
  BY <1>1, Alone
<1>3. Visible = FileSays
  BY <1>2, ViewBefore
<1> QED BY <1>1, <1>2, <1>3 DEF MayWrite, Knowledge, KnownRight

(* Inside its rewrite, everyone still sees what the writer read.              *)
LEMMA WriterSees ==
  ASSUME Locks, NEW p \in LJProcs, At(p, "part")
  PROVE  Visible = ljProc[p].data /\ ~ljDurable /\ \A q \in LJProcs : At(q, "part") => q = p
<1>1. p \in ljExcl /\ ~ljDurable
  BY DEF Locks, HeldRight, Writers, Readers
<1>2. \A q \in LJProcs : At(q, "part") => q = p
  BY <1>1, OneRewrite
<1> QED BY <1>1, <1>2, ViewBefore

(* Every step of the file is a step of the abstract store or is not seen.     *)
LEMMA StepRefines ==
  LJInv /\ [LJNext]_ljVars => [Store!JSNext]_<<Visible, ~ljDurable>>
<1> SUFFICES ASSUME LJTypeOK, Locks, Knowledge, [LJNext]_ljVars
             PROVE  (Visible' = Visible \/ Store!JSNext) /\ ljDurable' = ljDurable
  BY DEF LJInv, Store!JSNext
<1>1. CASE UNCHANGED ljVars
  BY <1>1 DEF ljVars, Visible, At
<1>2. CASE LJNext
  <2>1. PICK p \in LJProcs : \/ \E mode \in Writers : OpenWriter(p, mode)
                             \/ \E mode \in Readers : OpenReader(p, mode)
                             \/ LJStep(p)
                             \/ Crash(p)
    BY <1>2 DEF LJNext
  <2>t. ljProc \in [LJProcs -> Record] /\ ljFile \in [state : Bodies, data : SUBSET LJProcs]
    BY DEF LJTypeOK, Record
  <2>d. ljDurable' = ljDurable
    BY <1>2 DEF LJNext, LJStep, OpenWriter, OpenReader, Acquire, Retry, GiveUp, ReadUnderLock,
      LeaveUnwritten, Truncate, WritePart, WriteRest, WriteFails, ReplaceDurable, Crash
  <2>o. ASSUME NEW a, End(p, a) PROVE Moves(p, "idle", "block", FALSE, {}, a)
    BY <2>o, EndMoves
  <2>q. ASSUME ~At(p, "part"), NEW pc, NEW mode, NEW locked, NEW data, NEW a, pc # "part",
               Moves(p, pc, mode, locked, data, a), FileSays' = FileSays
        PROVE  Visible' = Visible
    BY <2>q, QuietMove DEF Moves, At
  <2>2. ASSUME NEW mode \in Writers, OpenWriter(p, mode) PROVE Visible' = Visible
    <3>1. Moves(p, "lock", mode, FALSE, {}, "none") /\ ~At(p, "part")
      BY <2>2, <2>t DEF OpenWriter, Idle, Moves, At
    <3>2. FileSays' = FileSays
      BY <2>2 DEF OpenWriter, FileSays, Content
    <3> QED BY <2>q, <3>1, <3>2
  <2>3. ASSUME NEW mode \in Readers, OpenReader(p, mode) PROVE Visible' = Visible
    <3>1. ~At(p, "part") /\ ~At(p, "part")' /\ \A q \in LJProcs : q # p => ljProc'[q] = ljProc[q]
      BY <2>3, <2>t DEF OpenReader, Idle, At
    <3>2. FileSays' = FileSays
      BY <2>3 DEF OpenReader, FileSays
    <3> QED BY <3>1, <3>2, QuietMove
  <2>4. CASE Acquire(p) \/ Retry(p) \/ GiveUp(p) \/ ReadUnderLock(p) \/ LeaveUnwritten(p)
    <3>1. ~At(p, "part") /\ ljFile' = ljFile
      BY <2>4 DEF Acquire, Retry, GiveUp, ReadUnderLock, LeaveUnwritten, At
    <3>2. FileSays' = FileSays
      BY <3>1 DEF FileSays
    <3>3. ~At(p, "part")' /\ \A q \in LJProcs : q # p => ljProc'[q] = ljProc[q]
      <4>1. CASE \E a : End(p, a)
        BY <2>o, <4>1 DEF Moves, At
      <4>2. CASE ~\E a : End(p, a)
        <5>1. CASE Acquire(p)
          BY <2>t, <5>1 DEF Acquire, At, Record
        <5>2. CASE Retry(p)
          BY <2>t, <5>2 DEF Retry, At, Record
        <5>3. CASE GiveUp(p)
          BY <2>t, <4>2, <5>3 DEF GiveUp, At, Record
        <5>4. CASE ReadUnderLock(p)
          <6>1. ljProc' = [ljProc EXCEPT ![p].pc = "body", ![p].answer = ReadState,
                                   ![p].data = IF ReadState = "valid" THEN ljFile.data ELSE {}]
            BY <4>2, <5>4 DEF ReadUnderLock
          <6> QED BY <2>t, <6>1 DEF At, Record
        <5> QED BY <2>4, <4>2, <5>1, <5>2, <5>3, <5>4 DEF LeaveUnwritten
      <4> QED BY <4>1, <4>2
    <3> QED BY <2>d, <3>1, <3>2, <3>3, QuietMove
  <2>5. CASE Truncate(p)
    <3>1. MayWrite(p) /\ Moves(p, "part", ljProc[p].mode, ljProc[p].locked, ljProc[p].data, ljProc[p].answer)
      BY <2>5, <2>t DEF Truncate, Moves, Record
    <3>2. Visible = ljProc[p].data /\ \A q \in LJProcs : ~At(q, "part")
      BY <3>1, HolderSees
    <3>3. At(p, "part")' /\ \A q \in LJProcs : At(q, "part")' => q = p
      BY <3>1, <3>2 DEF Moves, At
    <3>4. Visible' = ljProc'[p].data
      BY <3>3, ViewAfter
    <3> QED BY <2>d, <3>1, <3>2, <3>4 DEF Moves
  <2>6. CASE WritePart(p)
    <3>1. ljProc' = ljProc /\ FileSays' = FileSays
      BY <2>6 DEF WritePart, FileSays, Content
    <3> QED BY <2>d, <3>1, SameView DEF At
  <2>7. CASE WriteRest(p) \/ ReplaceDurable(p)
    <3>1. PICK d \in Change(p) : /\ ljFile' = Content("valid", d)
                                /\ \E a : End(p, a)
      BY <2>7 DEF WriteRest, ReplaceDurable
    <3>2. Visible = ljProc[p].data /\ \A q \in LJProcs : At(q, "part") => q = p
      BY <2>7, HolderSees, WriterSees DEF WriteRest, ReplaceDurable
    <3>3. \A q \in LJProcs : ~At(q, "part")'
      BY <2>o, <3>1, <3>2 DEF Moves, At
    <3>4. Visible' = d
      BY <3>1, <3>3, ViewAfter DEF FileSays, Content
    <3>5. Store!Commit(p)
      BY <3>1, <3>2, <3>4 DEF Change, Store!Commit
    <3> QED BY <2>d, <3>5 DEF Store!JSNext
  <2>8. CASE (WriteFails(p) \/ Crash(p)) /\ At(p, "part")
    <3>1. (\E a : End(p, a)) /\ ljFile' = ljFile
      BY <2>8 DEF WriteFails, Crash
    <3>2. ~ljDurable /\ \A q \in LJProcs : At(q, "part") => q = p
      BY <2>8, WriterSees
    <3>3. \A q \in LJProcs : ~At(q, "part")'
      BY <2>o, <3>1, <3>2 DEF Moves, At
    <3>4. FileSays' = {}
      BY <2>8, <3>1 DEF FileSays, Knowledge, KnownRight
    <3>5. Visible' = {}
      BY <3>3, <3>4, ViewAfter
    <3> QED BY <2>d, <3>2, <3>5 DEF Store!JSNext, Store!Lose
  <2>9. CASE Crash(p) /\ ~At(p, "part")
    <3>1. End(p, "none") /\ FileSays' = FileSays
      BY <2>9 DEF Crash, FileSays
    <3>2. Moves(p, "idle", "block", FALSE, {}, "none")
      BY <2>o, <3>1
    <3>3. Visible' = Visible
      BY <2>9, <2>q, <3>1, <3>2
    <3> QED BY <2>d, <3>3
  <2>10. WriteFails(p) => At(p, "part")
    BY DEF WriteFails
  <2> QED BY <2>1, <2>2, <2>3, <2>4, <2>5, <2>6, <2>7, <2>8, <2>9, <2>10, <2>d DEF LJStep
<1> QED BY <1>1, <1>2

(* The fairness of its callers is not needed for it.                          *)
LEMMA JsonRefines == LJInit /\ [][LJNext]_ljVars => RefinesStore
<1>1. LJInit => Store!JSInit
  <2> SUFFICES ASSUME LJInit PROVE Store!JSInit
    OBVIOUS
  <2>1. \A q \in LJProcs : ~At(q, "part")
    BY DEF LJInit, Idle, At
  <2>2. Visible = {}
    BY <2>1, ViewBefore DEF LJInit, FileSays, Content
  <2> QED BY <2>2 DEF Store!JSInit, LJInit
<1>2. LJInv /\ [LJNext]_ljVars => [Store!JSNext]_<<Visible, ~ljDurable>>
  BY StepRefines
<1> QED BY <1>1, <1>2, InitInv, InvStep, PTL DEF RefinesStore, Store!JSSpec

(* Both protocols implement the abstract store: every step is one caller's     *)
(* change, the loss of a rebuildable cache by a cut write, or is not seen.     *)
THEOREM LockedJsonRefines == LJSpec => RefinesStore
<1> QED BY JsonRefines, PTL DEF LJSpec

-----------------------------------------------------------------------------
(* ------------------------- sources already seen ------------------------ *)

(* Until a write is cut short, what was acknowledged is in the file.  The   *)
(* hints need this and not only that each step extends the file: the first  *)
(* reader seeds the file, and would otherwise seed over an acknowledgement. *)
AckedIsKept == ~ssCut /\ ssAcked # {} => ssFile.ok /\ ssAcked \subseteq ssFile.names

SSInv == SSTypeOK /\ AckedIsKept

(* What a caller takes for seen includes everything acknowledged.           *)
LEMMA ParsedHasAcked ==
  ASSUME AckedIsKept, ~ssCut, NEW otherwise
  PROVE  ssAcked \subseteq Parsed(otherwise)
BY DEF AckedIsKept, Parsed

(* What a process holds has its type at rest and with a hint.                *)
Held == [pc : {"idle", "seed"}, initial : SUBSET SSNames, named : SUBSET SSNames,
           hint : SUBSET SSNames]

LEMMA RecordTypes ==
  /\ SSIdle \in Held
  /\ \A initial, named \in SUBSET SSNames :
       [SSIdle EXCEPT !.pc = "seed", !.initial = initial, !.named = named] \in Held
BY DEF SSIdle, Held

LEMMA StatusType ==
  ASSUME NEW p \in SSProcs, NEW seen, NEW named, Status(p, seen, named), ssProc \in [SSProcs -> Held]
  PROVE  ssProc' \in [SSProcs -> Held]
<1>1. NewSources(seen, named) \in SUBSET SSNames
  BY DEF NewSources
<1>2. [SSIdle EXCEPT !.hint = NewSources(seen, named)] \in Held
  BY <1>1, RecordTypes DEF Held
<1> QED BY <1>2 DEF Status

(* Each step keeps the types.                                               *)
LEMMA SeenTypeStep == SSTypeOK /\ [SSNext]_ssVars => SSTypeOK'
<1> SUFFICES ASSUME SSTypeOK, [SSNext]_ssVars PROVE SSTypeOK'
  OBVIOUS
<1>r. ssProc \in [SSProcs -> Held]
  BY DEF SSTypeOK, Held
<1>f. ASSUME NEW names \in SUBSET SSNames, WriteInPlace(names)
      PROVE  ssFile' \in [ok : BOOLEAN, names : SUBSET SSNames] /\ ssCut' \in BOOLEAN
  <2>1. CASE ssFile' = [ok |-> TRUE, names |-> names] /\ UNCHANGED ssCut
    BY <2>1 DEF SSTypeOK
  <2>2. CASE ssFile' = [ok |-> FALSE, names |-> {}] /\ ssCut' = TRUE
    BY <2>2
  <2> QED BY <1>f, <2>1, <2>2 DEF WriteInPlace
<1>p. ASSUME NEW otherwise \in SUBSET SSNames PROVE Parsed(otherwise) \in SUBSET SSNames
  BY DEF Parsed, SSTypeOK
<1>1. CASE UNCHANGED ssVars
  BY <1>1 DEF ssVars, SSTypeOK
<1>2. ASSUME NEW p \in SSProcs, NEW initial \in SUBSET SSNames, NEW named \in SUBSET SSNames,
             SharedRead(p, initial, named)
      PROVE  SSTypeOK'
  <2>1. ssProc' \in [SSProcs -> Held]
    BY <1>2, <1>r, RecordTypes, StatusType DEF SharedRead
  <2> QED BY <1>2, <2>1 DEF SharedRead, SSTypeOK, Held
<1>3. ASSUME NEW p \in SSProcs, Seed(p) PROVE SSTypeOK'
  <2>1. ssProc[p].initial \in SUBSET SSNames
    BY DEF SSTypeOK
  <2>2. ssFile' \in [ok : BOOLEAN, names : SUBSET SSNames] /\ ssCut' \in BOOLEAN
    BY <1>3, <1>f, <2>1 DEF Seed, SSTypeOK
  <2>3. ssProc' \in [SSProcs -> Held]
    BY <1>3, <1>r, StatusType DEF Seed
  <2> QED BY <1>3, <2>2, <2>3 DEF Seed, SSTypeOK, Held
<1>4. ASSUME NEW p \in SSProcs, NEW names \in SUBSET SSNames, NEW initial \in SUBSET SSNames,
             Acknowledge(p, names, initial)
      PROVE  SSTypeOK'
  <2>1. Parsed(initial) \cup names \in SUBSET SSNames
    BY <1>p
  <2>2. ssFile' \in [ok : BOOLEAN, names : SUBSET SSNames] /\ ssCut' \in BOOLEAN
    BY <1>4, <1>f, <2>1 DEF Acknowledge
  <2>3. ssProc' \in [SSProcs -> Held]
    BY <1>4, RecordTypes DEF Acknowledge, SSTypeOK, Held
  <2> QED BY <1>4, <2>2, <2>3 DEF Acknowledge, SSTypeOK, Held
<1> QED BY <1>1, <1>2, <1>3, <1>4 DEF SSNext

(* Each step keeps what was acknowledged in the file.                       *)
LEMMA AckedStep == SSInv /\ [SSNext]_ssVars => AckedIsKept'
<1> SUFFICES ASSUME SSTypeOK, AckedIsKept, [SSNext]_ssVars PROVE AckedIsKept'
  BY DEF SSInv
<1>1. CASE UNCHANGED ssVars
  BY <1>1 DEF ssVars, AckedIsKept
<1>2. ASSUME NEW p \in SSProcs, NEW initial, NEW named, SharedRead(p, initial, named)
      PROVE  AckedIsKept'
  BY <1>2 DEF SharedRead, AckedIsKept
<1>3. ASSUME NEW p \in SSProcs, Seed(p) PROVE AckedIsKept'
  BY <1>3 DEF Seed, WriteInPlace, AckedIsKept, SSTypeOK
<1>4. ASSUME NEW p \in SSProcs, NEW names \in SUBSET SSNames, NEW initial \in SUBSET SSNames,
             Acknowledge(p, names, initial)
      PROVE  AckedIsKept'
  <2>1. CASE ssFile' = [ok |-> TRUE, names |-> Parsed(initial) \cup names] /\ UNCHANGED ssCut
    <3>1. ~ssCut => ssAcked \subseteq Parsed(initial)
      BY ParsedHasAcked
    <3> QED BY <1>4, <2>1, <3>1 DEF Acknowledge, AckedIsKept
  <2>2. CASE ssCut'
    BY <2>2 DEF AckedIsKept
  <2> QED BY <1>4, <2>1, <2>2 DEF Acknowledge, WriteInPlace
<1> QED BY <1>1, <1>2, <1>3, <1>4 DEF SSNext

(* The hints a step adds, before any write was cut short.                   *)
LEMMA HintStep ==
  SSInv /\ [SSNext]_ssVars =>
    \A p \in SSProcs : ~ssCut => (ssProc'[p].hint \ ssProc[p].hint) \cap ssAcked = {}
<1> SUFFICES ASSUME SSTypeOK, AckedIsKept, [SSNext]_ssVars, NEW q \in SSProcs, ~ssCut
             PROVE  (ssProc'[q].hint \ ssProc[q].hint) \cap ssAcked = {}
  BY DEF SSInv
<1>t. ssProc \in [SSProcs -> [pc : {"idle", "seed"}, initial : SUBSET SSNames,
                             named : SUBSET SSNames, hint : SUBSET SSNames]]
  BY DEF SSTypeOK
<1>s. ASSUME NEW p \in SSProcs, NEW otherwise, NEW named, Status(p, Parsed(otherwise), named)
      PROVE  (ssProc'[q].hint \ ssProc[q].hint) \cap ssAcked = {}
  <2>1. ssAcked \subseteq Parsed(otherwise)
    BY ParsedHasAcked
  <2>2. CASE q = p
    BY <1>s, <1>t, <2>1, <2>2 DEF Status, NewSources, SSIdle
  <2>3. CASE q # p
    BY <1>s, <1>t, <2>3 DEF Status
  <2> QED BY <2>2, <2>3
<1>1. CASE UNCHANGED ssVars
  BY <1>1 DEF ssVars
<1>2. ASSUME NEW p \in SSProcs, NEW initial, NEW named, SharedRead(p, initial, named)
      PROVE  (ssProc'[q].hint \ ssProc[q].hint) \cap ssAcked = {}
  <2>1. CASE ssFile.ok
    <3>1. Status(p, Parsed({}), named)
      BY <1>2, <2>1 DEF SharedRead, Parsed
    <3> QED BY <1>s, <3>1
  <2>2. CASE ~ssFile.ok
    BY <1>2, <1>t, <2>2 DEF SharedRead, SSIdle
  <2> QED BY <2>1, <2>2
<1>3. ASSUME NEW p \in SSProcs, Seed(p)
      PROVE  (ssProc'[q].hint \ ssProc[q].hint) \cap ssAcked = {}
  <2>1. Status(p, Parsed(ssProc[p].initial), ssProc[p].named)
    BY <1>3 DEF Seed
  <2> QED BY <1>s, <2>1
<1>4. ASSUME NEW p \in SSProcs, NEW names, NEW initial, Acknowledge(p, names, initial)
      PROVE  (ssProc'[q].hint \ ssProc[q].hint) \cap ssAcked = {}
  BY <1>4, <1>t DEF Acknowledge, SSIdle
<1> QED BY <1>1, <1>2, <1>3, <1>4 DEF SSNext

(* The inductive invariant holds in every state of every behaviour.          *)
THEOREM SeenSourcesInvariant == SSSpec => []SSInv
<1>1. SSInit => SSInv
  <2>1. SSIdle \in Held
    BY RecordTypes
  <2> SUFFICES ASSUME SSInit PROVE SSInv
    OBVIOUS
  <2>2. ssProc \in [SSProcs -> Held]
    BY <2>1 DEF SSInit
  <2> QED BY <2>2 DEF SSInit, SSInv, SSTypeOK, AckedIsKept, Held
<1>2. SSInv /\ [SSNext]_ssVars => SSInv'
  BY SeenTypeStep, AckedStep DEF SSInv
<1> QED BY <1>1, <1>2, PTL DEF SSSpec

(* A source the user acknowledged is never hinted at again, unless a write    *)
(* was cut short.                                                             *)
THEOREM NeverHintedAgain == SSSpec => NoHintAfterAck
<1>1. SSInv /\ [SSNext]_ssVars =>
        [\A p \in SSProcs : ~ssCut => (ssProc'[p].hint \ ssProc[p].hint) \cap ssAcked = {}]_ssVars
  BY HintStep
<1> QED BY <1>1, SeenSourcesInvariant, PTL DEF SSSpec, NoHintAfterAck

-----------------------------------------------------------------------------
(* ------------------------- the capture of commits ---------------------- *)

(* What rows, caches and runs are.                                          *)
Rows == [kind : {"git", "push"}, origin : BOOLEAN, ts : Times, since : Times,
         disc : {"complete", "partial"}, done : SUBSET ECRepos, failed : SUBSET ECRepos]
Stamps == Times \cup {ECNone}
Caches == [marker : Stamps, cursor : [ECRepos -> Stamps]]
Gots == {<<>>} \cup UNION {[S -> SUBSET Times] : S \in SUBSET ECRepos}
Runs == [pc : {"idle", "reconcile", "discover", "walk", "walked", "append", "push", "commit"},
         origin : BOOLEAN, since : Times, disc : {"complete", "partial"}, roots : SUBSET ECRepos,
         walked : SUBSET ECRepos, failed : SUBSET ECRepos, got : Gots, started : Times, stamp : Times]
CaptureTyped ==
  /\ ecNow \in Times /\ ecCommits \in [ECRepos -> SUBSET Times] /\ ecSeen \in [ECRepos -> SUBSET Times]
  /\ ecLog \in Seq(Rows) /\ ecCache \in Caches /\ ecRun \in Runs

(* The rows of pushes, each with the git row before it, and what no row has *)
(* recorded yet.                                                            *)
PushPlaces == {i \in 1..Len(ecLog) : ecLog[i].kind = "push"}
DoneIn(i) == ecLog[i - 1].done
FailedIn(i) == ecLog[i - 1].failed
Told(r, S) == \E i \in S : r \in DoneIn(i) \cup FailedIn(i)
Fails(r, S) == \E i \in S : r \in FailedIn(i) /\ \A j \in S : j > i => r \notin DoneIn(j)
Missed(r) == ecCommits[r] \ ecSeen[r]
NotAfter(x, r) == \A t \in Missed(r) : x <= t

(* A push's row follows its git row; it walked from before whatever is      *)
(* unseen, and of what it walked everything before its stamp is seen.       *)
PushRowOK(i) ==
  /\ i > 1 /\ ecLog[i - 1].kind = "git" /\ ~ecLog[i - 1].origin
  /\ ecLog[i].ts <= ecNow /\ ecLog[i].since <= ecNow
  /\ \A j \in PushPlaces : j < i => ecLog[j].ts < ecLog[i].ts
  /\ DoneIn(i) \cap FailedIn(i) = {}
  /\ ecLog[i].disc = "complete" => DoneIn(i) \cup FailedIn(i) = ECRepos
  /\ \A r \in ECRepos : NotAfter(ecLog[i].since, r)
  /\ \A r \in DoneIn(i) : NotAfter(ecLog[i].ts, r)
RowsInv ==
  /\ \A i \in PushPlaces : PushRowOK(i)
  /\ \A i \in 1..Len(ecLog) : ecLog[i].kind = "git" /\ ~ecLog[i].origin =>
       i + 1 \in PushPlaces \/ (i = Len(ecLog) /\ ecRun.pc = "push")

(* A cursor is before whatever is unseen, or a push still to be replayed    *)
(* takes it back; without a cursor the next push walks from before it, or   *)
(* the replay makes one.                                                    *)
Pending == {i \in PushPlaces : ecCache.marker = ECNone \/ ecLog[i].ts > ecCache.marker}
CursorOK(r) ==
  LET x == ecCache.cursor[r]
  IN  IF x = ECNone THEN Told(r, Pending) \/ NotAfter(GlobalSince, r)
      ELSE x <= ecNow /\ (NotAfter(x, r) \/ Fails(r, Pending))
CursorsInv ==
  /\ ecCache.marker # ECNone => \E i \in PushPlaces : ecLog[i].ts = ecCache.marker
  /\ \A r \in ECRepos : CursorOK(r)

(* What the walk of a run took.                                             *)
Cutoff(r) == IF ecRun.origin THEN ecRun.since ELSE RootSince(r, ecRun.since)
WalkInv ==
  /\ ecRun.pc \in {"walk", "walked", "append", "push", "commit"} =>
       /\ ecRun.started <= ecNow
       /\ ecRun.disc = IF ecRun.roots = ECRepos THEN "complete" ELSE "partial"
  /\ ecRun.pc \in {"append", "push", "commit"} => ecRun.stamp <= ecNow
  /\ ecRun.pc \in {"walked", "append", "push", "commit"} =>
       ecRun.walked \subseteq ecRun.roots /\ ecRun.failed = ecRun.roots \ ecRun.walked
  /\ ecRun.pc \in {"walked", "append"} =>
       /\ ecRun.got \in [ecRun.walked -> SUBSET Times]
       /\ \A r \in ecRun.walked : \A t \in ecCommits[r] : t >= Cutoff(r) => t \in ecRun.got[r]
  /\ ecRun.pc \in {"push", "commit"} => \A r \in ecRun.walked :
       \A t \in Missed(r) : t < Cutoff(r)

(* A push has replayed whatever was pending, its stamp is newer than any    *)
(* row's, and it and its cursors are before whatever is unseen.             *)
PushInv == ecRun.pc # "idle" /\ ~ecRun.origin =>
  /\ ecRun.since <= ecNow
  /\ ecRun.pc # "commit" => \A i \in PushPlaces : ecLog[i].ts < ecNow
  /\ ecRun.pc \in {"append", "push"} => \A i \in PushPlaces : ecLog[i].ts < ecRun.stamp
  /\ ecRun.pc \notin {"reconcile", "commit"} => Pending = {}
  /\ ecRun.pc # "reconcile" => \A r \in ECRepos :
       NotAfter(ecRun.since, r) /\ (ecCache.cursor[r] # ECNone => NotAfter(ecCache.cursor[r], r))
  /\ ecRun.pc = "push" => Len(ecLog) > 0 /\ ecLog[Len(ecLog)] = GitRow(ecRun)
  /\ ecRun.pc = "commit" =>
       /\ Len(ecLog) > 1 /\ Pending = {Len(ecLog)} /\ ecLog[Len(ecLog)] = PushRow(ecRun)
       /\ DoneIn(Len(ecLog)) = ecRun.walked /\ FailedIn(Len(ecLog)) = ecRun.failed

(* A recapture walks from before every cursor there is none of.             *)
RecaptureInv == ecRun.origin =>
  /\ ecRun.pc \notin {"idle", "reconcile", "push"} /\ ecRun.since <= ecNow
  /\ \A r \in ECRepos : ecCache.cursor[r] = ECNone => ecRun.since <= GlobalSince

CaptureInv == CaptureTyped /\ RowsInv /\ CursorsInv /\ WalkInv /\ PushInv /\ RecaptureInv

(* The faults the code does not guard against, see NoCommitSkipped.         *)
NoFaults == ECFaults \cap {"orphan", "narrow", "missed", "during"} = {}

-----------------------------------------------------------------------------
(* A nonempty set of numbers has a least one, and Min is it.                *)
LEMMA MinIsMember ==
  ASSUME NEW S, S \subseteq Nat, S # {}
  PROVE  Min(S) \in S /\ \A y \in S : Min(S) <= y
<1> DEFINE F == {0..x : x \in S}
<1>1. F \subseteq FiniteSubsetsOf(Nat)
  <2> SUFFICES ASSUME NEW x \in S PROVE 0..x \in SUBSET Nat /\ IsFiniteSet(0..x)
    BY DEF FiniteSubsetsOf
  <2>1. x \in Int
    OBVIOUS
  <2>2. IsFiniteSet(0..x)
    BY <2>1, FS_Interval
  <2> QED BY <2>2
<1>2. PICK U \in F : \A V \in F : ~(<<V, U>> \in StrictSubsetOrdering(Nat))
  <2>1. F # {}
    OBVIOUS
  <2>2. IsWellFoundedOn(StrictSubsetOrdering(Nat), FiniteSubsetsOf(Nat))
    BY FS_StrictSubsetOrderingWellFounded
  <2> HIDE DEF F
  <2> QED BY <1>1, <2>1, <2>2, WFMin
<1>3. PICK x \in S : U = 0..x
  OBVIOUS
<1>4. ASSUME NEW y \in S PROVE x <= y
  <2>1. CASE y < x
    <3>1. 0..y \in F /\ 0..y \subseteq 0..x /\ 0..y # 0..x
      <4>1. x \in 0..x /\ x \notin 0..y
        BY <2>1
      <4>2. 0..y \subseteq 0..x
        BY <2>1
      <4> QED BY <4>1, <4>2
    <3>2. <<0..y, 0..x>> \in StrictSubsetOrdering(Nat)
      BY <3>1 DEF StrictSubsetOrdering
    <3> QED BY <1>2, <1>3, <3>1, <3>2
  <2>2. x \in Nat /\ y \in Nat
    OBVIOUS
  <2> QED BY <2>1, <2>2
<1>5. \E z \in S : \A y \in S : z =< y
  BY <1>4
<1> HIDE DEF F
<1> QED BY <1>5 DEF Min

(* So has a greatest one a nonempty set of numbers up to some n.             *)
LEMMA MaxIsMember ==
  ASSUME NEW n \in Nat, NEW S, S \subseteq 0..n, S # {}
  PROVE  Max(S) \in S /\ \A y \in S : y <= Max(S)
<1> DEFINE F == {n - x : x \in S}
<1>0. \A x \in S : x \in 0..n /\ x \in Nat /\ n - x \in Nat
  OBVIOUS
<1>1. F \subseteq Nat /\ F # {}
  BY <1>0
<1>2. Min(F) \in F /\ \A y \in F : Min(F) <= y
  BY <1>1, MinIsMember
<1>3. PICK x \in S : Min(F) = n - x
  BY <1>2
<1>4. \A y \in S : x >= y
  <2> SUFFICES ASSUME NEW y \in S PROVE x >= y
    OBVIOUS
  <2>1. n - y \in F
    OBVIOUS
  <2>2. n - x <= n - y
    BY <1>2, <1>3, <2>1
  <2> QED BY <2>2
<1>5. Max(S) \in S /\ \A y \in S : Max(S) >= y
  BY <1>4 DEF Max
<1> HIDE DEF F
<1> QED BY <1>0, <1>5

(* A set of numbers that holds 0 and with n also n + 1 holds all.            *)
LEMMA UpFromZero ==
  ASSUME NEW S, 0 \in S, \A n \in Nat : n \in S => n + 1 \in S
  PROVE  \A n \in Nat : n \in S
<1> SUFFICES ASSUME NEW k \in Nat, k \notin S PROVE FALSE
  OBVIOUS
<1> DEFINE Out == {n \in Nat : n \notin S}
           F == {0 .. x : x \in Out}
<1>1. F \subseteq FiniteSubsetsOf(Nat) /\ F # {}
  <2>1. ASSUME NEW x \in Nat PROVE 0 .. x \subseteq Nat /\ IsFiniteSet(0 .. x)
    BY FS_Interval
  <2> QED BY <2>1 DEF FiniteSubsetsOf
<1>2. PICK U \in F : \A V \in F : ~(<<V, U>> \in StrictSubsetOrdering(Nat))
  <2>1. IsWellFoundedOn(StrictSubsetOrdering(Nat), FiniteSubsetsOf(Nat))
    BY FS_StrictSubsetOrderingWellFounded
  <2> HIDE DEF F
  <2> QED BY <1>1, <2>1, WFMin
<1>3. PICK x \in Out : U = 0 .. x
  OBVIOUS
<1>4. x - 1 \in Nat /\ x - 1 \in Out
  <2>1. x \in Nat /\ x # 0
    OBVIOUS
  <2>2. x - 1 \in Nat /\ (x - 1) + 1 = x
    BY <2>1
  <2> QED BY <2>2
<1>5. 0 .. (x - 1) \in F /\ 0 .. (x - 1) \subseteq 0 .. x /\ 0 .. (x - 1) # 0 .. x
  <2>1. x \in 0 .. x /\ x \notin 0 .. (x - 1)
    OBVIOUS
  <2> QED BY <1>4, <2>1
<1>6. <<0 .. (x - 1), 0 .. x>> \in StrictSubsetOrdering(Nat)
  BY <1>5 DEF StrictSubsetOrdering
<1> QED BY <1>2, <1>3, <1>5, <1>6


-----------------------------------------------------------------------------
LEMMA TimesAreNumbers ==
  Times \subseteq Nat /\ 0 \in Times /\ ECNone \notin Times /\ \A t \in Times : t \in Nat
BY ECNumbers DEF Times

(* An appended row changes nothing about the rows before it.                *)
LEMMA AppendedRow ==
  ASSUME NEW s \in Seq(Rows), NEW x \in Rows
  PROVE  /\ Append(s, x) \in Seq(Rows) /\ Len(s) \in Nat
         /\ Len(Append(s, x)) = Len(s) + 1
         /\ \A i \in 1..Len(s) : Append(s, x)[i] = s[i]
         /\ Append(s, x)[Len(s) + 1] = x
OBVIOUS

(* The time a cursor is moved to is neither later than now nor later than   *)
(* any time that neither the stamp nor the old cursor is later than.        *)
Clamped(stamp, old) == Min({Max({stamp} \cup IF old \in Times THEN {old} ELSE {}), ecNow})
LEMMA ClampedIs ==
  ASSUME ecNow \in Times, NEW stamp \in Times, NEW old \in Stamps
  PROVE  /\ Clamped(stamp, old) \in Times /\ Clamped(stamp, old) <= ecNow
         /\ \A t \in Times : stamp <= t /\ (old # ECNone => old <= t) => Clamped(stamp, old) <= t
<1> DEFINE S == {stamp} \cup IF old \in Times THEN {old} ELSE {}
<1>1. S \subseteq 0..ECLast /\ S # {} /\ ECLast \in Nat
  BY ECNumbers DEF Times
<1>2. Max(S) \in S
  BY <1>1, MaxIsMember
<1>3. Max(S) \in Times /\ (Max(S) = stamp \/ (old # ECNone /\ Max(S) = old))
  BY <1>2, TimesAreNumbers DEF Stamps
<1> DEFINE m == Max(S)
           T == {m, ecNow}
<1>4. Clamped(stamp, old) = Min(T)
  BY DEF Clamped
<1> HIDE DEF m, S
<1>5. T \subseteq Nat /\ T # {}
  BY <1>3, TimesAreNumbers DEF m
<1>6. Min(T) \in T /\ \A y \in T : Min(T) <= y
  BY <1>5, MinIsMember
<1>7. Min(T) \in Times /\ Min(T) <= ecNow /\ Min(T) <= m
  BY <1>3, <1>6 DEF m
<1>8. \A t \in Times : stamp <= t /\ (old # ECNone => old <= t) => Min(T) <= t
  <2> SUFFICES ASSUME NEW t \in Times, stamp <= t, old # ECNone => old <= t PROVE Min(T) <= t
    OBVIOUS
  <2>1. m <= t
    BY <1>3 DEF m
  <2>2. m \in Nat /\ t \in Nat /\ Min(T) \in Nat
    BY <1>3, <1>7, TimesAreNumbers DEF m
  <2> HIDE DEF T
  <2> QED BY <1>7, <2>1, <2>2
<1> HIDE DEF T
<1> QED BY <1>4, <1>7, <1>8

(* The three uses of Applied, and the cursors each one makes.               *)
Replaying(cache, done, failed, since, stamp) == Applied(cache, done, failed, since, stamp, TRUE, TRUE)
Committing(cache, done, failed, since, stamp) == Applied(cache, done, failed, since, stamp, TRUE, FALSE)
Recapturing(cache, done, failed, since, stamp) == Applied(cache, done, failed, since, stamp, FALSE, FALSE)
ReplayCursors(c, done, failed, since, stamp) ==
  [r \in ECRepos |-> IF r \in done THEN Clamped(stamp, c[r])
                     ELSE IF r \in failed /\ (c[r] = ECNone \/ since < c[r]) THEN since ELSE c[r]]
PushCursors(c, done, failed, since, stamp) ==
  [r \in ECRepos |-> IF r \in done THEN Clamped(stamp, c[r])
                     ELSE IF r \in failed /\ c[r] = ECNone THEN since ELSE c[r]]
RecaptureCursors(c, done, failed, since, stamp) ==
  [r \in ECRepos |-> IF r \in done /\ (c[r] = ECNone \/ since <= c[r]) THEN Clamped(stamp, c[r]) ELSE c[r]]

(* What replaying a push does to the cache, unless it has been applied.      *)
LEMMA ReplayMade ==
  ASSUME NEW cache, NEW done, NEW failed, done \cap failed = {}, NEW since, NEW stamp,
         ~(cache.marker # ECNone /\ stamp <= cache.marker)
  PROVE  Replaying(cache, done, failed, since, stamp) =
           [marker |-> stamp, cursor |-> ReplayCursors(cache.cursor, done, failed, since, stamp)]
<1>1. \A r \in ECRepos : (r \in done \ failed) <=> r \in done
  OBVIOUS
<1> QED BY <1>1 DEF Replaying, Applied, Clamped, ReplayCursors

LEMMA ReplayTyped ==
  ASSUME ecNow \in Times, NEW c \in [ECRepos -> Stamps], NEW done, NEW failed, NEW since \in Times, NEW stamp \in Times
  PROVE  ReplayCursors(c, done, failed, since, stamp) \in [ECRepos -> Stamps]
<1>1. \A r \in ECRepos : c[r] \in Stamps /\ Clamped(stamp, c[r]) \in Stamps
  BY ClampedIs DEF Stamps
<1> QED BY <1>1 DEF ReplayCursors, Stamps

(* What the commit of a push does to it.                                    *)
LEMMA CommitMade ==
  ASSUME NEW cache, NEW done, NEW failed, done \cap failed = {}, NEW since, NEW stamp,
         ~(cache.marker # ECNone /\ stamp <= cache.marker)
  PROVE  Committing(cache, done, failed, since, stamp) =
           [marker |-> stamp, cursor |-> PushCursors(cache.cursor, done, failed, since, stamp)]
<1>1. \A r \in ECRepos : (r \in done \ failed) <=> r \in done
  OBVIOUS
<1> QED BY <1>1 DEF Committing, Applied, Clamped, PushCursors

LEMMA CommitTyped ==
  ASSUME ecNow \in Times, NEW c \in [ECRepos -> Stamps], NEW done, NEW failed, NEW since \in Times, NEW stamp \in Times
  PROVE  PushCursors(c, done, failed, since, stamp) \in [ECRepos -> Stamps]
<1>1. \A r \in ECRepos : c[r] \in Stamps /\ Clamped(stamp, c[r]) \in Stamps
  BY ClampedIs DEF Stamps
<1> QED BY <1>1 DEF PushCursors, Stamps

(* What the commit of a recapture does to it.                               *)
LEMMA RecaptureMade ==
  ASSUME NEW cache, NEW done, NEW failed, done \cap failed = {}, NEW since, NEW stamp
  PROVE  Recapturing(cache, done, failed, since, stamp) =
           [marker |-> cache.marker, cursor |-> RecaptureCursors(cache.cursor, done, failed, since, stamp)]
<1>1. \A r \in ECRepos : (r \in done \ failed) <=> r \in done
  OBVIOUS
<1> QED BY <1>1 DEF Recapturing, Applied, Clamped, RecaptureCursors

LEMMA RecaptureTyped ==
  ASSUME ecNow \in Times, NEW c \in [ECRepos -> Stamps], NEW done, NEW failed, NEW since \in Times, NEW stamp \in Times
  PROVE  RecaptureCursors(c, done, failed, since, stamp) \in [ECRepos -> Stamps]
<1>1. \A r \in ECRepos : c[r] \in Stamps /\ Clamped(stamp, c[r]) \in Stamps
  BY ClampedIs DEF Stamps
<1> QED BY <1>1 DEF RecaptureCursors, Stamps
-----------------------------------------------------------------------------
(* The rows of pushes and where the next push walks from.                   *)
LEMMA RowTypes ==
  ASSUME CaptureTyped
  PROVE  /\ Len(ecLog) \in Nat /\ PushPlaces \subseteq 1..Len(ecLog)
         /\ \A i \in 1..Len(ecLog) : ecLog[i] \in Rows
BY DEF CaptureTyped, PushPlaces

LEMMA PushesAre ==
  ASSUME CaptureTyped, RowsInv
  PROVE  Pushes = PushPlaces /\ Due = Pending
BY DEF RowsInv, PushRowOK, Pushes, PushPlaces, Due, Pending

LEMMA GlobalSinceIs ==
  ASSUME CaptureTyped, RowsInv
  PROVE  /\ GlobalSince \in Times /\ GlobalSince <= ecNow
         /\ \/ \E k \in PushPlaces : /\ ecLog[k].disc = "complete" /\ GlobalSince = ecLog[k].ts
                                   /\ \A j \in PushPlaces : ecLog[j].disc = "complete" => j <= k
            \/ /\ \A j \in PushPlaces : ecLog[j].disc # "complete"
               /\ (\E k \in PushPlaces : GlobalSince = ecLog[k].since) \/ GlobalSince = 0
<1> USE TimesAreNumbers
<1>1. /\ Len(ecLog) \in Nat /\ PushPlaces \subseteq 1..Len(ecLog)
      /\ \A i \in PushPlaces : ecLog[i].ts \in Times /\ ecLog[i].since \in Times
      /\ \A i \in PushPlaces : ecLog[i].ts <= ecNow /\ ecLog[i].since <= ecNow
      /\ 0 <= ecNow
  BY RowTypes DEF Rows, RowsInv, PushRowOK, CaptureTyped
<1>2. Pushes = PushPlaces
  BY PushesAre
<1>3. ASSUME NEW S \in SUBSET PushPlaces, S # {} PROVE Max(S) \in S /\ \A y \in S : y <= Max(S)
  <2>1. S \subseteq 0..Len(ecLog)
    BY <1>1
  <2> QED BY <1>1, <1>3, <2>1, MaxIsMember
<1>4. CASE Advancing # {}
  <2>1. Max(Advancing) \in Advancing /\ \A y \in Advancing : y <= Max(Advancing)
    BY <1>2, <1>3, <1>4 DEF Advancing
  <2> QED BY <1>1, <1>2, <1>4, <2>1 DEF Advancing, GlobalSince
<1>5. CASE Advancing = {} /\ Pushes # {}
  <2>1. Max(Pushes) \in PushPlaces
    BY <1>2, <1>3, <1>5
  <2>2. GlobalSince = ecLog[Max(Pushes)].since
    BY <1>5 DEF GlobalSince
  <2> QED BY <1>1, <1>2, <1>5, <2>1, <2>2 DEF Advancing
<1>6. CASE Advancing = {} /\ Pushes = {}
  BY <1>1, <1>2, <1>6 DEF GlobalSince
<1> QED BY <1>4, <1>5, <1>6

(* Nothing unseen of a repository is before the next push, unless a later   *)
(* push than the one it walks from told of the repository.                  *)
LEMMA ToldOrBefore ==
  ASSUME CaptureTyped, RowsInv, NEW r \in ECRepos
  PROVE  \/ NotAfter(GlobalSince, r)
         \/ \E k \in PushPlaces : r \in DoneIn(k) \cup FailedIn(k) /\ GlobalSince = ecLog[k].ts
<1>1. \A k \in PushPlaces : ecLog[k].disc = "complete" => r \in DoneIn(k) \cup FailedIn(k)
  BY DEF RowsInv, PushRowOK
<1>2. \A k \in PushPlaces : NotAfter(ecLog[k].since, r)
  BY DEF RowsInv, PushRowOK
<1>3. NotAfter(0, r)
  <2>1. \A t \in Missed(r) : t \in Nat
    BY TimesAreNumbers DEF Missed, CaptureTyped
  <2> QED BY <2>1 DEF NotAfter
<1> QED BY <1>1, <1>2, <1>3, GlobalSinceIs

(* The batch of a push is the git row before its own.                       *)
LEMMA BatchIs ==
  ASSUME CaptureTyped, RowsInv, NEW i \in PushPlaces
  PROVE  Batch(i) = {i - 1}
<1> DEFINE earlier == {j \in 1..(i - 1) : ecLog[j].kind = "push"}
           first == IF earlier = {} THEN 1 ELSE Max(earlier) + 1
<1>1. /\ Len(ecLog) \in Nat /\ i \in 1..Len(ecLog) /\ i > 1
      /\ ecLog[i - 1].kind = "git" /\ ~ecLog[i - 1].origin /\ ecLog[i].kind = "push"
  BY RowTypes DEF PushPlaces, RowsInv, PushRowOK
<1>2. /\ first \in 1..(i - 1) /\ \A j \in earlier : j < first
  <2>1. CASE earlier = {}
    BY <1>1, <2>1
  <2>2. CASE earlier # {}
    <3>1. earlier \subseteq 0..i /\ i \in Nat
      BY <1>1
    <3>2. Max(earlier) \in earlier /\ \A y \in earlier : y <= Max(earlier)
      BY <2>2, <3>1, MaxIsMember
    <3>3. Max(earlier) \in 1..(i - 1) /\ Max(earlier) # i - 1
      BY <1>1, <3>2
    <3>4. first = Max(earlier) + 1
      BY <2>2
    <3> HIDE DEF first
    <3>5. \A j \in earlier : j \in Nat
      BY <3>1
    <3> HIDE DEF earlier
    <3> QED BY <1>1, <3>2, <3>3, <3>4, <3>5
  <2> QED BY <2>1, <2>2
<1>3. Batch(i) = {j \in first..i : ecLog[j].kind = "git" /\ ~ecLog[j].origin}
  BY DEF Batch
<1>4. i - 1 \in Batch(i)
  <2> HIDE DEF first
  <2> QED BY <1>1, <1>2, <1>3
<1>5. ASSUME NEW j \in Batch(i) PROVE j = i - 1
  <2>1. j \in first..i /\ ecLog[j].kind = "git" /\ ~ecLog[j].origin
    BY <1>3, <1>5
  <2>2. j \in 1..Len(ecLog) /\ j < i
    <3> HIDE DEF first
    <3>1. j \in 1..i /\ j # i
      BY <1>1, <1>2, <2>1
    <3> QED BY <1>1, <3>1
  <2>3. j + 1 \in PushPlaces
    BY <1>1, <2>1, <2>2 DEF RowsInv
  <2>4. j + 1 \in 1..Len(ecLog) /\ ecLog[j + 1].kind = "push"
    BY <2>3 DEF PushPlaces
  <2>5. j + 1 < i => j + 1 \in earlier
    BY <1>1, <2>2, <2>4
  <2>6. j + 1 < i => j + 1 < first
    BY <1>2, <2>5
  <2> HIDE DEF first, earlier
  <2> QED BY <1>1, <1>2, <2>1, <2>2, <2>6
<1> QED BY <1>4, <1>5

LEMMA BatchTold ==
  ASSUME CaptureTyped, RowsInv, NEW i \in PushPlaces
  PROVE  /\ UNION {ecLog[j].done : j \in Batch(i)} = DoneIn(i)
         /\ UNION {ecLog[j].failed : j \in Batch(i)} = FailedIn(i)
BY BatchIs DEF DoneIn, FailedIn
-----------------------------------------------------------------------------
(* The replay of pending pushes, row by row.                                *)
Played(c, i) ==
  IF i \notin Due THEN c
  ELSE Applied(c, UNION {ecLog[j].done : j \in Batch(i)}, UNION {ecLog[j].failed : j \in Batch(i)},
               ecLog[i].since, ecLog[i].ts, TRUE, TRUE)
Plays(g, n) == g[0] = ecCache /\ \A i \in 1..n : g[i] = Played(g[i - 1], i)

LEMMA ReplaysExist == \A n \in Nat : \E g : Plays(g, n)
<1> DEFINE S == {n \in Nat : \E g : Plays(g, n)}
<1>1. 0 \in S
  <2>1. Plays([i \in {0} |-> ecCache], 0)
    BY DEF Plays
  <2> QED BY <2>1
<1>2. ASSUME NEW n \in Nat, n \in S PROVE n + 1 \in S
  <2>1. PICK g : Plays(g, n)
    BY <1>2
  <2> DEFINE h == [i \in 0..n + 1 |-> IF i = n + 1 THEN Played(g[n], n + 1) ELSE g[i]]
  <2>2. h[0] = ecCache /\ h[n] = g[n]
    BY <2>1 DEF Plays
  <2>3. ASSUME NEW i \in 1..n + 1 PROVE h[i] = Played(h[i - 1], i)
    <3>1. CASE i = n + 1
      <4>1. h[i] = Played(g[n], n + 1) /\ i - 1 = n
        BY <3>1
      <4> HIDE DEF h
      <4> QED BY <2>2, <3>1, <4>1
    <3>2. CASE i # n + 1
      <4>1. i \in 1..n /\ i - 1 \in 0..n + 1 /\ i - 1 # n + 1
        BY <3>2
      <4>2. h[i] = g[i] /\ h[i - 1] = g[i - 1]
        BY <3>2, <4>1
      <4> HIDE DEF h
      <4> QED BY <2>1, <4>1, <4>2 DEF Plays
    <3> QED BY <3>1, <3>2
  <2> HIDE DEF h
  <2>4. Plays(h, n + 1)
    BY <2>2, <2>3 DEF Plays
  <2> QED BY <2>4
<1> HIDE DEF S
<1>3. \A n \in Nat : n \in S
  BY <1>1, <1>2, UpFromZero
<1> QED BY <1>3 DEF S

LEMMA ReplayPlays == ASSUME Len(ecLog) \in Nat PROVE Plays(Replay, Len(ecLog))
<1> DEFINE n == Len(ecLog)
           Body(g) == [i \in 0..n |-> IF i = 0 THEN ecCache ELSE Played(g[i - 1], i)]
<1>1. \E g : g = Body(g)
  <2>1. PICK g : Plays(g, n)
    BY ReplaysExist
  <2> DEFINE h == [i \in 0..n |-> g[i]]
  <2>2. ASSUME NEW i \in 0..n
        PROVE  h[i] = IF i = 0 THEN ecCache ELSE Played(h[i - 1], i)
    <3>1. CASE i = 0
      BY <2>1, <3>1 DEF Plays
    <3>2. CASE i # 0
      <4>1. i \in 1..n /\ i - 1 \in 0..n
        BY <3>2
      <4>2. h[i] = g[i] /\ h[i - 1] = g[i - 1]
        BY <4>1
      <4> HIDE DEF h
      <4> QED BY <2>1, <3>2, <4>1, <4>2 DEF Plays
    <3> QED BY <3>1, <3>2
  <2>3. h = [i \in 0..n |-> h[i]]
    OBVIOUS
  <2> HIDE DEF h
  <2>4. h = Body(h)
    BY <2>2, <2>3
  <2> QED BY <2>4
<1>2. Replay = CHOOSE g : g = Body(g)
  BY DEF Replay, Played
<1> HIDE DEF Body
<1>3. Replay = Body(Replay)
  BY <1>1, <1>2
<1> USE DEF Body
<1>4. 0 \in 0..n /\ \A i \in 1..n : i \in 0..n /\ i # 0
  OBVIOUS
<1> HIDE DEF n
<1>5. Plays(Replay, n)
  BY <1>3, <1>4 DEF Plays
<1> QED BY <1>5 DEF n

(* After some rows: the newest pending push among them is the marker, a     *)
(* cursor is before whatever is unseen or a later push takes it back, and   *)
(* whom a push told of has one.                                             *)
Onwards(i) == {j \in Pending : j > i}
Passed(i) == {j \in Pending : j <= i}
CursorAt(i, r) ==
  LET x == Replay[i].cursor[r]
  IN  IF x = ECNone THEN ecCache.cursor[r] = ECNone /\ ~Told(r, Passed(i))
      ELSE x <= ecNow /\ (NotAfter(x, r) \/ Fails(r, Onwards(i)))
MarkerAt(i) ==
  /\ Replay[i].marker = ecCache.marker \/ \E j \in Passed(i) : ecLog[j].ts = Replay[i].marker
  /\ \A j \in Passed(i) : Replay[i].marker # ECNone /\ ecLog[j].ts <= Replay[i].marker
PlayedTo(i) == /\ Replay[i] \in Caches /\ MarkerAt(i)
               /\ \A r \in ECRepos : CursorAt(i, r)

LEMMA PlayedStep ==
  ASSUME CaptureTyped, RowsInv, CursorsInv, NEW i \in 1..Len(ecLog), PlayedTo(i - 1)
  PROVE  PlayedTo(i)
<1> USE TimesAreNumbers
<1> DEFINE was == Replay[i - 1]
           is == Replay[i]
<1>0. /\ Len(ecLog) \in Nat /\ i \in Nat /\ Pending \subseteq PushPlaces /\ PushPlaces \subseteq 1..Len(ecLog)
      /\ \A j \in Pending : j \in Nat /\ ecLog[j] \in Rows /\ ecLog[j].ts \in Times
  BY RowTypes DEF Pending, Rows
<1>1. is = Played(was, i) /\ Due = Pending
  BY <1>0, ReplayPlays, PushesAre DEF Plays
<1>2. was \in Caches /\ MarkerAt(i - 1) /\ \A r \in ECRepos : CursorAt(i - 1, r)
  BY DEF PlayedTo
<1>3. CASE i \notin Pending
  <2>1. is = was
    BY <1>1, <1>3 DEF Played
  <2>2. Passed(i) = Passed(i - 1) /\ Onwards(i) = Onwards(i - 1)
    <3>1. \A j \in Pending : (j <= i <=> j <= i - 1) /\ (j > i <=> j > i - 1)
      BY <1>0, <1>3
    <3> QED BY <3>1 DEF Passed, Onwards
  <2> QED BY <1>2, <2>1, <2>2 DEF PlayedTo, MarkerAt, CursorAt
<1>4. CASE i \in Pending
  <2> DEFINE since == ecLog[i].since
             stamp == ecLog[i].ts
  <2>1. /\ PushRowOK(i) /\ since \in Times /\ stamp \in Times
        /\ DoneIn(i) \in SUBSET ECRepos /\ FailedIn(i) \in SUBSET ECRepos
    <3>1. PushRowOK(i)
      BY <1>0, <1>4 DEF RowsInv
    <3>2. i - 1 \in 1..Len(ecLog)
      BY <1>0, <3>1 DEF PushRowOK
    <3>3. ecLog[i] \in Rows /\ ecLog[i - 1] \in Rows
      BY <3>2, RowTypes
    <3> QED BY <3>1, <3>3 DEF Rows, DoneIn, FailedIn
  <2>2. is = Applied(was, DoneIn(i), FailedIn(i), since, stamp, TRUE, TRUE)
    BY <1>0, <1>1, <1>4, BatchTold DEF Played
  <2>3. \A j \in Passed(i - 1) : ecLog[j].ts \in Times /\ ecLog[j].ts < stamp
    <3>1. \A j \in Passed(i - 1) : j \in PushPlaces /\ ecLog[j].ts \in Times /\ j < i
      BY <1>0 DEF Passed
    <3> QED BY <2>1, <3>1 DEF PushRowOK
  <2>4. ~(was.marker # ECNone /\ stamp <= was.marker)
    <3>1. CASE was.marker = ecCache.marker
      <4>1. ecCache.marker = ECNone \/ stamp > ecCache.marker
        BY <1>4 DEF Pending
      <4>2. ecCache.marker # ECNone => ecCache.marker \in Nat
        BY DEF CaptureTyped, Caches, Stamps
      <4>3. stamp \in Nat
        BY <2>1
      <4> HIDE DEF was, stamp
      <4>4. stamp > ecCache.marker /\ ecCache.marker \in Nat => ~(stamp <= ecCache.marker)
        BY <4>3
      <4> QED BY <3>1, <4>1, <4>2, <4>4 DEF stamp
    <3>2. ASSUME NEW j \in Passed(i - 1), ecLog[j].ts = was.marker PROVE ~(stamp <= was.marker)
      <4>1. ecLog[j].ts \in Nat /\ stamp \in Nat /\ ecLog[j].ts < stamp
        BY <2>1, <2>3
      <4>2. ~(stamp <= ecLog[j].ts)
        <5> HIDE DEF stamp
        <5> QED BY <4>1
      <4> QED BY <3>2, <4>2
    <3> QED BY <1>2, <3>1, <3>2 DEF MarkerAt
  <2>5. /\ is \in Caches /\ is.marker = stamp
        /\ \A r \in ECRepos :
             is.cursor[r] = IF r \in DoneIn(i) THEN Clamped(stamp, was.cursor[r])
                            ELSE IF r \in FailedIn(i) /\ (was.cursor[r] = ECNone \/ since < was.cursor[r])
                                 THEN since ELSE was.cursor[r]
    <3>1. ecNow \in Times /\ DoneIn(i) \cap FailedIn(i) = {}
      BY <2>1 DEF CaptureTyped, PushRowOK
    <3> DEFINE done == DoneIn(i)
               failed == FailedIn(i)
    <3>2. done \in SUBSET ECRepos /\ failed \in SUBSET ECRepos /\ done \cap failed = {}
      BY <2>1, <3>1
    <3>3. is = Replaying(was, done, failed, since, stamp)
      BY <2>2 DEF Replaying
    <3>4. was \in Caches /\ since \in Times /\ stamp \in Times
      BY <1>2, <2>1
    <3> HIDE DEF was, is, since, stamp, done, failed
    <3> DEFINE cursors == ReplayCursors(was.cursor, done, failed, since, stamp)
    <3>5. is = [marker |-> stamp, cursor |-> cursors]
      BY <2>4, <3>2, <3>3, ReplayMade
    <3>6. was.cursor \in [ECRepos -> Stamps]
      BY <3>4 DEF Caches
    <3>7. cursors \in [ECRepos -> Stamps]
      BY <3>1, <3>4, <3>6, ReplayTyped
    <3>8. \A r \in ECRepos :
             cursors[r] = IF r \in done THEN Clamped(stamp, was.cursor[r])
                          ELSE IF r \in failed /\ (was.cursor[r] = ECNone \/ since < was.cursor[r])
                               THEN since ELSE was.cursor[r]
      BY DEF ReplayCursors
    <3> HIDE DEF cursors
    <3>9. is \in Caches
      BY <3>4, <3>5, <3>7 DEF Caches, Stamps
    <3> QED BY <3>5, <3>8, <3>9 DEF done, failed
  <2>6. /\ Passed(i) = Passed(i - 1) \cup {i} /\ Onwards(i - 1) = Onwards(i) \cup {i}
        /\ i \notin Onwards(i)
    <3>1. \A j \in Pending : (j <= i <=> j <= i - 1 \/ j = i) /\ (j > i - 1 <=> j > i \/ j = i)
      BY <1>0
    <3>2. ~(i > i) /\ i <= i
      BY <1>0
    <3> QED BY <1>4, <3>1, <3>2 DEF Passed, Onwards
  <2>7. MarkerAt(i)
    <3>1. \A j \in Passed(i) : ecLog[j].ts <= stamp
      <4>1. stamp \in Nat /\ \A j \in Passed(i - 1) : ecLog[j].ts \in Nat /\ ecLog[j].ts < stamp
        BY <2>1, <2>3
      <4>2. stamp <= stamp /\ \A j \in Passed(i - 1) : ecLog[j].ts <= stamp
        <5> HIDE DEF stamp
        <5> QED BY <4>1
      <4> QED BY <2>6, <4>2
    <3> QED BY <2>1, <2>5, <2>6, <3>1 DEF MarkerAt
  <2>8. ASSUME NEW r \in ECRepos PROVE CursorAt(i, r)
    <3> DEFINE x == was.cursor[r]
               y == is.cursor[r]
    <3>1. /\ x \in Stamps /\ y \in Stamps /\ ecNow \in Times /\ CursorAt(i - 1, r)
          /\ \A t \in Missed(r) : t \in Times
      BY <1>2, <2>5 DEF Caches, CaptureTyped, Missed
    <3>2. CASE r \in DoneIn(i)
      <4>1. y = Clamped(stamp, x) /\ y \in Times /\ y <= ecNow
        BY <2>1, <2>5, <3>1, <3>2, ClampedIs
      <4>2. NotAfter(stamp, r) /\ r \notin FailedIn(i)
        BY <2>1, <3>2 DEF PushRowOK
      <4>3. x = ECNone \/ NotAfter(x, r) \/ Fails(r, Onwards(i))
        <5>1. Fails(r, Onwards(i - 1)) => Fails(r, Onwards(i))
          BY <2>6, <4>2 DEF Fails
        <5> QED BY <3>1, <5>1 DEF CursorAt
      <4>4. x = ECNone \/ NotAfter(x, r) => NotAfter(y, r)
        <5>1. \A t \in Times : stamp <= t /\ (x # ECNone => x <= t) => y <= t
          BY <2>1, <3>1, <4>1, ClampedIs
        <5> HIDE DEF stamp, x, y
        <5> QED BY <3>1, <4>2, <5>1 DEF NotAfter
      <4>5. y # ECNone
        BY <4>1
      <4> HIDE DEF x
      <4> QED BY <4>1, <4>3, <4>4, <4>5 DEF CursorAt
    <3>3. CASE r \in FailedIn(i) /\ (x = ECNone \/ since < x)
      <4>1. y = since /\ NotAfter(since, r) /\ since <= ecNow
        BY <2>1, <2>5, <3>3 DEF PushRowOK
      <4> QED BY <2>1, <4>1 DEF CursorAt
    <3>4. CASE r \in FailedIn(i) /\ ~(x = ECNone \/ since < x)
      <4>1. y = x /\ NotAfter(since, r)
        BY <2>1, <2>5, <3>4 DEF PushRowOK
      <4>2. x \in Nat /\ since \in Nat /\ x # ECNone /\ ~(since < x) /\ x <= ecNow
        BY <2>1, <3>1, <3>4 DEF Stamps, CursorAt
      <4>3. NotAfter(x, r)
        <5> HIDE DEF x, since
        <5>1. \A t \in Nat : since <= t => x <= t
          BY <4>2
        <5> QED BY <3>1, <4>1, <5>1 DEF NotAfter
      <4> HIDE DEF x
      <4> QED BY <4>1, <4>2, <4>3 DEF CursorAt
    <3>5. CASE r \notin DoneIn(i) \cup FailedIn(i)
      <4>1. y = x
        BY <2>5, <3>5
      <4>2. Fails(r, Onwards(i - 1)) => Fails(r, Onwards(i))
        BY <2>6, <3>5 DEF Fails
      <4>3. Told(r, Passed(i)) => Told(r, Passed(i - 1))
        BY <2>6, <3>5 DEF Told
      <4> QED BY <3>1, <4>1, <4>2, <4>3 DEF CursorAt
    <3> QED BY <2>1, <3>2, <3>3, <3>4, <3>5
  <2> HIDE DEF was, is
  <2> QED BY <2>5, <2>7, <2>8 DEF PlayedTo, is
<1> QED BY <1>3, <1>4

LEMMA PlayedAll ==
  ASSUME CaptureTyped, RowsInv, CursorsInv
  PROVE  PlayedTo(Len(ecLog))
<1> DEFINE n == Len(ecLog)
           S == {i \in Nat : i <= n => PlayedTo(i)}
<1>1. n \in Nat /\ Pending \subseteq 1..n
  BY RowTypes DEF Pending
<1>2. PlayedTo(0)
  <2>1. Replay[0] = ecCache
    BY <1>1, ReplayPlays DEF Plays
  <2>2. Passed(0) = {} /\ Onwards(0) = Pending
    <3>1. \A j \in Pending : j > 0 /\ ~(j <= 0)
      BY <1>1
    <3> QED BY <3>1 DEF Passed, Onwards
  <2>3. ecCache \in Caches
    BY DEF CaptureTyped
  <2>4. MarkerAt(0)
    BY <2>1, <2>2 DEF MarkerAt
  <2>5. \A r \in ECRepos : CursorAt(0, r)
    BY <2>1, <2>2 DEF CursorAt, CursorsInv, CursorOK, Told
  <2> QED BY <2>1, <2>3, <2>4, <2>5 DEF PlayedTo
<1>3. ASSUME NEW i \in Nat, i \in S PROVE i + 1 \in S
  <2>1. SUFFICES ASSUME i + 1 <= n PROVE PlayedTo(i + 1)
    OBVIOUS
  <2>2. i + 1 \in 1..n /\ (i + 1) - 1 = i /\ PlayedTo(i)
    BY <1>1, <1>3, <2>1
  <2> QED BY <2>2, PlayedStep
<1>4. 0 \in S
  BY <1>2
<1> HIDE DEF S
<1>5. n \in S
  BY <1>1, <1>3, <1>4, UpFromZero
<1> QED BY <1>1, <1>5 DEF S

(* What the next push finds of a repository is before whatever is unseen,   *)
(* and nothing is pending then.                                             *)
LEMMA ReplayedIs ==
  ASSUME CaptureTyped, RowsInv, CursorsInv
  PROVE  /\ Replayed \in Caches
         /\ Replayed.marker # ECNone => \E i \in PushPlaces : ecLog[i].ts = Replayed.marker
         /\ \A i \in PushPlaces : Replayed.marker # ECNone /\ ecLog[i].ts <= Replayed.marker
         /\ \A r \in ECRepos : IF Replayed.cursor[r] = ECNone THEN NotAfter(GlobalSince, r)
                               ELSE Replayed.cursor[r] <= ecNow /\ NotAfter(Replayed.cursor[r], r)
<1> USE TimesAreNumbers
<1> DEFINE n == Len(ecLog)
<1>1. /\ n \in Nat /\ Pending \subseteq PushPlaces /\ PushPlaces \subseteq 1..n
      /\ \A i \in PushPlaces : ecLog[i].ts \in Times
  BY RowTypes DEF Pending, Rows
<1>2. Passed(n) = Pending /\ Onwards(n) = {}
  <2>1. \A j \in Pending : ~(j > n) /\ j <= n
    BY <1>1
  <2> QED BY <2>1 DEF Passed, Onwards
<1>3. Replayed = Replay[n] /\ PlayedTo(n)
  BY PlayedAll DEF Replayed
<1>4. Replayed \in Caches /\ Replayed.marker \in Stamps /\ ecCache.marker \in Stamps
  BY <1>3 DEF PlayedTo, Caches, CaptureTyped
<1>5. Replayed.marker = ecCache.marker \/ \E j \in Pending : ecLog[j].ts = Replayed.marker
  BY <1>2, <1>3 DEF PlayedTo, MarkerAt
<1>6. \A j \in Pending : Replayed.marker # ECNone /\ ecLog[j].ts <= Replayed.marker
  BY <1>2, <1>3 DEF PlayedTo, MarkerAt
<1>7. Replayed.marker # ECNone => \E i \in PushPlaces : ecLog[i].ts = Replayed.marker
  BY <1>1, <1>5 DEF CursorsInv
<1>8. ASSUME NEW i \in PushPlaces PROVE Replayed.marker # ECNone /\ ecLog[i].ts <= Replayed.marker
  <2>1. CASE i \in Pending
    BY <1>6, <2>1
  <2>2. CASE i \notin Pending
    <3>1. ecCache.marker # ECNone /\ ecLog[i].ts <= ecCache.marker
      <4>1. ecCache.marker # ECNone /\ ~(ecLog[i].ts > ecCache.marker)
        BY <2>2 DEF Pending
      <4>2. ecCache.marker \in Nat /\ ecLog[i].ts \in Nat
        BY <1>1, <1>4, <4>1 DEF Stamps
      <4> QED BY <4>1, <4>2
    <3>2. CASE Replayed.marker = ecCache.marker
      BY <3>1, <3>2
    <3>3. ASSUME NEW j \in Pending, ecLog[j].ts = Replayed.marker
          PROVE  Replayed.marker # ECNone /\ ecLog[i].ts <= Replayed.marker
      <4>1. ecLog[j].ts > ecCache.marker
        BY <3>1 DEF Pending
      <4>2. ecCache.marker \in Nat /\ ecLog[i].ts \in Nat /\ ecLog[j].ts \in Nat
        BY <1>1, <1>4, <3>1 DEF Stamps
      <4>3. ecLog[i].ts <= ecLog[j].ts
        BY <3>1, <4>1, <4>2
      <4> QED BY <3>3, <4>2, <4>3, ECNumbers
    <3> QED BY <1>5, <3>2, <3>3
  <2> QED BY <2>1, <2>2
<1>9. ASSUME NEW r \in ECRepos
      PROVE  IF Replayed.cursor[r] = ECNone THEN NotAfter(GlobalSince, r)
             ELSE Replayed.cursor[r] <= ecNow /\ NotAfter(Replayed.cursor[r], r)
  <2>1. CursorAt(n, r) /\ ~Fails(r, Onwards(n))
    BY <1>2, <1>3 DEF PlayedTo, Fails
  <2>2. CASE Replayed.cursor[r] = ECNone
    <3>1. ecCache.cursor[r] = ECNone /\ ~Told(r, Pending)
      BY <1>2, <1>3, <2>1, <2>2 DEF CursorAt
    <3>2. CursorOK(r)
      BY DEF CursorsInv
    <3> QED BY <2>2, <3>1, <3>2 DEF CursorOK
  <2>3. CASE Replayed.cursor[r] # ECNone
    BY <1>3, <2>1, <2>3 DEF CursorAt
  <2> QED BY <2>2, <2>3
<1> QED BY <1>4, <1>7, <1>8, <1>9
-----------------------------------------------------------------------------
(* Time goes on, and what is unseen is old, or is committed now.            *)
MovesOn == /\ ecNow <= ecNow'
          /\ \A r \in ECRepos : Missed(r)' \subseteq Missed(r) \cup {ecNow}

LEMMA Numbers ==
  ASSUME CaptureTyped
  PROVE  /\ ecNow \in Nat /\ ecRun.since \in Nat /\ ecRun.started \in Nat /\ ecRun.stamp \in Nat
         /\ ecRun.pc \in {"idle", "reconcile", "discover", "walk", "walked", "append", "push", "commit"}
         /\ ecRun.origin \in BOOLEAN
         /\ \A r \in ECRepos : /\ Missed(r) \subseteq Nat
                               /\ ecCache.cursor[r] # ECNone => ecCache.cursor[r] \in Nat
         /\ ecCache.marker # ECNone => ecCache.marker \in Nat
         /\ Len(ecLog) \in Nat /\ PushPlaces \subseteq 1..Len(ecLog)
         /\ \A i \in 1..Len(ecLog) : ecLog[i].ts \in Nat /\ ecLog[i].since \in Nat
<1> USE TimesAreNumbers
<1>1. ecNow \in Nat /\ ecRun.since \in Nat /\ ecRun.started \in Nat /\ ecRun.stamp \in Nat
  BY DEF CaptureTyped, Runs
<1>2. /\ ecRun.pc \in {"idle", "reconcile", "discover", "walk", "walked", "append", "push", "commit"}
      /\ ecRun.origin \in BOOLEAN
  BY DEF CaptureTyped, Runs
<1>3. ASSUME NEW r \in ECRepos
      PROVE  Missed(r) \subseteq Nat /\ (ecCache.cursor[r] # ECNone => ecCache.cursor[r] \in Nat)
  BY DEF CaptureTyped, Caches, Stamps, Missed
<1>4. ecCache.marker # ECNone => ecCache.marker \in Nat
  BY DEF CaptureTyped, Caches, Stamps
<1>5. Len(ecLog) \in Nat /\ PushPlaces \subseteq 1..Len(ecLog)
  BY RowTypes
<1>6. \A i \in 1..Len(ecLog) : ecLog[i].ts \in Nat /\ ecLog[i].since \in Nat
  BY RowTypes DEF Rows
<1> QED BY <1>1, <1>2, <1>3, <1>4, <1>5, <1>6

LEMMA BeforeStays ==
  ASSUME CaptureTyped, MovesOn, NEW r \in ECRepos, NEW x \in Nat, x <= ecNow, NotAfter(x, r)
  PROVE  \A t \in Missed(r)' : x <= t
BY Numbers DEF MovesOn, NotAfter

(* A row of a push stays as it is while rows are added.                     *)
LEMMA RowStays ==
  ASSUME CaptureTyped, MovesOn, ecNow' \in Nat, NEW i \in PushPlaces, PushRowOK(i),
         ecLog'[i] = ecLog[i], ecLog'[i - 1] = ecLog[i - 1],
         \A j \in PushPlaces' : j < i => j \in PushPlaces /\ ecLog'[j] = ecLog[j]
  PROVE  PushRowOK(i)'
<1>1. /\ i \in 1..Len(ecLog) /\ i - 1 \in 1..Len(ecLog) /\ ecNow \in Nat
      /\ ecLog[i].ts \in Nat /\ ecLog[i].since \in Nat
  BY Numbers DEF PushRowOK
<1>2. DoneIn(i)' = DoneIn(i) /\ FailedIn(i)' = FailedIn(i)
  BY DEF DoneIn, FailedIn
<1>3. DoneIn(i) \subseteq ECRepos
  BY <1>1, RowTypes DEF DoneIn, Rows
<1>4. \A r \in ECRepos : NotAfter(ecLog[i].since, r)'
  <2>1. ASSUME NEW r \in ECRepos PROVE \A t \in Missed(r)' : ecLog[i].since <= t
    BY <1>1, BeforeStays DEF PushRowOK
  <2> QED BY <2>1 DEF NotAfter
<1>5. \A r \in DoneIn(i) : NotAfter(ecLog[i].ts, r)'
  <2>1. ASSUME NEW r \in DoneIn(i) PROVE \A t \in Missed(r)' : ecLog[i].ts <= t
    BY <1>1, <1>3, BeforeStays DEF PushRowOK
  <2> QED BY <2>1 DEF NotAfter
<1>6. ecLog[i].ts <= ecNow' /\ ecLog[i].since <= ecNow'
  BY <1>1 DEF PushRowOK, MovesOn
<1> QED BY <1>2, <1>4, <1>5, <1>6 DEF PushRowOK

(* No row of a push is added, and the others stay.                          *)
LogKept == PushPlaces' = PushPlaces /\ \A i \in 1..Len(ecLog) : ecLog'[i] = ecLog[i]

LEMMA RowsFrame ==
  ASSUME CaptureTyped, RowsInv, MovesOn, LogKept, ecLog' = ecLog, ecNow' \in Nat,
         ecRun.pc = "push" => ecRun'.pc = "push"
  PROVE  RowsInv'
<1>1. PushPlaces' = PushPlaces /\ Len(ecLog)' = Len(ecLog)
  BY DEF LogKept
<1>2. ASSUME NEW i \in PushPlaces PROVE PushRowOK(i)'
  <2>1. PushRowOK(i)
    BY DEF RowsInv
  <2> QED BY <1>1, <2>1, RowStays
<1>3. \A i \in 1..Len(ecLog) : ecLog[i].kind = "git" /\ ~ecLog[i].origin =>
        i + 1 \in PushPlaces \/ (i = Len(ecLog) /\ ecRun'.pc = "push")
  BY DEF RowsInv
<1> QED BY <1>1, <1>2, <1>3 DEF RowsInv

(* While no push row is added, where the next push walks from stays.        *)
LEMMA SinceFrame ==
  ASSUME CaptureTyped, CaptureTyped', RowsInv, RowsInv', LogKept
  PROVE  GlobalSince' = GlobalSince
<1> USE DEF LogKept
<1>0. PushPlaces \subseteq 1..Len(ecLog)
  BY RowTypes
<1>1. Pushes = PushPlaces /\ Pushes' = PushPlaces
  <2>1. Pushes' = PushPlaces'
    BY DEF RowsInv, PushRowOK, Pushes, PushPlaces
  <2> QED BY <2>1, PushesAre
<1>2. Advancing' = Advancing /\ Advancing \subseteq PushPlaces
  BY <1>0, <1>1 DEF Advancing
<1>3. ASSUME NEW S \in SUBSET PushPlaces, S # {} PROVE Max(S) \in PushPlaces
  <2>1. Len(ecLog) \in Nat /\ S \subseteq 0..Len(ecLog)
    BY RowTypes
  <2> QED BY <1>3, <2>1, MaxIsMember
<1>4. Advancing # {} => Max(Advancing) \in PushPlaces
  BY <1>2, <1>3
<1>5. Pushes # {} => Max(Pushes) \in PushPlaces
  BY <1>1, <1>3
<1> QED BY <1>0, <1>1, <1>2, <1>4, <1>5 DEF GlobalSince

LEMMA CursorsFrame ==
  ASSUME CaptureTyped, CaptureTyped', RowsInv, RowsInv', CursorsInv, MovesOn, LogKept, ecCache' = ecCache
  PROVE  CursorsInv' /\ GlobalSince' = GlobalSince /\ Pending' = Pending
<1>0. \A i \in PushPlaces : /\ i \in 1..Len(ecLog) /\ i - 1 \in 1..Len(ecLog)
                          /\ ecLog'[i] = ecLog[i] /\ ecLog'[i - 1] = ecLog[i - 1]
  BY RowTypes DEF LogKept, RowsInv, PushRowOK
<1>1. PushPlaces' = PushPlaces /\ Pending' = Pending /\ Pending \subseteq PushPlaces
  BY <1>0 DEF LogKept, Pending
<1>2. GlobalSince' = GlobalSince
  BY <1>1, SinceFrame
<1>3. ASSUME NEW r \in ECRepos PROVE CursorOK(r)'
  <2>1. CursorOK(r) /\ ecNow \in Nat /\ ecNow' \in Nat
    BY Numbers, TimesAreNumbers DEF CursorsInv, CaptureTyped
  <2>2. Told(r, Pending)' = Told(r, Pending) /\ Fails(r, Pending)' = Fails(r, Pending)
    BY <1>0, <1>1 DEF Told, Fails, DoneIn, FailedIn
  <2>3. NotAfter(GlobalSince, r) => NotAfter(GlobalSince, r)'
    <3>1. GlobalSince \in Nat /\ GlobalSince <= ecNow
      BY GlobalSinceIs, TimesAreNumbers
    <3>2. NotAfter(GlobalSince, r) => \A t \in Missed(r)' : GlobalSince <= t
      BY <3>1, BeforeStays
    <3> QED BY <1>2, <3>2 DEF NotAfter
  <2>4. CASE ecCache.cursor[r] = ECNone
    BY <2>1, <2>2, <2>3, <2>4 DEF CursorOK
  <2>5. CASE ecCache.cursor[r] # ECNone
    <3> DEFINE x == ecCache.cursor[r]
    <3>1. x \in Nat /\ x <= ecNow /\ x <= ecNow'
      <4>1. x \in Nat /\ x <= ecNow
        BY <2>1, <2>5, Numbers DEF CursorOK
      <4> HIDE DEF x
      <4> QED BY <2>1, <4>1 DEF MovesOn
    <3>2. NotAfter(x, r) => \A t \in Missed(r)' : x <= t
      <4> HIDE DEF x
      <4> QED BY <3>1, BeforeStays
    <3> QED BY <2>1, <2>2, <2>5, <3>1, <3>2 DEF CursorOK, NotAfter
  <2> QED BY <2>4, <2>5
<1>4. ecCache'.marker # ECNone => \E i \in PushPlaces' : ecLog'[i].ts = ecCache'.marker
  BY <1>0, <1>1 DEF CursorsInv
<1> QED BY <1>1, <1>2, <1>3, <1>4 DEF CursorsInv
-----------------------------------------------------------------------------
(* Steps that leave the log and the cache alone.                            *)
LEMMA QuietFrame ==
  ASSUME CaptureInv, CaptureTyped', MovesOn, UNCHANGED <<ecLog, ecCache>>,
         ecRun.pc = "push" => ecRun'.pc = "push"
  PROVE  /\ RowsInv' /\ CursorsInv' /\ GlobalSince' = GlobalSince
         /\ PushPlaces' = PushPlaces /\ Pending' = Pending
<1>1. LogKept
  BY DEF LogKept, PushPlaces
<1>2. RowsInv'
  BY <1>1, RowsFrame, TimesAreNumbers DEF CaptureInv, CaptureTyped
<1> QED BY <1>1, <1>2, CursorsFrame DEF CaptureInv, LogKept

LEMMA SameUnseen ==
  ASSUME CaptureTyped, CaptureTyped', ecNow <= ecNow', UNCHANGED <<ecCommits, ecSeen>>
  PROVE  MovesOn
BY DEF MovesOn, Missed

LEMMA IdleRun == ECIdle \in Runs
<1>1. <<>> \in Gots
  BY DEF Gots
<1> QED BY <1>1, TimesAreNumbers DEF ECIdle, Runs

LEMMA TickKeeps ==
  ASSUME CaptureInv, ECTick
  PROVE  CaptureInv'
<1> USE DEF ECTick
<1>1. CaptureTyped' /\ ecNow \in Nat /\ ecNow' \in Nat /\ ecNow <= ecNow' /\ ecNow < ecNow'
  <2>1. ecNow \in 0..ECLast /\ ECLast \in Nat
    BY ECNumbers DEF CaptureInv, CaptureTyped, Times
  <2>2. ecNow' \in Times /\ ecNow < ecNow' /\ ecNow' \in Nat
    BY <2>1 DEF Times
  <2> QED BY <2>1, <2>2 DEF CaptureInv, CaptureTyped
<1>2. MovesOn
  BY <1>1, SameUnseen DEF CaptureInv
<1>3. RowsInv' /\ CursorsInv' /\ GlobalSince' = GlobalSince /\ PushPlaces' = PushPlaces /\ Pending' = Pending
  BY <1>1, <1>2, QuietFrame
<1>4. /\ ecRun.started \in Nat /\ ecRun.stamp \in Nat /\ ecRun.since \in Nat
      /\ \A i \in PushPlaces : ecLog[i].ts \in Nat
  BY Numbers DEF CaptureInv
<1>5. WalkInv'
  BY <1>1, <1>4 DEF CaptureInv, WalkInv, Cutoff, RootSince, Missed
<1>6. PushInv'
  <2>1. \A i \in PushPlaces : ecLog[i].ts < ecNow => ecLog[i].ts < ecNow'
    BY <1>1, <1>4
  <2>2. ecRun.since <= ecNow => ecRun.since <= ecNow'
    BY <1>1, <1>4
  <2> QED BY <1>3, <2>1, <2>2
         DEF CaptureInv, PushInv, NotAfter, Missed, DoneIn, FailedIn, GitRow, PushRow
<1>7. RecaptureInv'
  BY <1>1, <1>3, <1>4 DEF CaptureInv, RecaptureInv
<1> QED BY <1>1, <1>3, <1>5, <1>6, <1>7 DEF CaptureInv

LEMMA CommitKeeps ==
  ASSUME NoFaults, CaptureInv, NEW q \in ECRepos, MakeCommit(q)
  PROVE  CaptureInv'
<1> USE DEF MakeCommit
<1>1. CaptureTyped'
  BY DEF CaptureInv, CaptureTyped
<1>2. MovesOn
  <2>1. ecNow <= ecNow'
    BY TimesAreNumbers DEF CaptureInv, CaptureTyped
  <2>2. \A r \in ECRepos : ecCommits'[r] \subseteq ecCommits[r] \cup {ecNow}
    BY DEF CaptureInv, CaptureTyped
  <2> QED BY <2>1, <2>2 DEF MovesOn, Missed
<1>3. RowsInv' /\ CursorsInv' /\ GlobalSince' = GlobalSince /\ PushPlaces' = PushPlaces /\ Pending' = Pending
  BY <1>1, <1>2, QuietFrame
<1>4. ecRun.pc \in {"idle", "walk"}
  BY DEF NoFaults
<1>5. WalkInv'
  BY <1>4 DEF CaptureInv, WalkInv
<1>6. PushInv'
  <2>1. SUFFICES ASSUME ecRun.pc = "walk", ~ecRun.origin PROVE PushInv'
    BY <1>4 DEF PushInv
  <2>2. /\ ecRun.since <= ecNow /\ ecRun.since \in Nat
        /\ \A i \in PushPlaces : ecLog[i].ts < ecNow
        /\ Pending = {}
        /\ \A r \in ECRepos : NotAfter(ecRun.since, r)
                              /\ (ecCache.cursor[r] # ECNone => NotAfter(ecCache.cursor[r], r))
    BY <2>1, Numbers DEF CaptureInv, PushInv
  <2>3. ASSUME NEW r \in ECRepos
        PROVE  NotAfter(ecRun.since, r)' /\ (ecCache.cursor[r] # ECNone => NotAfter(ecCache.cursor[r], r)')
    <3>1. \A t \in Missed(r)' : ecRun.since <= t
      BY <1>2, <2>2, BeforeStays DEF CaptureInv
    <3>2. ASSUME ecCache.cursor[r] # ECNone PROVE NotAfter(ecCache.cursor[r], r)'
      <4> DEFINE x == ecCache.cursor[r]
      <4>1. x \in Nat /\ x <= ecNow /\ NotAfter(x, r)
        BY <2>2, <3>2, Numbers DEF CaptureInv, CursorsInv, CursorOK
      <4>2. \A t \in Missed(r)' : x <= t
        <5> HIDE DEF x
        <5> QED BY <1>2, <4>1, BeforeStays DEF CaptureInv
      <4> QED BY <4>2 DEF NotAfter
    <3> QED BY <3>1, <3>2 DEF NotAfter
  <2> QED BY <1>3, <2>1, <2>2, <2>3 DEF PushInv
<1>7. RecaptureInv'
  BY <1>3 DEF CaptureInv, RecaptureInv
<1> QED BY <1>1, <1>3, <1>5, <1>6, <1>7 DEF CaptureInv

(* A step that changes the run only.                                        *)
LEMMA RunFrame ==
  ASSUME CaptureInv, ecRun' \in Runs, UNCHANGED <<ecNow, ecCommits, ecLog, ecCache, ecSeen>>,
         ecRun.pc = "push" => ecRun'.pc = "push"
  PROVE  /\ CaptureTyped' /\ RowsInv' /\ CursorsInv' /\ GlobalSince' = GlobalSince
         /\ PushPlaces' = PushPlaces /\ Pending' = Pending
<1>1. CaptureTyped'
  BY DEF CaptureInv, CaptureTyped
<1>2. MovesOn
  BY <1>1, SameUnseen, TimesAreNumbers DEF CaptureInv, CaptureTyped
<1> QED BY <1>1, <1>2, QuietFrame

LEMMA StartPushKeeps ==
  ASSUME CaptureInv, StartPush
  PROVE  CaptureInv'
<1> USE DEF StartPush
<1>1. ecRun' \in Runs /\ ecRun'.pc = "reconcile" /\ ~ecRun'.origin /\ ecRun'.since = 0
  BY IdleRun DEF ECIdle, Runs
<1>2. CaptureTyped' /\ RowsInv' /\ CursorsInv' /\ PushPlaces' = PushPlaces
  BY <1>1, RunFrame
<1>3. WalkInv' /\ RecaptureInv'
  BY <1>1 DEF WalkInv, RecaptureInv
<1>4. PushInv'
  <2>1. \A i \in PushPlaces : ecLog[i].ts < ecNow
    BY PushesAre DEF CaptureInv
  <2>2. 0 <= ecNow
    BY Numbers DEF CaptureInv
  <2> QED BY <1>1, <1>2, <2>1, <2>2 DEF PushInv
<1> QED BY <1>2, <1>3, <1>4 DEF CaptureInv

LEMMA StartRecaptureKeeps ==
  ASSUME NoFaults, CaptureInv, NEW since \in Times, StartRecapture(since)
  PROVE  CaptureInv'
<1> USE DEF StartRecapture
<1>1. ecRun' \in Runs /\ ecRun'.pc = "discover" /\ ecRun'.origin /\ ecRun'.since = since
  BY IdleRun DEF ECIdle, Runs
<1>2. CaptureTyped' /\ RowsInv' /\ CursorsInv' /\ GlobalSince' = GlobalSince
  BY <1>1, RunFrame
<1>3. WalkInv' /\ PushInv'
  BY <1>1 DEF WalkInv, PushInv
<1>4. RecaptureInv'
  <2>1. \A r \in ECRepos : ecCache.cursor[r] = ECNone => since <= GlobalSince
    BY DEF NoFaults
  <2> QED BY <1>1, <1>2, <2>1 DEF RecaptureInv
<1> QED BY <1>2, <1>3, <1>4 DEF CaptureInv

LEMMA DiscoverKeeps ==
  ASSUME CaptureInv, Discover
  PROVE  CaptureInv'
<1>1. PICK roots \in SUBSET ECRepos :
        ecRun' = [ecRun EXCEPT !.pc = "walk", !.roots = roots, !.started = ecNow,
                    !.disc = IF roots = ECRepos THEN "complete" ELSE "partial"]
  BY DEF Discover
<1>2. ecRun.pc = "discover" /\ UNCHANGED <<ecNow, ecCommits, ecLog, ecCache, ecCount, ecSeen>>
  BY DEF Discover
<1>3. /\ ecRun' \in Runs /\ ecRun'.pc = "walk" /\ ecRun'.origin = ecRun.origin /\ ecRun'.since = ecRun.since
      /\ ecRun'.started = ecNow
      /\ ecRun'.disc = IF ecRun'.roots = ECRepos THEN "complete" ELSE "partial"
  BY <1>1 DEF CaptureInv, CaptureTyped, Runs
<1>4. /\ CaptureTyped' /\ RowsInv' /\ CursorsInv' /\ GlobalSince' = GlobalSince
      /\ PushPlaces' = PushPlaces /\ Pending' = Pending
  BY <1>2, <1>3, RunFrame
<1>5. WalkInv'
  BY <1>2, <1>3, Numbers DEF CaptureInv, WalkInv
<1>6. PushInv'
  BY <1>2, <1>3, <1>4 DEF CaptureInv, PushInv, NotAfter, Missed
<1>7. RecaptureInv'
  BY <1>2, <1>3, <1>4 DEF CaptureInv, RecaptureInv
<1> QED BY <1>4, <1>5, <1>6, <1>7 DEF CaptureInv

LEMMA WalkKeeps ==
  ASSUME CaptureInv, NEW walked \in SUBSET ECRepos, Walk(walked)
  PROVE  CaptureInv'
<1> DEFINE got == [r \in walked |-> {t \in ecCommits[r] : t >= Cutoff(r)}]
<1>1. /\ ecRun.pc = "walk" /\ walked \subseteq ecRun.roots
      /\ ecRun' = [ecRun EXCEPT !.pc = "walked", !.walked = walked, !.failed = ecRun.roots \ walked, !.got = got]
      /\ UNCHANGED <<ecNow, ecCommits, ecLog, ecCache, ecCount, ecSeen>>
  BY DEF Walk, Cutoff
<1>2. got \in Gots /\ got \in [walked -> SUBSET Times]
  <2>1. got \in [walked -> SUBSET Times]
    BY DEF CaptureInv, CaptureTyped
  <2> QED BY <2>1 DEF Gots
<1> HIDE DEF got
<1>3. /\ ecRun' \in Runs /\ ecRun'.pc = "walked" /\ ecRun'.origin = ecRun.origin /\ ecRun'.since = ecRun.since
      /\ ecRun'.started = ecRun.started /\ ecRun'.disc = ecRun.disc /\ ecRun'.roots = ecRun.roots
      /\ ecRun'.walked = walked /\ ecRun'.failed = ecRun.roots \ walked /\ ecRun'.got = got
  BY <1>1, <1>2 DEF CaptureInv, CaptureTyped, Runs
<1>4. /\ CaptureTyped' /\ RowsInv' /\ CursorsInv' /\ GlobalSince' = GlobalSince
      /\ PushPlaces' = PushPlaces /\ Pending' = Pending
  BY <1>1, <1>3, RunFrame
<1>5. WalkInv'
  <2>1. \A r \in walked : Cutoff(r)' = Cutoff(r)
    BY <1>1, <1>3 DEF Cutoff, RootSince
  <2>2. \A r \in walked : \A t \in ecCommits[r] : t >= Cutoff(r)' => t \in ecRun'.got[r]
    BY <1>3, <2>1 DEF got
  <2> QED BY <1>1, <1>2, <1>3, <2>2 DEF CaptureInv, WalkInv
<1>6. PushInv'
  BY <1>1, <1>3, <1>4 DEF CaptureInv, PushInv, NotAfter, Missed
<1>7. RecaptureInv'
  BY <1>1, <1>3, <1>4 DEF CaptureInv, RecaptureInv
<1> QED BY <1>4, <1>5, <1>6, <1>7 DEF CaptureInv

LEMMA StampKeeps ==
  ASSUME CaptureInv, StampPush
  PROVE  CaptureInv'
<1> USE DEF StampPush
<1>1. /\ ecRun' \in Runs /\ ecRun'.pc = "append" /\ ecRun'.origin = ecRun.origin /\ ecRun'.since = ecRun.since
      /\ ecRun'.started = ecRun.started /\ ecRun'.disc = ecRun.disc /\ ecRun'.roots = ecRun.roots
      /\ ecRun'.walked = ecRun.walked /\ ecRun'.failed = ecRun.failed /\ ecRun'.got = ecRun.got
      /\ ecRun'.stamp = ecNow
  BY DEF CaptureInv, CaptureTyped, Runs
<1>2. /\ CaptureTyped' /\ RowsInv' /\ CursorsInv' /\ GlobalSince' = GlobalSince
      /\ PushPlaces' = PushPlaces /\ Pending' = Pending
  BY <1>1, RunFrame
<1>3. WalkInv'
  <2>1. \A r \in ecRun.walked : Cutoff(r)' = Cutoff(r)
    BY <1>1 DEF Cutoff, RootSince
  <2> QED BY <1>1, <2>1, Numbers DEF CaptureInv, WalkInv
<1>4. PushInv'
  BY <1>1, <1>2 DEF CaptureInv, PushInv, NotAfter, Missed
<1>5. RecaptureInv'
  BY <1>1, <1>2 DEF CaptureInv, RecaptureInv
<1> QED BY <1>2, <1>3, <1>4, <1>5 DEF CaptureInv
-----------------------------------------------------------------------------
(* Reconciling leaves nothing pending and cursors before whatever is unseen. *)
LEMMA ReconcileKeeps ==
  ASSUME NoFaults, CaptureInv, Reconcile
  PROVE  CaptureInv'
<1> USE TimesAreNumbers
<1>0. CaptureTyped /\ RowsInv /\ CursorsInv
  BY DEF CaptureInv
<1>1. /\ ecRun.pc = "reconcile" /\ ecCache' = Replayed
      /\ ecRun' = [ecRun EXCEPT !.pc = "discover", !.since = Owed(GlobalSince)]
      /\ UNCHANGED <<ecNow, ecCommits, ecLog, ecCount, ecSeen>>
  BY DEF Reconcile, NoFaults
<1>2. ~ecRun.origin
  BY <1>1 DEF CaptureInv, RecaptureInv, CaptureTyped, Runs
<1>3. /\ ecCache' \in Caches
      /\ ecCache'.marker # ECNone => \E i \in PushPlaces : ecLog[i].ts = ecCache'.marker
      /\ \A i \in PushPlaces : ecCache'.marker # ECNone /\ ecLog[i].ts <= ecCache'.marker
      /\ \A r \in ECRepos : IF ecCache'.cursor[r] = ECNone THEN NotAfter(GlobalSince, r)
                            ELSE ecCache'.cursor[r] <= ecNow /\ NotAfter(ecCache'.cursor[r], r)
  BY <1>0, <1>1, ReplayedIs
<1> DEFINE owed == Owed(GlobalSince)
           S == {GlobalSince} \cup ({ecCache'.cursor[r] : r \in ECRepos} \ {ECNone})
<1>4. /\ owed \in S /\ \A y \in S : owed <= y
      /\ S \subseteq Times
  <2>1. S \subseteq Times
    BY <1>0, <1>3, GlobalSinceIs DEF Caches, Stamps
  <2>2. S # {} /\ S \subseteq Nat /\ owed = Min(S)
    BY <2>1 DEF Owed
  <2> HIDE DEF S, owed
  <2>3. Min(S) \in S /\ \A y \in S : Min(S) <= y
    BY <2>2, MinIsMember
  <2> QED BY <2>1, <2>2, <2>3
<1>5. /\ owed \in Times /\ owed <= GlobalSince /\ GlobalSince \in Times /\ GlobalSince <= ecNow
      /\ \A r \in ECRepos : ecCache'.cursor[r] # ECNone =>
           owed <= ecCache'.cursor[r] /\ ecCache'.cursor[r] \in Times
  <2>1. GlobalSince \in S /\ \A r \in ECRepos : ecCache'.cursor[r] # ECNone => ecCache'.cursor[r] \in S
    OBVIOUS
  <2>2. GlobalSince <= ecNow
    BY <1>0, GlobalSinceIs
  <2> HIDE DEF S, owed
  <2> QED BY <1>4, <2>1, <2>2
<1> HIDE DEF S, owed
<1>6. /\ ecRun' \in Runs /\ ecRun'.pc = "discover" /\ ecRun'.origin = ecRun.origin /\ ecRun'.since = owed
  BY <1>0, <1>1, <1>5 DEF CaptureTyped, Runs, owed
<1>7. CaptureTyped' /\ MovesOn
  <2>1. CaptureTyped'
    BY <1>0, <1>1, <1>3, <1>6 DEF CaptureTyped
  <2> QED BY <1>0, <1>1, <2>1, SameUnseen DEF CaptureTyped
<1>9. LogKept /\ PushPlaces' = PushPlaces
  BY <1>1 DEF LogKept, PushPlaces
<1>8. RowsInv'
  BY <1>0, <1>1, <1>7, <1>9, RowsFrame DEF CaptureTyped
<1>10. Pending' = {}
  <2>1. \A i \in PushPlaces : ecCache'.marker # ECNone /\ ~(ecLog[i].ts > ecCache'.marker)
    <3>1. \A i \in PushPlaces : ecLog[i].ts \in Nat
      BY <1>0, Numbers
    <3>2. ecCache'.marker # ECNone => ecCache'.marker \in Nat
      BY <1>3 DEF Caches, Stamps
    <3> QED BY <1>3, <3>1, <3>2
  <2> QED BY <1>1, <1>9, <2>1 DEF Pending
<1>11. GlobalSince' = GlobalSince
  BY <1>0, <1>1, <1>7, <1>8, <1>9, SinceFrame
<1>12. \A r \in ECRepos : Missed(r)' = Missed(r)
  BY <1>1 DEF Missed
<1>13. CursorsInv'
  BY <1>1, <1>3, <1>9, <1>11, <1>12 DEF CursorsInv, CursorOK, NotAfter
<1>14. WalkInv' /\ RecaptureInv'
  BY <1>2, <1>6 DEF WalkInv, RecaptureInv
<1>15. ASSUME NEW r \in ECRepos PROVE NotAfter(owed, r)
  <2> DEFINE x == IF ecCache'.cursor[r] = ECNone THEN GlobalSince ELSE ecCache'.cursor[r]
  <2>1. x \in Nat /\ owed \in Nat /\ owed <= x /\ NotAfter(x, r)
    BY <1>3, <1>5
  <2>2. Missed(r) \subseteq Nat
    BY <1>0, Numbers
  <2> HIDE DEF x
  <2> QED BY <2>1, <2>2 DEF NotAfter
<1>16. PushInv'
  <2>1. \A i \in PushPlaces : ecLog[i].ts < ecNow
    BY <1>1, <1>2 DEF CaptureInv, PushInv
  <2>2. owed <= ecNow
    BY <1>0, <1>5, Numbers
  <2> QED BY <1>1, <1>3, <1>6, <1>9, <1>10, <1>12, <1>15, <2>1, <2>2 DEF PushInv, NotAfter
<1> QED BY <1>7, <1>8, <1>13, <1>14, <1>16 DEF CaptureInv

(* The git row: what it recorded is seen, and what is left unseen of a      *)
(* repository it walked is older than the walk.                             *)
LEMMA AppendGitRowKeeps ==
  ASSUME CaptureInv, AppendGitRow
  PROVE  CaptureInv'
<1> USE TimesAreNumbers
<1> DEFINE n == Len(ecLog)
           row == GitRow(ecRun)
<1>0. CaptureTyped /\ RowsInv /\ CursorsInv
  BY DEF CaptureInv
<1>1. /\ ecRun.pc = "append" /\ ecLog' = Append(ecLog, row)
      /\ ecSeen' = [r \in ECRepos |-> ecSeen[r] \cup IF r \in ecRun.walked THEN ecRun.got[r] ELSE {}]
      /\ ecRun' = [ecRun EXCEPT !.pc = IF ecRun.origin THEN "commit" ELSE "push", !.got = <<>>]
      /\ UNCHANGED <<ecNow, ecCommits, ecCache, ecCount>>
  BY DEF AppendGitRow
<1>2. /\ ecRun' \in Runs /\ ecRun'.pc = (IF ecRun.origin THEN "commit" ELSE "push")
      /\ ecRun'.origin = ecRun.origin /\ ecRun'.since = ecRun.since
      /\ ecRun'.started = ecRun.started /\ ecRun'.disc = ecRun.disc /\ ecRun'.roots = ecRun.roots
      /\ ecRun'.walked = ecRun.walked /\ ecRun'.failed = ecRun.failed /\ ecRun'.stamp = ecRun.stamp
  <2>1. <<>> \in Gots
    BY DEF Gots
  <2> QED BY <1>0, <1>1, <2>1 DEF CaptureTyped, Runs
<1>3. row \in Rows /\ row.kind = "git" /\ row.origin = ecRun.origin
  BY <1>0 DEF CaptureTyped, Runs, Rows, GitRow
<1> HIDE DEF row
<1>4. /\ ecLog' \in Seq(Rows) /\ n \in Nat /\ Len(ecLog') = n + 1
      /\ \A i \in 1..n : ecLog'[i] = ecLog[i]
      /\ ecLog'[n + 1] = row
  <2>1. ecLog \in Seq(Rows)
    BY <1>0 DEF CaptureTyped
  <2> QED BY <1>1, <1>3, <2>1, AppendedRow
<1>5. \A r \in ecRun.walked : ecRun.got[r] \in SUBSET Times /\ r \in ECRepos
  BY <1>0, <1>1 DEF CaptureInv, WalkInv, CaptureTyped, Runs
<1>6. CaptureTyped'
  <2>1. ecSeen' \in [ECRepos -> SUBSET Times]
    BY <1>0, <1>1, <1>5 DEF CaptureTyped
  <2> QED BY <1>0, <1>1, <1>2, <1>4, <2>1 DEF CaptureTyped
<1>7. \A r \in ECRepos : Missed(r)' \subseteq Missed(r)
  BY <1>1 DEF Missed
<1>8. MovesOn
  BY <1>0, <1>1, <1>7 DEF MovesOn, CaptureTyped
<1>9. LogKept
  <2>1. \A i \in 1..(n + 1) : i \in 1..n \/ i = n + 1
    BY <1>4
  <2>2. \A i \in 1..n : i \in 1..(n + 1)
    BY <1>4
  <2>3. PushPlaces' = PushPlaces
    BY <1>3, <1>4, <2>1, <2>2 DEF PushPlaces
  <2> QED BY <1>4, <2>3 DEF LogKept
<1>10. RowsInv'
  <2>1. ASSUME NEW i \in PushPlaces PROVE PushRowOK(i)'
    <3>1. PushRowOK(i) /\ i \in 1..n /\ i - 1 \in 1..n
      BY <1>0, RowTypes DEF RowsInv, PushRowOK
    <3>2. \A j \in PushPlaces : j \in 1..n
      BY <1>0, RowTypes
    <3>3. ecNow' \in Nat
      BY <1>0, <1>1 DEF CaptureTyped
    <3> QED BY <1>0, <1>4, <1>8, <1>9, <3>1, <3>2, <3>3, RowStays DEF LogKept
  <2>2. ASSUME NEW i \in 1..(n + 1), ecLog'[i].kind = "git", ~ecLog'[i].origin
        PROVE  i + 1 \in PushPlaces \/ (i = n + 1 /\ ecRun'.pc = "push")
    <3>1. CASE i = n + 1
      BY <1>2, <1>3, <1>4, <2>2, <3>1
    <3>2. CASE i \in 1..n
      BY <1>0, <1>1, <1>4, <2>2, <3>2 DEF RowsInv
    <3> QED BY <1>4, <3>1, <3>2
  <2> QED BY <1>4, <1>9, <2>1, <2>2 DEF RowsInv, LogKept
<1>11. CursorsInv' /\ GlobalSince' = GlobalSince /\ Pending' = Pending /\ PushPlaces' = PushPlaces
  BY <1>0, <1>1, <1>6, <1>8, <1>9, <1>10, CursorsFrame DEF LogKept
<1>12. WalkInv'
  <2>1. ASSUME NEW r \in ecRun.walked, NEW t \in Missed(r)' PROVE t < Cutoff(r)'
    <3>1. Cutoff(r)' = Cutoff(r)
      BY <1>1, <1>2 DEF Cutoff, RootSince
    <3>2. t \in ecCommits[r] /\ t \notin ecRun.got[r] /\ r \in ECRepos
      BY <1>1, <1>5, <2>1 DEF Missed
    <3>3. ~(t >= Cutoff(r))
      BY <1>1, <3>2 DEF CaptureInv, WalkInv
    <3>4. t \in Nat /\ Cutoff(r) \in Nat
      BY <1>0, <1>7, <2>1, <3>2, Numbers DEF Cutoff, RootSince
    <3> QED BY <3>1, <3>3, <3>4
  <2>2. /\ ecRun.started <= ecNow /\ ecRun.stamp <= ecNow
        /\ ecRun.disc = IF ecRun.roots = ECRepos THEN "complete" ELSE "partial"
        /\ ecRun.walked \subseteq ecRun.roots /\ ecRun.failed = ecRun.roots \ ecRun.walked
    BY <1>1 DEF CaptureInv, WalkInv
  <2> QED BY <1>1, <1>2, <2>1, <2>2 DEF WalkInv
<1>13. PushInv'
  <2>1. SUFFICES ASSUME ~ecRun.origin PROVE PushInv'
    BY <1>2 DEF PushInv
  <2>2. /\ ecRun.since <= ecNow
        /\ \A i \in PushPlaces : ecLog[i].ts < ecNow /\ ecLog[i].ts < ecRun.stamp
        /\ Pending = {}
        /\ \A r \in ECRepos :
             NotAfter(ecRun.since, r) /\ (ecCache.cursor[r] # ECNone => NotAfter(ecCache.cursor[r], r))
    BY <1>1, <2>1 DEF CaptureInv, PushInv
  <2>3. \A i \in PushPlaces : ecLog'[i] = ecLog[i]
    BY <1>0, <1>4, RowTypes
  <2>4. ecLog'[n + 1] = GitRow(ecRun')
    BY <1>2, <1>4 DEF GitRow, row
  <2>5. n + 1 > 0
    BY <1>4
  <2>6. ASSUME NEW r \in ECRepos
        PROVE  NotAfter(ecRun.since, r)' /\ (ecCache.cursor[r] # ECNone => NotAfter(ecCache.cursor[r], r)')
    <3>1. \A t \in Missed(r)' : t \in Missed(r)
      BY <1>7
    <3>2. NotAfter(ecRun.since, r)'
      BY <1>2, <2>2, <3>1 DEF NotAfter
    <3>3. ecCache.cursor[r] # ECNone => NotAfter(ecCache.cursor[r], r)'
      BY <1>1, <2>2, <3>1 DEF NotAfter
    <3> QED BY <3>2, <3>3
  <2>7. ecRun'.pc = "push" /\ ~ecRun'.origin /\ Len(ecLog') = n + 1 /\ ecCache' = ecCache /\ ecNow' = ecNow
    BY <1>1, <1>2, <1>4, <2>1
  <2>8. \A i \in PushPlaces' : ecLog'[i].ts < ecNow' /\ ecLog'[i].ts < ecRun'.stamp
    BY <1>2, <1>11, <2>2, <2>3, <2>7
  <2>9. ecRun'.since <= ecNow' /\ Pending' = {}
    BY <1>2, <1>11, <2>2, <2>7
  <2> QED BY <2>4, <2>5, <2>6, <2>7, <2>8, <2>9 DEF PushInv
<1>14. RecaptureInv'
  BY <1>1, <1>2, <1>11 DEF CaptureInv, RecaptureInv
<1> QED BY <1>6, <1>10, <1>11, <1>12, <1>13, <1>14 DEF CaptureInv

(* The row of the push: everything of what it walked is seen.               *)
LEMMA AppendPushRowKeeps ==
  ASSUME CaptureInv, AppendPushRow
  PROVE  CaptureInv'
<1> USE TimesAreNumbers
<1> DEFINE row == PushRow(ecRun)
<1>0. CaptureTyped /\ RowsInv /\ CursorsInv
  BY DEF CaptureInv
<1>n. PICK n \in Nat, k \in Nat : n = Len(ecLog) /\ k = n + 1
  BY <1>0, RowTypes
<1>1. /\ ecRun.pc = "push" /\ ~ecRun.origin /\ ecLog' = Append(ecLog, row)
      /\ ecRun' = [ecRun EXCEPT !.pc = "commit"]
      /\ UNCHANGED <<ecNow, ecCommits, ecCache, ecCount, ecSeen>>
  BY DEF AppendPushRow, CaptureInv, RecaptureInv
<1>2. /\ ecRun' \in Runs /\ ecRun'.pc = "commit" /\ ~ecRun'.origin /\ ecRun'.since = ecRun.since
      /\ ecRun'.started = ecRun.started /\ ecRun'.disc = ecRun.disc /\ ecRun'.roots = ecRun.roots
      /\ ecRun'.walked = ecRun.walked /\ ecRun'.failed = ecRun.failed /\ ecRun'.stamp = ecRun.stamp
      /\ ecRun'.origin = ecRun.origin
  BY <1>0, <1>1 DEF CaptureTyped, Runs
<1>3. row \in Rows /\ row = PushRow(ecRun')
  BY <1>0, <1>2 DEF CaptureTyped, Runs, Rows, PushRow
<1>4. /\ row.kind = "push" /\ row.ts = ecRun.stamp /\ row.since = ecRun.since /\ row.disc = ecRun.disc
  BY DEF PushRow
<1> HIDE DEF row
<1>5. /\ ecLog' \in Seq(Rows) /\ n \in Nat /\ Len(ecLog') = k
      /\ \A i \in 1..n : ecLog'[i] = ecLog[i]
      /\ ecLog'[k] = row
  <2>1. ecLog \in Seq(Rows)
    BY <1>0 DEF CaptureTyped
  <2> QED BY <1>n, <1>1, <1>3, <2>1, AppendedRow
<1>6. CaptureTyped'
  BY <1>n, <1>0, <1>1, <1>2, <1>5 DEF CaptureTyped
<1>7. MovesOn /\ \A r \in ECRepos : Missed(r)' = Missed(r)
  BY <1>0, <1>1, <1>6, SameUnseen DEF Missed, CaptureTyped
<1>8. /\ n > 0 /\ ecLog[n] = GitRow(ecRun) /\ n \in 1..n /\ k - 1 = n /\ k > 1
      /\ ecRun.since <= ecNow /\ ecRun.stamp <= ecNow
      /\ \A i \in PushPlaces : ecLog[i].ts < ecRun.stamp
      /\ Pending = {}
      /\ ecRun.walked \subseteq ECRepos /\ ecRun.failed = ecRun.roots \ ecRun.walked
      /\ ecRun.walked \subseteq ecRun.roots
      /\ ecRun.disc = (IF ecRun.roots = ECRepos THEN "complete" ELSE "partial")
      /\ \A r \in ECRepos :
           NotAfter(ecRun.since, r) /\ (ecCache.cursor[r] # ECNone => NotAfter(ecCache.cursor[r], r))
  BY <1>n, <1>1, <1>5 DEF CaptureInv, PushInv, WalkInv, CaptureTyped, Runs
<1>9. \A r \in ecRun.walked : Missed(r) = {}
  <2>1. ASSUME NEW r \in ecRun.walked, NEW t \in Missed(r) PROVE FALSE
    <3>1. r \in ECRepos /\ t < Cutoff(r)
      BY <1>1, <1>8 DEF CaptureInv, WalkInv
    <3>2. Cutoff(r) \in Nat /\ t \in Nat /\ Cutoff(r) <= t
      BY <1>n, <1>0, <1>1, <1>8, <3>1, Numbers DEF Cutoff, RootSince, NotAfter
    <3> QED BY <3>1, <3>2
  <2> QED BY <2>1
<1>10. /\ PushPlaces' = PushPlaces \cup {k} /\ k \notin PushPlaces
       /\ \A i \in PushPlaces : i \in 1..n /\ ecLog'[i] = ecLog[i]
  <2>1. PushPlaces \subseteq 1..n /\ k \notin 1..n
    BY <1>n, <1>0, <1>5, RowTypes
  <2>2. 1..k = 1..n \cup {k}
    BY <1>n, <1>5
  <2> QED BY <1>n, <1>4, <1>5, <2>1, <2>2 DEF PushPlaces
<1>11. DoneIn(k)' = ecRun.walked /\ FailedIn(k)' = ecRun.failed
  BY <1>n, <1>5, <1>8 DEF DoneIn, FailedIn, GitRow
<1>12. PushRowOK(k)'
  <2>1. /\ ecLog'[k - 1].kind = "git" /\ ~ecLog'[k - 1].origin
    BY <1>n, <1>1, <1>5, <1>8 DEF GitRow
  <2>2. \A j \in PushPlaces' : j < k => ecLog'[j].ts < ecLog'[k].ts
    <3>1. ~(k < k)
      BY <1>n, <1>5
    <3> QED BY <1>n, <1>4, <1>5, <1>8, <1>10, <3>1
  <2>3. \A r \in ECRepos : NotAfter(ecLog[k].since, r)'
    BY <1>n, <1>4, <1>5, <1>7, <1>8 DEF NotAfter
  <2>4. \A r \in ecRun.walked : NotAfter(ecLog[k].ts, r)'
    BY <1>7, <1>8, <1>9 DEF NotAfter
  <2>5. ecRun.walked \cap ecRun.failed = {}
    BY <1>8
  <2>6. ecRun.disc = "complete" => ecRun.walked \cup ecRun.failed = ECRepos
    BY <1>8
  <2>7. ecLog'[k].ts <= ecNow' /\ ecLog'[k].since <= ecNow' /\ ecLog'[k].disc = ecRun.disc
    BY <1>n, <1>1, <1>4, <1>5, <1>8
  <2> QED BY <1>8, <1>11, <2>1, <2>2, <2>3, <2>4, <2>5, <2>6, <2>7 DEF PushRowOK
<1>13. RowsInv'
  <2>1. ASSUME NEW i \in PushPlaces PROVE PushRowOK(i)'
    <3>1. PushRowOK(i) /\ i \in 1..n /\ i - 1 \in 1..n /\ ~(k < i)
      BY <1>n, <1>0, <1>5, RowTypes DEF RowsInv, PushRowOK
    <3>2. ecNow' \in Nat
      BY <1>0, <1>1 DEF CaptureTyped
    <3> QED BY <1>n, <1>0, <1>5, <1>7, <1>10, <3>1, <3>2, RowStays
  <2>2. ASSUME NEW i \in 1..k, ecLog'[i].kind = "git", ~ecLog'[i].origin
        PROVE  i + 1 \in PushPlaces'
    <3>1. CASE i = k
      BY <1>n, <1>4, <1>5, <2>2, <3>1
    <3>2. CASE i \in 1..n
      BY <1>n, <1>0, <1>5, <1>10, <2>2, <3>2 DEF RowsInv
    <3> QED BY <1>n, <1>5, <3>1, <3>2
  <2> QED BY <1>n, <1>5, <1>10, <1>12, <2>1, <2>2 DEF RowsInv
<1>14. Pending' = {k}
  <2>1. ecCache.marker = ECNone \/ ecRun.stamp > ecCache.marker
    <3>1. SUFFICES ASSUME ecCache.marker # ECNone PROVE ecRun.stamp > ecCache.marker
      OBVIOUS
    <3>2. PICK i \in PushPlaces : ecLog[i].ts = ecCache.marker
      BY <1>0, <3>1 DEF CursorsInv
    <3>3. ecLog[i].ts \in Nat /\ ecRun.stamp \in Nat
      BY <1>n, <1>0, <1>10, Numbers
    <3> QED BY <1>8, <3>2, <3>3
  <2> QED BY <1>n, <1>1, <1>4, <1>5, <1>8, <1>10, <2>1 DEF Pending
<1>15. ecRun.disc # "complete" => GlobalSince' \in {GlobalSince, ecRun.since}
  <2>1. SUFFICES ASSUME ecRun.disc # "complete" PROVE GlobalSince' \in {GlobalSince, ecRun.since}
    OBVIOUS
  <2>2. Pushes = PushPlaces /\ Pushes' = PushPlaces'
    <3>1. Pushes' = PushPlaces'
      BY <1>13 DEF RowsInv, PushRowOK, Pushes, PushPlaces
    <3> QED BY <1>0, <3>1, PushesAre
  <2>3. Advancing' = Advancing /\ Advancing \subseteq PushPlaces
    <3> QED BY <1>n, <1>4, <1>5, <1>10, <2>1, <2>2 DEF Advancing
  <2>4. CASE Advancing # {}
    <3>1. Advancing \subseteq 0..n
      BY <1>n, <1>5, <1>10, <2>3
    <3>2. Max(Advancing) \in PushPlaces
      BY <1>n, <1>5, <2>3, <2>4, <3>1, MaxIsMember
    <3> QED BY <1>10, <2>3, <2>4, <3>2 DEF GlobalSince
  <2>5. CASE Advancing = {}
    <3>1. PushPlaces' \subseteq 0..k /\ k \in Nat /\ k \in PushPlaces' /\ PushPlaces' # {}
      BY <1>n, <1>5, <1>10
    <3> DEFINE m == Max(PushPlaces')
    <3>2. m \in PushPlaces' /\ k <= m
      BY <3>1, MaxIsMember
    <3>3. m = k
      <4> HIDE DEF m
      <4>1. m \in 0..k
        BY <3>1, <3>2
      <4> QED BY <3>1, <3>2, <4>1
    <3>4. GlobalSince' = ecLog'[k].since
      BY <2>2, <2>3, <2>5, <3>1, <3>3 DEF GlobalSince
    <3> QED BY <1>n, <1>4, <1>5, <3>4
  <2> QED BY <2>4, <2>5
<1>16. CursorsInv'
  <2>1. ASSUME NEW r \in ECRepos PROVE CursorOK(r)'
    <3>1. CASE ecCache.cursor[r] # ECNone
      BY <1>0, <1>1, <1>7, <1>8, <3>1 DEF CursorsInv, CursorOK, NotAfter
    <3>2. CASE ecCache.cursor[r] = ECNone /\ ecRun.disc = "complete"
      <4>1. r \in ecRun.walked \cup ecRun.failed
        BY <1>8, <3>2
      <4>2. Told(r, Pending)'
        BY <1>11, <1>14, <4>1 DEF Told
      <4> QED BY <1>1, <3>2, <4>2 DEF CursorOK
    <3>3. CASE ecCache.cursor[r] = ECNone /\ ecRun.disc # "complete"
      <4>1. NotAfter(GlobalSince, r) /\ NotAfter(ecRun.since, r)
        BY <1>0, <1>8, <3>3 DEF CursorsInv, CursorOK, Told
      <4>2. NotAfter(GlobalSince, r)'
        BY <1>7, <1>15, <3>3, <4>1 DEF NotAfter
      <4> QED BY <1>1, <3>3, <4>2 DEF CursorOK
    <3> QED BY <3>1, <3>2, <3>3
  <2>2. ecCache'.marker # ECNone => \E i \in PushPlaces' : ecLog'[i].ts = ecCache'.marker
    BY <1>0, <1>1, <1>10 DEF CursorsInv
  <2> QED BY <2>1, <2>2 DEF CursorsInv
<1>17. WalkInv'
  <2>1. \A r \in ecRun.walked : Missed(r)' = {}
    BY <1>7, <1>8, <1>9
  <2>2. ecRun.started <= ecNow
    BY <1>1 DEF CaptureInv, WalkInv
  <2> QED BY <1>1, <1>2, <1>8, <2>1, <2>2 DEF WalkInv
<1>18. PushInv'
  <2>1. ASSUME NEW r \in ECRepos
        PROVE  NotAfter(ecRun.since, r)' /\ (ecCache'.cursor[r] # ECNone => NotAfter(ecCache.cursor[r], r)')
    <3>1. \A t \in Missed(r)' : t \in Missed(r)
      BY <1>7
    <3>2. NotAfter(ecRun.since, r)'
      BY <1>2, <1>8, <3>1 DEF NotAfter
    <3>3. ecCache.cursor[r] # ECNone => NotAfter(ecCache.cursor[r], r)'
      BY <1>1, <1>8, <3>1 DEF NotAfter
    <3> QED BY <1>1, <3>2, <3>3
  <2>2. ecLog'[Len(ecLog')] = PushRow(ecRun') /\ Pending' = {Len(ecLog')} /\ Len(ecLog') > 1
    BY <1>n, <1>3, <1>5, <1>8, <1>14
  <2>3. DoneIn(Len(ecLog))' = ecRun'.walked /\ FailedIn(Len(ecLog))' = ecRun'.failed
    <3>1. ecLog'[k - 1].done = ecRun.walked /\ ecLog'[k - 1].failed = ecRun.failed
      BY <1>11 DEF DoneIn, FailedIn
    <3> QED BY <1>2, <1>5, <3>1 DEF DoneIn, FailedIn
  <2>4. ecRun'.since <= ecNow'
    BY <1>1, <1>2, <1>8
  <2> QED BY <1>2, <2>1, <2>2, <2>3, <2>4 DEF PushInv
<1>19. RecaptureInv'
  BY <1>2 DEF RecaptureInv
<1> QED BY <1>6, <1>13, <1>16, <1>17, <1>18, <1>19 DEF CaptureInv
-----------------------------------------------------------------------------
(* A run that ends without a git row alone in the log.                      *)
LEMMA IdleFrame ==
  ASSUME CaptureInv, ecRun.pc # "push", ecRun' = ECIdle, ecCache' \in Caches,
         UNCHANGED <<ecNow, ecCommits, ecLog, ecSeen>>, CursorsInv'
  PROVE  CaptureInv'
<1>1. /\ ecRun' \in Runs /\ ecRun'.pc = "idle" /\ ~ecRun'.origin
  BY IdleRun DEF ECIdle
<1>2. CaptureTyped'
  BY <1>1 DEF CaptureInv, CaptureTyped
<1>3. MovesOn /\ LogKept
  BY <1>2, SameUnseen, TimesAreNumbers DEF CaptureInv, CaptureTyped, LogKept, PushPlaces
<1>4. RowsInv'
  BY <1>3, RowsFrame, TimesAreNumbers DEF CaptureInv, CaptureTyped
<1>5. WalkInv' /\ PushInv' /\ RecaptureInv'
  BY <1>1 DEF WalkInv, PushInv, RecaptureInv
<1> QED BY <1>2, <1>4, <1>5 DEF CaptureInv

(* Then the rows, where the next push walks from and what is unseen stay.   *)
LEMMA IdleSame ==
  ASSUME CaptureInv, ecRun.pc # "push", ecRun' = ECIdle, ecCache' \in Caches,
         UNCHANGED <<ecNow, ecCommits, ecLog, ecSeen>>
  PROVE  GlobalSince' = GlobalSince /\ PushPlaces' = PushPlaces
<1>1. CaptureTyped'
  BY IdleRun DEF CaptureInv, CaptureTyped
<1>2. MovesOn /\ LogKept
  BY <1>1, SameUnseen, TimesAreNumbers DEF CaptureInv, CaptureTyped, LogKept, PushPlaces
<1>3. RowsInv'
  BY <1>2, RowsFrame, TimesAreNumbers DEF CaptureInv, CaptureTyped
<1> QED BY <1>1, <1>2, <1>3, SinceFrame DEF CaptureInv, LogKept

(* A repository that a pending push tells of fails in the last of them, or  *)
(* the next push walks from before whatever is unseen.                      *)
LEMMA PendingTells ==
  ASSUME CaptureTyped, RowsInv, NEW r \in ECRepos, Told(r, Pending)
  PROVE  Fails(r, Pending) \/ NotAfter(GlobalSince, r)
<1> DEFINE Tellers == {i \in Pending : r \in DoneIn(i) \cup FailedIn(i)}
<1>1. /\ Len(ecLog) \in Nat /\ Pending \subseteq PushPlaces /\ PushPlaces \subseteq 1..Len(ecLog)
      /\ \A i \in PushPlaces : i \in Nat /\ ecLog[i].ts \in Nat
      /\ ecCache.marker # ECNone => ecCache.marker \in Nat
      /\ \A t \in Missed(r) : t \in Nat
  BY Numbers DEF Pending
<1>2. PICK i \in Tellers : \A j \in Tellers : j <= i
  <2>0. Tellers # {}
    BY DEF Told
  <2>1. Tellers # {} /\ Tellers \subseteq 0..Len(ecLog)
    <3>1. 1..Len(ecLog) \subseteq 0..Len(ecLog)
      BY <1>1
    <3>2. Tellers \subseteq 1..Len(ecLog)
      BY <1>1
    <3> QED BY <2>0, <3>1, <3>2
  <2> HIDE DEF Tellers
  <2>2. Max(Tellers) \in Tellers /\ \A j \in Tellers : j <= Max(Tellers)
    BY <1>1, <2>1, MaxIsMember
  <2> QED BY <2>2
<1>3. CASE r \in FailedIn(i)
  <2>1. ASSUME NEW j \in Pending, j > i PROVE r \notin DoneIn(j)
    <3>1. j \notin Tellers
      <4>1. i \in Nat /\ j \in Nat
        BY <1>1
      <4> QED BY <1>2, <2>1, <4>1
    <3> QED BY <3>1
  <2> QED BY <1>3, <2>1 DEF Fails
<1>4. CASE r \notin FailedIn(i)
  <2>1. i \in PushPlaces /\ NotAfter(ecLog[i].ts, r)
    BY <1>1, <1>4 DEF RowsInv, PushRowOK
  <2>2. SUFFICES ASSUME NEW k \in PushPlaces, r \in DoneIn(k) \cup FailedIn(k), GlobalSince = ecLog[k].ts
                 PROVE  NotAfter(GlobalSince, r)
    BY ToldOrBefore
  <2>3. ecLog[k].ts <= ecLog[i].ts
    <3>1. CASE k \in Pending
      <4>1. k \in Tellers
        BY <2>2, <3>1
      <4>2. k <= i /\ k \in Nat /\ i \in Nat
        BY <1>1, <1>2, <4>1
      <4>3. k = i \/ ecLog[k].ts < ecLog[i].ts
        BY <2>1, <4>2 DEF RowsInv, PushRowOK
      <4> QED BY <1>1, <2>1, <4>3
    <3>2. CASE k \notin Pending
      <4>1. ecCache.marker # ECNone /\ ~(ecLog[k].ts > ecCache.marker) /\ ecLog[i].ts > ecCache.marker
        BY <3>2 DEF Pending
      <4> QED BY <1>1, <2>1, <4>1
    <3> QED BY <3>1, <3>2
  <2> QED BY <1>1, <2>1, <2>2, <2>3 DEF NotAfter
<1> QED BY <1>3, <1>4

LEMMA DiesKeeps ==
  ASSUME NoFaults, CaptureInv, ECDies
  PROVE  CaptureInv'
<1>1. /\ ecRun.pc # "push" /\ ecRun' = ECIdle
      /\ UNCHANGED <<ecNow, ecCommits, ecLog, ecCount, ecSeen>>
      /\ ecCache' = ecCache \/ ecCache' = EmptyCapture
  BY DEF ECDies, NoFaults
<1>2. ecCache' \in Caches
  BY <1>1 DEF EmptyCapture, Caches, Stamps, CaptureInv, CaptureTyped
<1>3. CursorsInv'
  <2>1. CASE ecCache' = ecCache
    BY <1>1, <2>1, RunFrame, IdleRun
  <2>2. CASE ecCache' = EmptyCapture
    <3>1. ecCache'.marker = ECNone /\ \A r \in ECRepos : ecCache'.cursor[r] = ECNone
      BY <2>2 DEF EmptyCapture
    <3>2. GlobalSince' = GlobalSince /\ PushPlaces' = PushPlaces /\ Pending' = PushPlaces
      <4>1. GlobalSince' = GlobalSince /\ PushPlaces' = PushPlaces
        BY <1>1, <1>2, IdleSame
      <4> QED BY <3>1, <4>1 DEF Pending
    <3>3. ASSUME NEW r \in ECRepos PROVE CursorOK(r)'
      <4>1. Told(r, PushPlaces) \/ NotAfter(GlobalSince, r)
        BY ToldOrBefore DEF CaptureInv, Told
      <4>2. Told(r, Pending)' \/ NotAfter(GlobalSince, r)'
        BY <1>1, <3>2, <4>1 DEF Told, NotAfter, Missed, DoneIn, FailedIn
      <4> QED BY <3>1, <4>2 DEF CursorOK
    <3> QED BY <3>1, <3>3 DEF CursorsInv
  <2> QED BY <1>1, <2>1, <2>2
<1> QED BY <1>1, <1>2, <1>3, IdleFrame

(* The commit of a push's cursors.                                          *)
LEMMA CommitPushKeeps ==
  ASSUME CaptureInv, ecRun.pc = "commit", ~ecRun.origin, ecRun' = ECIdle,
         ecCache' = Committing(ecCache, ecRun.walked, ecRun.failed, ecRun.since, ecRun.stamp),
         UNCHANGED <<ecNow, ecCommits, ecLog, ecSeen>>
  PROVE  CaptureInv'
<1> USE TimesAreNumbers
<1>0. CaptureTyped /\ RowsInv /\ CursorsInv
  BY DEF CaptureInv
<1>n. PICK n \in Nat : n = Len(ecLog)
  BY <1>0, RowTypes
<1> DEFINE walked == ecRun.walked
           failed == ecRun.failed
           since == ecRun.since
           stamp == ecRun.stamp
<1>1. /\ Pending = {n} /\ ecLog[n] = PushRow(ecRun) /\ DoneIn(n) = walked /\ FailedIn(n) = failed
      /\ n \in PushPlaces /\ PushRowOK(n) /\ ecLog[n].ts = stamp
      /\ since <= ecNow /\ stamp <= ecNow
      /\ \A r \in ECRepos : NotAfter(since, r) /\ (ecCache.cursor[r] # ECNone => NotAfter(ecCache.cursor[r], r))
  <2>1. /\ Pending = {n} /\ ecLog[n] = PushRow(ecRun) /\ DoneIn(n) = walked /\ FailedIn(n) = failed
        /\ since <= ecNow /\ stamp <= ecNow
        /\ \A r \in ECRepos : NotAfter(since, r) /\ (ecCache.cursor[r] # ECNone => NotAfter(ecCache.cursor[r], r))
    BY <1>n DEF CaptureInv, PushInv, WalkInv
  <2>2. n \in PushPlaces
    BY <2>1 DEF Pending
  <2> QED BY <1>0, <2>1, <2>2 DEF RowsInv, PushRow
<1>2. /\ walked \in SUBSET ECRepos /\ failed \in SUBSET ECRepos /\ walked \cap failed = {}
      /\ since \in Times /\ stamp \in Times /\ ecNow \in Times /\ ecCache.cursor \in [ECRepos -> Stamps]
      /\ \A r \in ECRepos : ecCache.cursor[r] \in Stamps
      /\ \A r \in ECRepos : \A t \in Missed(r) : t \in Times
  <2>1. walked \cap failed = {}
    BY <1>1 DEF PushRowOK
  <2> QED BY <1>0, <2>1 DEF CaptureTyped, Runs, Caches, Missed
<1>3. ~(ecCache.marker # ECNone /\ stamp <= ecCache.marker)
  <2>1. ecCache.marker = ECNone \/ stamp > ecCache.marker
    BY <1>1 DEF Pending
  <2> QED BY <1>0, <1>2, <2>1, Numbers
<1> DEFINE cursors == PushCursors(ecCache.cursor, walked, failed, since, stamp)
<1>4. ecCache' = [marker |-> stamp, cursor |-> cursors] /\ cursors \in [ECRepos -> Stamps]
  <2> HIDE DEF walked, failed, since, stamp
  <2>1. ecCache' = Committing(ecCache, walked, failed, since, stamp)
    BY DEF walked, failed, since, stamp
  <2>2. ecCache' = [marker |-> stamp, cursor |-> cursors]
    BY <1>2, <1>3, <2>1, CommitMade
  <2>3. cursors \in [ECRepos -> Stamps]
    BY <1>2, CommitTyped
  <2> QED BY <2>2, <2>3
<1>5. \A r \in ECRepos : cursors[r] =
        IF r \in walked THEN Clamped(stamp, ecCache.cursor[r])
        ELSE IF r \in failed /\ ecCache.cursor[r] = ECNone THEN since ELSE ecCache.cursor[r]
  BY DEF PushCursors
<1> HIDE DEF cursors, walked, failed, since, stamp
<1>6. ecCache' \in Caches
  BY <1>2, <1>4 DEF Caches, Stamps
<1>7. GlobalSince' = GlobalSince /\ PushPlaces' = PushPlaces
  BY <1>6, IdleSame
<1>8. Pending' = {}
  <2>1. ASSUME NEW i \in PushPlaces PROVE ~(ecLog[i].ts > stamp)
    <3>1. ecLog[i].ts \in Nat /\ stamp \in Nat
      BY <1>0, <1>2, Numbers
    <3>2. CASE i \in Pending
      BY <1>1, <3>1, <3>2
    <3>3. CASE i \notin Pending
      <4>1. ecCache.marker # ECNone /\ ~(ecLog[i].ts > ecCache.marker)
        BY <3>3 DEF Pending
      <4>2. ecCache.marker \in Nat
        BY <1>0, <4>1, Numbers
      <4> QED BY <1>3, <3>1, <4>1, <4>2
    <3> QED BY <3>2, <3>3
  <2> QED BY <1>2, <1>4, <1>7, <2>1 DEF Pending
<1>9. ASSUME NEW r \in ECRepos PROVE CursorOK(r)'
  <2> DEFINE x == ecCache.cursor[r]
             y == cursors[r]
  <2>0. ecCache'.cursor[r] = y /\ x \in Stamps /\ Missed(r)' = Missed(r)
    BY <1>2, <1>4 DEF Missed
  <2>1. CASE r \in walked
    <3>1. y \in Times /\ y <= ecNow /\ \A t \in Times : stamp <= t /\ (x # ECNone => x <= t) => y <= t
      BY <1>2, <1>5, <2>0, <2>1, ClampedIs
    <3>2. NotAfter(stamp, r) /\ (x # ECNone => NotAfter(x, r))
      BY <1>1, <2>1 DEF PushRowOK
    <3> HIDE DEF x, y
    <3>3. \A t \in Missed(r) : y <= t
      BY <1>2, <3>1, <3>2 DEF NotAfter
    <3>4. y # ECNone
      BY <3>1
    <3> QED BY <2>0, <3>1, <3>3, <3>4 DEF CursorOK, NotAfter
  <2>2. CASE r \in failed /\ x = ECNone
    <3>1. y = since /\ r \notin walked
      BY <1>2, <1>5, <2>2
    <3> QED BY <1>1, <1>2, <2>0, <3>1 DEF CursorOK, NotAfter
  <2>3. CASE r \notin walked /\ ~(r \in failed /\ x = ECNone)
    <3>1. y = x
      BY <1>5, <2>3
    <3>2. CASE x = ECNone
      <4>1. NotAfter(GlobalSince, r)
        BY <1>0, <1>1, <2>3, <3>2 DEF CursorsInv, CursorOK, Told
      <4>2. NotAfter(GlobalSince, r)'
        BY <1>7, <2>0, <4>1 DEF NotAfter
      <4> QED BY <2>0, <3>1, <3>2, <4>2 DEF CursorOK
    <3>3. CASE x # ECNone
      <4>1. x <= ecNow /\ NotAfter(x, r)
        BY <1>0, <1>1, <3>3 DEF CursorsInv, CursorOK
      <4> QED BY <2>0, <3>1, <3>3, <4>1 DEF CursorOK, NotAfter
    <3> QED BY <3>2, <3>3
  <2> QED BY <2>1, <2>2, <2>3
<1>10. CursorsInv'
  <2>1. ecCache'.marker = stamp /\ ecLog'[n].ts = stamp /\ n \in PushPlaces'
    BY <1>1, <1>4, <1>7
  <2> QED BY <1>9, <2>1 DEF CursorsInv
<1> QED BY <1>6, <1>10, IdleFrame

(* The commit of a recapture's cursors.                                     *)
LEMMA CommitRecaptureKeeps ==
  ASSUME CaptureInv, ecRun.pc = "commit", ecRun.origin, ecRun' = ECIdle,
         ecCache' = Recapturing(ecCache, ecRun.walked, ecRun.failed, ecRun.since, ecRun.started),
         UNCHANGED <<ecNow, ecCommits, ecLog, ecSeen>>
  PROVE  CaptureInv'
<1> USE TimesAreNumbers
<1>0. CaptureTyped /\ RowsInv /\ CursorsInv
  BY DEF CaptureInv
<1> DEFINE walked == ecRun.walked
           failed == ecRun.failed
           since == ecRun.since
           started == ecRun.started
<1>1. /\ walked \in SUBSET ECRepos /\ failed \in SUBSET ECRepos /\ walked \cap failed = {}
      /\ since \in Times /\ started \in Times /\ ecNow \in Times /\ ecCache.cursor \in [ECRepos -> Stamps]
      /\ \A r \in ECRepos : ecCache.cursor[r] \in Stamps
      /\ \A r \in ECRepos : \A t \in Missed(r) : t \in Times
      /\ ecCache.marker \in Stamps
  <2>1. walked \cap failed = {}
    BY DEF CaptureInv, WalkInv
  <2> QED BY <1>0, <2>1 DEF CaptureTyped, Runs, Caches, Missed
<1>2. /\ \A r \in walked : \A t \in Missed(r) : t < since
      /\ \A r \in ECRepos : ecCache.cursor[r] = ECNone => since <= GlobalSince
  BY DEF CaptureInv, WalkInv, RecaptureInv, Cutoff
<1> DEFINE cursors == RecaptureCursors(ecCache.cursor, walked, failed, since, started)
<1>3. ecCache' = [marker |-> ecCache.marker, cursor |-> cursors] /\ cursors \in [ECRepos -> Stamps]
  <2> HIDE DEF walked, failed, since, started
  <2>1. ecCache' = Recapturing(ecCache, walked, failed, since, started)
    BY DEF walked, failed, since, started
  <2>2. ecCache' = [marker |-> ecCache.marker, cursor |-> cursors]
    BY <1>1, <2>1, RecaptureMade
  <2>3. cursors \in [ECRepos -> Stamps]
    BY <1>1, RecaptureTyped
  <2> QED BY <2>2, <2>3
<1>4. \A r \in ECRepos : cursors[r] =
        IF r \in walked /\ (ecCache.cursor[r] = ECNone \/ since <= ecCache.cursor[r])
        THEN Clamped(started, ecCache.cursor[r]) ELSE ecCache.cursor[r]
  BY DEF RecaptureCursors
<1> HIDE DEF cursors, walked, failed, since, started
<1>5. ecCache' \in Caches /\ ecCache'.marker = ecCache.marker
  BY <1>1, <1>3 DEF Caches
<1>6. GlobalSince' = GlobalSince /\ PushPlaces' = PushPlaces /\ Pending' = Pending
  <2>1. GlobalSince' = GlobalSince /\ PushPlaces' = PushPlaces
    BY <1>5, IdleSame
  <2> QED BY <1>5, <2>1 DEF Pending
<1>7. ASSUME NEW r \in ECRepos PROVE CursorOK(r)'
  <2> DEFINE x == ecCache.cursor[r]
             y == cursors[r]
  <2>0. /\ ecCache'.cursor[r] = y /\ x \in Stamps /\ Missed(r)' = Missed(r)
        /\ Told(r, Pending)' = Told(r, Pending) /\ Fails(r, Pending)' = Fails(r, Pending)
    BY <1>1, <1>3, <1>6 DEF Missed, Told, Fails, DoneIn, FailedIn
  <2>1. CASE r \in walked /\ (x = ECNone \/ since <= x)
    <3>1. y \in Times /\ y <= ecNow
      BY <1>1, <1>4, <2>0, <2>1, ClampedIs
    <3>2. Fails(r, Pending) \/ Missed(r) = {}
      <4>1. CASE x = ECNone
        <5>1. Fails(r, Pending) \/ NotAfter(GlobalSince, r)
          BY <1>0, <4>1, PendingTells DEF CursorsInv, CursorOK
        <5>2. since <= GlobalSince /\ GlobalSince \in Nat
          BY <1>0, <1>2, <4>1, GlobalSinceIs
        <5>3. NotAfter(GlobalSince, r) => Missed(r) = {}
          <6>1. ASSUME NEW t \in Missed(r), GlobalSince <= t PROVE FALSE
            <7>1. t < since /\ t \in Nat /\ since \in Nat
              BY <1>1, <1>2, <2>1
            <7> QED BY <5>2, <6>1, <7>1
          <6> QED BY <6>1 DEF NotAfter
        <5> QED BY <5>1, <5>3
      <4>2. CASE x # ECNone
        <5>1. Fails(r, Pending) \/ NotAfter(x, r)
          BY <1>0, <4>2 DEF CursorsInv, CursorOK
        <5>2. since <= x /\ x \in Nat
          BY <2>0, <2>1, <4>2 DEF Stamps
        <5>3. NotAfter(x, r) => Missed(r) = {}
          <6>1. ASSUME NEW t \in Missed(r), x <= t PROVE FALSE
            <7>1. t < since /\ t \in Nat /\ since \in Nat
              BY <1>1, <1>2, <2>1
            <7> HIDE DEF x
            <7> QED BY <5>2, <6>1, <7>1
          <6> QED BY <6>1 DEF NotAfter
        <5> QED BY <5>1, <5>3
      <4> QED BY <4>1, <4>2
    <3>3. y # ECNone
      BY <3>1
    <3> HIDE DEF x, y
    <3> QED BY <2>0, <3>1, <3>2, <3>3 DEF CursorOK, NotAfter
  <2>2. CASE ~(r \in walked /\ (x = ECNone \/ since <= x))
    <3>1. y = x /\ CursorOK(r)
      BY <1>0, <1>4, <2>2 DEF CursorsInv
    <3> QED BY <1>6, <2>0, <3>1 DEF CursorOK, NotAfter
  <2> QED BY <2>1, <2>2
<1>8. CursorsInv'
  BY <1>0, <1>5, <1>6, <1>7 DEF CursorsInv
<1> QED BY <1>5, <1>8, IdleFrame

LEMMA CommitCursorsKeeps ==
  ASSUME CaptureInv, CommitCursors
  PROVE  CaptureInv'
<1>1. ecRun.pc = "commit" /\ ecRun' = ECIdle /\ UNCHANGED <<ecNow, ecCommits, ecLog, ecCount, ecSeen>>
  BY DEF CommitCursors
<1>2. CASE ecCache' = ecCache
  <2>1. CursorsInv'
    BY <1>1, <1>2, RunFrame, IdleRun
  <2> QED BY <1>1, <1>2, <2>1, IdleFrame DEF CaptureInv, CaptureTyped
<1>3. CASE ecCache' # ecCache /\ ecRun.origin
  <2>1. ecCache' = Applied(ecCache, ecRun.walked, ecRun.failed, ecRun.since, ecRun.started, ~ecRun.origin, FALSE)
    BY <1>3 DEF CommitCursors
  <2>2. (~ecRun.origin) = FALSE
    BY <1>3
  <2>3. ecCache' = Recapturing(ecCache, ecRun.walked, ecRun.failed, ecRun.since, ecRun.started)
    BY <2>1, <2>2 DEF Recapturing
  <2> QED BY <1>1, <1>3, <2>3, CommitRecaptureKeeps
<1>4. CASE ecCache' # ecCache /\ ~ecRun.origin
  <2>1. ecCache' = Applied(ecCache, ecRun.walked, ecRun.failed, ecRun.since, ecRun.stamp, ~ecRun.origin, FALSE)
    BY <1>4 DEF CommitCursors
  <2>2. (~ecRun.origin) = TRUE
    BY <1>4
  <2>3. ecCache' = Committing(ecCache, ecRun.walked, ecRun.failed, ecRun.since, ecRun.stamp)
    BY <2>1, <2>2 DEF Committing
  <2> QED BY <1>1, <1>4, <2>3, CommitPushKeeps
<1> QED BY <1>2, <1>3, <1>4
-----------------------------------------------------------------------------
LEMMA CaptureStarts == ECInit => CaptureInv
<1> SUFFICES ASSUME ECInit PROVE CaptureInv
  OBVIOUS
<1> USE TimesAreNumbers DEF ECInit
<1>1. CaptureTyped
  BY IdleRun DEF CaptureTyped, EmptyCapture, Caches, Stamps
<1>2. ecRun.pc = "idle" /\ ~ecRun.origin /\ ecLog = <<>> /\ Len(ecLog) = 0
  BY DEF ECIdle
<1>3. PushPlaces = {} /\ 1..Len(ecLog) = {}
  BY <1>2 DEF PushPlaces
<1>4. \A r \in ECRepos : Missed(r) = {}
  BY DEF Missed
<1>5. RowsInv /\ CursorsInv
  BY <1>3, <1>4 DEF RowsInv, CursorsInv, CursorOK, EmptyCapture, NotAfter
<1>6. WalkInv /\ PushInv /\ RecaptureInv
  BY <1>2 DEF WalkInv, PushInv, RecaptureInv
<1> QED BY <1>1, <1>5, <1>6 DEF CaptureInv

LEMMA CaptureKeeps ==
  ASSUME NoFaults, CaptureInv, [ECNext]_ecVars
  PROVE  CaptureInv'
<1>1. CASE ECTick
  BY <1>1, TickKeeps
<1>2. ASSUME NEW r \in ECRepos, MakeCommit(r) PROVE CaptureInv'
  BY <1>2, CommitKeeps
<1>3. ASSUME NEW walked \in SUBSET ECRepos, Walk(walked) PROVE CaptureInv'
  BY <1>3, WalkKeeps
<1>4. CASE StartPush
  BY <1>4, StartPushKeeps
<1>5. ASSUME NEW since \in Times, StartRecapture(since) PROVE CaptureInv'
  BY <1>5, StartRecaptureKeeps
<1>6. CASE Reconcile
  BY <1>6, ReconcileKeeps
<1>7. CASE Discover
  BY <1>7, DiscoverKeeps
<1>8. CASE StampPush
  BY <1>8, StampKeeps
<1>9. CASE AppendGitRow
  BY <1>9, AppendGitRowKeeps
<1>10. CASE AppendPushRow
  BY <1>10, AppendPushRowKeeps
<1>11. CASE CommitCursors
  BY <1>11, CommitCursorsKeeps
<1>12. CASE ECDies
  BY <1>12, DiesKeeps
<1>13. CASE UNCHANGED ecVars
  <2>1. UNCHANGED <<ecNow, ecCommits, ecLog, ecCache, ecRun, ecSeen>> /\ ecRun' \in Runs
    BY <1>13 DEF ecVars, CaptureInv, CaptureTyped
  <2>2. /\ CaptureTyped' /\ RowsInv' /\ CursorsInv' /\ GlobalSince' = GlobalSince
        /\ PushPlaces' = PushPlaces /\ Pending' = Pending
    BY <2>1, RunFrame
  <2>3. WalkInv'
    BY <2>1 DEF CaptureInv, WalkInv, Cutoff, RootSince, Missed
  <2>4. PushInv'
    BY <2>1, <2>2 DEF CaptureInv, PushInv, NotAfter, Missed, DoneIn, FailedIn
  <2>5. RecaptureInv'
    BY <2>1, <2>2 DEF CaptureInv, RecaptureInv
  <2> QED BY <2>2, <2>3, <2>4, <2>5 DEF CaptureInv
<1> QED BY <1>1, <1>2, <1>3, <1>4, <1>5, <1>6, <1>7, <1>8, <1>9, <1>10, <1>11, <1>12, <1>13 DEF ECNext

(* Where no fault the code does not guard against happens, the cache, the   *)
(* log and the run under way always fit together.                           *)
THEOREM CaptureInvariant == ASSUME NoFaults PROVE ECSpec => []CaptureInv
<1>1. ECInit => CaptureInv
  BY CaptureStarts
<1>2. CaptureInv /\ [ECNext]_ecVars => CaptureInv'
  BY CaptureKeeps
<1> QED BY <1>1, <1>2, PTL DEF ECSpec

(* No commit falls between two captures, whatever was partial, aborted,     *)
(* not written, lost or replayed before.                                    *)
THEOREM NoCommitLost == ASSUME NoFaults PROVE ECSpec => []NoCommitSkipped
<1>1. CaptureInv => NoCommitSkipped
  <2>1. SUFFICES ASSUME CaptureInv, NEW r \in ECRepos, NEW t \in ecCommits[r] \ ecSeen[r]
                 PROVE  NextCutoff(r) <= t
    BY DEF NoCommitSkipped
  <2>2. /\ Replayed.cursor[r] = ECNone => NotAfter(GlobalSince, r)
        /\ Replayed.cursor[r] # ECNone => NotAfter(Replayed.cursor[r], r)
    <3>1. CaptureTyped /\ RowsInv /\ CursorsInv
      BY <2>1 DEF CaptureInv
    <3>2. \A q \in ECRepos : IF Replayed.cursor[q] = ECNone THEN NotAfter(GlobalSince, q)
                             ELSE Replayed.cursor[q] <= ecNow /\ NotAfter(Replayed.cursor[q], q)
      BY <3>1, ReplayedIs
    <3> QED BY <2>1, <3>2
  <2>3. t \in Missed(r)
    BY <2>1 DEF Missed
  <2>4. CASE Replayed.cursor[r] = ECNone
    <3>1. NextCutoff(r) = GlobalSince
      BY <2>4 DEF NextCutoff
    <3> QED BY <2>2, <2>3, <2>4, <3>1 DEF NotAfter
  <2>5. CASE Replayed.cursor[r] # ECNone
    <3>1. NextCutoff(r) = Replayed.cursor[r]
      BY <2>5 DEF NextCutoff
    <3> QED BY <2>2, <2>3, <2>5, <3>1 DEF NotAfter
  <2> QED BY <2>4, <2>5
<1> QED BY <1>1, CaptureInvariant, PTL

-----------------------------------------------------------------------------
(* --------------------------- walks of sessions ------------------------- *)

(* Sums over a finite set, in any order.                                    *)
Sums(g, f, S) == /\ g \in [SUBSET S -> Nat] /\ g[{}] = 0
                 /\ \A s \in SUBSET S : \A x \in s : g[s] = f[x] + g[s \ {x}]

(* A family of finite subsets of S that is not empty has a member with no   *)
(* smaller one in it.                                                       *)
LEMMA SmallestSet ==
  ASSUME NEW S, IsFiniteSet(S), NEW F, F \subseteq SUBSET S, F # {}
  PROVE  \E U \in F : \A x \in U : U \ {x} \notin F
<1>1. F \subseteq FiniteSubsetsOf(S)
  <2>1. ASSUME NEW s \in F PROVE s \subseteq S /\ IsFiniteSet(s)
    BY <2>1, FS_Subset
  <2> QED BY <2>1 DEF FiniteSubsetsOf
<1>2. IsWellFoundedOn(StrictSubsetOrdering(S), FiniteSubsetsOf(S))
  BY FS_StrictSubsetOrderingWellFounded
<1>3. PICK U \in F : \A V \in F : ~(<<V, U>> \in StrictSubsetOrdering(S))
  BY <1>1, <1>2, WFMin
<1>4. ASSUME NEW x \in U, U \ {x} \in F PROVE FALSE
  <2>1. U \ {x} \subseteq U /\ U \ {x} # U /\ U \subseteq S
    BY <1>1
  <2>2. <<U \ {x}, U>> \in StrictSubsetOrdering(S)
    BY <2>1 DEF StrictSubsetOrdering
  <2> QED BY <1>3, <1>4, <2>2
<1> QED BY <1>4

LEMMA SumsExist ==
  ASSUME NEW S, IsFiniteSet(S), NEW f, \A x \in S : f[x] \in Nat
  PROVE  \E g : Sums(g, f, S)
<1> DEFINE F == {s \in SUBSET S : ~ \E g : Sums(g, f, s)}
<1>1. SUFFICES ASSUME F # {} PROVE FALSE
  OBVIOUS
<1>2. PICK U \in F : \A x \in U : U \ {x} \notin F
  <2>1. F \subseteq SUBSET S
    OBVIOUS
  <2> HIDE DEF F
  <2> QED BY <1>1, <2>1, SmallestSet
<1>3. CASE U = {}
  <2>1. Sums([s \in SUBSET U |-> 0], f, U)
    BY <1>3 DEF Sums
  <2> QED BY <2>1
<1>4. CASE U # {}
  <2>1. PICK z \in U : TRUE
    BY <1>4
  <2> DEFINE V == U \ {z}
  <2>2. PICK h : Sums(h, f, V)
    BY <1>2, <2>1
  <2> DEFINE g == [s \in SUBSET U |-> IF z \in s THEN f[z] + h[s \ {z}] ELSE h[s]]
  <2>3. f[z] \in Nat /\ \A s \in SUBSET V : h[s] \in Nat
    BY <1>2, <2>1, <2>2 DEF Sums
  <2>4. \A s \in SUBSET U : s \ {z} \in SUBSET V /\ (z \notin s => s \in SUBSET V)
    OBVIOUS
  <2>5. g \in [SUBSET U -> Nat]
    <3> HIDE DEF V
    <3> QED BY <2>3, <2>4
  <2>6. g[{}] = 0
    BY <2>2 DEF Sums
  <2>7. ASSUME NEW s \in SUBSET U, NEW x \in s PROVE g[s] = f[x] + g[s \ {x}]
    <3>1. f[x] \in Nat /\ \A t \in SUBSET V : \A y \in t : h[t] = f[y] + h[t \ {y}]
      BY <1>2, <2>2, <2>7 DEF Sums
    <3>2. s \ {x} \in SUBSET U
      OBVIOUS
    <3>3. CASE x = z
      <4>1. g[s] = f[z] + h[s \ {z}] /\ g[s \ {z}] = h[s \ {z}]
        BY <3>2, <3>3
      <4> HIDE DEF g
      <4> QED BY <3>3, <4>1
    <3>4. CASE x # z /\ z \in s
      <4>1. g[s] = f[z] + h[s \ {z}] /\ g[s \ {x}] = f[z] + h[(s \ {x}) \ {z}]
        BY <3>2, <3>4
      <4>2. (s \ {x}) \ {z} = (s \ {z}) \ {x} /\ s \ {z} \in SUBSET V /\ x \in s \ {z} /\ (s \ {z}) \ {x} \in SUBSET V
        BY <3>4
      <4>3. h[s \ {z}] = f[x] + h[(s \ {z}) \ {x}] /\ h[(s \ {z}) \ {x}] \in Nat
        BY <2>3, <3>1, <4>2
      <4> HIDE DEF g, V
      <4> QED BY <2>3, <3>1, <4>1, <4>2, <4>3
    <3>5. CASE z \notin s
      <4>1. g[s] = h[s] /\ g[s \ {x}] = h[s \ {x}] /\ s \in SUBSET V
        BY <3>2, <3>5
      <4> HIDE DEF g, V
      <4> QED BY <3>1, <4>1
    <3> QED BY <3>3, <3>4, <3>5
  <2> HIDE DEF g
  <2>8. Sums(g, f, U)
    BY <2>5, <2>6, <2>7 DEF Sums
  <2> QED BY <2>8
<1> QED BY <1>3, <1>4

LEMMA SumIs ==
  ASSUME NEW S, IsFiniteSet(S), NEW f, NEW g, Sums(g, f, S)
  PROVE  SumFunctionOnSet(f, S) = g[S]
<1> DEFINE Body(h) == [s \in SUBSET S |-> IF s = {} THEN 0
                         ELSE f[CHOOSE x \in s : TRUE] + h[s \ {CHOOSE x \in s : TRUE}]]
           iter == CHOOSE h : h = Body(h)
<1>1. SumFunctionOnSet(f, S) = iter[S]
  BY DEF SumFunctionOnSet, FoldFunctionOnSet, MapThenFoldSet
<1>2. \A s \in SUBSET S : s # {} => (CHOOSE x \in s : TRUE) \in s
  OBVIOUS
<1>3. g = Body(g)
  <2>1. g = [s \in SUBSET S |-> g[s]]
    BY DEF Sums
  <2>2. ASSUME NEW s \in SUBSET S
        PROVE  g[s] = IF s = {} THEN 0 ELSE f[CHOOSE x \in s : TRUE] + g[s \ {CHOOSE x \in s : TRUE}]
    BY <1>2 DEF Sums
  <2> QED BY <2>1, <2>2
<1> HIDE DEF Body
<1>4. iter = Body(iter)
  BY <1>3
<1> HIDE DEF iter
<1> USE DEF Body
<1>5. \A s \in SUBSET S : iter[s] = g[s]
  <2> DEFINE F == {s \in SUBSET S : iter[s] # g[s]}
  <2>1. SUFFICES ASSUME F # {} PROVE FALSE
    OBVIOUS
  <2>2. PICK U \in F : \A x \in U : U \ {x} \notin F
    <3>1. F \subseteq SUBSET S
      OBVIOUS
    <3> HIDE DEF F
    <3> QED BY <2>1, <3>1, SmallestSet
  <2>3. U # {}
    <3>1. iter[{}] = 0 /\ g[{}] = 0
      BY <1>4 DEF Sums
    <3> QED BY <3>1
  <2> DEFINE c == CHOOSE x \in U : TRUE
  <2>4. c \in U /\ U \in SUBSET S /\ U \ {c} \in SUBSET S
    BY <1>2, <2>3
  <2>5. iter[U] = f[c] + iter[U \ {c}]
    BY <1>4, <2>3, <2>4
  <2>6. g[U] = f[c] + g[U \ {c}]
    BY <2>4 DEF Sums
  <2>7. iter[U \ {c}] = g[U \ {c}]
    <3> HIDE DEF c
    <3> QED BY <2>2, <2>4
  <2> HIDE DEF c
  <2> QED BY <2>2, <2>5, <2>6, <2>7
<1> QED BY <1>1, <1>5

(* What a sum over a finite set is: nothing for no element, and with one    *)
(* element more it grows by that one.                                       *)
LEMMA SumStep ==
  ASSUME NEW S, IsFiniteSet(S), NEW f, \A x \in S : f[x] \in Nat
  PROVE  /\ SumFunctionOnSet(f, S) \in Nat
         /\ S = {} => SumFunctionOnSet(f, S) = 0
         /\ \A x \in S : SumFunctionOnSet(f, S) = f[x] + SumFunctionOnSet(f, S \ {x})
<1>1. PICK g : Sums(g, f, S)
  BY SumsExist
<1>2. SumFunctionOnSet(f, S) = g[S]
  BY <1>1, SumIs
<1>3. ASSUME NEW x \in S PROVE SumFunctionOnSet(f, S \ {x}) = g[S \ {x}]
  <2> DEFINE T == S \ {x}
             h == [s \in SUBSET T |-> g[s]]
  <2>1. IsFiniteSet(T)
    BY FS_Subset
  <2>2. Sums(h, f, T)
    <3>1. \A s \in SUBSET T : s \in SUBSET S /\ h[s] = g[s]
      OBVIOUS
    <3>2. h \in [SUBSET T -> Nat]
      BY <1>1, <3>1 DEF Sums
    <3>3. ASSUME NEW s \in SUBSET T, NEW y \in s PROVE h[s] = f[y] + h[s \ {y}]
      <4>1. s \ {y} \in SUBSET T
        OBVIOUS
      <4> HIDE DEF h, T
      <4> QED BY <1>1, <3>1, <4>1 DEF Sums
    <3> HIDE DEF h
    <3> QED BY <1>1, <3>1, <3>2, <3>3 DEF Sums
  <2>3. h[T] = g[T]
    OBVIOUS
  <2> HIDE DEF h, T
  <2>4. SumFunctionOnSet(f, T) = g[T]
    BY <2>1, <2>2, <2>3, SumIs
  <2> QED BY <2>4 DEF T
<1> QED BY <1>1, <1>2, <1>3 DEF Sums

(* Smaller elements make a smaller sum, and zeros make none.                *)
LEMMA SumMono ==
  ASSUME NEW S, IsFiniteSet(S), NEW f, NEW h, \A x \in S : f[x] \in Nat /\ h[x] \in Nat /\ f[x] <= h[x]
  PROVE  SumFunctionOnSet(f, S) <= SumFunctionOnSet(h, S)
<1> DEFINE F == {s \in SUBSET S : ~(SumFunctionOnSet(f, s) <= SumFunctionOnSet(h, s))}
<1>1. SUFFICES ASSUME F # {} PROVE FALSE
  <2>1. S \in SUBSET S
    OBVIOUS
  <2> QED BY <1>1, <2>1
<1>2. PICK U \in F : \A x \in U : U \ {x} \notin F
  <2>1. F \subseteq SUBSET S
    OBVIOUS
  <2> HIDE DEF F
  <2> QED BY <1>1, <2>1, SmallestSet
<1>3. U \subseteq S /\ IsFiniteSet(U)
  BY FS_Subset
<1>4. \A x \in U : f[x] \in Nat /\ h[x] \in Nat /\ f[x] <= h[x]
  BY <1>3
<1>5. /\ SumFunctionOnSet(f, U) \in Nat /\ SumFunctionOnSet(h, U) \in Nat
      /\ U = {} => SumFunctionOnSet(f, U) = 0
      /\ \A x \in U : SumFunctionOnSet(f, U) = f[x] + SumFunctionOnSet(f, U \ {x})
      /\ \A x \in U : SumFunctionOnSet(h, U) = h[x] + SumFunctionOnSet(h, U \ {x})
  BY <1>3, <1>4, SumStep
<1>6. CASE U = {}
  BY <1>2, <1>5, <1>6
<1>7. CASE U # {}
  <2>1. PICK x \in U : TRUE
    BY <1>7
  <2>2. SumFunctionOnSet(f, U \ {x}) <= SumFunctionOnSet(h, U \ {x})
    BY <1>2, <1>3, <2>1
  <2>3. SumFunctionOnSet(f, U \ {x}) \in Nat /\ SumFunctionOnSet(h, U \ {x}) \in Nat
    <3>1. IsFiniteSet(U \ {x})
      BY <1>3, FS_Subset
    <3> QED BY <1>4, <3>1, SumStep
  <2>4. SumFunctionOnSet(f, U) <= SumFunctionOnSet(h, U)
    BY <1>4, <1>5, <2>1, <2>2, <2>3
  <2> QED BY <2>4
<1> QED BY <1>6, <1>7

LEMMA SumZero ==
  ASSUME NEW S, IsFiniteSet(S), NEW f, \A x \in S : f[x] = 0
  PROVE  SumFunctionOnSet(f, S) = 0
<1> DEFINE g == [s \in SUBSET S |-> 0]
<1>1. \A s \in SUBSET S : g[s] = 0 /\ \A x \in s : s \ {x} \in SUBSET S /\ f[x] = 0
  OBVIOUS
<1>2. g \in [SUBSET S -> Nat]
  OBVIOUS
<1> HIDE DEF g
<1>3. Sums(g, f, S)
  BY <1>1, <1>2 DEF Sums
<1> QED BY <1>1, <1>3, SumIs

-----------------------------------------------------------------------------
(* What versions, records, snapshots and walks are.                         *)
Versions == [SWLogs -> Nat]
CountsSeen == Nat \cup {SWNone}
Records == [digest : Versions, size : Nat, tok : CountsSeen]
Metas == [size : Nat, tok : CountsSeen]
Partial(M) == UNION {[S -> M] : S \in SUBSET Projects}
Walks == [pc : {"idle", "loop", "scan", "read", "flush"}, tokens : BOOLEAN, late : BOOLEAN, reads : Nat,
          from : 0..SWProjects, todo : SUBSET Projects, last : 0..SWProjects, broke : BOOLEAN,
          visited : BOOLEAN, unread : SUBSET Projects, cache : [Projects -> Versions],
          out : Partial(Metas),
          staged : Partial(Records),
          p : 0..SWProjects, rows : Versions, size : Nat, tok : Nat, logs : SUBSET SWLogs]
Typed ==
  /\ swVer \in [Projects -> Versions] /\ swCache \in [Projects -> Versions]
  /\ swRec \in [Projects -> Records \cup {SWNone}] /\ swCursor \in 0..SWProjects
  /\ swWalk \in Walks

VersionsOf(v) == SumFunctionOnSet(v, SWLogs)
WithinLog(v, p) == \A f \in SWLogs : v[f] <= swVer[p][f]
(* A record is the totals of the versions it was made of, and these were    *)
(* there.                                                                   *)
RecordOK(rec, p) ==
  /\ WithinLog(rec.digest, p) /\ rec.size = VersionsOf(rec.digest) /\ rec.size > 0
  /\ rec.tok \in {SWNone, VersionsOf(rec.digest)}
Stored ==
  /\ \A p \in Projects : swRec[p] # SWNone => RecordOK(swRec[p], p)
  /\ \A p \in DOMAIN swWalk.staged : RecordOK(swWalk.staged[p], p)
  /\ \A p \in Projects : WithinLog(swCache[p], p) /\ WithinLog(swWalk.cache[p], p)

(* What a walk is done with is in its snapshot, with no less than recorded. *)
NotLess(p) ==
  /\ p \in DOMAIN swWalk.out /\ swWalk.out[p].size >= swRec[p].size
  /\ swWalk.tokens /\ swRec[p].tok # SWNone => swWalk.out[p].tok >= swRec[p].tok
NeverLess ==
  /\ DOMAIN swWalk.out \cap swWalk.todo = {} \/ swWalk.pc = "flush"
  /\ swWalk.pc # "idle" => \A p \in Projects \ swWalk.unread :
       swRec[p] # SWNone /\ (p \notin swWalk.todo \/ swWalk.pc = "flush") => NotLess(p)

(* A scan under way counts versions between those listed and those there,   *)
(* and while nothing is appended and every log it is done with was counted  *)
(* as listed, its tokens are theirs.                                        *)
AsListed(w) == \A f \in SWLogs \ w.logs : w.rows[f] > 0 => w.cache[w.p][f] = w.rows[f]
Scanning ==
  /\ swWalk.pc \in {"loop", "scan"} => swWalk.tok = 0
  /\ swWalk.pc \in {"scan", "read"} => swWalk.p \in swWalk.todo /\ WithinLog(swWalk.rows, swWalk.p)
  /\ swWalk.pc = "read" =>
       /\ swWalk.size > 0 /\ VersionsOf(swWalk.rows) <= swWalk.size /\ swWalk.size <= VersionsOf(swVer[swWalk.p])
       /\ swWalk.tokens /\ ~swWalk.late /\ swVer[swWalk.p] = swWalk.rows /\ swWalk.p \notin SWHot =>
            /\ \A f \in swWalk.logs : swWalk.rows[f] > 0
            /\ AsListed(swWalk) => swWalk.tok = SumFunctionOnSet(swWalk.rows, SWLogs \ swWalk.logs)

WalkRight == Typed /\ Stored /\ NeverLess /\ Scanning

-----------------------------------------------------------------------------
(* Sums over the logs.                                                      *)
LEMMA TotalIs ==
  ASSUME NEW v \in Versions
  PROVE  /\ VersionsOf(v) \in Nat /\ SumFunction(v) = VersionsOf(v)
         /\ \A u \in Versions : (\A f \in SWLogs : u[f] <= v[f]) => VersionsOf(u) <= VersionsOf(v)
<1>1. \A f \in SWLogs : v[f] \in Nat
  BY DEF Versions
<1>2. VersionsOf(v) \in Nat
  BY <1>1, SWSets, SumStep DEF VersionsOf
<1>3. SumFunction(v) = VersionsOf(v)
  <2>1. DOMAIN v = SWLogs
    BY DEF Versions
  <2> QED BY <2>1 DEF SumFunction, VersionsOf
<1>4. ASSUME NEW u \in Versions, \A f \in SWLogs : u[f] <= v[f] PROVE VersionsOf(u) <= VersionsOf(v)
  <2>1. \A f \in SWLogs : u[f] \in Nat /\ v[f] \in Nat /\ u[f] <= v[f]
    BY <1>1, <1>4 DEF Versions
  <2> QED BY <2>1, SWSets, SumMono DEF VersionsOf
<1> QED BY <1>2, <1>3, <1>4

(* What Put adds to a snapshot, and to what is staged.                      *)
LEMMA PutMeta ==
  \A done \in Partial(Metas), p \in Projects, m \in Metas :
    /\ Put(done, p, m) \in Partial(Metas)
    /\ DOMAIN Put(done, p, m) = DOMAIN done \cup {p} /\ Put(done, p, m)[p] = m
    /\ \A q \in DOMAIN done : q # p => Put(done, p, m)[q] = done[q]
<1> SUFFICES ASSUME NEW done \in Partial(Metas), NEW p \in Projects, NEW m \in Metas
    PROVE  /\ Put(done, p, m) \in Partial(Metas)
           /\ DOMAIN Put(done, p, m) = DOMAIN done \cup {p} /\ Put(done, p, m)[p] = m
           /\ \A q \in DOMAIN done : q # p => Put(done, p, m)[q] = done[q]
  OBVIOUS
<1>1. PICK S \in SUBSET Projects : done \in [S -> Metas]
  BY DEF Partial
<1>2. Put(done, p, m) \in [S \cup {p} -> Metas] /\ S \cup {p} \in SUBSET Projects
  BY <1>1 DEF Put
<1> QED BY <1>1, <1>2 DEF Put, Partial

LEMMA PutRecord ==
  \A done \in Partial(Records), p \in Projects, m \in Records :
    /\ Put(done, p, m) \in Partial(Records)
    /\ DOMAIN Put(done, p, m) = DOMAIN done \cup {p} /\ Put(done, p, m)[p] = m
    /\ \A q \in DOMAIN done : q # p => Put(done, p, m)[q] = done[q]
<1> SUFFICES ASSUME NEW done \in Partial(Records), NEW p \in Projects, NEW m \in Records
    PROVE  /\ Put(done, p, m) \in Partial(Records)
           /\ DOMAIN Put(done, p, m) = DOMAIN done \cup {p} /\ Put(done, p, m)[p] = m
           /\ \A q \in DOMAIN done : q # p => Put(done, p, m)[q] = done[q]
  OBVIOUS
<1>1. PICK S \in SUBSET Projects : done \in [S -> Records]
  BY DEF Partial
<1>2. Put(done, p, m) \in [S \cup {p} -> Records] /\ S \cup {p} \in SUBSET Projects
  BY <1>1 DEF Put
<1> QED BY <1>1, <1>2 DEF Put, Partial

(* What Done leaves of a walk.                                              *)
LEMMA DoneIs ==
  ASSUME NEW w \in Walks, NEW p \in Projects, NEW out \in Partial(Metas), NEW staged \in Partial(Records),
         NEW u, \E interrupted \in BOOLEAN : u = Done(w, p, out, staged, interrupted)
  PROVE  /\ u \in Walks /\ u.pc = "loop" /\ u.tokens = w.tokens /\ u.todo = w.todo \ {p}
         /\ u.cache = w.cache /\ u.unread = w.unread /\ u.out = out /\ u.staged = staged /\ u.tok = 0
<1>1. NoLogs \in Versions /\ p \in 0..SWProjects /\ 0 \in 0..SWProjects
  BY SWSets DEF NoLogs, Versions, Projects
<1>2. PICK interrupted \in BOOLEAN : u = Done(w, p, out, staged, interrupted)
  OBVIOUS
<1> QED BY ZenonT(60), <1>1, <1>2 DEF Done, Walks

LEMMA IdleWalk ==
  /\ SWIdle \in Walks /\ SWIdle.pc = "idle" /\ SWIdle.staged = Nothing /\ DOMAIN Nothing = {}
  /\ SWIdle.out = Nothing /\ SWIdle.tok = 0 /\ SWIdle.todo = {} /\ SWIdle.cache = [p \in Projects |-> NoLogs]
<1>1. NoLogs \in Versions /\ 0 \in 0..SWProjects
  BY SWSets DEF NoLogs, Versions
<1>2. Nothing \in [{} -> Metas] /\ Nothing \in [{} -> Records] /\ {} \in SUBSET Projects
  BY DEF Nothing
<1>3. /\ Nothing \in Partial(Metas)
      /\ Nothing \in Partial(Records)
  BY <1>2 DEF Partial
<1> QED BY <1>1, <1>3 DEF SWIdle, Walks, Nothing

(* Nothing that was true of a record stops being true.                      *)
LEMMA StaysUpTo ==
  ASSUME Typed, Typed', \A p \in Projects, f \in SWLogs : swVer[p][f] <= swVer'[p][f],
         NEW p \in Projects, NEW v \in Versions, WithinLog(v, p)
  PROVE  WithinLog(v, p)'
BY DEF WithinLog, Typed, Versions

-----------------------------------------------------------------------------
(* A record stays right while the logs grow.                                *)
LEMMA RecordStays ==
  ASSUME Typed, Typed', \A p \in Projects, f \in SWLogs : swVer[p][f] <= swVer'[p][f],
         NEW p \in Projects, NEW rec \in Records, RecordOK(rec, p)
  PROVE  RecordOK(rec, p)'
<1>1. rec.digest \in Versions
  BY DEF Records
<1>2. WithinLog(rec.digest, p)'
  BY <1>1, StaysUpTo DEF RecordOK
<1> QED BY <1>2 DEF RecordOK

LEMMA WalkTypes ==
  ASSUME Typed
  PROVE  /\ \A p \in Projects : /\ swVer[p] \in Versions /\ swCache[p] \in Versions
                                /\ swWalk.cache[p] \in Versions
                                /\ swRec[p] # SWNone => swRec[p] \in Records
         /\ swWalk.rows \in Versions /\ swWalk.todo \subseteq Projects
         /\ swWalk.out \in Partial(Metas)
         /\ swWalk.staged \in Partial(Records)
         /\ \A p \in DOMAIN swWalk.staged : p \in Projects /\ swWalk.staged[p] \in Records
BY DEF Typed, Walks, Partial

LEMMA AppendKeeps ==
  ASSUME WalkRight, AppendLog
  PROVE  WalkRight'
<1>1. PICK p \in Projects, f \in SWLogs : swVer' = [swVer EXCEPT ![p][f] = @ + 1]
  BY DEF AppendLog
<1>2. UNCHANGED <<swCache, swRec, swCursor, swWalk>> /\ Typed
  BY DEF AppendLog, WalkRight
<1>3. Typed' /\ \A q \in Projects, g \in SWLogs : swVer[q][g] <= swVer'[q][g]
  <2>1. \A q \in Projects, g \in SWLogs :
          swVer[q][g] \in Nat /\ swVer'[q][g] = IF q = p /\ g = f THEN swVer[q][g] + 1 ELSE swVer[q][g]
    BY <1>1, <1>2 DEF Typed, Versions
  <2>2. swVer' \in [Projects -> Versions]
    BY <1>1, <1>2 DEF Typed, Versions
  <2> QED BY <1>2, <2>1, <2>2 DEF Typed
<1>4. Stored'
  <2>1. \A q \in Projects : swRec[q] # SWNone => RecordOK(swRec[q], q)'
    BY <1>2, <1>3, RecordStays, WalkTypes DEF WalkRight, Stored
  <2>2. \A q \in DOMAIN swWalk.staged : RecordOK(swWalk.staged[q], q)'
    BY <1>2, <1>3, RecordStays, WalkTypes DEF WalkRight, Stored
  <2>3. \A q \in Projects : WithinLog(swCache[q], q)' /\ WithinLog(swWalk.cache[q], q)'
    BY <1>2, <1>3, StaysUpTo, WalkTypes DEF WalkRight, Stored
  <2> QED BY <1>2, <2>1, <2>2, <2>3 DEF Stored
<1>5. NeverLess'
  BY <1>2 DEF WalkRight, NeverLess, NotLess
<1>6. Scanning'
  <2>1. SUFFICES ASSUME swWalk.pc \in {"scan", "read"} PROVE Scanning'
    BY <1>2 DEF WalkRight, Scanning
  <2>0. PICK q, rows : q = swWalk.p /\ rows = swWalk.rows
    OBVIOUS
  <2>2. q \in swWalk.todo /\ q \in Projects /\ WithinLog(rows, q) /\ rows \in Versions
        /\ swVer[q] \in Versions /\ swVer'[q] \in Versions
    BY <2>0, <1>2, <1>3, <2>1, WalkTypes DEF WalkRight, Scanning, Typed
  <2>3. WithinLog(rows, q)'
    BY <1>2, <1>3, <2>2, StaysUpTo
  <2>4. VersionsOf(swVer[q]) <= VersionsOf(swVer'[q]) /\ VersionsOf(swVer[q]) \in Nat /\ VersionsOf(swVer'[q]) \in Nat
    BY <1>3, <2>2, TotalIs
  <2>5. swVer'[q] = rows => swVer[q] = rows
    <3> SUFFICES ASSUME swVer'[q] = rows PROVE swVer[q] = rows
      OBVIOUS
    <3>1. \A g \in SWLogs : swVer[q][g] = rows[g]
      BY <1>3, <2>2 DEF WithinLog, Versions
    <3> QED BY <2>2, <3>1 DEF Versions
  <2>6. swWalk.pc = "read" => swWalk.size <= VersionsOf(swVer'[q])
    <3>1. swWalk.pc = "read" => swWalk.size <= VersionsOf(swVer[q])
      BY <2>0 DEF WalkRight, Scanning
    <3>2. swWalk.size \in Nat
      BY <1>2 DEF Typed, Walks
    <3> QED BY <2>4, <3>1, <3>2
  <2>7. WithinLog(swWalk.rows, swWalk.p)'
    BY <1>2, <2>0, <2>3
  <2> QED BY <2>0, <1>2, <2>2, <2>5, <2>6, <2>7 DEF WalkRight, Scanning, AsListed
<1> QED BY <1>3, <1>4, <1>5, <1>6 DEF WalkRight

(* A project is done, and its output is no less than its record.            *)
LEMMA DoneKeeps ==
  ASSUME WalkRight, NEW p \in swWalk.todo, swWalk.pc \in {"loop", "scan", "read"},
         swWalk' \in Walks, swWalk'.pc = "loop", swWalk'.tok = 0, swWalk'.tokens = swWalk.tokens,
         swWalk'.todo = swWalk.todo \ {p}, swWalk'.cache = swWalk.cache, swWalk.unread \subseteq swWalk'.unread,
         \/ swWalk'.out = swWalk.out /\ (swRec[p] # SWNone => p \in swWalk'.unread)
         \/ \E meta \in Metas :
              /\ swWalk'.out = Put(swWalk.out, p, meta)
              /\ swRec[p] # SWNone =>
                   /\ meta.size >= swRec[p].size
                   /\ swWalk.tokens /\ swRec[p].tok # SWNone => meta.tok >= swRec[p].tok,
         \/ swWalk'.staged = swWalk.staged
         \/ \E kept \in Records : RecordOK(kept, p) /\ swWalk'.staged = Put(swWalk.staged, p, kept),
         UNCHANGED <<swVer, swCache, swRec, swCursor>>
  PROVE  WalkRight'
<1>0. Typed /\ p \in Projects
  BY WalkTypes DEF WalkRight
<1>1. Typed'
  BY <1>0 DEF Typed
<1>2. \A q \in DOMAIN swWalk'.staged :
        \/ q \in DOMAIN swWalk.staged /\ swWalk'.staged[q] = swWalk.staged[q]
        \/ q = p /\ RecordOK(swWalk'.staged[q], p)
  <2>1. CASE swWalk'.staged = swWalk.staged
    BY <2>1
  <2>2. ASSUME NEW kept \in Records, RecordOK(kept, p), swWalk'.staged = Put(swWalk.staged, p, kept)
        PROVE  \A q \in DOMAIN swWalk'.staged :
                 \/ q \in DOMAIN swWalk.staged /\ swWalk'.staged[q] = swWalk.staged[q]
                 \/ q = p /\ RecordOK(swWalk'.staged[q], p)
    <3>0. swWalk.staged \in Partial(Records) /\ p \in Projects /\ kept \in Records
      BY <1>0, <2>2, WalkTypes
    <3>1. /\ DOMAIN swWalk'.staged = DOMAIN swWalk.staged \cup {p} /\ swWalk'.staged[p] = kept
          /\ \A q \in DOMAIN swWalk.staged : q # p => swWalk'.staged[q] = swWalk.staged[q]
      <4>1. PICK done \in Partial(Records) : done = swWalk.staged
        BY <3>0
      <4>2. /\ DOMAIN Put(done, p, kept) = DOMAIN done \cup {p} /\ Put(done, p, kept)[p] = kept
            /\ \A q \in DOMAIN done : q # p => Put(done, p, kept)[q] = done[q]
        BY DEF Put
      <4> QED BY <2>2, <4>1, <4>2
    <3> QED BY <2>2, <3>1
  <2> QED BY <2>1, <2>2
<1>3. Stored'
  <2>1. \A q \in DOMAIN swWalk'.staged : RecordOK(swWalk.staged[q], q)'
    BY <1>2 DEF WalkRight, Stored, RecordOK, WithinLog
  <2> QED BY <2>1 DEF WalkRight, Stored, RecordOK, WithinLog
<1>4. /\ DOMAIN swWalk'.out \subseteq DOMAIN swWalk.out \cup {p}
      /\ \A q \in DOMAIN swWalk.out : q # p => q \in DOMAIN swWalk'.out /\ swWalk'.out[q] = swWalk.out[q]
      /\ p \notin swWalk'.unread /\ swRec[p] # SWNone => NotLess(p)'
  <2>1. CASE swWalk'.out = swWalk.out /\ (swRec[p] # SWNone => p \in swWalk'.unread)
    BY <2>1
  <2>2. ASSUME NEW meta \in Metas, swWalk'.out = Put(swWalk.out, p, meta),
               swRec[p] # SWNone => /\ meta.size >= swRec[p].size
                                    /\ swWalk.tokens /\ swRec[p].tok # SWNone => meta.tok >= swRec[p].tok
        PROVE  /\ DOMAIN swWalk'.out \subseteq DOMAIN swWalk.out \cup {p}
               /\ \A q \in DOMAIN swWalk.out :
                    q # p => q \in DOMAIN swWalk'.out /\ swWalk'.out[q] = swWalk.out[q]
               /\ p \notin swWalk'.unread /\ swRec[p] # SWNone => NotLess(p)'
    <3>0. swWalk.out \in Partial(Metas) /\ p \in Projects /\ meta \in Metas
      BY <1>0, <2>2, WalkTypes
    <3>1. /\ DOMAIN swWalk'.out = DOMAIN swWalk.out \cup {p} /\ swWalk'.out[p] = meta
          /\ \A q \in DOMAIN swWalk.out : q # p => swWalk'.out[q] = swWalk.out[q]
      <4>1. PICK done \in Partial(Metas) : done = swWalk.out
        BY <3>0
      <4>2. /\ DOMAIN Put(done, p, meta) = DOMAIN done \cup {p} /\ Put(done, p, meta)[p] = meta
            /\ \A q \in DOMAIN done : q # p => Put(done, p, meta)[q] = done[q]
        BY DEF Put
      <4> QED BY <2>2, <4>1, <4>2
    <3> QED BY <2>2, <3>1 DEF NotLess
  <2> QED BY <2>1, <2>2
<1>5. NeverLess'
  <2>1. DOMAIN swWalk.out \cap swWalk.todo = {}
    BY DEF WalkRight, NeverLess
  <2>2. DOMAIN swWalk'.out \cap swWalk'.todo = {}
    BY <1>4, <2>1
  <2>3. ASSUME NEW q \in Projects \ swWalk'.unread, swRec[q] # SWNone, q \notin swWalk'.todo
        PROVE  NotLess(q)'
    <3>1. CASE q = p
      BY <1>4, <2>3, <3>1
    <3>2. CASE q # p
      <4>1. NotLess(q)
        BY <2>3, <3>2 DEF WalkRight, NeverLess
      <4> QED BY <1>4, <3>2, <4>1 DEF NotLess
    <3> QED BY <3>1, <3>2
  <2> QED BY <2>2, <2>3 DEF NeverLess
<1>6. Scanning'
  BY DEF Scanning
<1> QED BY <1>1, <1>3, <1>5, <1>6 DEF WalkRight

(* The next project is one to do.                                           *)
LEMMA NextIs ==
  ASSUME NEW todo \in SUBSET Projects, todo # {}, NEW from
  PROVE  Following(todo, from) \in todo
<1>0. Projects \subseteq Nat
  BY SWSets DEF Projects
<1>1. todo \subseteq Nat /\ {p \in todo : p > from} \subseteq Nat
  BY <1>0
<1>2. Min(todo) \in todo
  BY <1>1, MinIsMember
<1>3. ASSUME \E p \in todo : p > from PROVE Min({p \in todo : p > from}) \in todo
  <2>1. {p \in todo : p > from} # {}
    BY <1>3
  <2>2. Min({p \in todo : p > from}) \in {p \in todo : p > from}
    BY <1>1, <2>1, MinIsMember
  <2> QED BY <2>2
<1> QED BY <1>2, <1>3 DEF Following

LEMMA InitRight == SWInit => WalkRight
<1> SUFFICES ASSUME SWInit PROVE WalkRight
  OBVIOUS
<1>1. NoLogs \in Versions /\ 0 \in 0..SWProjects /\ \A f \in SWLogs : NoLogs[f] = 0
  BY SWSets DEF NoLogs, Versions
<1>2. swVer \in [Projects -> Versions]
  BY DEF SWInit, Versions
<1>3. Typed
  BY <1>1, <1>2, IdleWalk DEF SWInit, Typed
<1>4. \A p \in Projects : WithinLog(swCache[p], p) /\ WithinLog(swWalk.cache[p], p)
  BY <1>1, <1>2, IdleWalk DEF SWInit, WithinLog, Versions
<1>5. Stored
  BY <1>4, IdleWalk DEF SWInit, Stored
<1>6. NeverLess /\ Scanning
  BY IdleWalk DEF SWInit, NeverLess, Scanning
<1> QED BY <1>3, <1>5, <1>6 DEF WalkRight

(* A walk begins, is lost, or finds its deadline passed.                    *)
LEMMA StartKeeps ==
  ASSUME WalkRight, StartWalk
  PROVE  WalkRight'
<1>0. Typed /\ UNCHANGED <<swVer, swCache, swRec, swCursor>>
  BY DEF WalkRight, StartWalk
<1>1. PICK tokens \in BOOLEAN, late \in BOOLEAN :
        swWalk' = [SWIdle EXCEPT !.pc = "loop", !.tokens = tokens, !.late = late,
                     !.from = swCursor, !.todo = Projects, !.cache = swCache]
  BY DEF StartWalk
<1>2. /\ swWalk' \in Walks /\ swWalk'.pc = "loop" /\ swWalk'.todo = Projects /\ swWalk'.cache = swCache
      /\ swWalk'.out = Nothing /\ swWalk'.staged = Nothing /\ swWalk'.tok = 0
  <2>1. swWalk' \in Walks
    <3>1. swCursor \in 0..SWProjects /\ Projects \in SUBSET Projects /\ swCache \in [Projects -> Versions]
      BY <1>0 DEF Typed
    <3>2. SWIdle \in Walks
      BY IdleWalk
    <3> QED BY <1>1, <3>1, <3>2 DEF Walks
  <2>2. SWIdle \in Walks /\ SWIdle.out = Nothing /\ SWIdle.staged = Nothing /\ SWIdle.tok = 0
    BY IdleWalk
  <2> QED BY <1>1, <2>1, <2>2 DEF Walks
<1>3. Typed' /\ DOMAIN Nothing = {}
  BY <1>0, <1>2, IdleWalk DEF Typed
<1>4. Stored'
  BY <1>0, <1>2, <1>3 DEF WalkRight, Stored, RecordOK, WithinLog
<1>5. NeverLess' /\ Scanning'
  BY <1>0, <1>2, <1>3 DEF NeverLess, Scanning
<1> QED BY <1>3, <1>4, <1>5 DEF WalkRight

LEMMA LostKeeps ==
  ASSUME WalkRight, swWalk' = SWIdle, UNCHANGED <<swVer, swCache>>,
         swRec' \in [Projects -> Records \cup {SWNone}], swCursor' \in 0..SWProjects,
         \A p \in Projects : swRec'[p] # SWNone => RecordOK(swRec'[p], p)
  PROVE  WalkRight'
<1>1. Typed'
  BY IdleWalk DEF Typed, WalkRight
<1>2. \A p \in Projects : WithinLog(swCache[p], p)' /\ WithinLog(SWIdle.cache[p], p)'
  <2>1. \A p \in Projects, f \in SWLogs : swVer[p][f] \in Nat /\ SWIdle.cache[p][f] = 0
    BY IdleWalk DEF WalkRight, Typed, Versions, NoLogs
  <2> QED BY <2>1 DEF WalkRight, Stored, WithinLog
<1>3. Stored'
  BY <1>2, IdleWalk DEF Stored, RecordOK, WithinLog
<1>4. NeverLess' /\ Scanning'
  BY IdleWalk DEF NeverLess, Scanning
<1> QED BY <1>1, <1>3, <1>4 DEF WalkRight

LEMMA ExpireKeeps ==
  ASSUME WalkRight, Expire
  PROVE  WalkRight'
<1>0. Typed /\ UNCHANGED <<swVer, swCache, swRec, swCursor>>
  BY DEF WalkRight, Expire
<1>1. swWalk' \in Walks /\ swWalk' = [swWalk EXCEPT !.late = TRUE] /\ swWalk'.late
  BY <1>0 DEF Expire, Typed, Walks
<1>2. /\ swWalk'.pc = swWalk.pc /\ swWalk'.todo = swWalk.todo /\ swWalk'.cache = swWalk.cache
      /\ swWalk'.out = swWalk.out /\ swWalk'.staged = swWalk.staged /\ swWalk'.unread = swWalk.unread
      /\ swWalk'.tokens = swWalk.tokens /\ swWalk'.p = swWalk.p /\ swWalk'.rows = swWalk.rows
      /\ swWalk'.size = swWalk.size /\ swWalk'.tok = swWalk.tok
  BY <1>0, <1>1 DEF Typed, Walks
<1>3. Typed'
  BY <1>0, <1>1 DEF Typed
<1>4. Stored'
  BY <1>0, <1>2 DEF WalkRight, Stored, RecordOK, WithinLog
<1>5. NeverLess'
  BY <1>0, <1>2 DEF WalkRight, NeverLess, NotLess
<1>6. Scanning'
  BY <1>0, <1>1, <1>2 DEF WalkRight, Scanning, WithinLog
<1> QED BY <1>3, <1>4, <1>5, <1>6 DEF WalkRight

(* A record whose rows did not change is reused, else the scan begins.      *)
LEMMA NextKeeps ==
  ASSUME WalkRight, NextProject
  PROVE  WalkRight'
<1>0. Typed /\ UNCHANGED <<swVer, swCache, swRec, swCursor>>
  BY DEF WalkRight, NextProject
<1>1. PICK p \in swWalk.todo : p = Following(swWalk.todo, swWalk.from)
  BY <1>0, NextIs, WalkTypes DEF NextProject
<1>2. p \in Projects /\ swWalk \in Walks /\ swWalk.pc = "loop"
  BY <1>0, <1>1, WalkTypes DEF NextProject, Typed
<1>3. CASE swRec[p] # SWNone /\ swRec[p].digest = swVer[p] /\ (swWalk.tokens => swRec[p].tok # SWNone)
  <2>1. PICK meta : meta = Wire(swRec[p], swWalk.tokens)
    OBVIOUS
  <2>2. PICK out : out = Put(swWalk.out, p, meta)
    OBVIOUS
  <2>3. swWalk' = Done(swWalk, p, out, swWalk.staged, FALSE)
    BY <1>1, <1>3, <2>1, <2>2 DEF NextProject
  <2>4. /\ meta \in Metas /\ meta.size = swRec[p].size
        /\ swWalk.tokens /\ swRec[p].tok # SWNone => meta.tok = swRec[p].tok
    BY <1>0, <1>2, <1>3, <2>1, WalkTypes DEF Wire, Metas, Records, CountsSeen
  <2>5. out \in Partial(Metas)
    BY <1>0, <1>2, <2>2, <2>4, PutMeta, WalkTypes
  <2>6. /\ swWalk' \in Walks /\ swWalk'.pc = "loop" /\ swWalk'.tokens = swWalk.tokens
        /\ swWalk'.todo = swWalk.todo \ {p} /\ swWalk'.cache = swWalk.cache
        /\ swWalk'.unread = swWalk.unread /\ swWalk'.out = out /\ swWalk'.staged = swWalk.staged
        /\ swWalk'.tok = 0
    <3>1. \E interrupted \in BOOLEAN : swWalk' = Done(swWalk, p, out, swWalk.staged, interrupted)
      BY <2>3
    <3>2. swWalk.staged \in Partial(Records)
      BY <1>0, WalkTypes
    <3> QED BY <1>2, <2>5, <3>1, <3>2, DoneIs
  <2>7. swRec[p].size \in Nat /\ (swRec[p].tok # SWNone => swRec[p].tok \in Nat)
    BY <1>0, <1>2, <1>3, WalkTypes DEF Records, CountsSeen
  <2>8. /\ meta.size >= swRec[p].size
        /\ swWalk.tokens /\ swRec[p].tok # SWNone => meta.tok >= swRec[p].tok
    BY <2>4, <2>7
  <2> QED BY <1>0, <1>1, <1>2, <2>2, <2>4, <2>6, <2>8, DoneKeeps
<1>4. CASE ~(swRec[p] # SWNone /\ swRec[p].digest = swVer[p] /\ (swWalk.tokens => swRec[p].tok # SWNone))
  <2>1. swWalk' = [swWalk EXCEPT !.pc = "scan", !.p = p, !.rows = swVer[p]]
    BY <1>1, <1>4 DEF NextProject
  <2>2. /\ swWalk'.pc = "scan" /\ swWalk'.p = p /\ swWalk'.rows = swVer[p]
        /\ swWalk'.todo = swWalk.todo /\ swWalk'.cache = swWalk.cache
        /\ swWalk'.out = swWalk.out /\ swWalk'.staged = swWalk.staged /\ swWalk'.unread = swWalk.unread
        /\ swWalk'.tokens = swWalk.tokens /\ swWalk'.tok = 0
    <3>1. swWalk.tok = 0
      BY <1>2 DEF WalkRight, Scanning
    <3> QED BY <1>2, <2>1, <3>1 DEF Walks
  <2>3. swVer[p] \in Versions /\ p \in 0..SWProjects
    BY <1>0, <1>2, SWSets, WalkTypes DEF Projects
  <2>4. swWalk' \in Walks
    BY <1>2, <2>1, <2>3 DEF Walks
  <2>5. Typed'
    BY <1>0, <2>4 DEF Typed
  <2>6. Stored'
    BY <1>0, <2>2 DEF WalkRight, Stored, RecordOK, WithinLog
  <2>7. NeverLess'
    BY <1>0, <1>2, <2>2 DEF WalkRight, NeverLess, NotLess
  <2>8. WithinLog(swVer[p], p)'
    BY <1>0, <2>3 DEF WithinLog, Versions
  <2>9. Scanning'
    BY <1>0, <1>1, <2>2, <2>8 DEF Scanning, WithinLog
  <2> QED BY <2>5, <2>6, <2>7, <2>9 DEF WalkRight
<1> QED BY <1>3, <1>4

(* A directory without logs has no record, as logs only grow.               *)
LEMMA ScanKeeps ==
  ASSUME WalkRight, ScanProject
  PROVE  WalkRight'
<1>0. Typed /\ UNCHANGED <<swVer, swCache, swRec, swCursor>> /\ swWalk.pc = "scan"
  BY DEF WalkRight, ScanProject
<1>1. PICK p \in swWalk.todo : p = swWalk.p /\ WithinLog(swWalk.rows, p)
  BY <1>0 DEF WalkRight, Scanning
<1>2. p \in Projects /\ swWalk \in Walks /\ swVer[p] \in Versions /\ swWalk.rows \in Versions
  BY <1>0, <1>1, WalkTypes DEF Typed
<1>3. SumFunction(swVer[p]) = VersionsOf(swVer[p]) /\ VersionsOf(swVer[p]) \in Nat
  BY <1>2, TotalIs
<1>4. CASE SumFunction(swVer[p]) = 0
  <2>1. swRec[p] = SWNone
    <3> SUFFICES ASSUME swRec[p] # SWNone PROVE FALSE
      OBVIOUS
    <3>1. swRec[p].digest \in Versions /\ WithinLog(swRec[p].digest, p) /\ swRec[p].size = VersionsOf(swRec[p].digest)
          /\ swRec[p].size > 0
      BY <1>0, <1>2, WalkTypes DEF WalkRight, Stored, RecordOK, Records
    <3>2. VersionsOf(swRec[p].digest) <= VersionsOf(swVer[p]) /\ VersionsOf(swRec[p].digest) \in Nat
      BY <1>2, <3>1, TotalIs DEF WithinLog
    <3> QED BY <1>3, <1>4, <3>1, <3>2
  <2>2. swWalk' = Done(swWalk, p, swWalk.out, swWalk.staged, FALSE)
    BY <1>1, <1>4 DEF ScanProject
  <2>3. /\ swWalk' \in Walks /\ swWalk'.pc = "loop" /\ swWalk'.tokens = swWalk.tokens
        /\ swWalk'.todo = swWalk.todo \ {p} /\ swWalk'.cache = swWalk.cache
        /\ swWalk'.unread = swWalk.unread /\ swWalk'.out = swWalk.out /\ swWalk'.staged = swWalk.staged
        /\ swWalk'.tok = 0
    <3>1. \E interrupted \in BOOLEAN : swWalk' = Done(swWalk, p, swWalk.out, swWalk.staged, interrupted)
      BY <2>2
    <3>2. swWalk.staged \in Partial(Records) /\ swWalk.out \in Partial(Metas)
      BY <1>0, WalkTypes
    <3> QED BY <1>2, <3>1, <3>2, DoneIs
  <2> QED BY <1>0, <2>1, <2>3, DoneKeeps
<1>5. CASE SumFunction(swVer[p]) # 0
  <2>1. PICK logs \in SUBSET SWLogs : logs = IF swWalk.tokens THEN {f \in SWLogs : swVer[p][f] > 0} ELSE {}
    OBVIOUS
  <2>2. swWalk' = [swWalk EXCEPT !.pc = "read", !.size = VersionsOf(swVer[p]), !.logs = logs]
    BY <1>1, <1>3, <1>5, <2>1 DEF ScanProject
  <2>3. /\ swWalk'.pc = "read" /\ swWalk'.p = p /\ swWalk'.rows = swWalk.rows
        /\ swWalk'.todo = swWalk.todo /\ swWalk'.cache = swWalk.cache
        /\ swWalk'.out = swWalk.out /\ swWalk'.staged = swWalk.staged /\ swWalk'.unread = swWalk.unread
        /\ swWalk'.tokens = swWalk.tokens /\ swWalk'.size = VersionsOf(swVer[p]) /\ swWalk'.logs = logs
        /\ swWalk'.tok = swWalk.tok /\ swWalk' \in Walks
    BY <1>1, <1>2, <1>3, <2>2 DEF Walks
  <2>4. Typed'
    BY <1>0, <2>3 DEF Typed
  <2>5. Stored'
    BY <1>0, <2>3 DEF WalkRight, Stored, RecordOK, WithinLog
  <2>6. NeverLess'
    BY <1>0, <2>3 DEF WalkRight, NeverLess, NotLess
  <2>7. VersionsOf(swWalk.rows) <= VersionsOf(swVer[p])
    BY <1>1, <1>2, TotalIs DEF WithinLog
  <2>8. VersionsOf(swVer[p]) > 0 /\ VersionsOf(swVer[p]) <= VersionsOf(swVer[p])
    BY <1>3, <1>5
  <2>9. swWalk.tokens /\ swVer[p] = swWalk.rows =>
          /\ \A f \in logs : swWalk.rows[f] > 0
          /\ swWalk.tok = SumFunctionOnSet(swWalk.rows, SWLogs \ logs)
    <3> SUFFICES ASSUME swWalk.tokens, swVer[p] = swWalk.rows
        PROVE  /\ \A f \in logs : swWalk.rows[f] > 0
               /\ swWalk.tok = SumFunctionOnSet(swWalk.rows, SWLogs \ logs)
      OBVIOUS
    <3>1. \A f \in SWLogs \ logs : swWalk.rows[f] = 0
      BY <1>2, <2>1 DEF Versions
    <3>2. SumFunctionOnSet(swWalk.rows, SWLogs \ logs) = 0
      BY <3>1, SWSets, FS_Difference, SumZero
    <3>3. swWalk.tok = 0
      BY <1>0 DEF WalkRight, Scanning
    <3> QED BY <2>1, <3>2, <3>3
  <2>10. Scanning'
    BY <1>0, <1>1, <2>3, <2>7, <2>8, <2>9 DEF Scanning, WithinLog
  <2> QED BY <2>4, <2>5, <2>6, <2>10 DEF WalkRight
<1> QED BY <1>4, <1>5

LEMMA ScanFailsKeeps ==
  ASSUME WalkRight, ScanFails
  PROVE  WalkRight'
<1>0. Typed /\ UNCHANGED <<swVer, swCache, swRec, swCursor>> /\ swWalk.pc = "scan"
  BY DEF WalkRight, ScanFails
<1>1. PICK p \in swWalk.todo : p = swWalk.p
  BY <1>0 DEF WalkRight, Scanning
<1>2. p \in Projects /\ swWalk \in Walks
  BY <1>0, <1>1, WalkTypes DEF Typed
<1>3. PICK w : w = Done(swWalk, p, swWalk.out, swWalk.staged, FALSE)
  OBVIOUS
<1>4. /\ w \in Walks /\ w.pc = "loop" /\ w.tokens = swWalk.tokens
      /\ w.todo = swWalk.todo \ {p} /\ w.cache = swWalk.cache
      /\ w.unread = swWalk.unread /\ w.out = swWalk.out /\ w.staged = swWalk.staged /\ w.tok = 0
  <2>1. \E interrupted \in BOOLEAN : w = Done(swWalk, p, swWalk.out, swWalk.staged, interrupted)
    BY <1>3
  <2>2. swWalk.staged \in Partial(Records) /\ swWalk.out \in Partial(Metas)
    BY <1>0, WalkTypes
  <2> QED BY <1>2, <2>1, <2>2, DoneIs
<1>5. swWalk' = [w EXCEPT !.unread = @ \cup {p}]
  BY <1>1, <1>3 DEF ScanFails
<1>6. /\ swWalk' \in Walks /\ swWalk'.pc = "loop" /\ swWalk'.tokens = swWalk.tokens
      /\ swWalk'.todo = swWalk.todo \ {p} /\ swWalk'.cache = swWalk.cache
      /\ swWalk'.unread = swWalk.unread \cup {p} /\ swWalk'.out = swWalk.out /\ swWalk'.staged = swWalk.staged
      /\ swWalk'.tok = 0
  BY <1>2, <1>4, <1>5 DEF Walks
<1> QED BY <1>0, <1>6, DoneKeeps

(* What a scan reads only adds what is there.                               *)
LEMMA ReadKeeps ==
  ASSUME WalkRight, ReadLog
  PROVE  WalkRight'
<1>0. Typed /\ UNCHANGED <<swVer, swCache, swRec, swCursor>> /\ swWalk.pc = "read" /\ swWalk \in Walks
  BY DEF WalkRight, ReadLog, Typed
<1>1. PICK p \in swWalk.todo, rows \in Versions : p = swWalk.p /\ rows = swWalk.rows /\ WithinLog(rows, p)
  BY <1>0, WalkTypes DEF WalkRight, Scanning
<1>1a. PICK f \in swWalk.logs :
         swWalk' = IF swWalk.late \/ (swWalk.cache[p][f] = swVer[p][f] /\ p \notin SWHot)
                   THEN [swWalk EXCEPT !.logs = @ \ {f}, !.tok = @ + swWalk.cache[p][f],
                           !.cache[p][f] = swWalk.cache[p][f], !.reads = @ + 0]
                   ELSE [swWalk EXCEPT !.logs = @ \ {f}, !.tok = @ + swVer[p][f],
                           !.cache[p][f] = IF p \in SWHot THEN swWalk.cache[p][f] ELSE swVer[p][f],
                           !.reads = @ + 1]
  BY <1>1 DEF ReadLog
<1>2. PICK v \in {swWalk.cache[p][f], swVer[p][f]}, cached \in {swWalk.cache[p][f], swVer[p][f]}, reads \in {0, 1} :
        /\ swWalk' = [swWalk EXCEPT !.logs = @ \ {f}, !.tok = @ + v, !.cache[p][f] = cached, !.reads = @ + reads]
        /\ ~swWalk.late /\ p \notin SWHot => v = swVer[p][f] /\ cached = swVer[p][f]
  <2>1. CASE swWalk.late \/ (swWalk.cache[p][f] = swVer[p][f] /\ p \notin SWHot)
    BY <1>1a, <2>1
  <2>2. CASE ~(swWalk.late \/ (swWalk.cache[p][f] = swVer[p][f] /\ p \notin SWHot))
    BY <1>1a, <2>2
  <2> QED BY <2>1, <2>2
<1>3. p \in Projects /\ f \in SWLogs /\ swVer[p] \in Versions /\ swWalk.cache[p] \in Versions
      /\ swWalk.logs \subseteq SWLogs /\ swWalk.tok \in Nat /\ swWalk.reads \in Nat
  BY <1>0, <1>1, WalkTypes DEF Walks
<1>4. v \in Nat /\ cached \in Nat /\ cached <= swVer[p][f]
  <2>1. swVer[p][f] \in Nat /\ swWalk.cache[p][f] \in Nat
    BY <1>3 DEF Versions
  <2>2. swWalk.cache[p][f] <= swVer[p][f]
    BY <1>3 DEF WalkRight, Stored, WithinLog
  <2> QED BY <1>2, <2>1, <2>2
<1>5. PICK cache \in [Projects -> Versions] : cache = [swWalk.cache EXCEPT ![p][f] = cached]
  <2>1. swWalk.cache \in [Projects -> Versions]
    BY <1>0 DEF Walks
  <2>2. [swWalk.cache EXCEPT ![p][f] = cached] \in [Projects -> Versions]
    BY <2>1, <1>3, <1>4 DEF Versions
  <2> QED BY <2>2
<1>6. /\ swWalk'.pc = "read" /\ swWalk'.p = p /\ swWalk'.rows = rows
      /\ swWalk'.todo = swWalk.todo /\ swWalk'.cache = cache /\ swWalk'.late = swWalk.late
      /\ swWalk'.out = swWalk.out /\ swWalk'.staged = swWalk.staged /\ swWalk'.unread = swWalk.unread
      /\ swWalk'.tokens = swWalk.tokens /\ swWalk'.size = swWalk.size /\ swWalk'.logs = swWalk.logs \ {f}
      /\ swWalk'.tok = swWalk.tok + v
  BY <1>0, <1>1, <1>2, <1>5 DEF Walks
<1>7. swWalk' \in Walks
  <2>1. swWalk.tok + v \in Nat /\ swWalk.reads + reads \in Nat /\ swWalk.logs \ {f} \in SUBSET SWLogs
    BY <1>2, <1>3, <1>4
  <2>2. swWalk' = [swWalk EXCEPT !.logs = @ \ {f}, !.tok = @ + v, !.cache = cache, !.reads = @ + reads]
    BY <1>0, <1>2, <1>5 DEF Walks
  <2> QED BY <1>0, <2>1, <2>2 DEF Walks
<1>8. Typed'
  BY <1>0, <1>7 DEF Typed
<1>9. \A q \in Projects, g \in SWLogs : cache[q][g] = IF q = p /\ g = f THEN cached ELSE swWalk.cache[q][g]
  <2>1. swWalk.cache \in [Projects -> Versions]
    BY <1>0 DEF Walks
  <2> QED BY <1>3, <1>5, <2>1 DEF Versions
<1>10. Stored'
  <2>1. \A q \in Projects : WithinLog(cache[q], q)
    BY <1>4, <1>9 DEF WalkRight, Stored, WithinLog
  <2> QED BY <1>0, <1>6, <2>1 DEF WalkRight, Stored, RecordOK, WithinLog
<1>11. NeverLess'
  BY <1>0, <1>6 DEF WalkRight, NeverLess, NotLess
<1>12. ASSUME swWalk.tokens, ~swWalk.late, swVer[p] = rows, p \notin SWHot
       PROVE  /\ \A g \in swWalk.logs : rows[g] > 0
              /\ AsListed(swWalk') => swWalk.tok + v = SumFunctionOnSet(rows, SWLogs \ (swWalk.logs \ {f}))
  <2>1. /\ \A g \in swWalk.logs : rows[g] > 0
        /\ AsListed(swWalk) => swWalk.tok = SumFunctionOnSet(rows, SWLogs \ swWalk.logs)
    BY <1>0, <1>1, <1>12 DEF WalkRight, Scanning
  <2>2. AsListed(swWalk') => AsListed(swWalk)
    BY <1>1, <1>2, <1>3, <1>6, <1>9 DEF AsListed
  <2>3. PICK S : S = SWLogs \ (swWalk.logs \ {f})
    OBVIOUS
  <2>4. IsFiniteSet(S) /\ f \in S /\ S \ {f} = SWLogs \ swWalk.logs /\ \A x \in S : rows[x] \in Nat
    BY <1>2, <1>3, <2>3, SWSets, FS_Difference DEF Versions
  <2>5. SumFunctionOnSet(rows, S) = rows[f] + SumFunctionOnSet(rows, S \ {f})
    BY <2>4, SumStep
  <2>6. IsFiniteSet(S \ {f})
    BY <2>4, FS_Difference
  <2>7. SumFunctionOnSet(rows, S \ {f}) \in Nat
    BY <2>4, <2>6, SumStep
  <2>8. v = rows[f] /\ rows[f] \in Nat
    <3>1. v = swVer[p][f]
      BY <1>2, <1>12
    <3>2. rows[f] = swVer[p][f]
      BY <1>12
    <3>3. rows[f] \in Nat
      BY <2>4
    <3> QED BY <3>1, <3>2, <3>3
  <2>9. AsListed(swWalk') => swWalk.tok + v = SumFunctionOnSet(rows, S)
    <3> SUFFICES ASSUME AsListed(swWalk') PROVE swWalk.tok + v = SumFunctionOnSet(rows, S)
      OBVIOUS
    <3>1. swWalk.tok = SumFunctionOnSet(rows, S \ {f})
      BY <2>1, <2>2, <2>4
    <3> QED BY <2>5, <2>7, <2>8, <3>1
  <2> QED BY <2>1, <2>3, <2>9
<1>14. Scanning'
  <2>1. /\ swWalk.size > 0 /\ VersionsOf(rows) <= swWalk.size /\ swWalk.size <= VersionsOf(swVer[p])
    BY <1>0, <1>1 DEF WalkRight, Scanning
  <2> QED BY <1>0, <1>1, <1>6, <1>12, <2>1 DEF Scanning, WithinLog, AsListed
<1> QED BY <1>8, <1>10, <1>11, <1>14 DEF WalkRight

LEMMA ReadFailsKeeps ==
  ASSUME WalkRight, ReadLogFails
  PROVE  WalkRight'
<1>0. Typed /\ UNCHANGED <<swVer, swCache, swRec, swCursor>> /\ swWalk.pc = "read" /\ swWalk \in Walks
  BY DEF WalkRight, ReadLogFails, Typed
<1>1. PICK f \in swWalk.logs :
        /\ swWalk.cache[swWalk.p][f] # swVer[swWalk.p][f]
        /\ swWalk' = [swWalk EXCEPT !.logs = @ \ {f}, !.reads = @ + 1]
  BY DEF ReadLogFails
<1>2. f \in SWLogs
  BY <1>0, <1>1 DEF Walks
<1>3. /\ swWalk'.pc = "read" /\ swWalk'.p = swWalk.p /\ swWalk'.rows = swWalk.rows
      /\ swWalk'.todo = swWalk.todo /\ swWalk'.cache = swWalk.cache /\ swWalk'.late = swWalk.late
      /\ swWalk'.out = swWalk.out /\ swWalk'.staged = swWalk.staged /\ swWalk'.unread = swWalk.unread
      /\ swWalk'.tokens = swWalk.tokens /\ swWalk'.size = swWalk.size /\ swWalk'.logs = swWalk.logs \ {f}
      /\ swWalk'.tok = swWalk.tok
  BY <1>0, <1>1 DEF Walks
<1>4. swWalk' \in Walks
  <2>1. swWalk.reads + 1 \in Nat /\ swWalk.logs \ {f} \in SUBSET SWLogs
    BY <1>0 DEF Walks
  <2> QED BY <1>0, <1>1, <2>1 DEF Walks
<1>5. Typed'
  BY <1>0, <1>4 DEF Typed
<1>6. Stored'
  BY <1>0, <1>3 DEF WalkRight, Stored, RecordOK, WithinLog
<1>7. NeverLess'
  BY <1>0, <1>3 DEF WalkRight, NeverLess, NotLess
<1>8. Scanning'
  <2>1. ASSUME swWalk.tokens, ~swWalk.late, swVer[swWalk.p] = swWalk.rows, swWalk.p \notin SWHot
        PROVE  (\A g \in swWalk.logs : swWalk.rows[g] > 0) /\ ~AsListed(swWalk')
    <3>1. \A g \in swWalk.logs : swWalk.rows[g] > 0
      BY <1>0, <2>1 DEF WalkRight, Scanning
    <3>2. f \in SWLogs \ swWalk'.logs /\ swWalk'.rows[f] > 0 /\ swWalk'.cache[swWalk'.p][f] # swWalk'.rows[f]
      BY <1>1, <1>2, <1>3, <2>1, <3>1
    <3> QED BY <3>1, <3>2 DEF AsListed
  <2>2. /\ swWalk.size > 0 /\ VersionsOf(swWalk.rows) <= swWalk.size /\ swWalk.size <= VersionsOf(swVer[swWalk.p])
        /\ swWalk.p \in swWalk.todo /\ WithinLog(swWalk.rows, swWalk.p)
    BY <1>0 DEF WalkRight, Scanning
  <2> QED BY <1>0, <1>3, <2>1, <2>2 DEF Scanning, WithinLog, AsListed
<1> QED BY <1>5, <1>6, <1>7, <1>8 DEF WalkRight

(* A scan is over: what it keeps is the totals of the versions listed.      *)
LEMMA EndScanKeeps ==
  ASSUME WalkRight, EndScan
  PROVE  WalkRight'
<1>0. /\ Typed /\ UNCHANGED <<swVer, swCache, swRec, swCursor>> /\ swWalk.pc = "read" /\ swWalk.logs = {}
      /\ swWalk \in Walks /\ swWalk.out \in Partial(Metas) /\ swWalk.staged \in Partial(Records)
  BY WalkTypes DEF WalkRight, EndScan, Typed
<1>1. PICK p \in swWalk.todo, rows \in Versions : p = swWalk.p /\ rows = swWalk.rows /\ WithinLog(rows, p)
  BY <1>0, WalkTypes DEF WalkRight, Scanning
<1>2. p \in Projects /\ swVer[p] \in Versions
  BY <1>0, <1>1, WalkTypes
<1>3. /\ swWalk.size \in Nat /\ swWalk.size > 0 /\ VersionsOf(rows) <= swWalk.size /\ swWalk.size <= VersionsOf(swVer[p])
      /\ VersionsOf(rows) \in Nat /\ VersionsOf(swVer[p]) \in Nat
  BY <1>0, <1>1, <1>2, TotalIs DEF WalkRight, Scanning, Walks
<1>4. PICK tok : tok = IF swWalk.tokens THEN swWalk.tok ELSE SWNone
  OBVIOUS
<1>5. PICK meta : meta = [size |-> swWalk.size, tok |-> tok]
  OBVIOUS
<1>6. meta \in Metas /\ meta.size = swWalk.size /\ meta.tok = tok
  BY <1>0, <1>4, <1>5 DEF Metas, CountsSeen, Walks
<1>7. CASE Complete(swWalk)
  <2>1. PICK kept : kept = [digest |-> rows, size |-> swWalk.size, tok |-> tok]
    OBVIOUS
  <2>2. PICK out, staged : out = Put(swWalk.out, p, meta) /\ staged = Put(swWalk.staged, p, kept)
    OBVIOUS
  <2>3. \E interrupted \in BOOLEAN : swWalk' = Done(swWalk, p, out, staged, interrupted)
    BY <1>1, <1>4, <1>5, <1>7, <2>1, <2>2 DEF EndScan
  <2>4. kept \in Records /\ kept.digest = rows /\ kept.size = swWalk.size /\ kept.tok = tok
    BY <1>0, <1>1, <1>4, <2>1 DEF Records, CountsSeen, Walks
  <2>5. out \in Partial(Metas) /\ staged \in Partial(Records)
    BY <1>0, <1>2, <1>6, <2>2, <2>4, PutMeta, PutRecord
  <2>6. /\ swWalk' \in Walks /\ swWalk'.pc = "loop" /\ swWalk'.tokens = swWalk.tokens
        /\ swWalk'.todo = swWalk.todo \ {p} /\ swWalk'.cache = swWalk.cache
        /\ swWalk'.unread = swWalk.unread /\ swWalk'.out = out /\ swWalk'.staged = staged /\ swWalk'.tok = 0
    BY <1>0, <1>2, <2>3, <2>5, DoneIs
  <2>7. swVer[p] = rows /\ ~swWalk.late /\ p \notin SWHot /\ TokenRowsComplete(swWalk)
    BY <1>1, <1>7 DEF Complete
  <2>8. swWalk.size = VersionsOf(rows)
    BY <1>3, <2>7
  <2>9. swWalk.tokens => swWalk.tok = VersionsOf(rows)
    <3> SUFFICES ASSUME swWalk.tokens PROVE swWalk.tok = VersionsOf(rows)
      OBVIOUS
    <3>1. AsListed(swWalk)
      BY <2>7 DEF TokenRowsComplete, AsListed
    <3>2. swWalk.tok = SumFunctionOnSet(rows, SWLogs \ swWalk.logs)
      BY <1>0, <1>1, <2>7, <3>1 DEF WalkRight, Scanning
    <3>3. SWLogs \ swWalk.logs = SWLogs
      BY <1>0
    <3> QED BY <3>2, <3>3 DEF VersionsOf
  <2>10. tok \in {SWNone, VersionsOf(rows)} /\ (swWalk.tokens => tok = VersionsOf(rows))
    BY <1>4, <2>9
  <2>11. RecordOK(kept, p)
    BY <1>1, <1>3, <2>4, <2>8, <2>10 DEF RecordOK
  <2>12. swRec[p] # SWNone =>
           /\ meta.size >= swRec[p].size
           /\ swWalk.tokens /\ swRec[p].tok # SWNone => meta.tok >= swRec[p].tok
    <3> SUFFICES ASSUME swRec[p] # SWNone
        PROVE  /\ meta.size >= swRec[p].size
               /\ swWalk.tokens /\ swRec[p].tok # SWNone => meta.tok >= swRec[p].tok
      OBVIOUS
    <3>1. swRec[p].digest \in Versions /\ WithinLog(swRec[p].digest, p) /\ swRec[p].size = VersionsOf(swRec[p].digest)
          /\ swRec[p].tok \in {SWNone, VersionsOf(swRec[p].digest)}
      BY <1>0, <1>2, WalkTypes DEF WalkRight, Stored, RecordOK, Records
    <3>2. VersionsOf(swRec[p].digest) <= VersionsOf(rows) /\ VersionsOf(swRec[p].digest) \in Nat
      BY <1>1, <2>7, <3>1, TotalIs DEF WithinLog
    <3> QED BY <1>3, <1>6, <2>8, <2>10, <3>1, <3>2
  <2> QED BY <1>0, <1>6, <2>2, <2>4, <2>6, <2>11, <2>12, DoneKeeps
<1>8. CASE ~Complete(swWalk)
  <2>1. PICK said : said = IF swRec[p] # SWNone THEN Wire(swRec[p], swWalk.tokens) ELSE meta
    OBVIOUS
  <2>2. PICK out : out = Put(swWalk.out, p, said)
    OBVIOUS
  <2>3. \E interrupted \in BOOLEAN : swWalk' = Done(swWalk, p, out, swWalk.staged, interrupted)
    <3>1. Interrupted(swWalk) \in BOOLEAN
      BY <1>0 DEF Interrupted, Walks
    <3> QED BY <1>1, <1>4, <1>5, <1>8, <2>1, <2>2, <3>1 DEF EndScan
  <2>4. swRec[p] # SWNone => /\ swRec[p].size \in Nat /\ swRec[p].tok \in CountsSeen
    BY <1>0, <1>2, WalkTypes DEF Records
  <2>5. /\ said \in Metas
        /\ swRec[p] # SWNone => /\ said.size = swRec[p].size
                                /\ swWalk.tokens => said.tok = swRec[p].tok
    BY <1>6, <2>1, <2>4 DEF Wire, Metas, CountsSeen
  <2>6. swRec[p] # SWNone =>
           /\ said.size >= swRec[p].size
           /\ swWalk.tokens /\ swRec[p].tok # SWNone => said.tok >= swRec[p].tok
    BY <2>4, <2>5 DEF CountsSeen
  <2>7. out \in Partial(Metas)
    BY <1>0, <1>2, <2>2, <2>5, PutMeta
  <2>8. /\ swWalk' \in Walks /\ swWalk'.pc = "loop" /\ swWalk'.tokens = swWalk.tokens
        /\ swWalk'.todo = swWalk.todo \ {p} /\ swWalk'.cache = swWalk.cache
        /\ swWalk'.unread = swWalk.unread /\ swWalk'.out = out /\ swWalk'.staged = swWalk.staged
        /\ swWalk'.tok = 0
    BY <1>0, <1>2, <2>3, <2>7, DoneIs
  <2> QED BY <1>0, <2>2, <2>5, <2>6, <2>8, DoneKeeps
<1> QED BY <1>7, <1>8

(* The projects a walk did not visit are in its snapshot by their records.  *)
LEMMA EndWalkKeeps ==
  ASSUME WalkRight, EndWalk
  PROVE  WalkRight'
<1>0. /\ Typed /\ UNCHANGED <<swVer, swRec, swCursor>> /\ swCache' = swWalk.cache /\ swWalk.pc = "loop"
      /\ swWalk \in Walks
  BY DEF WalkRight, EndWalk, Typed
<1>1. PICK out : out = [p \in DOMAIN swWalk.out \cup Unvisited(swWalk) |->
                          IF p \in DOMAIN swWalk.out THEN swWalk.out[p] ELSE Wire(swRec[p], swWalk.tokens)]
  OBVIOUS
<1>2. PICK broke \in BOOLEAN : broke = (swWalk.broke \/ swWalk.todo # {})
  OBVIOUS
<1>3. swWalk' = [swWalk EXCEPT !.pc = "flush", !.broke = broke, !.out = out]
  BY <1>1, <1>2 DEF EndWalk
<1>4. \A p \in Unvisited(swWalk) : p \in Projects /\ p \in swWalk.todo /\ swRec[p] # SWNone /\ swRec[p] \in Records
  BY <1>0, WalkTypes DEF Unvisited
<1>5. \A p \in Unvisited(swWalk) :
        /\ Wire(swRec[p], swWalk.tokens) \in Metas
        /\ Wire(swRec[p], swWalk.tokens).size = swRec[p].size /\ swRec[p].size \in Nat
        /\ swWalk.tokens => Wire(swRec[p], swWalk.tokens).tok = swRec[p].tok
        /\ swRec[p].tok \in CountsSeen
  BY <1>4 DEF Wire, Metas, Records, CountsSeen
<1>6. out \in Partial(Metas)
  <2>1. PICK S \in SUBSET Projects : swWalk.out \in [S -> Metas]
    BY <1>0 DEF Walks, Partial
  <2>2. S \cup Unvisited(swWalk) \in SUBSET Projects
    BY <1>4
  <2>3. out \in [S \cup Unvisited(swWalk) -> Metas]
    BY <1>1, <1>5, <2>1
  <2> QED BY <2>2, <2>3 DEF Partial
<1>7. /\ swWalk'.pc = "flush" /\ swWalk'.out = out /\ swWalk'.todo = swWalk.todo
      /\ swWalk'.cache = swWalk.cache /\ swWalk'.staged = swWalk.staged /\ swWalk'.unread = swWalk.unread
      /\ swWalk'.tokens = swWalk.tokens
  BY <1>0, <1>3 DEF Walks
<1>8. swWalk' \in Walks
  BY <1>0, <1>2, <1>3, <1>6 DEF Walks
<1>9. Typed'
  BY <1>0, <1>8 DEF Typed, Walks
<1>10. Stored'
  BY <1>0, <1>7 DEF WalkRight, Stored, RecordOK, WithinLog
<1>11. NeverLess'
  <2>1. SUFFICES ASSUME NEW p \in Projects \ swWalk.unread, swRec[p] # SWNone PROVE NotLess(p)'
    BY <1>0, <1>7 DEF NeverLess
  <2>2. CASE p \in DOMAIN swWalk.out
    <3>1. p \notin swWalk.todo
      BY <1>0, <2>2 DEF WalkRight, NeverLess
    <3>2. NotLess(p)
      BY <1>0, <2>1, <3>1 DEF WalkRight, NeverLess
    <3>3. out[p] = swWalk.out[p] /\ p \in DOMAIN out
      BY <1>1, <2>2
    <3> QED BY <1>0, <1>7, <3>2, <3>3 DEF NotLess
  <2>3. CASE p \notin DOMAIN swWalk.out
    <3>1. p \in swWalk.todo
      BY <1>0, <2>1, <2>3 DEF WalkRight, NeverLess, NotLess
    <3>2. p \in Unvisited(swWalk)
      BY <2>1, <3>1 DEF Unvisited
    <3>3. p \in DOMAIN out /\ out[p] = Wire(swRec[p], swWalk.tokens)
      BY <1>1, <2>3, <3>2
    <3>4. out[p].size >= swRec[p].size /\ (swWalk.tokens /\ swRec[p].tok # SWNone => out[p].tok >= swRec[p].tok)
      BY <1>5, <3>2, <3>3 DEF CountsSeen
    <3> QED BY <1>0, <1>7, <3>3, <3>4 DEF NotLess
  <2> QED BY <2>2, <2>3
<1>12. Scanning'
  BY <1>7 DEF Scanning
<1> QED BY <1>9, <1>10, <1>11, <1>12 DEF WalkRight

LEMMA FlushKeeps ==
  ASSUME WalkRight, FlushState
  PROVE  WalkRight'
<1>0. Typed /\ swWalk' = SWIdle /\ UNCHANGED <<swVer, swCache>> /\ swWalk \in Walks
  BY DEF WalkRight, FlushState, Typed
<1>1. swRec' = [p \in Projects |-> IF p \in DOMAIN swWalk.staged THEN swWalk.staged[p] ELSE swRec[p]]
  BY DEF FlushState
<1>2. swRec' \in [Projects -> Records \cup {SWNone}]
  BY <1>0, <1>1, WalkTypes DEF Typed
<1>3. swCursor' \in 0..SWProjects
  BY <1>0, SWSets DEF FlushState, ResumeAfter, Typed, Walks
<1>4. \A p \in Projects : swRec'[p] # SWNone => RecordOK(swRec'[p], p)
  BY <1>1 DEF WalkRight, Stored
<1> QED BY <1>0, <1>2, <1>3, <1>4, LostKeeps

-----------------------------------------------------------------------------
(* Every step keeps the walk right.                                         *)
LEMMA WalkNext == WalkRight /\ [SWNext]_swVars => WalkRight'
<1> SUFFICES ASSUME WalkRight, [SWNext]_swVars PROVE WalkRight'
  OBVIOUS
<1>1. CASE StartWalk
  BY <1>1, StartKeeps
<1>2. CASE NextProject
  BY <1>2, NextKeeps
<1>3. CASE ScanProject
  BY <1>3, ScanKeeps
<1>4. CASE ReadLog
  BY <1>4, ReadKeeps
<1>5. CASE EndScan
  BY <1>5, EndScanKeeps
<1>6. CASE EndWalk
  BY <1>6, EndWalkKeeps
<1>7. CASE FlushState
  BY <1>7, FlushKeeps
<1>8. CASE AppendLog
  BY <1>8, AppendKeeps
<1>9. CASE Expire
  BY <1>9, ExpireKeeps
<1>10. CASE ScanFails
  BY <1>10, ScanFailsKeeps
<1>11. CASE ReadLogFails
  BY <1>11, ReadFailsKeeps
<1>12. CASE WalkLost
  <2>1. /\ swWalk' = SWIdle /\ UNCHANGED <<swVer, swCache>> /\ swRec' = swRec /\ swCursor' = swCursor
    BY <1>12 DEF WalkLost
  <2>2. swRec' \in [Projects -> Records \cup {SWNone}] /\ swCursor' \in 0..SWProjects
    BY <2>1 DEF WalkRight, Typed
  <2>3. \A p \in Projects : swRec'[p] # SWNone => RecordOK(swRec'[p], p)
    BY <2>1 DEF WalkRight, Stored
  <2> QED BY <2>1, <2>2, <2>3, LostKeeps
<1>13. CASE UNCHANGED swVars
  BY <1>13 DEF swVars, WalkRight, Typed, Stored, RecordOK, WithinLog, NeverLess, NotLess, Scanning, AsListed
<1> QED BY <1>1, <1>2, <1>3, <1>4, <1>5, <1>6, <1>7, <1>8, <1>9, <1>10, <1>11, <1>12, <1>13 DEF SWNext, SWStep

(* What a right walk keeps and publishes is exact, or older and exact.      *)
LEMMA RightKeepsCounts == WalkRight => WalkKeepsCounts
<1> SUFFICES ASSUME WalkRight PROVE WalkKeepsCounts
  OBVIOUS
<1>1. ASSUME NEW p \in Projects, swRec[p] # SWNone
      PROVE  /\ swRec[p].size = SumFunction(swRec[p].digest)
             /\ swRec[p].tok \in {SWNone, SumFunction(swRec[p].digest)}
  <2>1. swRec[p].digest \in Versions /\ RecordOK(swRec[p], p)
    BY <1>1, WalkTypes DEF WalkRight, Stored, Records
  <2>2. SumFunction(swRec[p].digest) = VersionsOf(swRec[p].digest)
    BY <2>1, TotalIs
  <2> QED BY <2>1, <2>2 DEF RecordOK
<1>2. RecordIsExact
  BY <1>1 DEF RecordIsExact
<1>3. NothingDropped
  BY DEF NothingDropped, WalkRight, NeverLess, NotLess
<1> QED BY <1>2, <1>3 DEF WalkKeepsCounts

LEMMA WalkIsRight == SWSpec => []WalkRight
<1>1. SWInit => WalkRight
  BY InitRight
<1>2. WalkRight /\ [SWNext]_swVars => WalkRight'
  BY WalkNext
<1> QED BY <1>1, <1>2, PTL DEF SWSpec

(* However many projects and logs there are, whatever is appended, fails,   *)
(* expires or is interrupted: a complete record of events.walk_session_meta *)
(* says what its logs held, and no snapshot says less than the records.     *)
THEOREM WalkCounts == SWSpec => []WalkKeepsCounts
<1>1. SWSpec => []WalkRight
  BY WalkIsRight
<1>2. WalkRight => WalkKeepsCounts
  BY RightKeepsCounts
<1> QED BY <1>1, <1>2, PTL

(* The fields of a walk, its records and its resume point stay in range.    *)
THEOREM WalkTypeCorrect == SWSpec => []SWTypeOK
<1>1. SWSpec => []WalkRight
  BY WalkIsRight
<1>2. WalkRight => SWTypeOK
  <2> SUFFICES ASSUME WalkRight PROVE SWTypeOK
    OBVIOUS
  <2>1. \A p \in Projects, f \in SWLogs : swVer[p][f] \in Nat /\ swCache[p][f] <= swVer[p][f]
    BY DEF WalkRight, Typed, Versions, Stored, WithinLog
  <2>2. \A p \in Projects : swRec[p] # SWNone => DOMAIN swRec[p] = {"digest", "size", "tok"}
    BY WalkTypes DEF WalkRight, Records
  <2>3. swCursor \in 0..SWProjects /\ swWalk.pc \in {"idle", "loop", "scan", "read", "flush"}
    BY DEF WalkRight, Typed, Walks
  <2> QED BY <2>1, <2>2, <2>3 DEF SWTypeOK
<1> QED BY <1>1, <1>2, PTL
=============================================================================
