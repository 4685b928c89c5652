----------------------------- MODULE SessionWalk -----------------------------
(***************************************************************************)
(* events.walk_session_metadata and what surrounds it: the walk of a push  *)
(* over the projects of a Claude Code directory, under a deadline.  It     *)
(* starts after the last project the previous walk completed, reuses the   *)
(* complete record of a project whose files did not change, reads the      *)
(* others file by file through the token cache, keeps the prior record of  *)
(* the projects it could not finish, and stages new complete records.      *)
(* A log only grows: at version v it holds v bytes and v tokens.           *)
(***************************************************************************)
EXTENDS Naturals, FiniteSets, FiniteSetsExt, Functions

CONSTANTS SWProjects,   \* projects 1..SWProjects, in path order
          SWLogs,       \* the logs of a project, of parents and of subagents
          SWHot,        \* projects an agent appends to during every scan
          SWBudget,     \* logs a walk can read before its deadline may pass
          SWChanges, SWFaults, SWStarved,   \* bounds on what disturbs a walk
          SWNone

ASSUME SWSets == SWProjects \in Nat /\ IsFiniteSet(SWLogs)

VARIABLES swVer,     \* the logs of every project; 0 is a log not there yet
          swCache,   \* token cache: the version each log was counted at, or 0
          swRec,     \* session_meta: the complete record of a project, or SWNone
          swCursor,  \* session_resume_after, or 0
          swWalk,    \* the walk under way
          swLeft     \* changes, faults and starved walks still allowed

swVars == <<swVer, swCache, swRec, swCursor, swWalk, swLeft>>

Projects == 1..SWProjects
NoLogs == [f \in SWLogs |-> 0]
Nothing == [p \in {} |-> 0]
\* Outside a scan its fields p, rows, size, tok and logs are at rest.
SWIdle == [pc |-> "idle", tokens |-> FALSE, late |-> FALSE, reads |-> 0, from |-> 0, todo |-> {}, last |-> 0,
           broke |-> FALSE, visited |-> FALSE, unread |-> {}, cache |-> [p \in Projects |-> NoLogs],
           out |-> Nothing, staged |-> Nothing, p |-> 0, rows |-> NoLogs, size |-> 0, tok |-> 0, logs |-> {}]

SWTypeOK ==
  /\ \A p \in Projects, f \in SWLogs : swVer[p][f] \in Nat /\ swCache[p][f] <= swVer[p][f]
  /\ \A p \in Projects : swRec[p] # SWNone => DOMAIN swRec[p] = {"digest", "size", "tok"}
  /\ swCursor \in 0..SWProjects
  /\ swWalk.pc \in {"idle", "loop", "scan", "read", "flush"}

SWInit == /\ \E first \in SWLogs :
               swVer = [p \in Projects |-> [f \in SWLogs |-> IF f = first THEN 1 ELSE 0]]
          /\ swCache = [p \in Projects |-> NoLogs]
          /\ swRec = [p \in Projects |-> SWNone]
          /\ swCursor = 0 /\ swWalk = SWIdle
          /\ swLeft = [changes |-> SWChanges, faults |-> SWFaults, starved |-> SWStarved]

Spend(what) == swLeft[what] > 0 /\ swLeft' = [swLeft EXCEPT ![what] = @ - 1]

\* External: an agent appends to a log, or begins one.
AppendLog == /\ Spend("changes")
             /\ \E p \in Projects, f \in SWLogs : swVer' = [swVer EXCEPT ![p][f] = @ + 1]
             /\ UNCHANGED <<swCache, swRec, swCursor, swWalk>>

-----------------------------------------------------------------------------
\* _reuse_session_meta: the record as it goes on the wire, without the token keys
\* when this walk carries no token cache.
Wire(rec, tokens) == [size |-> rec.size, tok |-> IF tokens THEN rec.tok ELSE SWNone]

\* The projects after the resume point come first.
Following(todo, from) ==
  IF \E p \in todo : p > from THEN Min({p \in todo : p > from}) ELSE Min(todo)

\* A walk begins, with the token cache (its lock held to the end) or without.  A
\* starved one finds its deadline already spent by the phases before it.
StartWalk ==
  /\ swWalk.pc = "idle"
  /\ \E tokens \in BOOLEAN, late \in BOOLEAN :
       /\ IF late THEN Spend("starved") ELSE UNCHANGED swLeft
       /\ swWalk' = [SWIdle EXCEPT !.pc = "loop", !.tokens = tokens, !.late = late,
                     !.from = swCursor, !.todo = Projects, !.cache = swCache]
  /\ UNCHANGED <<swVer, swCache, swRec, swCursor>>

\* The deadline passes.
Expire == /\ swWalk.pc \in {"loop", "scan", "read"} /\ ~swWalk.late /\ swWalk.reads >= SWBudget
          /\ swWalk' = [swWalk EXCEPT !.late = TRUE]
          /\ UNCHANGED <<swVer, swCache, swRec, swCursor, swLeft>>

\* A project is done: with or without metadata, and completed or interrupted.
Done(w, p, out, staged, interrupted) ==
  [w EXCEPT !.pc = "loop", !.todo = @ \ {p}, !.last = IF interrupted THEN @ ELSE p,
            !.broke = interrupted, !.visited = TRUE, !.out = out, !.staged = staged,
            !.p = 0, !.rows = NoLogs, !.size = 0, !.tok = 0, !.logs = {}]
Put(done, p, meta) == [q \in DOMAIN done \cup {p} |-> IF q = p THEN meta ELSE done[q]]

\* The next project: its rows are listed, and a record of the same rows is reused.
NextProject ==
  LET p == Following(swWalk.todo, swWalk.from)
      rec == swRec[p]
  IN  /\ swWalk.pc = "loop" /\ swWalk.todo # {} /\ ~swWalk.late /\ ~swWalk.broke
      /\ swWalk' =
           IF rec # SWNone /\ rec.digest = swVer[p] /\ (swWalk.tokens => rec.tok # SWNone)
           THEN Done(swWalk, p, Put(swWalk.out, p, Wire(rec, swWalk.tokens)), swWalk.staged, FALSE)
           ELSE [swWalk EXCEPT !.pc = "scan", !.p = p, !.rows = swVer[p]]
      /\ UNCHANGED <<swVer, swCache, swRec, swCursor, swLeft>>

\* _scan_one_project lists the logs; a directory without any yields nothing.
ScanProject ==
  /\ swWalk.pc = "scan"
  /\ swWalk' = IF SumFunction(swVer[swWalk.p]) = 0
               THEN Done(swWalk, swWalk.p, swWalk.out, swWalk.staged, FALSE)
               ELSE [swWalk EXCEPT !.pc = "read", !.size = SumFunction(swVer[swWalk.p]),
                       !.logs = IF swWalk.tokens THEN {f \in SWLogs : swVer[swWalk.p][f] > 0} ELSE {}]
  /\ UNCHANGED <<swVer, swCache, swRec, swCursor, swLeft>>

\* A directory that cannot be listed yields nothing either.
ScanFails ==
  /\ swWalk.pc = "scan" /\ Spend("faults")
  /\ swWalk' = [Done(swWalk, swWalk.p, swWalk.out, swWalk.staged, FALSE) EXCEPT !.unread = @ \cup {swWalk.p}]
  /\ UNCHANGED <<swVer, swCache, swRec, swCursor>>

\* get_or_compute of one log: past the deadline whatever is cached, a hit when the
\* log did not change, else a read, which is persisted when the log stood still.
ReadLog ==
  LET p == swWalk.p
      Counted(f, v, cached, reads) ==
        [swWalk EXCEPT !.logs = @ \ {f}, !.tok = @ + v, !.cache[p][f] = cached, !.reads = @ + reads]
  IN  /\ swWalk.pc = "read"
      /\ \E f \in swWalk.logs :
           LET was == swWalk.cache[p][f]
               now == swVer[p][f]
           IN  swWalk' = IF swWalk.late \/ (was = now /\ p \notin SWHot) THEN Counted(f, was, was, 0)
                         ELSE Counted(f, now, IF p \in SWHot THEN was ELSE now, 1)
      /\ UNCHANGED <<swVer, swCache, swRec, swCursor, swLeft>>

\* A read that fails: nothing counted, nothing persisted.
ReadLogFails ==
  /\ swWalk.pc = "read" /\ ~swWalk.late /\ Spend("faults")
  /\ \E f \in swWalk.logs :
       /\ swWalk.cache[swWalk.p][f] # swVer[swWalk.p][f]
       /\ swWalk' = [swWalk EXCEPT !.logs = @ \ {f}, !.reads = @ + 1]
  /\ UNCHANGED <<swVer, swCache, swRec, swCursor>>

\* _token_rows_complete: every log was counted at the version listed.
TokenRowsComplete(w) == w.tokens => \A f \in SWLogs : w.rows[f] > 0 => w.cache[w.p][f] = w.rows[f]

\* Mutant: the rows are not listed again after the scan.
CompleteUnchecked(w) == ~w.late /\ w.p \notin SWHot /\ TokenRowsComplete(w)
\* The scan is over.  It is staged when the deadline did not pass, the rows are those
\* of its start and every log was counted; else a prior record is preferred, and
\* only the deadline stops the walk.
Complete(w) == /\ ~w.late
               /\ w.p \notin SWHot /\ swVer[w.p] = w.rows
               /\ TokenRowsComplete(w)
\* Mutant: any incomplete scan ends the walk.
InterruptedByAny(w) == ~Complete(w)
\* Only the deadline stops the walk.
Interrupted(w) == w.late
EndScan ==
  LET w == swWalk
      tok == IF w.tokens THEN w.tok ELSE SWNone
      meta == [size |-> w.size, tok |-> tok]
      kept == [digest |-> w.rows, size |-> w.size, tok |-> tok]
  IN  /\ w.pc = "read" /\ w.logs = {}
      /\ swWalk' =
           IF Complete(w)
           THEN Done(w, w.p, Put(w.out, w.p, meta), Put(w.staged, w.p, kept), FALSE)
           ELSE Done(w, w.p, Put(w.out, w.p, IF swRec[w.p] # SWNone THEN Wire(swRec[w.p], w.tokens) ELSE meta),
                     w.staged, Interrupted(w))
      /\ UNCHANGED <<swVer, swCache, swRec, swCursor, swLeft>>

\* The projects a walk did not visit keep their records.
Unvisited(w) == {p \in w.todo : swRec[p] # SWNone}

\* The walk is over; the token cache is written as its lock is released.
EndWalk ==
  LET w == swWalk
  IN  /\ w.pc = "loop" /\ (w.todo # {} => w.late \/ w.broke)
      /\ swWalk' = [w EXCEPT !.pc = "flush", !.broke = @ \/ w.todo # {},
                             !.out = [p \in DOMAIN @ \cup Unvisited(w) |->
                                        IF p \in DOMAIN @ THEN @[p] ELSE Wire(swRec[p], w.tokens)]]
      /\ swCache' = w.cache
      /\ UNCHANGED <<swVer, swRec, swCursor, swLeft>>

\* The next resume point: none after a whole walk; a walk that visited or completed
\* nothing keeps the one it began with.
ResumeAfter(w) == IF ~w.visited THEN swCursor
                  ELSE IF ~w.broke THEN 0
                  ELSE IF w.last # 0 THEN w.last ELSE swCursor

\* flush_pending_session_state, and the snapshot is published.
FlushState ==
  LET w == swWalk
  IN  /\ w.pc = "flush"
      /\ swRec' = [p \in Projects |-> IF p \in DOMAIN w.staged THEN w.staged[p] ELSE swRec[p]]
      /\ swCursor' = ResumeAfter(w)
      /\ swWalk' = SWIdle
      /\ UNCHANGED <<swVer, swCache, swLeft>>

\* An interrupt during the walk writes nothing; a contended state file loses the
\* staged records only.
WalkLost == /\ swWalk.pc # "idle" /\ Spend("faults") /\ swWalk' = SWIdle
            /\ UNCHANGED <<swVer, swCache, swRec, swCursor>>

SWStep == StartWalk \/ NextProject \/ ScanProject \/ ReadLog \/ EndScan \/ EndWalk \/ FlushState
SWNext == SWStep \/ AppendLog \/ Expire \/ ScanFails \/ ReadLogFails \/ WalkLost

\* Pushes keep coming and a walk under way goes on.
SWFairness == WF_swVars(SWStep)
SWSpec == SWInit /\ [][SWNext]_swVars /\ SWFairness
-----------------------------------------------------------------------------
\* A complete record says exactly what the logs held when they were at its digest,
\* whatever was appended, failed or expired during the scan that staged it.
RecordIsExact ==
  \A p \in Projects : swRec[p] # SWNone =>
    /\ swRec[p].size = SumFunction(swRec[p].digest)
    /\ swRec[p].tok \in {SWNone, SumFunction(swRec[p].digest)}

\* The snapshot a walk publishes never reports less of a project than its complete
\* record did, and drops none, unless its directory could not be listed.
NothingDropped ==
  swWalk.pc = "flush" =>
    \A p \in Projects \ swWalk.unread : swRec[p] # SWNone =>
      /\ p \in DOMAIN swWalk.out
      /\ swWalk.out[p].size >= swRec[p].size
      /\ (swWalk.tokens /\ swRec[p].tok # SWNone => swWalk.out[p].tok >= swRec[p].tok)

\* Once the logs and the disk are quiet every project gets a record of its logs as
\* they are, even while an agent writes to another project during every scan.
RotationConverges ==
  \A p \in Projects \ SWHot : <>[](swRec[p] # SWNone /\ swRec[p].digest = swVer[p])

\* What a walk keeps and publishes is exact or an older exact record.
WalkKeepsCounts == RecordIsExact /\ NothingDropped
=============================================================================
