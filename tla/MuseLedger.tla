----------------------------- MODULE MuseLedger -----------------------------
(***************************************************************************)
(* host_usage.py (Muse).  Session logs live in day directories, and Muse   *)
(* appends to them, nests subagent logs beside them and copies steps       *)
(* between them.  A pass reads the live days, trusts or checks the days    *)
(* it froze earlier, brings back a frozen day one of whose steps turns up  *)
(* in a live log, and freezes what has settled.  Muse writes while the     *)
(* pass runs; a pass fails or dies at any point.                           *)
(***************************************************************************)
EXTENDS Integers, Sequences, FiniteSets

CONSTANTS MLLogs,     \* the number of session logs
          MLSteps,    \* the number of model steps (envelope ids)
          MLLastTick, \* the clock stops here
          MLPerDay,   \* ticks in a day
          MLEvents,   \* bound on what Muse does
          MLResumed,  \* whether a log resumed after a day takes part in copying across days
          MLNone      \* no log, no entry, no record

ASSUME MLAssumption == MLPerDay \in Nat \ {0} /\ MLResumed \in BOOLEAN

MuseSettleDays == 2     \* _MUSE_SETTLE_DAYS
StepLeadDays   == 1   \* _MUSE_STEP_LEAD_DAYS
Today(tick)    == tick \div MLPerDay
DayDirs        == -1 .. Today(MLLastTick) + 1
StepLine(id, day, alt) == [id |-> id, day |-> day, alt |-> alt]

VARIABLES mlTick, mlEvents, mlSteps,
          mlLog,      \* per log: its directory, lines, last write, whether resumed after a rest
          mlFiles,    \* the cache: entry of each log
          mlFrozen,   \* the cache: record of each frozen day
          mlPass

mlVars == <<mlTick, mlEvents, mlSteps, mlLog, mlFiles, mlFrozen, mlPass>>

NoEntries == [l \in 1..MLLogs |-> MLNone]
NoRecords == [d \in DayDirs |-> MLNone]
NoMusePass == [pc |-> "idle", tick |-> 0, todo |-> {}, sure |-> {}, staged |-> NoEntries,
               kept |-> NoRecords, began |-> NoEntries]

MLInit == /\ mlTick = 0 /\ mlEvents = 0 /\ mlSteps = 0
          /\ mlLog = NoEntries /\ mlFiles = NoEntries /\ mlFrozen = NoRecords
          /\ mlPass = NoMusePass

MLTypeOK ==
  /\ mlTick \in 0..MLLastTick /\ mlEvents \in 0..MLEvents /\ mlSteps \in 0..MLSteps
  /\ \A l \in 1..MLLogs : mlLog[l] # MLNone => mlLog[l].dir \in DayDirs /\ mlLog[l].mtime <= mlTick
  /\ \A d \in DayDirs : mlFrozen[d] # MLNone => mlFrozen[d].keys \subseteq 1..MLSteps
  /\ mlPass.pc \in {"idle", "read", "check", "copies", "told"}

-----------------------------------------------------------------------------
\* Muse and the clock.  A new session is dated by the local calendar, a step by
\* UTC.  Any log may grow at any time; history is copied between the logs of one
\* day, and, out of a log not resumed after a day's rest, into a new session or one
\* that has not rested since.

LinesOf(log) == {log.lines[i] : i \in DOMAIN log.lines}
LogRemoved == [dir |-> 0, lines |-> <<>>, mtime |-> 0, rested |-> FALSE]
LogThere(l) == mlLog[l] \notin {MLNone, LogRemoved}
AllLines == UNION {LinesOf(mlLog[l]) : l \in {k \in 1..MLLogs : LogThere(k)}}
LogIdle(mtime, tick) == mtime <= tick - MLPerDay

\* Once the last log is read the pass looks at no file any more.
StillReading ==
  \/ mlPass.pc \in {"idle", "read", "check"}
  \/ mlPass.pc = "copies" /\ mlPass.todo # {}

MuseActs ==
  /\ StillReading /\ mlEvents < MLEvents /\ mlEvents' = mlEvents + 1
  /\ UNCHANGED <<mlTick, mlFiles, mlFrozen, mlPass>>

WriteLine(l, dir, line) ==
  mlLog' = [mlLog EXCEPT ![l] =
     IF LogThere(l) THEN [@ EXCEPT !.lines = Append(@, line), !.mtime = mlTick,
                                 !.rested = @ \/ LogIdle(mlLog[l].mtime, mlTick)]
     ELSE [dir |-> dir, lines |-> <<line>>, mtime |-> mlTick,
           rested |-> dir < Today(mlTick) - 1]]

\* Logs appear in the order of their names, and a name is used once.
Unused == {l \in 1..MLLogs : mlLog[l] = MLNone /\ \A k \in 1..(l - 1) : mlLog[k] # MLNone}
OpenDirs(l) == IF LogThere(l) THEN {mlLog[l].dir}
               ELSE ((Today(mlTick) - 1)..(Today(mlTick) + 1))
                    \cup {mlLog[k].dir : k \in {j \in 1..MLLogs : LogThere(j)}}

Gives(line) ==
  \E k \in 1..MLLogs : LogThere(k) /\ ~mlLog[k].rested /\ line \in LinesOf(mlLog[k])
Accepts(l, dir) ==
  \/ LogThere(l) /\ ~mlLog[l].rested /\ ~LogIdle(mlLog[l].mtime, mlTick)
  \/ ~LogThere(l) /\ dir >= Today(mlTick) - 1
Takes(l, dir, line) ==
  \/ MLResumed
  \/ Accepts(l, dir) /\ Gives(line)
  \/ \E k \in 1..MLLogs : LogThere(k) /\ mlLog[k].dir = dir /\ line \in LinesOf(mlLog[k])

StepDone ==
  /\ MuseActs /\ mlSteps < MLSteps /\ mlSteps' = mlSteps + 1
  /\ \E l \in {k \in 1..MLLogs : LogThere(k)} \cup Unused : \E dir \in OpenDirs(l) :
       WriteLine(l, dir, StepLine(mlSteps', Today(mlTick), FALSE))

\* A copy may disagree with its original.
HistoryCopied ==
  /\ MuseActs /\ UNCHANGED mlSteps
  /\ \E l \in {k \in 1..MLLogs : LogThere(k)} \cup Unused : \E dir \in OpenDirs(l) :
       \E line \in {x \in AllLines : Takes(l, dir, x)}, alt \in BOOLEAN :
         WriteLine(l, dir, [line EXCEPT !.alt = alt])

SessionRemoved ==
  /\ MuseActs /\ UNCHANGED mlSteps
  /\ \E l \in {k \in 1..MLLogs : LogThere(k)} : mlLog' = [mlLog EXCEPT ![l] = LogRemoved]

\* A pass works with the time it started at.
MuseClock == /\ mlPass.pc = "idle" /\ mlTick < MLLastTick /\ mlTick' = mlTick + 1
             /\ UNCHANGED <<mlEvents, mlSteps, mlLog, mlFiles, mlFrozen, mlPass>>

-----------------------------------------------------------------------------
\* A pass.

Keep(p) == mlPass' = p /\ UNCHANGED <<mlTick, mlEvents, mlSteps, mlLog, mlFiles, mlFrozen>>

LogsIn(d) == {l \in 1..MLLogs : LogThere(l) /\ mlLog[l].dir = d}
MuseIdentity(l) == [mtime |-> mlLog[l].mtime, size |-> Len(mlLog[l].lines)]
EntryIdentity(e) == [mtime |-> e.mtime, size |-> Len(e.lines)]

FrozenDays(p) == {d \in DayDirs : p.kept[d] # MLNone}

LiveDays(p) == {p.staged[l].dir : l \in {k \in 1..MLLogs : p.staged[k] # MLNone}}
MuseEntries(p, d) == {p.staged[l] : l \in {k \in 1..MLLogs : p.staged[k] # MLNone /\ p.staged[k].dir = d}}
LiveLines(p) == UNION {LinesOf(e) : e \in UNION {MuseEntries(p, d) : d \in LiveDays(p)}}

\* Mutant: a copy is looked for only in the days that were checked.
CopiedFromChecked(p) ==
  {d \in FrozenDays(p) \cap p.sure : p.kept[d].keys \cap {x.id : x \in LiveLines(p)} # {}}
\* A live step whose key a frozen day still holds.
Copied(p) == {d \in FrozenDays(p) : p.kept[d].keys \cap {x.id : x \in LiveLines(p)} # {}}

\* The live days read, the frozen ones are checked, then the copied ones read.
Onward(p) ==
  LET q == IF p.pc = "read" /\ p.todo = {} THEN [p EXCEPT !.pc = "check", !.todo = FrozenDays(p)]
           ELSE p
  IN  IF q.pc = "check" /\ q.todo = {} THEN [q EXCEPT !.pc = "copies", !.todo = Copied(q)] ELSE q

\* Days that exist are listed; a frozen day whose directory is gone is evicted.
BeginMuse ==
  /\ mlPass.pc = "idle"
  /\ LET dirs == {d \in DayDirs : LogsIn(d) # {}}
         kept == [d \in DayDirs |-> IF d \in dirs THEN mlFrozen[d] ELSE MLNone]
     IN  Keep(Onward([NoMusePass EXCEPT !.pc = "read", !.tick = mlTick, !.kept = kept,
                                        !.todo = {d \in dirs : kept[d] = MLNone}, !.began = mlLog]))

\* A step older than its session's directory allows, or two unequal lines of one
\* id in one log, refuse the reader.
Refused(l) ==
  \/ \E line \in LinesOf(mlLog[l]) : line.day < mlLog[l].dir - StepLeadDays
  \/ \E x, y \in LinesOf(mlLog[l]) : x.id = y.id /\ x # y

\* The entry of an unchanged log is not read again; a log that grew is read on from
\* where its entry ends, which for a log that only grows gives what reading it all does.
StatHit(l) == mlFiles[l] # MLNone /\ EntryIdentity(mlFiles[l]) = MuseIdentity(l)

EntryNow(l) == IF StatHit(l) THEN mlFiles[l]
               ELSE [dir |-> mlLog[l].dir, mtime |-> mlLog[l].mtime, lines |-> mlLog[l].lines]

\* read_live: the logs of a day in order, up to one that is refused.
StagedWith(p, d) ==
  LET good == {l \in LogsIn(d) : \A k \in LogsIn(d) : k <= l => ~Refused(k)}
  IN  [l \in 1..MLLogs |-> IF l \in good THEN EntryNow(l) ELSE p.staged[l]]
ReadsWell(d) == \A l \in LogsIn(d) : ~Refused(l)

\* What a pass that fails leaves: the entries it read over those it found, and the
\* frozen days it started from.
Failed(staged) ==
  /\ mlFiles' = [l \in 1..MLLogs |-> IF staged[l] # MLNone THEN staged[l] ELSE mlFiles[l]]
  /\ mlPass' = NoMusePass
  /\ UNCHANGED <<mlTick, mlEvents, mlSteps, mlLog, mlFrozen>>

ReadDay(p, d) ==
  IF ReadsWell(d) THEN Keep(Onward([p EXCEPT !.staged = StagedWith(p, d), !.sure = @ \cup {d}]))
  ELSE Failed(StagedWith(p, d))

First(S) == CHOOSE d \in S : \A e \in S : d <= e

ReadLiveDay ==
  /\ mlPass.pc = "read" /\ mlPass.todo # {}
  /\ LET d == First(mlPass.todo) IN ReadDay([mlPass EXCEPT !.todo = @ \ {d}], d)

\* A frozen day is stat-checked if its turn comes within the budget, else it stays
\* frozen on trust; a mismatch brings it back to life.
DigestNow(d) == {[log |-> l, id |-> MuseIdentity(l)] : l \in LogsIn(d)}

CheckFrozen ==
  /\ mlPass.pc = "check" /\ mlPass.todo # {}
  /\ LET d == First(mlPass.todo)
         p == [mlPass EXCEPT !.todo = @ \ {d}]
     IN  \/ Keep(Onward(p))
         \/ IF DigestNow(d) = mlPass.kept[d].digest THEN Keep(Onward([p EXCEPT !.sure = @ \cup {d}]))
            ELSE ReadDay([p EXCEPT !.kept[d] = MLNone], d)

UnfreezeCopied ==
  /\ mlPass.pc = "copies" /\ mlPass.todo # {}
  /\ LET d == First(mlPass.todo)
     IN  ReadDay([mlPass EXCEPT !.todo = @ \ {d}, !.kept[d] = MLNone], d)

\* The oldest step a session still open, or opened later, could be given.
ActiveDays(p) == {d \in LiveDays(p) : \E e \in MuseEntries(p, d) : ~LogIdle(e.mtime, p.tick)}
CopyableFrom(p) == First(ActiveDays(p) \cup {Today(p.tick) - 1}) - StepLeadDays

Forgets(p, lines) == \A x \in lines : x.day < CopyableFrom(p)
KeptKeys(p, lines) == IF Forgets(p, lines) THEN {} ELSE {x.id : x \in lines}

\* A day two days old whose logs are all idle and share no step with another live
\* day is frozen, under the identities its logs were read with.
MuseFreezes(p, d) ==
  /\ d <= Today(p.tick) - MuseSettleDays
  /\ \A e \in MuseEntries(p, d) : LogIdle(e.mtime, p.tick)
  /\ \A other \in LiveDays(p) \ {d} :
       {x.id : x \in UNION {LinesOf(e) : e \in MuseEntries(p, d)}}
         \cap {x.id : x \in UNION {LinesOf(e) : e \in MuseEntries(p, other)}} = {}

FrozenRecord(p, d) ==
  LET lines == UNION {LinesOf(e) : e \in MuseEntries(p, d)}
  IN  [lines |-> lines, keys |-> KeptKeys(p, lines),
       digest |-> {[log |-> l, id |-> EntryIdentity(p.staged[l])] :
                      l \in {k \in 1..MLLogs : p.staged[k] # MLNone /\ p.staged[k].dir = d}}]

Conflict(p) == \E x, y \in LiveLines(p) : x.id = y.id /\ x # y

\* A whole pass: a step restated in two logs counts once or refuses; the totals are
\* published unless the deadline passed meanwhile, and the cache write may fail.
FinishMuse ==
  /\ mlPass.pc = "copies" /\ mlPass.todo = {}
  /\ IF Conflict(mlPass) THEN Failed(mlPass.staged)
     ELSE LET p == mlPass
              frozen == [d \in DayDirs |->
                 IF p.kept[d] # MLNone
                   THEN [p.kept[d] EXCEPT !.keys = IF Forgets(p, p.kept[d].lines) THEN {} ELSE @]
                 ELSE IF d \in LiveDays(p) /\ MuseFreezes(p, d) THEN FrozenRecord(p, d) ELSE MLNone]
          IN  /\ \/ /\ mlFrozen' = frozen
                    /\ mlFiles' = [l \in 1..MLLogs |->
                          IF p.staged[l] # MLNone /\ frozen[p.staged[l].dir] = MLNone
                          THEN p.staged[l] ELSE MLNone]
                 \/ UNCHANGED <<mlFrozen, mlFiles>>
              /\ mlPass' = [p EXCEPT !.pc = "told"]
              /\ UNCHANGED <<mlTick, mlEvents, mlSteps, mlLog>>

\* The totals go to the caller.
MuseTold == mlPass.pc = "told" /\ Keep(NoMusePass)

\* A deadline, a log that changed while it was read, an I/O error.
MuseFails == mlPass.pc \in {"read", "check", "copies"} /\ Failed(mlPass.staged)
MuseDies == mlPass.pc \notin {"idle", "told"} /\ Keep(NoMusePass)

MLNext == \/ StepDone \/ HistoryCopied \/ SessionRemoved \/ MuseClock
          \/ BeginMuse \/ ReadLiveDay \/ CheckFrozen \/ UnfreezeCopied
          \/ FinishMuse \/ MuseTold \/ MuseFails \/ MuseDies

MLSpec == MLInit /\ [][MLNext]_mlVars
-----------------------------------------------------------------------------
\* In the totals a pass publishes no step counts twice, whether it stands in a live
\* log or in any frozen day, and no step of a day that was read or checked is left
\* out if its log held it when the pass began and is still there.
MuseCountsOnce ==
  mlPass.pc = "told" =>
    /\ \A d \in FrozenDays(mlPass) :
         LET here == {x.id : x \in mlPass.kept[d].lines}
         IN  /\ here \cap {x.id : x \in LiveLines(mlPass)} = {}
             /\ \A e \in FrozenDays(mlPass) \ {d} : here \cap {x.id : x \in mlPass.kept[e].lines} = {}
    /\ \A l \in 1..MLLogs :
         (mlPass.began[l] \notin {MLNone, LogRemoved} /\ LogThere(l) /\ mlPass.began[l].dir \in mlPass.sure)
           => \A x \in LinesOf(mlPass.began[l]) :
                \/ \E y \in LiveLines(mlPass) : y.id = x.id
                \/ \E d \in FrozenDays(mlPass) : \E y \in mlPass.kept[d].lines : y.id = x.id

\* A frozen day whose logs still have the identities it was frozen under holds the
\* steps of those logs, neither more nor fewer.
FrozenIsTrue ==
  \A d \in DayDirs :
    (mlFrozen[d] # MLNone /\ mlFrozen[d].digest = DigestNow(d))
      => mlFrozen[d].lines = UNION {LinesOf(mlLog[l]) : l \in LogsIn(d)}

MuseIsExact == MuseCountsOnce /\ FrozenIsTrue
=============================================================================
