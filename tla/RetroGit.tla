------------------------------ MODULE RetroGit ------------------------------
(***************************************************************************)
(* skills/retro_fleet/aggregator.py: what the fleet retro makes of the     *)
(* git-snapshot and mm-push rows every device has written.  The same       *)
(* commit arrives from several devices, several captures and with          *)
(* different dates, in whatever order the event files sort, and a capture  *)
(* may say that it walked only part of what it owed.                       *)
(* Instants are integers, RGDay of them to a day.                          *)
(***************************************************************************)
EXTENDS Integers, Sequences, FiniteSets, FiniteSetsExt, SequencesExt

CONSTANTS RGSnapshots,  \* the git-snapshot rows devices may have written
          RGPushes,     \* the mm-push rows
          RGLocals,     \* the email sets the running machine may know; RGNone: no filter
          RGSince, RGUntil, RGDay,
          RGGap,        \* _BURST_GAP_MINUTES
          RGNone

VARIABLES rgCorpus,   \* the rows on disk
          rgLocal,    \* author_emails
          rgPhase,    \* "emails", "git", "pair", "done"
          rgUnread,   \* rows this pass has still to read
          rgTrusted,  \* effective_emails
          rgGit,      \* the accumulators of aggregate_git
          rgPair      \* the accumulators of the period pair

rgVars == <<rgCorpus, rgLocal, rgPhase, rgUnread, rgTrusted, rgGit, rgPair>>

DayOf(t) == t \div RGDay
Devices == {row.dev : row \in RGSnapshots}

\* GitAggregate, the commit part: seen keys, count, streak days, dates counted, and
\* the capture part: covered intervals and the latest observation of a device.
NoGit  == [seen |-> {}, commits |-> 0, streakSeen |-> {}, streakDays |-> {}, times |-> <<>>,
           covered |-> {}, observed |-> [d \in Devices |-> RGNone]]
NoPair == [seen |-> {}, prior |-> 0, current |-> 0]

RGTypeOK ==
  /\ rgPhase \in {"emails", "git", "pair", "done"} /\ rgUnread \subseteq RGSnapshots \cup RGPushes
  /\ rgGit.commits \in Nat /\ rgPair.prior \in Nat /\ rgPair.current \in Nat
  /\ \A d \in Devices : rgGit.observed[d] \in Int \cup {RGNone}

RGInit ==
  /\ rgCorpus \in SUBSET (RGSnapshots \cup RGPushes)
  /\ rgLocal \in RGLocals
  /\ rgPhase = "emails" /\ rgUnread = rgCorpus \cap RGPushes
  /\ rgTrusted = (IF rgLocal = RGNone THEN {} ELSE rgLocal) /\ rgGit = NoGit /\ rgPair = NoPair

-----------------------------------------------------------------------------
\* aggregate_local_emails_from_events: every device's own emails join the local ones,
\* unless the filter is off.
TrustPush ==
  /\ rgPhase = "emails"
  /\ \E row \in rgUnread :
       /\ rgUnread' = rgUnread \ {row}
       /\ rgTrusted' = IF rgLocal = RGNone THEN {} ELSE rgTrusted \cup row.emails
  /\ UNCHANGED <<rgCorpus, rgLocal, rgPhase, rgGit, rgPair>>

Trusts(commit) == rgTrusted = {} \/ commit.by \in rgTrusted

\* Mutant: a copy with a date out of the window uses up the key of the commit.
CountedFirstSight(acc, commit) ==
  IF ~Trusts(commit) \/ commit.key \in acc.streakSeen THEN acc
  ELSE [acc EXCEPT !.streakSeen = @ \cup {commit.key},
                   !.commits = @ + (IF commit.date \in RGSince..RGUntil THEN 1 ELSE 0)]
\* One commit of aggregate_git.  The streak takes a commit whatever its date; the
\* totals take one copy whose date is in the window.
Counted(acc, commit) ==
  LET streak == IF commit.key \in acc.streakSeen THEN acc
                ELSE [acc EXCEPT !.streakSeen = @ \cup {commit.key}, !.streakDays = @ \cup {DayOf(commit.date)}]
  IN  IF ~Trusts(commit) THEN acc
      ELSE IF commit.date \notin RGSince..RGUntil \/ commit.key \in acc.seen THEN streak
      ELSE [streak EXCEPT !.seen = @ \cup {commit.key}, !.commits = @ + 1, !.times = Append(@, commit.date)]

\* _project_git_capture: a row without a usable capture says nothing of coverage.
Captured(row) == row.since # RGNone /\ row.since <= row.ts

\* The capture of a row: an observation unless no root was found, and coverage only
\* if discovery did not hold the cursor.
Observed(acc, row) ==
  IF ~Captured(row) THEN acc
  ELSE [acc EXCEPT
         !.observed[row.dev] = IF row.discovery # "empty" /\ (@ = RGNone \/ row.ts > @) THEN row.ts ELSE @,
         !.covered = IF row.discovery \in {"partial", "empty"} THEN @
                     ELSE @ \cup {[dev |-> row.dev, since |-> row.since, ts |-> row.ts]}]

ReadSnapshot ==
  /\ rgPhase = "git"
  /\ \E row \in rgUnread :
       /\ rgUnread' = rgUnread \ {row}
       /\ rgGit' = FoldLeft(Counted, Observed(rgGit, row), row.commits)
  /\ UNCHANGED <<rgCorpus, rgLocal, rgPhase, rgTrusted, rgPair>>

\* _aggregate_git_period_pair: the prior period ends just before this one begins, and
\* a copy outside both does not consume the commit's key.
PriorStart == RGSince - (RGUntil - RGSince)
PriorUntil == RGSince - 1
Paired(acc, commit) ==
  LET prior == commit.date \in PriorStart..PriorUntil
      current == commit.date \in RGSince..RGUntil
  IN  IF ~Trusts(commit) \/ ~(prior \/ current) \/ commit.key \in acc.seen THEN acc
      ELSE [seen |-> acc.seen \cup {commit.key},
            prior |-> acc.prior + (IF prior THEN 1 ELSE 0),
            current |-> acc.current + (IF prior THEN 0 ELSE 1)]

ReadPair ==
  /\ rgPhase = "pair"
  /\ \E row \in rgUnread :
       /\ rgUnread' = rgUnread \ {row}
       /\ rgPair' = FoldLeft(Paired, rgPair, row.commits)
  /\ UNCHANGED <<rgCorpus, rgLocal, rgPhase, rgTrusted, rgGit>>

\* _coverage_floor_from_files and _coverage_allows_prior: no pair is counted unless the
\* oldest event file, named after the day of its rows, reaches the prior period.
Floor == IF rgCorpus = {} THEN RGNone ELSE Min({DayOf(row.ts) : row \in rgCorpus})
CoverageAllowsPrior == Floor # RGNone /\ Floor <= DayOf(PriorStart)

\* One pass over the rows ends and the next begins.
NextPass ==
  LET next == CASE rgPhase = "emails" -> "git"
                [] rgPhase = "git" -> IF CoverageAllowsPrior THEN "pair" ELSE "done"
                [] OTHER -> "done"
  IN  /\ rgPhase # "done" /\ rgUnread = {}
      /\ rgPhase' = next
      /\ rgUnread' = IF next = "done" THEN {} ELSE rgCorpus \cap RGSnapshots
      /\ UNCHANGED <<rgCorpus, rgLocal, rgTrusted, rgGit, rgPair>>

RGNext == TrustPush \/ ReadSnapshot \/ ReadPair \/ NextPass
RGSpec == RGInit /\ [][RGNext]_rgVars
-----------------------------------------------------------------------------
\* What the retro renders from the accumulators.

\* _uncovered_intervals, walking the days of the window in order.
\* The window begins no earlier than the event files.
WindowStart == IF Floor # RGNone /\ Floor > DayOf(RGSince) THEN Floor ELSE DayOf(RGSince)
WindowEnd(dev) == Min({DayOf(RGUntil), DayOf(rgGit.observed[dev])})
CoveredDay(dev, day) ==
  \E c \in rgGit.covered : c.dev = dev /\ day \in DayOf(c.since)..DayOf(c.ts)
Uncovered(dev) ==
  LET lo == WindowStart
      hi == WindowEnd(dev)
      Day(acc, i) ==
        LET day == lo + i - 1
        IN  IF ~CoveredDay(dev, day)
            THEN IF acc.start = RGNone THEN [acc EXCEPT !.start = day] ELSE acc
            ELSE IF acc.start = RGNone THEN acc
            ELSE [gaps |-> Append(acc.gaps, <<acc.start, day - 1>>), start |-> RGNone]
      walked == FoldLeft(Day, [gaps |-> <<>>, start |-> RGNone], [i \in 1..(hi - lo + 1) |-> i])
  IN  IF hi < lo THEN <<>>
      ELSE IF walked.start = RGNone THEN walked.gaps
      ELSE Append(walked.gaps, <<walked.start, hi>>)

\* _compute_streak: back from today, or from yesterday if today is still empty.
Streak(days) ==
  LET today == DayOf(RGUntil)
      from == IF today \in days THEN today ELSE today - 1
      Back(n, i) == IF n = i - 1 /\ from - n \in days THEN n + 1 ELSE n
  IN  FoldLeft(Back, 0, [i \in 1..(Cardinality(days)) |-> i])

\* _detect_bursts: a burst ends where the next commit is more than the gap away.
Bursts(times) ==
  LET sorted == SortSeq(times, <)
      Cluster(n, i) == IF sorted[i] - sorted[i - 1] > RGGap THEN n + 1 ELSE n
  IN  IF times = <<>> THEN 0 ELSE FoldLeft(Cluster, 1, [j \in 1..(Len(times) - 1) |-> j + 1])
-----------------------------------------------------------------------------
\* The trusted copies of commits in the corpus.
Snapshots == rgCorpus \cap RGSnapshots
Copies == UNION {{c \in ToSet(row.commits) : Trusts(c)} : row \in Snapshots}
KeysIn(dates) == {c.key : c \in {d \in Copies : d.date \in dates}}

\* However many captures and devices report a commit, with whatever dates, the retro
\* counts it once if some trusted copy is in the window and not at all otherwise.
CommitsCountedOnce ==
  rgPhase = "done" => rgGit.commits = Cardinality(KeysIn(RGSince..RGUntil))

\* The trends table puts no commit in both periods and loses none, and its current
\* column is the retro's own total unless a commit's copies disagree on the period.
PeriodsPartition ==
  rgPhase = "done" /\ CoverageAllowsPrior =>
    /\ rgPair.prior + rgPair.current = Cardinality(KeysIn(PriorStart..RGUntil))
    /\ (KeysIn(PriorStart..PriorUntil) \cap KeysIn(RGSince..RGUntil) = {}
          => rgPair.current = rgGit.commits)

\* A device's reported gaps are exactly the days, up to its last observation, that no
\* capture of its own fully walked: maximal, in order, and none that a partial walk closed.
Missing(dev) == {day \in WindowStart..WindowEnd(dev) :
                   ~\E row \in Snapshots :
                      /\ row.dev = dev /\ Captured(row)
                      /\ row.discovery \notin {"partial", "empty"}
                      /\ day \in DayOf(row.since)..DayOf(row.ts)}
GapsAreExact ==
  rgPhase = "done" => \A dev \in Devices : rgGit.observed[dev] # RGNone =>
    LET gaps == Uncovered(dev)
    IN  /\ UNION {gaps[i][1]..gaps[i][2] : i \in 1..Len(gaps)} = Missing(dev)
        /\ \A i \in 1..(Len(gaps) - 1) : gaps[i][2] + 1 < gaps[i + 1][1]

\* The streak is the run of trusted commit days that ends today or yesterday, and a
\* burst begins exactly at a commit that none precedes within the gap.
StreakAndBursts ==
  rgPhase = "done" =>
    LET days == rgGit.streakDays
        times == ToSet(rgGit.times)
        today == DayOf(RGUntil)
        Run(n) == \E last \in {today, today - 1} :
                    /\ (last = today - 1 => today \notin days)
                    /\ \A k \in 0..(n - 1) : last - k \in days
                    /\ last - n \notin days
    IN  /\ Run(Streak(days))
        /\ Bursts(rgGit.times) = Cardinality({t \in times : ~\E u \in times : u < t /\ t - u <= RGGap})

\* The figures of the Git half of a retro.
CommitFigures == CommitsCountedOnce /\ PeriodsPartition /\ GapsAreExact /\ StreakAndBursts
=============================================================================
