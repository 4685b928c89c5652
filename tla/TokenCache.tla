----------------------------- MODULE TokenCache -----------------------------
(***************************************************************************)
(* token_usage.py: the incremental reader of a Claude Code session log.    *)
(* The agent appends to the file, may leave a line half written and may    *)
(* replace the file, at any moment of a read.  get_or_compute reads it     *)
(* between two stats, resumes from the cached offset when the file only    *)
(* grew, and persists the day buckets with what the next resume needs.     *)
(* A line is one iteration of a message: every iteration repeats the same  *)
(* usage, so a message counts once, on the day of its first line.          *)
(***************************************************************************)
EXTENDS Naturals, Sequences, FiniteSets, SequencesExt

CONSTANTS TCIds,       \* messages 1..TCIds, first written in this order
          TCDays,      \* days 1..TCDays
          TCMaxDays,   \* MAX_BY_DAY_DAYS
          TCLookback,  \* TAIL_MSG_ID_LOOKBACK
          TCMaxLines, TCWrites,  \* bounds on the file and on changes of it
          TCNone

ASSUME TCAssumption == TCDays \in Nat /\ TCMaxDays \in Nat /\ TCLookback \in Nat /\ TCMaxLines \in Nat

VARIABLES tcFile,   \* the session log, or TCNone
          tcEntry,  \* its cache entry, or TCNone
          tcRun,    \* the read under way, which holds the cache lock
          tcWrites

tcVars == <<tcFile, tcEntry, tcRun, tcWrites>>

Line == [id: 1..TCIds, day: 1..TCDays]
File == [head: Nat, lines: Seq(Line), part: BOOLEAN, mtime: Nat]
\* st_size: two bytes a line, one for an unterminated tail.
Size(f) == 2 * Len(f.lines) + (IF f.part THEN 1 ELSE 0)
SizeOnly(f) == <<Size(f), 0>>   \* mutant: the mtime is not compared
Stat(f) == <<Size(f), f.mtime>>

Fresh(seed) == [days |-> [d \in {} |-> 0], offset |-> 0, seed |-> seed, ids |-> <<>>]
TCIdle == [pc |-> "idle"]

TCTypeOK ==
  /\ tcFile = TCNone \/ (tcFile.head \in Nat /\ Len(tcFile.lines) <= TCMaxLines /\ tcFile.part \in BOOLEAN)
  /\ tcEntry = TCNone \/ (/\ DOMAIN tcEntry.days \subseteq 1..TCDays
                          /\ Cardinality(DOMAIN tcEntry.days) <= TCMaxDays
                          /\ 2 * tcEntry.offset <= tcEntry.stat[1]
                          /\ Len(tcEntry.tail) <= TCLookback)
  /\ tcRun.pc \in {"idle", "plan", "walk", "probe", "stat"}

TCInit == tcFile = TCNone /\ tcEntry = TCNone /\ tcRun = TCIdle /\ tcWrites = 0

-----------------------------------------------------------------------------
\* External: the agent.  It streams an iteration of a message only while fewer than
\* TCLookback other messages have begun since that message's first line.
Begun(f) == {f.lines[i].id : i \in 1..Len(f.lines)}
FirstLine(f, id) == Min({i \in DOMAIN f.lines : f.lines[i].id = id})
Streaming(f, id) == Cardinality({f.lines[i].id : i \in FirstLine(f, id)..Len(f.lines)}) <= TCLookback
NextIds(f) == {id \in 1..TCIds : IF id \in Begun(f) THEN Streaming(f, id) ELSE id = Cardinality(Begun(f)) + 1}

\* Every change of the file moves its mtime, and a replacement begins differently.
Touch(f) == /\ tcWrites < TCWrites
            /\ tcWrites' = tcWrites + 1
            /\ tcFile' = [f EXCEPT !.mtime = tcWrites + 1]
            /\ UNCHANGED <<tcEntry, tcRun>>

CreateLog == tcFile = TCNone /\ Touch([head |-> tcWrites, lines |-> <<>>, part |-> FALSE, mtime |-> 0])
BeginLine == /\ tcFile # TCNone /\ ~tcFile.part /\ Len(tcFile.lines) < TCMaxLines
             /\ Touch([tcFile EXCEPT !.part = TRUE])
EndLine == /\ tcFile # TCNone /\ Len(tcFile.lines) < TCMaxLines
           /\ \E id \in NextIds(tcFile), day \in 1..TCDays :
                Touch([tcFile EXCEPT !.lines = Append(@, [id |-> id, day |-> day]), !.part = FALSE])
ReplaceLog == tcFile # TCNone /\ \E n \in 0..Len(tcFile.lines) :
                Touch([tcFile EXCEPT !.head = tcWrites, !.lines = SubSeq(@, 1, n), !.part = FALSE])
RemoveLog == /\ tcFile # TCNone /\ tcWrites < TCWrites
             /\ tcWrites' = tcWrites + 1 /\ tcFile' = TCNone
             /\ UNCHANGED <<tcEntry, tcRun>>

-----------------------------------------------------------------------------
\* _trim_by_day: the newest TCMaxDays days.
Trimmed(days) ==
  LET kept == {d \in DOMAIN days : Cardinality({e \in DOMAIN days : e >= d}) <= TCMaxDays}
  IN  [d \in kept |-> days[d]]

Added(days, day) == [d \in DOMAIN days \cup {day} |->
                       (IF d \in DOMAIN days THEN days[d] ELSE 0) + (IF d = day THEN 1 ELSE 0)]

\* merge_token_days: what the cached prefix and the segment counted, day by day.
Merged(a, b) == [d \in DOMAIN a \cup DOMAIN b |->
                   (IF d \in DOMAIN a THEN a[d] ELSE 0) + (IF d \in DOMAIN b THEN b[d] ELSE 0)]

\* One line of walk_jsonl_segment.
Walked(seg, line) ==
  LET seen == ToSet(seg.seed) \cup ToSet(seg.ids)
  IN  [seg EXCEPT !.days = IF line.id \in seen THEN @ ELSE Added(@, line.day),
                  !.offset = @ + 1,
                  !.ids = IF line.id \in ToSet(@) THEN @ ELSE Append(@, line.id)]

\* The elements of s at these places, in order.
Nth(places, k) == CHOOSE i \in places : Cardinality({j \in places : j <= i}) = k
Picked(s, places) == [k \in 1..Cardinality(places) |-> s[Nth(places, k)]]

\* _carry_tail_ids: the seed's ids this segment did not see, then the segment's, in
\* order of their first line, cut to the last TCLookback.
Unseen(seg) == {i \in DOMAIN seg.seed : seg.seed[i] \notin ToSet(seg.ids)}
CarriedIds(seg) ==
  LET all == Picked(seg.seed, Unseen(seg)) \o seg.ids
  IN  SubSeq(all, IF Len(all) > TCLookback THEN Len(all) - TCLookback + 1 ELSE 1, Len(all))

\* head_fingerprint of the accounted region: it tells replacements apart, and an
\* empty region has none.
HeadOf(f, offset) == IF f = TCNone \/ offset = 0 \/ Len(f.lines) < offset THEN TCNone ELSE f.head

\* _resume_plan: the entry has a resume point that a file of this size still reaches,
\* and what precedes that point is what the entry counted.
Resumable(f, size, e) ==
  /\ f # TCNone /\ e # TCNone
  /\ e.head # TCNone
  /\ size >= e.stat[1] /\ 2 * e.offset <= size
  /\ HeadOf(f, e.offset) = e.head

Resumed(e) == [Fresh(e.tail) EXCEPT !.offset = e.offset]

-----------------------------------------------------------------------------
\* get_or_compute takes the first stat.  A deadline already past, a file that is
\* not there and an entry of the same size and mtime end the read at once.
StatLog ==
  /\ tcRun.pc = "idle" /\ tcFile # TCNone
  /\ (tcEntry # TCNone => tcEntry.stat # Stat(tcFile))
  /\ tcRun' = [pc |-> "plan", pre |-> Stat(tcFile)]
  /\ UNCHANGED <<tcFile, tcEntry, tcWrites>>

\* Resume or read from the start.  Sizes are those of the first stat, the head is
\* that of the file now there.
Plan ==
  LET resume == Resumable(tcFile, tcRun.pre[1], tcEntry)
  IN  /\ tcRun.pc = "plan"
      /\ tcRun' = [pc |-> "walk", pre |-> tcRun.pre,
                   base |-> IF resume THEN tcEntry.days ELSE [d \in {} |-> 0],
                   seg |-> IF resume THEN Resumed(tcEntry) ELSE Fresh(<<>>)]
      /\ UNCHANGED <<tcFile, tcEntry, tcWrites>>

\* The next complete line of the file as it now is.  An unterminated tail is left
\* for the next read.
ReadLine ==
  /\ tcRun.pc = "walk" /\ tcFile # TCNone /\ tcRun.seg.offset < Len(tcFile.lines)
  /\ tcRun' = [tcRun EXCEPT !.seg = Walked(@, tcFile.lines[tcRun.seg.offset + 1])]
  /\ UNCHANGED <<tcFile, tcEntry, tcWrites>>

EndOfLog ==
  /\ tcRun.pc = "walk"
  /\ (tcFile # TCNone => tcRun.seg.offset >= Len(tcFile.lines))
  /\ tcRun' = [tcRun EXCEPT !.pc = "probe"]
  /\ UNCHANGED <<tcFile, tcEntry, tcWrites>>

\* A read error persists nothing; a full read that fails advances nothing either.
ReadFails == /\ tcRun.pc = "walk" /\ tcRun' = TCIdle
             /\ UNCHANGED <<tcFile, tcEntry, tcWrites>>

\* The fingerprint is taken before the second stat, so that the stats bracket it.
ProbeHead ==
  /\ tcRun.pc = "probe"
  /\ tcRun' = [pc |-> "stat", pre |-> tcRun.pre, base |-> tcRun.base, seg |-> tcRun.seg,
               head |-> HeadOf(tcFile, tcRun.seg.offset)]
  /\ UNCHANGED <<tcFile, tcEntry, tcWrites>>

\* Persist unless the file drifted.
Settle ==
  /\ tcRun.pc = "stat"
  /\ tcEntry' = IF tcFile = TCNone \/ Stat(tcFile) # tcRun.pre THEN tcEntry
                ELSE [stat |-> tcRun.pre, days |-> Trimmed(Merged(tcRun.base, tcRun.seg.days)),
                      offset |-> tcRun.seg.offset, head |-> tcRun.head, tail |-> CarriedIds(tcRun.seg)]
  /\ tcRun' = TCIdle
  /\ UNCHANGED <<tcFile, tcWrites>>

\* reap_cache_entries, under the same lock: the file is gone or the entry has no
\* day.  A cache cut short in a write reads as empty.
ReapEntry ==
  /\ tcRun.pc = "idle" /\ tcEntry # TCNone
  /\ (tcFile # TCNone => DOMAIN tcEntry.days = {})
  /\ tcEntry' = TCNone
  /\ UNCHANGED <<tcFile, tcRun, tcWrites>>

CacheLost == tcEntry # TCNone /\ tcEntry' = TCNone /\ tcRun' = TCIdle /\ UNCHANGED <<tcFile, tcWrites>>

TCNext ==
  \/ CreateLog \/ BeginLine \/ EndLine \/ ReplaceLog \/ RemoveLog
  \/ StatLog \/ Plan \/ ReadLine \/ EndOfLog \/ ReadFails \/ ProbeHead \/ Settle
  \/ ReapEntry \/ CacheLost

TCSpec == TCInit /\ [][TCNext]_tcVars
-----------------------------------------------------------------------------
\* walk_jsonl_segment to the end, and walk_jsonl_buckets, a read of the whole file.
WalkedOn(seg, lines) ==
  LET rest == Len(lines) - seg.offset
      walk[i \in 0..rest] == IF i = 0 THEN seg ELSE Walked(walk[i - 1], lines[seg.offset + i])
  IN  walk[rest]
FullWalk(f) == WalkedOn(Fresh(<<>>), f.lines)

\* A cached entry that the next read would take as it is counts exactly what a read
\* of the whole file counts.
HitIsFullCount ==
  tcFile # TCNone /\ tcEntry # TCNone /\ tcEntry.stat = Stat(tcFile)
    => tcEntry.days = Trimmed(FullWalk(tcFile).days)

\* Resuming an older entry and reading the rest gives the same buckets as a full
\* read, whatever straddles the resume point and whichever days are trimmed.
ResumeIsFullCount ==
  Resumable(tcFile, Size(tcFile), tcEntry) =>
    Trimmed(Merged(tcEntry.days, WalkedOn(Resumed(tcEntry), tcFile.lines).days))
      = Trimmed(FullWalk(tcFile).days)

\* The cache never changes what is counted.
CacheIsExact == HitIsFullCount /\ ResumeIsFullCount
=============================================================================
