---------------------------- MODULE CodexLedger -----------------------------
(***************************************************************************)
(* What a Codex rollout says was spent, and the sum over rollouts that     *)
(* copy each other's history.  A rollout is a list of turn contexts and    *)
(* running totals; _read_rollout turns it into states, from the start or   *)
(* resuming an entry, and host_usage._aggregate sums the states of all     *)
(* files: a transition of the total counts once in a lineage, the files    *)
(* that name a common turn.  Codex forks, resumes and reopens sessions.    *)
(***************************************************************************)
EXTENDS Integers, Sequences, FiniteSets, FiniteSetsExt, SequencesExt

CONSTANTS CLFiles,    \* rollouts, 1..n in the order the pass reads them
          CLTurns,    \* turn ids
          CLAmounts,  \* what a step may spend
          CLRecords,  \* bound: records in all files together
          CLNone

VARIABLES clFile,   \* the records of each rollout
          clSpent   \* what was really spent: one record a step

clVars == <<clFile, clSpent>>

Turn(id) == [kind |-> "turn", id |-> id]
Usage(total, last) == [kind |-> "usage", total |-> total, last |-> last]

CLTypeOK == \A f \in CLFiles : \A i \in 1..Len(clFile[f]) : clFile[f][i].kind \in {"turn", "usage"}

CLInit == clFile = [f \in CLFiles |-> <<>>] /\ clSpent = {}

RecordCount == FoldFunctionOnSet(+, 0, [f \in CLFiles |-> Len(clFile[f])], CLFiles)
Usages(f) == SelectSeq(clFile[f], LAMBDA r : r.kind = "usage")
Total(f) == IF Usages(f) = <<>> THEN 0 ELSE Last(Usages(f)).total

Appends(f, records) ==
  /\ RecordCount + Len(records) <= CLRecords
  /\ clFile' = [clFile EXCEPT ![f] = @ \o records]

-----------------------------------------------------------------------------
\* One record of _read_rollout: a reading before any turn context waits for it.
NewWalk == [turn |-> CLNone, states |-> <<>>, pending |-> <<>>]
State(turn, r) == [turn |-> turn, total |-> r.total, last |-> r.last]
WalkRecord(w, r) ==
  IF r.kind = "turn"
  THEN [turn |-> r.id, pending |-> <<>>,
        states |-> w.states \o [i \in 1..Len(w.pending) |-> State(r.id, w.pending[i])]]
  ELSE IF w.turn = CLNone THEN [w EXCEPT !.pending = Append(@, r)]
  ELSE [w EXCEPT !.states = Append(@, State(w.turn, r))]

\* What is made of a walk: an entry, "no ledger", or a refusal of the whole store.
EntryOf(w) == IF w.states # <<>> THEN "entry" ELSE IF w.pending # <<>> THEN "refused" ELSE "no_ledger"

\* _cache_entry: of what a reading says it added, only the first state's is kept.
Cached(w) == [turn |-> w.turn, pending |-> w.pending,
              states |-> [i \in 1..Len(w.states) |->
                            [w.states[i] EXCEPT !.last = IF i = 1 THEN @ ELSE CLNone]]]

\* The records one after the other, from a walk begun before.
WalkOver(w, records) ==
  LET walk[i \in 0..Len(records)] == IF i = 0 THEN w ELSE WalkRecord(walk[i - 1], records[i])
  IN  walk[Len(records)]
FullRollout(f) == WalkOver(NewWalk, clFile[f])
States(f) == Cached(FullRollout(f)).states

\* _Lineages, of the states st of each file: the files joined by the turns they name.
InReadOrder == SetToSortSeq(CLFiles, <)
Table == [f \in CLFiles |-> States(f)]
NamedIn(states) == {states[i].turn : i \in 1..Len(states)} \ {""}
TurnsNamed(f) == NamedIn(States(f))
\* Files that share no turn with another file are closed; a lineage is a least such set.
Closed(named, files) == \A f \in files, g \in CLFiles \ files : named[f] \cap named[g] = {}
Lineages(st) ==
  LET named == [f \in CLFiles |-> NamedIn(st[f])]
      closed == {files \in SUBSET CLFiles : Closed(named, files)}
  IN  {{g \in CLFiles : \A files \in closed : f \in files => g \in files} : f \in CLFiles}
-----------------------------------------------------------------------------
\* External: Codex.  The step that spends says the running total and what it added.
Spends(f, before, amount) ==
  clSpent' = clSpent \cup {[file |-> f, step |-> Len(clFile'[f]), opens |-> Usages(f) = <<>>,
                            from |-> before, amount |-> amount]}

OthersName(f) == UNION {{clFile[g][i].id : i \in {j \in 1..Len(clFile[g]) : clFile[g][j].kind = "turn"}}
                          : g \in CLFiles \ {f}}
BeginTurn(f, id) == id \notin OthersName(f) \ {""} /\ Appends(f, <<Turn(id)>>) /\ UNCHANGED clSpent
SpendIn(f, amount) == Appends(f, <<Usage(Total(f) + amount, amount)>>) /\ Spends(f, Total(f), amount)
\* The last reading again, at the end of a turn or the start of the next.
Repeat(f) == Usages(f) # <<>> /\ Appends(f, <<Last(Usages(f))>>) /\ UNCHANGED clSpent
\* A fork copies the records of a session that spent under a named turn.
ForkOf(f, g) == clFile[f] = <<>> /\ TurnsNamed(g) # {} /\ Appends(f, clFile[g]) /\ UNCHANGED clSpent
\* A resumed session opens on its parent's total, under a turn of either.
ResumeOf(f, g, id, amount) ==
  /\ clFile[f] = <<>> /\ Usages(g) # <<>> /\ id \notin OthersName(f) \ (TurnsNamed(g) \cup {""})
  /\ Appends(f, <<Turn(id), Usage(Total(g) + amount, amount)>>) /\ Spends(f, Total(g), amount)
\* Or opens by saying the parent's last reading again, under the parent's turn.
ReopenOf(f, g) ==
  /\ clFile[f] = <<>> /\ TurnsNamed(g) # {} /\ Last(States(g)).turn # ""
  /\ Appends(f, <<Turn(Last(States(g)).turn), Last(Usages(g))>>) /\ UNCHANGED clSpent

CLNext ==
  RecordCount < CLRecords /\ \E f \in {g \in CLFiles : \A h \in CLFiles : h < g => clFile[h] # <<>>} :
    \/ \E id \in CLTurns : BeginTurn(f, id)
    \/ \E amount \in CLAmounts : SpendIn(f, amount)
    \/ Repeat(f)
    \/ \E g \in CLFiles \ {f} :
         \/ ForkOf(f, g) \/ ReopenOf(f, g)
         \/ \E id \in CLTurns, amount \in CLAmounts : ResumeOf(f, g, id, amount)

CLSpec == CLInit /\ [][CLNext]_clVars
-----------------------------------------------------------------------------
\* The sum takes the totals of each file, in the order of its records.
TotalsOf(states) == [i \in 1..Len(states) |-> states[i].total]
Transitions(readings) == {<<readings[i - 1], readings[i]>> : i \in 2..Len(readings)}
Reaches(readings, total) == \E t \in Transitions(readings) : t[2] = total
Increase(t) == IF t[2] > t[1] THEN t[2] - t[1] ELSE 0

\* An opening is counted for the first file of the order that has it, and not where
\* another file of the lineage came to its total by a transition.
OpeningCounts(totals, first, total) == {f \in DOMAIN totals : Reaches(totals[f], total)} \ {first} = {}

SumOf(st, totals, order) ==
  LET first(total) == SelectSeq(order, LAMBDA f : f \in DOMAIN totals /\ totals[f][1] = total)[1]
      opened == {total \in {totals[f][1] : f \in DOMAIN totals} : OpeningCounts(totals, first(total), total)}
  IN  MapThenSumSet(Increase, UNION {Transitions(totals[f]) : f \in DOMAIN totals})
      + MapThenSumSet(LAMBDA total : st[first(total)][1].last, opened)
SumLineage(st, files, order) ==
  SumOf(st, [f \in {g \in files : st[g] # <<>>} |-> TotalsOf(st[f])], order)

\* _aggregate over the entries in this order.  A refused file refuses them all.
Aggregate(st, lineages, order) == MapThenSumSet(LAMBDA files : SumLineage(st, files, order), lineages)
Published == \A f \in CLFiles : EntryOf(FullRollout(f)) # "refused"
-----------------------------------------------------------------------------
\* Resuming an entry and reading the rest gives the entry of a full read.
ResumeAgrees ==
  \A f \in CLFiles : \A n \in 1..Len(clFile[f]) :
    LET cut == WalkOver(NewWalk, SubSeq(clFile[f], 1, n))
    IN  EntryOf(cut) = "entry" =>
          Cached(WalkOver(Cached(cut), SubSeq(clFile[f], n + 1, Len(clFile[f])))) = Cached(FullRollout(f))

\* Totals are all there is to tell steps by: two steps of a lineage between the same
\* totals are taken for one, and so is an opening for a step to its total (the
\* docstring, host_usage.py:4029, owns to it).
Twins(lineage) ==
  \E s, t \in {u \in clSpent : u.file \in lineage} :
    /\ s # t
    /\ s.from + s.amount = t.from + t.amount
    /\ s.from = t.from \/ s.opens \/ t.opens
\* And a file that repeats the reading it opens on disarms the opening of a file of
\* its lineage, though nothing was paid: see the README.
OpeningRepeated(st, lineage) ==
  Cardinality(lineage) > 1 /\ \E f \in lineage : Len(st[f]) > 1 /\ st[f][1].total = st[f][2].total

\* Whatever copies whatever, and in whichever order the files are read: what was
\* spent is counted, once.
CountedOnce(st, lineages) ==
  (\A lineage \in lineages : ~Twins(lineage) /\ ~OpeningRepeated(st, lineage)) =>
    \A order \in {InReadOrder, Reverse(InReadOrder)} :
      Aggregate(st, lineages, order) = MapThenSumSet(LAMBDA s : s.amount, clSpent)
SpentOnceOf(st) == CountedOnce(st, Lineages(st))
SpentOnce == Published => SpentOnceOf(Table)

LedgerIsExact == ResumeAgrees /\ SpentOnce
=============================================================================
