----------------------------- MODULE RetroHosts -----------------------------
(***************************************************************************)
(* skills/retro_fleet/aggregator.py: the agent table of the fleet retro.   *)
(* Every device writes host-usage-snapshot rows, each the whole inventory  *)
(* of its agents' ledgers at one instant.  The reader validates a row,     *)
(* keeps the latest of each device and sums the days of the window by      *)
(* agent family; the per-model detail prices what it can, and every reason *)
(* for a price to be a lower bound is named on the row it affects.         *)
(* One counter stands for the four of a usage bucket.                      *)
(***************************************************************************)
EXTENDS Integers, FiniteSets, FiniteSetsExt, Functions

CONSTANTS RHRows,        \* the rows devices may have written
          RHFamily,      \* host_family: the family the reader puts a model in
          RHPromoted,    \* families older writers counted as "other"
          RHPrefixed,    \* models older writers counted as "other"
          RHRegistries,  \* the registries `mm devices` may answer; RHNone: no answer
          RHSince, RHUntil, RHSkew,
          RHNone

VARIABLES rhCorpus, rhUnread,   \* the rows on disk, and those not read yet
          rhLatest,             \* the accepted row of each device, or RHNone
          rhRejected            \* devices with a rejected row

rhVars == <<rhCorpus, rhUnread, rhLatest, rhRejected>>

Machines == {row.dev : row \in RHRows}
Models == DOMAIN RHFamily
Families == Range(RHFamily) \cup {"other"}

RHTypeOK == /\ rhUnread \subseteq rhCorpus /\ rhCorpus \subseteq RHRows
            /\ \A d \in Machines : rhLatest[d] # RHNone => rhLatest[d].dev = d
            /\ rhRejected \subseteq Machines

RHInit == /\ rhCorpus \in SUBSET RHRows /\ rhUnread = rhCorpus
          /\ rhLatest = [d \in Machines |-> RHNone] /\ rhRejected = {}

-----------------------------------------------------------------------------
\* A row: its instant, the readers it consulted, hosts (family -> day -> tokens), the
\* per-model detail (day -> total and tokens by model) or RHNone, what it says of
\* readers that failed or told only part, and two places in the order of rows.
HostDays(row) == UNION {DOMAIN row.hosts[f] : f \in DOMAIN row.hosts}
HostTotal(row, day) ==
  MapThenSumSet(LAMBDA f : IF day \in DOMAIN row.hosts[f] THEN row.hosts[f][day] ELSE 0, DOMAIN row.hosts)

\* _accept_tokens_by_day: the same days, day totals equal to the families', and no
\* more attributed to models than the day had.
DetailOk(row) == /\ DOMAIN row.detail = HostDays(row)
                 /\ \A day \in DOMAIN row.detail :
                      /\ row.detail[day].total = HostTotal(row, day)
                      /\ SumFunction(row.detail[day].by) <= row.detail[day].total

\* _accept_host_usage_snapshot: a claim that contradicts the row is dropped and the
\* row kept, as unusable.
BadDegraded(row) == row.degraded \cap row.sources # {}
BadPartial(row) == \/ row.partial # {} /\ row.hosts = << >>
                   \/ row.partial \cap row.degraded # {}
                   \/ ~(row.partial \subseteq row.sources)
Accepted(row) ==
  [dev |-> row.dev, ts |-> row.ts, hosts |-> row.hosts, tie |-> row.tie, sib |-> row.sib,
   detail |-> IF row.detail # RHNone /\ DetailOk(row) THEN row.detail ELSE RHNone,
   rank |-> IF row.detail = RHNone THEN 1 ELSE IF DetailOk(row) THEN 2 ELSE 0,
   degraded |-> IF BadDegraded(row) THEN {} ELSE row.degraded,
   partial |-> IF BadPartial(row) THEN {} ELSE row.partial,
   unusable |-> BadDegraded(row) \/ BadPartial(row)]

\* _host_row_order_key.
Precedes(a, b) ==
  \/ a.ts < b.ts
  \/ a.ts = b.ts /\ a.tie < b.tie
  \/ a.ts = b.ts /\ a.tie = b.tie /\ a.rank < b.rank
  \/ a.ts = b.ts /\ a.tie = b.tie /\ a.rank = b.rank /\ a.sib < b.sib

\* _accept_host_row_at: a row from too far in the future is rejected, not selected.
Rejects(row) == ~row.valid \/ row.ts > RHUntil + RHSkew

ReadHostRow ==
  \E row \in rhUnread :
    /\ rhUnread' = rhUnread \ {row}
    /\ IF Rejects(row)
       THEN rhRejected' = rhRejected \cup {row.dev} /\ UNCHANGED rhLatest
       ELSE LET new == Accepted(row)
                old == rhLatest[row.dev]
            IN  /\ rhLatest' = IF old = RHNone \/ Precedes(old, new)
                               THEN [rhLatest EXCEPT ![row.dev] = new] ELSE rhLatest
                /\ UNCHANGED rhRejected
    /\ UNCHANGED rhCorpus

RHSpec == RHInit /\ [][ReadHostRow]_rhVars
-----------------------------------------------------------------------------
\* aggregate_host_usage: the devices kept when the registry answers.
Kept(registry) == {d \in Machines : rhLatest[d] # RHNone /\ (registry # RHNone => d \in registry)}

\* window_bounds: nothing of a snapshot taken before the window, nor of days after it
\* was taken.
InWindow(snap) == IF snap.ts < RHSince THEN {} ELSE RHSince..Min({RHUntil, snap.ts})
Days(snap, f) == IF f \in DOMAIN snap.hosts THEN DOMAIN snap.hosts[f] \cap InWindow(snap) ELSE {}
Volume(snap, f) == MapThenSumSet(LAMBDA day : snap.hosts[f][day], Days(snap, f))
Touched(snap) == {f \in Families : Volume(snap, f) > 0}

DetailDays(snap) == IF snap.detail = RHNone THEN {} ELSE DOMAIN snap.detail
Of(snap, day, models) == MapThenSumSet(LAMBDA m : snap.detail[day].by[m], models \cap DOMAIN snap.detail[day].by)
Reported(snap, f, day) == IF f \in DOMAIN snap.hosts /\ day \in DOMAIN snap.hosts[f]
                          THEN snap.hosts[f][day] ELSE 0

\* _legacy_codex_prefixes: the writer counted prefixed models as "other" if what the
\* reader calls codex exceeds what the row does.
LegacyCodex(snap) ==
  \E day \in DetailDays(snap) :
    LET codex == {m \in DOMAIN snap.detail[day].by : RHFamily[m] = "codex"}
    IN  codex \cap RHPrefixed # {} /\ Of(snap, day, codex) > Reported(snap, "codex", day)

\* _host_model_family.
FamilyOf(snap, m) ==
  IF m \in RHPrefixed /\ LegacyCodex(snap) THEN "other"
  ELSE IF RHFamily[m] \in RHPromoted \ DOMAIN snap.hosts THEN "other"
  ELSE RHFamily[m]
ModelsOf(snap, f) == {m \in Models : FamilyOf(snap, m) = f}

\* _host_model_families_match: no family's models exceed what the row gives it.
FamiliesMatch(snap) ==
  \A day \in DetailDays(snap) \cap InWindow(snap), f \in Families :
    Of(snap, day, ModelsOf(snap, f)) <= Reported(snap, f, day)

\* _windowed_host_by_model: what the models of a family carry, and whether some day
\* has tokens no model is named for.
Priced(snap, f) ==
  IF ~FamiliesMatch(snap) THEN 0
  ELSE MapThenSumSet(LAMBDA day : Of(snap, day, ModelsOf(snap, f)), DetailDays(snap) \cap InWindow(snap))
Residual(snap) == \E day \in DetailDays(snap) \cap InWindow(snap) :
                    Of(snap, day, Models) < snap.detail[day].total

\* aggregate_agent_usage: why one snapshot makes a family's price a lower bound.
PriceCauses(snap, f) ==
  {c \in {"families", "residual", "detail"} :
     /\ f \in Touched(snap)
     /\ CASE c = "families" -> ~FamiliesMatch(snap)
          [] c = "residual" -> Residual(snap)
          [] OTHER -> snap.detail = RHNone}

\* What the machine admits of its readers, whichever families it reports.
ClaimCauses(snap) ==
  {c \in {"partial", "degraded", "unusable"} :
     CASE c = "partial" -> snap.partial # {}
       [] c = "degraded" -> snap.degraded # {}
       [] OTHER -> snap.unusable /\ snap.partial = {} /\ snap.degraded = {}}

Causes(snap, f) == PriceCauses(snap, f) \cup ClaimCauses(snap)

Current(registry) == {rhLatest[d] : d \in {e \in Kept(registry) : InWindow(rhLatest[e]) # {}}}
AgentRow(f, registry) ==
  LET snaps == Current(registry)
  IN  [tokens |-> MapThenSumSet(LAMBDA s : Volume(s, f), snaps),
       priced |-> MapThenSumSet(LAMBDA s : Priced(s, f), snaps),
       causes |-> UNION {Causes(s, f) : s \in snaps}]
-----------------------------------------------------------------------------
ReadAll == rhUnread = {}

\* The row kept for a device is the greatest of its acceptable rows whatever the order
\* of the files, so that two machines with one corpus show the same inventory.
LatestWhateverTheOrder ==
  ReadAll => \A d \in Machines :
    LET rows == {Accepted(r) : r \in {q \in rhCorpus : q.dev = d /\ ~Rejects(q)}}
    IN  rhLatest[d] \in (IF rows = {} THEN {RHNone} ELSE {r \in rows : \A o \in rows : o = r \/ Precedes(o, r)})

\* A family is never priced for more than its volume, and when it is priced for less
\* the row names a reason, whatever mixture of writer versions reported it.
FloorIsExplained ==
  ReadAll => \A registry \in RHRegistries, f \in Families :
    LET row == AgentRow(f, registry)
    IN  row.priced <= row.tokens /\ (row.priced < row.tokens => row.causes # {})

\* A machine that admits failed or partial readers marks every family of the table,
\* even one it reports nothing of, and even when its claims contradict each other.
AdmittedGapsReachEveryRow ==
  ReadAll => \A registry \in RHRegistries : \A d \in Kept(registry) :
    InWindow(rhLatest[d]) # {} =>
      \A row \in rhCorpus :
        (~Rejects(row) /\ Accepted(row) = rhLatest[d] /\ row.partial \cup row.degraded # {})
          => \A f \in Families : AgentRow(f, registry).causes # {}

\* The figures of the agents' half of a retro.
HostFigures == LatestWhateverTheOrder /\ FloorIsExplained /\ AdmittedGapsReachEveryRow
=============================================================================
