------------------------------- MODULE Evidence -------------------------------
(***************************************************************************)
(* What a command leaves behind for its user to look at: what a push says  *)
(* of itself and of the usage it captured, and the history in state.db     *)
(* that mm log shows.                                                      *)
(***************************************************************************)
EXTENDS UsageRun, HistoryDb

\* What a push says of itself and of the usage row it captured, and the history that
\* commands, an older and a newer mm keep, is true.
EvidenceIsTrue == ReportsAreTrue /\ HistoryIsExact
=============================================================================
