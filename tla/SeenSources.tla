---------------------------- MODULE SeenSources ----------------------------
(***************************************************************************)
(* seen_sources.py: the names of default sources the user knows of, seeded *)
(* by the first reader with what it resolves and extended by every command *)
(* that enables or disables a source.  One file, locked, rewritten in      *)
(* place.  Each process resolves its own set of sources, so two seeds may  *)
(* differ.                                                                 *)
(***************************************************************************)
EXTENDS FiniteSets

CONSTANTS SSProcs, SSNames

VARIABLES ssFile,   \* [ok, names]: ok FALSE while missing, empty or torn
          ssProc,   \* what each process is about to do under the lock
          ssAcked,  \* history: names some command acknowledged
          ssCut     \* history: a rewrite was cut short

ssVars == <<ssFile, ssProc, ssAcked, ssCut>>

SSIdle == [pc |-> "idle", initial |-> {}, named |-> {}, hint |-> {}]

SSTypeOK ==
  /\ ssFile \in [ok : BOOLEAN, names : SUBSET SSNames]
  /\ ssProc \in [SSProcs -> [pc : {"idle", "seed"}, initial : SUBSET SSNames,
                             named : SUBSET SSNames, hint : SUBSET SSNames]]
  /\ ssAcked \subseteq SSNames /\ ssCut \in BOOLEAN

SSInit ==
  /\ ssFile = [ok |-> FALSE, names |-> {}]
  /\ ssProc = [p \in SSProcs |-> SSIdle]
  /\ ssAcked = {} /\ ssCut = FALSE

\* Mutant: an acknowledgement starts from its own set, not from the file.
ParsedNothing(otherwise) == otherwise
\* What the file says; nothing at all if it does not parse.
Parsed(otherwise) == IF ssFile.ok THEN ssFile.names ELSE otherwise

\* compute_new_sources: default names not seen, and neither disabled nor listed in
\* the configuration (named).
NewSources(seen, named) == SSNames \ (seen \cup named)

\* mm status hints at the new ones.
Status(p, seen, named) ==
  ssProc' = [ssProc EXCEPT ![p] = [SSIdle EXCEPT !.hint = NewSources(seen, named)]]

\* The shared read: done if the file parses, else the reader goes for the seed.
SharedRead(p, initial, named) ==
  /\ ssProc[p].pc = "idle"
  /\ IF ssFile.ok
       THEN Status(p, ssFile.names, named)
       ELSE ssProc' = [ssProc EXCEPT ![p] = [SSIdle EXCEPT !.pc = "seed", !.initial = initial, !.named = named]]
  /\ UNCHANGED <<ssFile, ssAcked, ssCut>>

\* A write in place, which a crash or a full disk may cut short.
WriteInPlace(names) ==
  \/ ssFile' = [ok |-> TRUE, names |-> names] /\ UNCHANGED ssCut
  \/ ssFile' = [ok |-> FALSE, names |-> {}] /\ ssCut' = TRUE

\* Under the exclusive lock the file is read again before it is seeded: an
\* acknowledgement may have filled it since the shared read.
Seed(p) ==
  /\ ssProc[p].pc = "seed"
  /\ IF ssFile.ok THEN UNCHANGED <<ssFile, ssCut>> ELSE WriteInPlace(ssProc[p].initial)
  /\ Status(p, Parsed(ssProc[p].initial), ssProc[p].named)
  /\ UNCHANGED ssAcked

\* One locked read-modify-write: the whole file plus the new names.
Acknowledge(p, names, initial) ==
  /\ ssProc[p].pc = "idle"
  /\ WriteInPlace(Parsed(initial) \cup names)
  /\ ssAcked' = ssAcked \cup names
  /\ ssProc' = [ssProc EXCEPT ![p] = SSIdle]

SSNext ==
  \E p \in SSProcs :
    \/ \E initial, named \in SUBSET SSNames : SharedRead(p, initial, named)
    \/ Seed(p)
    \/ \E names \in SUBSET SSNames, initial \in SUBSET SSNames : Acknowledge(p, names, initial)

SSSpec == SSInit /\ [][SSNext]_ssVars
-----------------------------------------------------------------------------
\* A source the user acknowledged is never hinted at again, whichever process
\* seeds the file in between, unless a write was cut short and reset the file.
\* (The race of two enable-source runs that acknowledge() documents.)
NoHintAfterAck ==
  [][\A p \in SSProcs : ~ssCut => (ssProc'[p].hint \ ssProc[p].hint) \cap ssAcked = {}]_ssVars
=============================================================================
