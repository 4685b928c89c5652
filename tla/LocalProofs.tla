----------------------------- MODULE LocalProofs -----------------------------
(***************************************************************************)
(* What is proved of the skill links (SkillLinks), of the conflict copies  *)
(* with their resolve walk (ConflictResolve) and of the Cursor history     *)
(* (CursorUsage), for any number of processes, hooks, agents, copies,      *)
(* generations and runs and any bounds: an inductive invariant of each,    *)
(* that every reachable state keeps it, and the properties that follow.    *)
(* With what is proved of self-update and of the fleet key (SetupProofs),  *)
(* all that the run over MCLocal checks follows at once.                   *)
(***************************************************************************)
EXTENDS MCLocal, SetupProofs, FiniteSetTheorems, TLAPS

(* ------------------------------ skill links ---------------------------- *)

\* What lies at the store's path is empty unless mm owns it, and there is metadata
\* only beside a payload at least as new.
StoreInv ==
  /\ slStore.at # "owned" => slStore.payload = 0
  /\ slStore.payload = 0 => slStore.meta = 0
  /\ slStore.payload >= slStore.meta

\* A publisher holds the lock and has not been overtaken: unless the user took the
\* store away, no newer version's metadata is in it.
PublishInv ==
  \A p \in SLProcs :
    /\ slRun[p].pc # "idle" => slRun[p].ver \in SLVersions
    /\ slRun[p].pc \in {"payload", "meta"} =>
         slLock = p /\ (Owned => slStore.meta <= slRun[p].ver)
    /\ slRun[p].pc = "meta" /\ Owned => slStore.payload = slRun[p].ver

\* What the installer leaves behind: a link it does not touch, one to the store with a
\* fresh marker, or none where the user removed it.
RowDone(r) == \/ slLink[r] \in {"foreign", "checkout"}
              \/ slLink[r] = "store" /\ slMarker[r] = "fresh"
              \/ slLink[r] = "absent" /\ slMarker[r] # "none"

\* The store holds a skill no older than version v.
HoldsVersion(v) == Owned /\ slStore.payload # 0 /\ slStore.meta >= v

\* A run that had the machine to itself finds the store as it published it, and every
\* agent it is through with is done.
UndisturbedInv ==
  \A p \in SLProcs : slRun[p].clean =>
    /\ slRun[p].pc \in {"publish", "payload", "meta"} =>
         slRun[p].allowed \cap slRoots \subseteq slRun[p].todo
    /\ slRun[p].pc = "link" =>
         /\ HoldsVersion(slRun[p].ver)
         /\ \A r \in (slRun[p].allowed \cap slRoots) \ slRun[p].todo : RowDone(r)

\* The same of the run that just ended.
EndedInv ==
  slEnded # SLNone /\ slEnded.clean =>
    /\ slEnded.ver \in SLVersions /\ HoldsVersion(slEnded.ver)
    /\ \A r \in slEnded.allowed \cap slRoots : RowDone(r)

SLInv == SLTypeOK /\ StoreInv /\ PublishInv /\ UndisturbedInv /\ EndedInv

(* ----------------------------- conflict copies ------------------------- *)

\* The faults under which edits may be lost or a kept version asked about again.
CalmResolve == CRFaults \cap {"typing", "remade", "marker"} = {}

\* The first sweep of this install came after the inversion shipped.
ClockInv == crNow > CRShipped /\ (marker # CRNone => marker \in Nat /\ marker > CRShipped)

\* A copy is local exactly when its name says so, or says nothing and is from before
\* the inversion.
LabelInv ==
  \A c \in Live : copies[c].local <=> (copies[c].era = "v0" \/
                                       (copies[c].era = "none" /\ copies[c].made < CRShipped))

PeerTexts == {{<<"theirs", k>>} : k \in 0..made.pushes}

\* The peer's versions hold none of this machine's edits, and there is a copy of one of
\* them at most.
CopiesInv ==
  /\ peer.text = {<<"theirs", made.pushes>>}
  /\ \A c \in Live : ~copies[c].local => copies[c].text \in PeerTexts
  /\ \A c, d \in Live : ~copies[c].local /\ ~copies[d].local => c = d

\* The walk: what it will show is there, once each, under its own name, and what it
\* shows beside it is the document as it is.
WalkInv ==
  /\ ~walk.open => walk.at = CRNone
  /\ walk.open => /\ \A c \in Live : copies[c].local <=> copies[c].era = "v0"
                  /\ \A h \in walk.hits : h[1] \in Live /\ h[1] # walk.at
                  /\ \A g, h \in walk.hits : g[1] = h[1] => g = h
  /\ walk.at # CRNone => walk.at \in Live /\ (walk.had => walk.seen = doc)

\* When the peer's version is settled, no copy of any is left to ask about, and the
\* next pull finds no conflict with it.
SettledInv ==
  /\ settled \subseteq PeerTexts
  /\ peer.text \in settled =>
       /\ \A c \in Live : copies[c].local
       /\ doc.text = {} \/ doc.text = peer.text \/ doc.mt > peer.mt

CRInv == CRTypeOK /\ ClockInv /\ LabelInv /\ CopiesInv /\ WalkInv /\ SettledInv
-----------------------------------------------------------------------------
(* ------------------------------ skill links ---------------------------- *)

\* Placing a link leaves a row done, whoever places it.
LEMMA PlacedIsDone ==
  ASSUME SLTypeOK, NEW p \in SLProcs, NEW r \in SLRows, LinkRow(p, r)
  PROVE  RowDone(r)'
<1> DEFINE placed == Placed(r, slRun[p].explicit)
<1>1. slLink'[r] = placed /\ slMarker'[r] = IF placed \in {"store", "checkout"} THEN "fresh" ELSE slMarker[r]
  BY DEF LinkRow, Satisfied, SLTypeOK
<1>2. CASE slLink[r] = "foreign"
  BY <1>1, <1>2 DEF Placed, RowDone
<1>3. CASE slLink[r] = "checkout"
  BY <1>1, <1>3 DEF Placed, RowDone
<1>4. CASE slLink[r] = "absent"
  BY <1>1, <1>4 DEF Placed, RowDone, KnownHere
<1>5. CASE slLink[r] \in {"store", "package"}
  BY <1>1, <1>5 DEF Placed, RowDone
<1> QED BY <1>2, <1>3, <1>4, <1>5 DEF SLTypeOK

\* A row some link step leaves alone stays done.
LEMMA DoneStaysDone ==
  ASSUME SLTypeOK, NEW p \in SLProcs, NEW q \in SLRows, LinkRow(p, q), NEW r \in SLRows, r # q, RowDone(r)
  PROVE  RowDone(r)'
BY DEF LinkRow, RowDone, SLTypeOK

\* The runs have their shape, and nobody is to do what he may not.
LinkSteps == {"idle", "publish", "payload", "meta", "link"}
Shape == [pc : LinkSteps, ver : SLVersions \cup {0}, explicit : BOOLEAN,
          allowed : SUBSET SLRows, todo : SUBSET SLRows, clean : BOOLEAN]
RunsTyped(runs) == runs \in [SLProcs -> Shape] /\ \A p \in SLProcs : runs[p].todo \subseteq runs[p].allowed

LEMMA TypedRuns == SLTypeOK => RunsTyped(slRun)
BY DEF SLTypeOK, RunsTyped, Shape, LinkSteps

\* A run that goes on, one that stops, and one through with a row.
LEMMA GotoTyped ==
  ASSUME RunsTyped(slRun), NEW p \in SLProcs, NEW pc \in LinkSteps, Goto(p, pc)
  PROVE  RunsTyped(slRun')
<1>1. slRun' = [slRun EXCEPT ![p].pc = pc]
  BY DEF Goto
<1> QED BY <1>1 DEF RunsTyped, Shape

LEMMA StopTyped ==
  ASSUME RunsTyped(slRun), NEW p \in SLProcs, slRun' = [slRun EXCEPT ![p] = SLIdle]
  PROVE  RunsTyped(slRun')
<1>1. SLIdle \in Shape /\ SLIdle.todo \subseteq SLIdle.allowed
  BY DEF SLIdle, Shape, LinkSteps
<1> HIDE DEF SLIdle
<1> QED BY <1>1 DEF RunsTyped

LEMMA RowTyped ==
  ASSUME NEW runs, RunsTyped(runs), NEW p \in SLProcs, NEW r, slRun' = [runs EXCEPT ![p].todo = @ \ {r}]
  PROVE  RunsTyped(slRun')
BY DEF RunsTyped, Shape

\* A disturbed run is the run it was, but no longer had the machine to itself.
LEMMA DisturbedRuns ==
  ASSUME RunsTyped(slRun)
  PROVE  /\ RunsTyped(Disturbed)
         /\ \A p \in SLProcs : /\ Disturbed[p].pc = slRun[p].pc /\ Disturbed[p].ver = slRun[p].ver
                               /\ Disturbed[p].explicit = slRun[p].explicit
                               /\ Disturbed[p].allowed = slRun[p].allowed
                               /\ Disturbed[p].todo = slRun[p].todo
                               /\ Disturbed[p].clean => slRun[p].pc = "idle"
<1>1. ASSUME NEW p \in SLProcs
      PROVE  /\ Disturbed[p] \in Shape
             /\ Disturbed[p].pc = slRun[p].pc /\ Disturbed[p].ver = slRun[p].ver
             /\ Disturbed[p].explicit = slRun[p].explicit
             /\ Disturbed[p].allowed = slRun[p].allowed
             /\ Disturbed[p].todo = slRun[p].todo
             /\ Disturbed[p].clean => slRun[p].pc = "idle"
  <2>1. CASE slRun[p].pc = "idle"
    <3>1. Disturbed[p] = [slRun[p] EXCEPT !.clean = TRUE]
      BY <2>1, Zenon DEF Disturbed
    <3> QED BY <2>1, <3>1 DEF RunsTyped, Shape
  <2>2. CASE slRun[p].pc # "idle"
    <3>1. (slRun[p].pc = "idle") = FALSE
      BY <2>2, Zenon
    <3>2. Disturbed[p] = [slRun[p] EXCEPT !.clean = FALSE]
      BY <3>1, Zenon DEF Disturbed
    <3> QED BY <2>2, <3>2 DEF RunsTyped, Shape
  <2> QED BY <2>1, <2>2
<1>2. Disturbed = [p \in SLProcs |-> Disturbed[p]]
  BY Zenon DEF Disturbed
<1> HIDE DEF Disturbed
<1> QED BY <1>1, <1>2 DEF RunsTyped

\* The type invariant, part by part.
SLParts ==
  /\ slLink \in [SLRows -> {"absent", "store", "package", "checkout", "foreign"}]
  /\ slMarker \in [SLRows -> {"none", "fresh", "stale"}]
  /\ slRoots \subseteq SLRows /\ slDead \subseteq {"package", "checkout"}
  /\ slStore \in [at : {"none", "owned", "foreign"}, payload : SLVersions \cup {0}, meta : SLVersions \cup {0}]
  /\ slLock \in SLProcs \cup {SLNone}
  /\ slLeft \in [runs : Nat, user : Nat, faults : Nat]
  /\ RunsTyped(slRun)

LEMMA SLPartsAreAll == (SLTypeOK <=> SLParts) /\ (SLTypeOK' <=> SLParts')
BY Zenon DEF SLTypeOK, SLParts, RunsTyped, Shape, LinkSteps

\* The type invariant is kept by every step.
LEMMA SLTypeNext == ASSUME SLTypeOK, [SLNext]_slVars PROVE SLTypeOK'
<1> USE SLConstants, SLBounds
<1>0. SLParts
  BY SLPartsAreAll
<1> SUFFICES SLParts'
  BY SLPartsAreAll
<1>1. ASSUME NEW p \in SLProcs, Begin(p) PROVE SLParts'
  <2>1. PICK ver \in SLVersions, explicit \in BOOLEAN, allowed \in SUBSET SLRows, readable \in BOOLEAN :
          LET available == allowed \cap slRoots
          IN  /\ slRun[p].pc = "idle" /\ slLeft.runs > 0
              /\ explicit \/ LinksDue(ver, allowed)
              /\ available # {} \/ Owned
              /\ readable \/ (Healthy /\ slLeft.faults > 0)
              /\ slRun' = [slRun EXCEPT ![p] = [pc |-> IF readable THEN "publish" ELSE "link", ver |-> ver,
                             explicit |-> explicit, allowed |-> allowed, todo |-> available, clean |-> readable]]
              /\ slLeft' = [slLeft EXCEPT !.runs = @ - 1, !.faults = IF readable THEN @ ELSE @ - 1]
              /\ slEnded' = SLNone
              /\ UNCHANGED <<slLink, slMarker, slRoots, slDead, slStore, slLock>>
    BY <1>1, Zenon DEF Begin
  <2> DEFINE run == [pc |-> IF readable THEN "publish" ELSE "link", ver |-> ver,
                     explicit |-> explicit, allowed |-> allowed, todo |-> allowed \cap slRoots, clean |-> readable]
  <2>2. run \in Shape /\ run.todo \subseteq run.allowed
    BY <1>0 DEF SLParts, Shape, LinkSteps
  <2>3. slRun' = [slRun EXCEPT ![p] = run]
    BY <2>1, Zenon
  <2> HIDE DEF run
  <2>4. RunsTyped(slRun')
    BY <1>0, <2>2, <2>3 DEF SLParts, RunsTyped
  <2>5. slLeft' \in [runs : Nat, user : Nat, faults : Nat]
    <3>1. slLeft \in [runs : Nat, user : Nat, faults : Nat] /\ slLeft.runs > 0 /\ (readable \/ slLeft.faults > 0)
      BY <1>0, <2>1, Zenon DEF SLParts
    <3>2. slLeft' = [slLeft EXCEPT !.runs = slLeft.runs - 1,
                                   !.faults = IF readable THEN slLeft.faults ELSE slLeft.faults - 1]
      BY <2>1, <3>1
    <3>3. (slLeft.runs - 1) \in Nat /\ (IF readable THEN slLeft.faults ELSE slLeft.faults - 1) \in Nat
      BY <3>1
    <3> QED BY <3>1, <3>2, <3>3
  <2>6. UNCHANGED <<slLink, slMarker, slRoots, slDead, slStore, slLock>>
    BY <2>1, Zenon
  <2> QED BY <1>0, <2>4, <2>5, <2>6 DEF SLParts
<1>2. ASSUME NEW p \in SLProcs, TakeStore(p) PROVE SLParts'
  <2>1. UNCHANGED <<slLink, slMarker, slRoots, slDead, slLeft>>
    BY <1>2 DEF TakeStore
  <2>2. RunsTyped(slRun')
    BY <1>0, <1>2, GotoTyped, StopTyped DEF TakeStore, Stop, SLParts, LinkSteps
  <2>3. slStore' \in [at : {"none", "owned", "foreign"}, payload : SLVersions \cup {0}, meta : SLVersions \cup {0}]
    BY <1>0, <1>2 DEF TakeStore, SLParts
  <2>4. slLock' \in SLProcs \cup {SLNone}
    BY <1>0, <1>2 DEF TakeStore, SLParts
  <2> QED BY <1>0, <2>1, <2>2, <2>3, <2>4 DEF SLParts
<1>3. ASSUME NEW p \in SLProcs, NEW store, NEW next \in {"meta", "link"}, Write(p, store, next),
             store \in [at : {"none", "owned", "foreign"}, payload : SLVersions \cup {0}, meta : SLVersions \cup {0}]
      PROVE SLParts'
  <2>1. UNCHANGED <<slLink, slMarker, slRoots, slDead, slLeft>>
    BY <1>3 DEF Write
  <2>2. RunsTyped(slRun')
    BY <1>0, <1>3, GotoTyped, StopTyped DEF Write, Stop, SLParts, LinkSteps
  <2>3. slStore' \in [at : {"none", "owned", "foreign"}, payload : SLVersions \cup {0}, meta : SLVersions \cup {0}]
    BY <1>0, <1>3 DEF Write, SLParts
  <2>4. slLock' \in SLProcs \cup {SLNone}
    BY <1>0, <1>3 DEF Write, SLParts
  <2> QED BY <1>0, <2>1, <2>2, <2>3, <2>4 DEF SLParts
<1>4. ASSUME NEW p \in SLProcs, WritePayload(p) \/ WriteMeta(p) PROVE SLParts'
  <2>1. slRun[p].ver \in SLVersions \cup {0}
    BY <1>0 DEF SLParts, RunsTyped, Shape
  <2>2. \A ver \in SLVersions \cup {0} :
          {[slStore EXCEPT !.payload = ver], [slStore EXCEPT !.meta = ver]} \subseteq
            [at : {"none", "owned", "foreign"}, payload : SLVersions \cup {0}, meta : SLVersions \cup {0}]
    BY <1>0 DEF SLParts
  <2> QED BY <1>3, <1>4, <2>1, <2>2 DEF WritePayload, WriteMeta
<1>5. ASSUME NEW p \in SLProcs, EndRun(p) PROVE SLParts'
  BY <1>0, <1>5, StopTyped DEF EndRun, Stop, SLParts
<1>6. ASSUME NEW p \in SLProcs, Crash(p) PROVE SLParts'
  <2>1. RunsTyped(slRun')
    BY <1>0, <1>6, StopTyped DEF Crash, Stop, SLParts
  <2>2. slLeft' \in [runs : Nat, user : Nat, faults : Nat] /\ slLock' \in SLProcs \cup {SLNone}
    BY <1>0, <1>6 DEF Crash, SLParts
  <2>3. UNCHANGED <<slLink, slMarker, slRoots, slDead, slStore>>
    BY <1>6 DEF Crash
  <2> QED BY <1>0, <2>1, <2>2, <2>3 DEF SLParts
<1>7. ASSUME NEW r \in SLRows, NEW explicit PROVE Placed(r, explicit) \in {"absent", "store", "package", "checkout", "foreign"}
  BY DEF Placed
<1>8. ASSUME NEW p \in SLProcs, NEW r \in SLRows, LinkRow(p, r) PROVE SLParts'
  <2>1. RunsTyped(slRun')
    BY <1>0, <1>8, RowTyped DEF LinkRow, SLParts
  <2>2. slLink' \in [SLRows -> {"absent", "store", "package", "checkout", "foreign"}]
        /\ slMarker' \in [SLRows -> {"none", "fresh", "stale"}]
    BY <1>0, <1>7, <1>8 DEF LinkRow, SLParts
  <2>3. UNCHANGED <<slRoots, slDead, slStore, slLock, slLeft>>
    BY <1>8 DEF LinkRow
  <2> QED BY <1>0, <2>1, <2>2, <2>3 DEF SLParts
<1>9. ASSUME NEW p \in SLProcs, NEW r \in SLRows, LinkFails(p, r) PROVE SLParts'
  <2>1. RunsTyped(slRun')
    BY <1>0, <1>9, RowTyped, DisturbedRuns DEF LinkFails, SLParts
  <2>2. slLink' \in [SLRows -> {"absent", "store", "package", "checkout", "foreign"}]
    BY <1>0, <1>7, <1>9 DEF LinkFails, SLParts
  <2>3. slLeft' \in [runs : Nat, user : Nat, faults : Nat]
    BY <1>0, <1>9 DEF LinkFails, SLParts
  <2>4. UNCHANGED <<slMarker, slRoots, slDead, slStore, slLock>>
    BY <1>9 DEF LinkFails
  <2> QED BY <1>0, <2>1, <2>2, <2>3, <2>4 DEF SLParts
<1>10. ASSUME NEW r \in SLRows, User(r) PROVE SLParts'
  <2>1. RunsTyped(slRun')
    BY <1>0, <1>10, DisturbedRuns DEF User, SLParts
  <2>2. slLeft' \in [runs : Nat, user : Nat, faults : Nat] /\ slLock' = slLock
    BY <1>0, <1>10 DEF User, SLParts
  <2>3. slStore' \in [at : {"none", "owned", "foreign"}, payload : SLVersions \cup {0}, meta : SLVersions \cup {0}]
    BY <1>0, <1>10 DEF User, NoStore, SLParts
  <2>4. slMarker' \in [SLRows -> {"none", "fresh", "stale"}]
    BY <1>0, <1>10 DEF User, SLParts
  <2>5. slLink' \in [SLRows -> {"absent", "store", "package", "checkout", "foreign"}]
    BY <1>0, <1>10 DEF User, SLParts
  <2>6. slRoots' \subseteq SLRows /\ slDead' \subseteq {"package", "checkout"}
    BY <1>0, <1>10 DEF User, SLParts
  <2> QED BY <1>0, <2>1, <2>2, <2>3, <2>4, <2>5, <2>6 DEF SLParts
<1>11. CASE UNCHANGED slVars
  BY <1>0, <1>11 DEF slVars, SLParts
<1> QED BY <1>1, <1>2, <1>4, <1>5, <1>6, <1>8, <1>9, <1>10, <1>11 DEF SLNext

\* Each action keeps the rest of the invariant.  A run that begins.
LEMMA BeginKeeps ==
  ASSUME SLInv, NEW p \in SLProcs, Begin(p)
  PROVE  (StoreInv /\ PublishInv /\ UndisturbedInv /\ EndedInv)'
<1>1. PICK ver \in SLVersions, explicit \in BOOLEAN, allowed \in SUBSET SLRows, readable \in BOOLEAN :
        LET available == allowed \cap slRoots
        IN  /\ slRun[p].pc = "idle" /\ slLeft.runs > 0
            /\ explicit \/ LinksDue(ver, allowed)
            /\ available # {} \/ Owned
            /\ readable \/ (Healthy /\ slLeft.faults > 0)
            /\ slRun' = [slRun EXCEPT ![p] = [pc |-> IF readable THEN "publish" ELSE "link", ver |-> ver,
                           explicit |-> explicit, allowed |-> allowed, todo |-> available, clean |-> readable]]
            /\ slLeft' = [slLeft EXCEPT !.runs = @ - 1, !.faults = IF readable THEN @ ELSE @ - 1]
            /\ slEnded' = SLNone
            /\ UNCHANGED <<slLink, slMarker, slRoots, slDead, slStore, slLock>>
  BY Zenon DEF Begin
<1>2. slRun' = [slRun EXCEPT ![p] = [pc |-> IF readable THEN "publish" ELSE "link", ver |-> ver,
                  explicit |-> explicit, allowed |-> allowed, todo |-> allowed \cap slRoots, clean |-> readable]]
      /\ slEnded' = SLNone /\ UNCHANGED <<slLink, slMarker, slRoots, slDead, slStore, slLock>>
  BY <1>1, Zenon
<1>3. \A q \in SLProcs : q # p => slRun'[q] = slRun[q]
  BY <1>2, Zenon DEF SLInv, SLTypeOK
<1>4. /\ slRun'[p].pc \in {"publish", "link"} /\ slRun'[p].ver \in SLVersions
      /\ slRun'[p].pc = "link" => ~slRun'[p].clean
      /\ slRun'[p].allowed \cap slRoots \subseteq slRun'[p].todo
  BY <1>2 DEF SLInv, SLTypeOK
<1>5. StoreInv' /\ EndedInv'
  BY <1>2 DEF SLInv, StoreInv, EndedInv
<1>6. PublishInv'
  BY <1>2, <1>3, <1>4 DEF SLInv, PublishInv, Owned
<1>7. UndisturbedInv'
  BY <1>2, <1>3, <1>4 DEF SLInv, UndisturbedInv, HoldsVersion, RowDone, Owned
<1> QED BY <1>5, <1>6, <1>7

\* A run meets the store: a foreign one ends it, else it goes on to publish or to link.
LEMMA TakeKeeps ==
  ASSUME SLInv, NEW p \in SLProcs, TakeStore(p)
  PROVE  (StoreInv /\ PublishInv /\ UndisturbedInv /\ EndedInv)'
<1> USE SLConstants
<1>1. slRun[p].pc = "publish" /\ slLock = SLNone /\ UNCHANGED <<slLink, slMarker, slRoots, slDead, slLeft>>
  BY DEF TakeStore, LockFree
<1>2. \A q \in SLProcs : slRun[q].pc \notin {"payload", "meta"}
  BY <1>1 DEF SLInv, PublishInv
<1>3. slRun[p] \in Shape /\ SLVersions \cup {0} \subseteq Nat
      /\ slStore \in [at : {"none", "owned", "foreign"}, payload : SLVersions \cup {0}, meta : SLVersions \cup {0}]
  BY TypedRuns DEF SLInv, RunsTyped, SLTypeOK
<1>4. CASE slStore.at = "foreign"
  <2>1. /\ slRun' = [slRun EXCEPT ![p] = SLIdle] /\ slEnded' = [Ended(p) EXCEPT !.clean = FALSE]
        /\ UNCHANGED <<slStore, slLock>>
    BY <1>4 DEF TakeStore, Stop
  <2>2. slRun'[p].pc = "idle" /\ \A q \in SLProcs : q # p => slRun'[q] = slRun[q]
    BY <2>1 DEF SLIdle, SLInv, SLTypeOK
  <2>3. ~slEnded'.clean
    BY <2>1 DEF Ended
  <2>4. PublishInv'
    BY <1>1, <1>2, <2>1, <2>2 DEF SLInv, PublishInv, Owned
  <2>5. UndisturbedInv'
    BY <1>1, <2>1, <2>2 DEF SLInv, UndisturbedInv, HoldsVersion, RowDone, Owned
  <2> QED BY <2>1, <2>3, <2>4, <2>5 DEF SLInv, StoreInv, EndedInv
<1>5. CASE slStore.at # "foreign"
  <2> DEFINE pc == IF ShouldPublish(slRun[p].ver) THEN "payload" ELSE "link"
  <2>1. /\ slStore' = [slStore EXCEPT !.at = "owned"]
        /\ slRun' = [slRun EXCEPT ![p].pc = pc] /\ slEnded' = SLNone
        /\ slLock' = IF ShouldPublish(slRun[p].ver) THEN p ELSE slLock
    BY <1>5, Zenon DEF TakeStore, Goto
  <2>2. /\ slRun'[p].pc = pc /\ slRun'[p].ver = slRun[p].ver /\ slRun'[p].allowed = slRun[p].allowed
        /\ slRun'[p].todo = slRun[p].todo /\ slRun'[p].clean = slRun[p].clean
        /\ \A q \in SLProcs : q # p => slRun'[q] = slRun[q]
    BY <2>1 DEF SLInv, SLTypeOK
  <2>3. slStore'.at = "owned" /\ slStore'.payload = slStore.payload /\ slStore'.meta = slStore.meta
    BY <1>3, <2>1
  <2>4. /\ slRun[p].ver \in SLVersions /\ slRun[p].ver \in Nat
        /\ slStore.meta \in Nat /\ slStore.payload \in Nat
    BY <1>1, <1>3 DEF SLInv, PublishInv
  <2>5. StoreInv' /\ EndedInv'
    BY <2>1, <2>3 DEF SLInv, StoreInv, EndedInv
  <2>6. ShouldPublish(slRun[p].ver) => slStore.meta <= slRun[p].ver
    BY <2>4 DEF ShouldPublish, SLInv, StoreInv
  <2>7. ~ShouldPublish(slRun[p].ver) => slStore.payload # 0 /\ slStore.meta >= slRun[p].ver
    BY <2>4 DEF ShouldPublish
  <2>8. PublishInv'
    <3> SUFFICES ASSUME NEW q \in SLProcs
                 PROVE  /\ slRun'[q].pc # "idle" => slRun'[q].ver \in SLVersions
                        /\ slRun'[q].pc \in {"payload", "meta"} =>
                             slLock' = q /\ slStore'.meta <= slRun'[q].ver
                        /\ slRun'[q].pc # "meta"
      BY DEF PublishInv
    <3>1. CASE q = p
      BY <2>1, <2>2, <2>3, <2>4, <2>6, <3>1
    <3>2. CASE q # p
      BY <1>2, <2>2, <3>2 DEF SLInv, PublishInv
    <3> QED BY <3>1, <3>2
  <2>9. UndisturbedInv'
    <3> SUFFICES ASSUME NEW q \in SLProcs, slRun'[q].clean
                 PROVE  /\ slRun'[q].pc \in {"publish", "payload", "meta"} =>
                             slRun'[q].allowed \cap slRoots \subseteq slRun'[q].todo
                        /\ slRun'[q].pc = "link" =>
                             /\ slStore'.payload # 0 /\ slStore'.meta >= slRun'[q].ver
                             /\ \A r \in (slRun'[q].allowed \cap slRoots) \ slRun'[q].todo : RowDone(r)
      BY <1>1, <2>3 DEF UndisturbedInv, HoldsVersion, Owned, RowDone
    <3>1. CASE q = p
      BY <1>1, <2>2, <2>3, <2>7, <3>1 DEF SLInv, UndisturbedInv
    <3>2. CASE q # p
      BY <2>2, <2>3, <3>2 DEF SLInv, UndisturbedInv, HoldsVersion
    <3> QED BY <3>1, <3>2
  <2> QED BY <2>5, <2>8, <2>9
<1> QED BY <1>4, <1>5

\* A file of the store is replaced, or the run finds the store taken away.
LEMMA WriteKeeps ==
  ASSUME SLInv, NEW p \in SLProcs, WritePayload(p) \/ WriteMeta(p)
  PROVE  (StoreInv /\ PublishInv /\ UndisturbedInv /\ EndedInv)'
<1> USE SLConstants
<1> DEFINE ver == slRun[p].ver
           next == IF slRun[p].pc = "payload" THEN "meta" ELSE "link"
<1>1. /\ slRun[p].pc \in {"payload", "meta"} /\ slLock = p
      /\ ver \in SLVersions /\ (Owned => slStore.meta <= ver)
      /\ slRun[p].pc = "meta" /\ Owned => slStore.payload = ver
  BY DEF WritePayload, WriteMeta, SLInv, PublishInv
<1>2. \A q \in SLProcs : q # p => slRun[q].pc \notin {"payload", "meta"}
  BY <1>1 DEF SLInv, PublishInv
<1>3. slRun[p] \in Shape /\ SLVersions \cup {0} \subseteq Nat
      /\ slStore \in [at : {"none", "owned", "foreign"}, payload : SLVersions \cup {0}, meta : SLVersions \cup {0}]
  BY TypedRuns DEF SLInv, RunsTyped, SLTypeOK
<1>4. UNCHANGED <<slLink, slMarker, slRoots, slDead, slLeft>>
  BY DEF WritePayload, WriteMeta, Write
<1>5. CASE ~Owned
  <2>1. /\ slRun' = [slRun EXCEPT ![p] = SLIdle] /\ slEnded' = [Ended(p) EXCEPT !.clean = FALSE]
        /\ slStore' = slStore
    BY <1>5 DEF WritePayload, WriteMeta, Write, Stop, Owned
  <2>2. slRun'[p].pc = "idle" /\ \A q \in SLProcs : q # p => slRun'[q] = slRun[q]
    BY <2>1 DEF SLIdle, SLInv, SLTypeOK
  <2>3. ~slEnded'.clean
    BY <2>1 DEF Ended
  <2>4. PublishInv'
    BY <1>2, <2>2 DEF SLInv, PublishInv
  <2>5. UndisturbedInv'
    BY <1>4, <2>1, <2>2 DEF SLInv, UndisturbedInv, HoldsVersion, RowDone, Owned
  <2> QED BY <2>1, <2>3, <2>4, <2>5 DEF SLInv, StoreInv, EndedInv
<1>6. CASE Owned
  <2>1. /\ slRun' = [slRun EXCEPT ![p].pc = next] /\ slEnded' = SLNone
        /\ slLock' = IF next = "meta" THEN p ELSE SLNone
        /\ slStore' = IF next = "meta" THEN [slStore EXCEPT !.payload = ver] ELSE [slStore EXCEPT !.meta = ver]
    BY <1>1, <1>6 DEF WritePayload, WriteMeta, Write, Goto, Owned
  <2>2. /\ slRun'[p].pc = next /\ slRun'[p].ver = ver /\ slRun'[p].allowed = slRun[p].allowed
        /\ slRun'[p].todo = slRun[p].todo /\ slRun'[p].clean = slRun[p].clean
        /\ \A q \in SLProcs : q # p => slRun'[q] = slRun[q]
    BY <2>1 DEF SLInv, SLTypeOK
  <2>3. /\ slStore'.at = "owned"
        /\ slStore'.payload = ver
        /\ slStore'.meta = IF next = "meta" THEN slStore.meta ELSE ver
    BY <1>1, <1>3, <1>6, <2>1 DEF Owned
  <2>4. slStore.meta \in Nat /\ ver \in Nat /\ ver # 0 /\ slStore.meta <= ver
    BY <1>1, <1>3, <1>6
  <2>5. StoreInv' /\ EndedInv'
    BY <2>1, <2>3, <2>4 DEF StoreInv, EndedInv
  <2>6. PublishInv'
    <3> SUFFICES ASSUME NEW q \in SLProcs
                 PROVE  /\ slRun'[q].pc # "idle" => slRun'[q].ver \in SLVersions
                        /\ slRun'[q].pc \in {"payload", "meta"} =>
                             slLock' = q /\ slStore'.meta <= slRun'[q].ver
                        /\ slRun'[q].pc = "meta" => slStore'.payload = slRun'[q].ver
      BY DEF PublishInv
    <3>1. CASE q = p
      BY <1>1, <2>1, <2>2, <2>3, <2>4, <3>1
    <3>2. CASE q # p
      BY <1>2, <2>2, <3>2 DEF SLInv, PublishInv
    <3> QED BY <3>1, <3>2
  <2>7. UndisturbedInv'
    <3> SUFFICES ASSUME NEW q \in SLProcs, slRun'[q].clean
                 PROVE  /\ slRun'[q].pc \in {"publish", "payload", "meta"} =>
                             slRun'[q].allowed \cap slRoots \subseteq slRun'[q].todo
                        /\ slRun'[q].pc = "link" =>
                             /\ slStore'.payload # 0 /\ slStore'.meta >= slRun'[q].ver
                             /\ \A r \in (slRun'[q].allowed \cap slRoots) \ slRun'[q].todo : RowDone(r)
      BY <1>4, <2>3 DEF UndisturbedInv, HoldsVersion, Owned, RowDone
    <3>1. CASE q = p
      BY <1>1, <2>2, <2>3, <2>4, <3>1 DEF SLInv, UndisturbedInv
    <3>2. CASE q # p
      <4>1. slRun[q].ver \in Nat
        BY <1>3, TypedRuns DEF SLInv, RunsTyped, Shape
      <4> QED BY <2>2, <2>3, <2>4, <3>2, <4>1 DEF SLInv, UndisturbedInv, HoldsVersion
    <3> QED BY <3>1, <3>2
  <2> QED BY <2>5, <2>6, <2>7
<1> QED BY <1>5, <1>6

\* A row is placed, or fails to be.
LEMMA LinkKeeps ==
  ASSUME SLInv, NEW p \in SLProcs, NEW r \in SLRows, LinkRow(p, r) \/ LinkFails(p, r)
  PROVE  (StoreInv /\ PublishInv /\ UndisturbedInv /\ EndedInv)'
<1>1. slRun[p].pc = "link" /\ slEnded' = SLNone /\ UNCHANGED <<slRoots, slDead, slStore, slLock>>
  BY DEF LinkRow, LinkFails
<1>2. StoreInv' /\ EndedInv'
  BY <1>1 DEF SLInv, StoreInv, EndedInv
<1>3. RunsTyped(slRun)
  BY TypedRuns DEF SLInv
<1>4. CASE LinkRow(p, r)
  <2>1. /\ \A q \in SLProcs : /\ slRun'[q].pc = slRun[q].pc /\ slRun'[q].ver = slRun[q].ver
                              /\ slRun'[q].allowed = slRun[q].allowed /\ slRun'[q].clean = slRun[q].clean
                              /\ slRun'[q].todo = IF q = p THEN slRun[q].todo \ {r} ELSE slRun[q].todo
    BY <1>3, <1>4 DEF LinkRow, RunsTyped, Shape
  <2>2. PublishInv'
    BY <1>1, <2>1 DEF SLInv, PublishInv, Owned
  <2>3. \A a \in SLRows : RowDone(a) \/ a = r => RowDone(a)'
    BY <1>4, PlacedIsDone, DoneStaysDone DEF SLInv
  <2>4. \A q \in SLProcs : slRun[q].allowed \subseteq SLRows
    BY <1>3 DEF RunsTyped, Shape
  <2>5. ASSUME NEW q \in SLProcs, slRun'[q].clean
        PROVE  /\ slRun'[q].pc \in {"publish", "payload", "meta"} =>
                    slRun'[q].allowed \cap slRoots' \subseteq slRun'[q].todo
               /\ slRun'[q].pc = "link" =>
                    /\ HoldsVersion(slRun[q].ver)'
                    /\ \A a \in (slRun'[q].allowed \cap slRoots') \ slRun'[q].todo : RowDone(a)'
    <3>1. CASE q = p
      BY <1>1, <2>1, <2>3, <2>4, <2>5, <3>1 DEF SLInv, UndisturbedInv, HoldsVersion, Owned
    <3>2. CASE q # p
      BY <1>1, <2>1, <2>3, <2>4, <2>5, <3>2 DEF SLInv, UndisturbedInv, HoldsVersion, Owned
    <3> QED BY <3>1, <3>2
  <2>6. UndisturbedInv'
    BY <2>5 DEF UndisturbedInv
  <2> QED BY <1>2, <2>2, <2>6
<1>5. CASE LinkFails(p, r)
  <2>1. /\ \A q \in SLProcs : /\ slRun'[q].pc = slRun[q].pc /\ slRun'[q].ver = slRun[q].ver
                              /\ slRun'[q].clean => slRun'[q].pc = "idle"
    <3>1. slRun' = [Disturbed EXCEPT ![p].todo = @ \ {r}]
      BY <1>5 DEF LinkFails
    <3>2. RunsTyped(Disturbed)
      BY <1>3, DisturbedRuns
    <3>3. \A q \in SLProcs : slRun'[q].pc = Disturbed[q].pc /\ slRun'[q].ver = Disturbed[q].ver
                             /\ slRun'[q].clean = Disturbed[q].clean
      BY <3>1, <3>2 DEF RunsTyped, Shape
    <3> QED BY <1>3, <3>3, DisturbedRuns
  <2>2. PublishInv'
    BY <1>1, <2>1 DEF SLInv, PublishInv, Owned
  <2>3. UndisturbedInv'
    BY <2>1 DEF UndisturbedInv
  <2> QED BY <1>2, <2>2, <2>3
<1> QED BY <1>4, <1>5

\* A run ends, or its process dies.
LEMMA EndKeeps ==
  ASSUME SLInv, NEW p \in SLProcs, EndRun(p) \/ Crash(p)
  PROVE  (StoreInv /\ PublishInv /\ UndisturbedInv /\ EndedInv)'
<1> USE SLConstants
<1>1. /\ slRun' = [slRun EXCEPT ![p] = SLIdle]
      /\ slLock' = IF slLock = p /\ Crash(p) THEN SLNone ELSE slLock
      /\ UNCHANGED <<slLink, slMarker, slRoots, slDead, slStore>>
  BY DEF EndRun, Crash, Stop
<1>2. slRun'[p].pc = "idle" /\ \A q \in SLProcs : q # p => slRun'[q] = slRun[q]
  BY <1>1 DEF SLIdle, SLInv, SLTypeOK
<1>3. StoreInv'
  BY <1>1 DEF SLInv, StoreInv
<1>4. PublishInv'
  BY <1>1, <1>2 DEF SLInv, PublishInv, Owned
<1>5. UndisturbedInv'
  BY <1>1, <1>2 DEF SLInv, UndisturbedInv, HoldsVersion, RowDone, Owned
<1>6. EndedInv'
  <2>1. CASE Crash(p)
    BY <2>1 DEF Crash, Stop, EndedInv
  <2>2. CASE EndRun(p)
    <3>1. slEnded' = Ended(p) /\ slRun[p].pc = "link" /\ slRun[p].todo = {}
      BY <2>2 DEF EndRun, Stop
    <3>2. slEnded'.ver = slRun[p].ver /\ slEnded'.allowed = slRun[p].allowed /\ slEnded'.clean = slRun[p].clean
      BY <3>1 DEF Ended
    <3>3. slRun[p].ver \in SLVersions
      BY <3>1 DEF SLInv, PublishInv
    <3> QED BY <1>1, <3>1, <3>2, <3>3 DEF SLInv, UndisturbedInv, EndedInv, HoldsVersion, RowDone, Owned
  <2> QED BY <2>1, <2>2
<1> QED BY <1>3, <1>4, <1>5, <1>6

\* The user acts: every run under way is disturbed, and a publisher may have lost its store.
LEMMA UserKeeps ==
  ASSUME SLInv, NEW r \in SLRows, User(r)
  PROVE  (StoreInv /\ PublishInv /\ UndisturbedInv /\ EndedInv)'
<1> USE SLConstants
<1>1. slRun' = Disturbed /\ slEnded' = SLNone /\ slLock' = slLock
  BY DEF User
<1>2. \A q \in SLProcs : /\ slRun'[q].pc = slRun[q].pc /\ slRun'[q].ver = slRun[q].ver
                         /\ slRun'[q].clean => slRun'[q].pc = "idle"
  BY <1>1, TypedRuns, DisturbedRuns DEF SLInv
<1>3. slStore' = slStore \/ (slStore'.at # "owned" /\ slStore'.payload = 0 /\ slStore'.meta = 0)
  BY DEF User, NoStore
<1>4. StoreInv'
  BY <1>3 DEF SLInv, StoreInv
<1>5. PublishInv'
  BY <1>1, <1>2, <1>3 DEF SLInv, PublishInv, Owned
<1>6. UndisturbedInv'
  BY <1>2 DEF UndisturbedInv
<1> QED BY <1>1, <1>4, <1>5, <1>6 DEF EndedInv

\* The invariant holds of every behaviour.
THEOREM SkillInvariant == SLSpec => []SLInv
<1> USE SLConstants, SLBounds
<1>1. SLInit => SLInv
  <2> SUFFICES ASSUME SLInit PROVE SLInv
    OBVIOUS
  <2>1. \A p \in SLProcs : slRun[p] = SLIdle
    BY DEF SLInit
  <2>2. SLTypeOK
    BY SLPartsAreAll DEF SLInit, SLParts, RunsTyped, Shape, LinkSteps, NoStore, SLIdle
  <2>3. StoreInv /\ EndedInv
    BY DEF SLInit, NoStore, StoreInv, EndedInv
  <2>4. PublishInv /\ UndisturbedInv
    BY <2>1 DEF SLIdle, PublishInv, UndisturbedInv
  <2> QED BY <2>2, <2>3, <2>4 DEF SLInv
<1>2. SLInv /\ [SLNext]_slVars => SLInv'
  <2> SUFFICES ASSUME SLInv, [SLNext]_slVars PROVE SLInv'
    OBVIOUS
  <2>1. SLTypeOK'
    BY SLTypeNext DEF SLInv
  <2>2. (StoreInv /\ PublishInv /\ UndisturbedInv /\ EndedInv)'
    <3>1. CASE UNCHANGED slVars
      BY <3>1 DEF slVars, SLInv, StoreInv, PublishInv, UndisturbedInv, EndedInv, HoldsVersion, RowDone, Owned
    <3>2. CASE SLNext
      BY <3>2, BeginKeeps, TakeKeeps, WriteKeeps, LinkKeeps, EndKeeps, UserKeeps DEF SLNext
    <3> QED BY <3>1, <3>2
  <2> QED BY <2>1, <2>2 DEF SLInv
<1> QED BY <1>1, <1>2, PTL DEF SLSpec

\* The gate of `mm push` opens exactly when the installer would have something to do,
\* and what is then published is no older than it says, whoever publishes at the same
\* time (skill_link.py: _skill_links_check_due, _should_publish, _publish_skill_store).
THEOREM GateExact == SLSpec => []GateIsExact
<1> USE SLConstants
<1>1. SLInv => GateIsExact
  <2> SUFFICES ASSUME SLInv PROVE GateIsExact
    OBVIOUS
  <2>0. SLVersions \cup {0} \subseteq Nat
        /\ slStore \in [at : {"none", "owned", "foreign"}, payload : SLVersions \cup {0}, meta : SLVersions \cup {0}]
    BY DEF SLInv, SLTypeOK
  <2>1. PayloadNotBehindMeta
    BY DEF SLInv, StoreInv, PayloadNotBehindMeta
  <2>2. ASSUME NEW r \in slRoots, NEW ver \in SLVersions,
               Placed(r, FALSE) # slLink[r] \/ (slLink[r] = "store" /\ ~Healthy)
        PROVE  LinksDue(ver, {r})
    <3>1. slLink[r] \in {"absent", "store", "package", "checkout", "foreign"}
      BY DEF SLInv, SLTypeOK
    <3>2. slLink[r] = "absent" => slMarker[r] = "none"
      BY <2>2 DEF Placed, KnownHere
    <3>3. slLink[r] = "store" => ~Lives("store") \/ NeedsRefresh(ver)
      BY <2>2 DEF Placed, Healthy, Lives, NeedsRefresh
    <3>4. RowDue(r, ver)
      BY <3>1, <3>2, <3>3 DEF RowDue
    <3> QED BY <3>4 DEF LinksDue
  <2>3. GateMissesNothing
    BY <2>2 DEF GateMissesNothing
  <2>4. ASSUME slEnded # SLNone, slEnded.clean, LinksDue(slEnded.ver, slEnded.allowed)
        PROVE  \/ slStore.meta > slEnded.ver
               \/ \E r \in slEnded.allowed : slLink[r] \in {"foreign", "checkout"}
    <3>1. /\ slEnded.ver \in SLVersions /\ slStore.at = "owned"
          /\ slStore.payload # 0 /\ slStore.meta >= slEnded.ver
          /\ \A r \in slEnded.allowed \cap slRoots : RowDone(r)
      BY <2>4 DEF SLInv, EndedInv, HoldsVersion, Owned
    <3>2. CASE NeedsRefresh(slEnded.ver)
      <4>1. slStore.meta \in Nat /\ slEnded.ver \in Nat
        BY <2>0, <3>1
      <4> QED BY <3>1, <3>2, <4>1 DEF NeedsRefresh
    <3>3. CASE ~NeedsRefresh(slEnded.ver)
      <4>1. PICK r \in slEnded.allowed : RowDue(r, slEnded.ver)
        BY <2>4, <3>3 DEF LinksDue
      <4>2. RowDone(r)
        BY <3>1, <4>1 DEF RowDue
      <4>3. slLink[r] \in {"foreign", "checkout"}
        BY <3>1, <3>3, <4>1, <4>2 DEF RowDue, RowDone, Lives
      <4> QED BY <4>3
    <3> QED BY <3>2, <3>3
  <2>5. SettledRowsAreQuiet
    BY <2>4 DEF SettledRowsAreQuiet
  <2> QED BY <2>1, <2>3, <2>5 DEF GateIsExact
<1> QED BY <1>1, SkillInvariant, PTL

\* No agent's link is pointed at a store without a skill in it unless the user took it
\* away during that run, and a link the user removed comes back by an explicit run only
\* (skill_link.py: _install_available_skill_target, _publish_skill_store).
THEOREM LinksWanted == SLSpec => LinksAreWanted
<1>1. ASSUME SLInv, [SLNext]_slVars, NEW r \in SLRows, slLink'[r] # slLink[r]
      PROVE  \/ slLeft'.user < slLeft.user /\ slLink'[r] \in {"absent", "foreign"}
             \/ \E p \in SLProcs : /\ r \in slRun[p].todo \ slRun'[p].todo /\ slRun[p].pc = "link"
                                   /\ slLink'[r] = Placed(r, slRun[p].explicit) /\ slStore' = slStore
  <2>1. CASE UNCHANGED slVars
    BY <1>1, <2>1 DEF slVars
  <2>2. ASSUME NEW p \in SLProcs, Begin(p) \/ TakeStore(p) \/ WritePayload(p) \/ WriteMeta(p) \/ EndRun(p) \/ Crash(p)
        PROVE  slLink' = slLink
    BY <2>2 DEF Begin, TakeStore, WritePayload, WriteMeta, Write, EndRun, Crash
  <2>3. ASSUME NEW p \in SLProcs, NEW a \in SLRows, LinkRow(p, a) \/ LinkFails(p, a)
        PROVE  /\ r \in slRun[p].todo \ slRun'[p].todo /\ slRun[p].pc = "link"
               /\ slLink'[r] = Placed(r, slRun[p].explicit) /\ slStore' = slStore
    <3>1. slLink' \in {slLink, [slLink EXCEPT ![a] = Placed(a, slRun[p].explicit)]}
          /\ slRun[p].pc = "link" /\ a \in slRun[p].todo /\ slStore' = slStore
      BY <2>3 DEF LinkRow, LinkFails
    <3>2. a = r /\ slLink'[r] = Placed(r, slRun[p].explicit)
      BY <1>1, <3>1 DEF SLInv, SLTypeOK
    <3>3. RunsTyped(slRun) /\ RunsTyped(Disturbed)
      BY <1>1, TypedRuns, DisturbedRuns DEF SLInv
    <3>4. slRun' = [slRun EXCEPT ![p].todo = @ \ {a}] \/ slRun' = [Disturbed EXCEPT ![p].todo = @ \ {a}]
      BY <2>3 DEF LinkRow, LinkFails
    <3>5. a \notin slRun'[p].todo
      BY <3>3, <3>4 DEF RunsTyped, Shape
    <3> QED BY <3>1, <3>2, <3>5
  <2>4. ASSUME NEW a \in SLRows, User(a)
        PROVE  slLeft'.user < slLeft.user /\ slLink'[r] \in {"absent", "foreign"}
    <3>1. slLink' \in {slLink, [slLink EXCEPT ![a] = "absent"], [slLink EXCEPT ![a] = "foreign"]}
      BY <2>4 DEF User
    <3>2. slLink'[r] \in {"absent", "foreign"}
      BY <1>1, <3>1 DEF SLInv, SLTypeOK
    <3>3. slLeft.user \in Nat /\ slLeft'.user = slLeft.user - 1
      BY <1>1, <2>4 DEF User, SLInv, SLTypeOK
    <3> QED BY <3>2, <3>3
  <2> QED BY <1>1, <2>1, <2>2, <2>3, <2>4 DEF SLNext
<1>2. ASSUME SLInv, [SLNext]_slVars, NEW r \in SLRows, slLink'[r] = "store", slLink[r] # "store"
      PROVE  Healthy' \/ \E p \in SLProcs : r \in slRun[p].todo /\ ~slRun[p].clean
  <2>1. PICK p \in SLProcs : r \in slRun[p].todo \ slRun'[p].todo /\ slRun[p].pc = "link" /\ slStore' = slStore
    BY <1>1, <1>2
  <2>2. slRun[p].clean => Healthy'
    BY <1>2, <2>1 DEF SLInv, UndisturbedInv, HoldsVersion, Owned, Healthy
  <2> QED BY <2>1, <2>2
<1>3. ASSUME SLInv, [SLNext]_slVars, NEW r \in SLRows,
             slLink[r] = "absent", slMarker[r] # "none", slLink'[r] # "absent"
      PROVE  \/ slLeft'.user < slLeft.user
             \/ \E p \in SLProcs : slRun[p].explicit /\ r \in slRun[p].todo \ slRun'[p].todo
  <2>1. ASSUME NEW p \in SLProcs, slLink'[r] = Placed(r, slRun[p].explicit) PROVE slRun[p].explicit
    BY <1>3, <2>1 DEF Placed, KnownHere
  <2> QED BY <1>1, <1>3, <2>1
<1>4. SLInv /\ [SLNext]_slVars => [\A r \in SLRows : (slLink'[r] = "store" /\ slLink[r] # "store") =>
         Healthy' \/ \E p \in SLProcs : r \in slRun[p].todo /\ ~slRun[p].clean]_slVars
  BY <1>2
<1>5. SLInv /\ [SLNext]_slVars =>
        [\A r \in SLRows : (slLink[r] = "absent" /\ slMarker[r] # "none" /\ slLink'[r] # "absent") =>
           \/ slLeft'.user < slLeft.user
           \/ \E p \in SLProcs : slRun[p].explicit /\ r \in slRun[p].todo \ slRun'[p].todo]_slVars
  BY <1>3
<1> QED BY <1>4, <1>5, SkillInvariant, PTL DEF SLSpec, LinksAreWanted, LinkedOnlyToHealthyStore, RemovedStaysRemoved

-----------------------------------------------------------------------------
(* ----------------------------- conflict copies ------------------------- *)

\* What the texts are made of.
Edits == ({"mine"} \X (0..CREdits)) \cup ({"theirs"} \X (0..CRPushes)) \cup {<<"old", 0>>}
Stamped == [text : CRTexts, mt : CRTimes]
Walks == [open : BOOLEAN, hits : SUBSET (CRCopies \X BOOLEAN), at : CRCopies \cup {CRNone},
          had : BOOLEAN, seen : Stamped]

LEMMA TextFacts ==
  /\ CRTexts = SUBSET Edits /\ UNION CRTexts = Edits
  /\ \A k \in 0..CRPushes : {<<"theirs", k>>} \in CRTexts
  /\ \A e \in 0..CREdits : {<<"mine", e>>} \in CRTexts
  /\ {<<"old", 0>>} \in CRTexts /\ {} \in CRTexts
  /\ \A s, t \in CRTexts : s \cup t \in CRTexts
<1>1. CRTexts = SUBSET Edits
  BY Zenon DEF CRTexts, Edits
<1>2. UNION (SUBSET Edits) = Edits
  BY Zenon
<1>3. /\ \A k \in 0..CRPushes : <<"theirs", k>> \in Edits
      /\ \A e \in 0..CREdits : <<"mine", e>> \in Edits
      /\ <<"old", 0>> \in Edits
  BY DEF Edits
<1> HIDE DEF Edits
<1> QED BY <1>1, <1>2, <1>3

LEMMA TimeFacts ==
  /\ CREdits \in Nat /\ CRPushes \in Nat /\ CRShipped \in Nat /\ CRLast \in Nat /\ CRSkew \in Nat /\ CRAge \in Nat
  /\ CRShipped < CRLast /\ CRTimes \subseteq Nat /\ 0 \in CRTimes
  /\ \A n \in Nat : n <= CRLast + CRSkew + 1 => n \in CRTimes
BY CRNumbers DEF CRTimes

\* Touching a file past time t gives a time of the model, and one after t unless t is
\* too far ahead.
LEMMA BumpedFacts ==
  ASSUME crNow \in 0..CRLast, NEW t \in CRTimes
  PROVE  Bumped(t) \in CRTimes /\ (t < crNow + CRSkew => Bumped(t) > t)
BY TimeFacts DEF Bumped, CRLower, CRHigher, CRTimes

\* What the sweep of a locked command does: it names the copies, and leaves them as they are.
LEMMA SweepFacts ==
  ASSUME CRInv
  PROVE  /\ Swept \in [CRCopies -> CRRecords \cup {CRNone}]
         /\ \A c \in CRCopies : Swept[c] = CRNone <=> c \notin Live
         /\ \A c \in Live : /\ Swept[c] \in CRRecords
                            /\ Swept[c].text = copies[c].text /\ Swept[c].mt = copies[c].mt
                            /\ Swept[c].made = copies[c].made
                            /\ Swept[c].local <=> copies[c].local
                            /\ Swept[c].era = "v0" <=> copies[c].local
                            /\ ~(Swept[c].era = "none" /\ Swept[c].made < CRShipped)
         /\ OfPeer = {c \in Live : ~copies[c].local}
         /\ SweptMarker \in 0..CRLast \cup {CRNone, CRBad}
         /\ SweptMarker # CRNone => SweptMarker \in Nat /\ SweptMarker > CRShipped
<1> USE CRNumbers, TimeFacts
<1>1. MarkerRead \in 0..CRLast /\ MarkerRead \in Nat /\ MarkerRead # CRBad /\ MarkerRead > CRShipped
  BY DEF CRInv, CRTypeOK, ClockInv, MarkerRead
<1>2. ASSUME NEW c \in Live
      PROVE  /\ Swept[c] \in CRRecords
             /\ Swept[c].text = copies[c].text /\ Swept[c].mt = copies[c].mt
             /\ Swept[c].made = copies[c].made
             /\ Swept[c].local <=> copies[c].local
             /\ Swept[c].era = "v0" <=> copies[c].local
             /\ ~(Swept[c].era = "none" /\ Swept[c].made < CRShipped)
  <2>1. copies[c] \in CRRecords /\ c \in CRCopies
    BY DEF Live, CRInv, CRTypeOK
  <2>2. copies[c].local <=> (copies[c].era = "v0" \/ (copies[c].era = "none" /\ copies[c].made < CRShipped))
    BY DEF CRInv, LabelInv
  <2>3. copies[c].made \in Nat
    BY <2>1 DEF CRRecords
  <2>4. PreInversion(copies[c]) <=> copies[c].era = "none" /\ copies[c].made < CRShipped
    BY <1>1, <2>3 DEF PreInversion
  <2>5. CASE PreInversion(copies[c])
    <3>1. Swept[c] = [copies[c] EXCEPT !.era = "v0"]
      BY <2>1, <2>5, Zenon DEF Swept
    <3> QED BY <2>1, <2>2, <2>4, <2>5, <3>1 DEF CRRecords, Eras
  <2>6. CASE ~PreInversion(copies[c])
    <3>1. Swept[c] = copies[c]
      BY <2>1, <2>6, Zenon DEF Swept
    <3> QED BY <2>1, <2>2, <2>4, <2>6, <3>1
  <2> QED BY <2>5, <2>6
<1>3. \A c \in CRCopies : c \notin Live => Swept[c] = copies[c] /\ copies[c] = CRNone
  BY Zenon DEF Swept, Live
<1>4. Swept = [c \in CRCopies |-> Swept[c]]
  BY Zenon DEF Swept
<1>5. Live \subseteq CRCopies
  BY DEF Live
<1>6. SweptMarker \in 0..CRLast \cup {CRNone, CRBad}
      /\ (SweptMarker # CRNone => SweptMarker \in Nat /\ SweptMarker > CRShipped)
  BY <1>1 DEF SweptMarker, CRInv, CRTypeOK, ClockInv
<1>7. OfPeer = {c \in Live : ~copies[c].local}
  BY <1>2 DEF OfPeer
<1> HIDE DEF Swept
<1>8. \A c \in CRCopies : Swept[c] \in CRRecords \cup {CRNone}
  BY <1>2, <1>3
<1>9. Swept \in [CRCopies -> CRRecords \cup {CRNone}]
  BY <1>4, <1>8
<1> QED BY <1>2, <1>3, <1>5, <1>6, <1>7, <1>9

\* Where copies go and none changes, the facts about them stay.
LEMMA FewerCopies ==
  ASSUME CRInv, copies' \in [CRCopies -> CRRecords \cup {CRNone}],
         \A c \in CRCopies : copies'[c] \in {copies[c], CRNone},
         peer' = peer, made'.pushes = made.pushes
  PROVE  /\ LabelInv' /\ CopiesInv' /\ Live' \subseteq Live /\ PeerTexts' = PeerTexts
         /\ \A c \in Live' : copies'[c] = copies[c]
<1>1. Live' \subseteq Live /\ \A c \in Live' : copies'[c] = copies[c]
  BY DEF Live
<1>2. PeerTexts' = PeerTexts
  BY DEF PeerTexts
<1>3. LabelInv'
  BY <1>1 DEF CRInv, LabelInv
<1>4. CopiesInv'
  BY <1>1, <1>2 DEF CRInv, CopiesInv
<1> QED BY <1>1, <1>2, <1>3, <1>4

\* After a sweep the facts about the copies stay, and every name tells the truth.
LEMMA SweepKeeps ==
  ASSUME CRInv, copies' = Swept, peer' = peer, made' = made
  PROVE  /\ LabelInv' /\ CopiesInv' /\ Live' = Live /\ PeerTexts' = PeerTexts
         /\ copies' \in [CRCopies -> CRRecords \cup {CRNone}]
         /\ \A c \in Live : /\ copies'[c].text = copies[c].text
                            /\ copies'[c].local <=> copies[c].local
                            /\ copies'[c].local <=> copies'[c].era = "v0"
<1>1. Live' = Live
  BY SweepFacts DEF Live
<1>2. PeerTexts' = PeerTexts
  BY DEF PeerTexts
<1>3. LabelInv'
  BY <1>1, SweepFacts DEF LabelInv
<1>4. \A c \in Live : /\ copies'[c].text = copies[c].text
                      /\ copies'[c].local <=> copies[c].local
                      /\ copies'[c].local <=> copies'[c].era = "v0"
  BY SweepFacts
<1>5. CopiesInv'
  BY <1>1, <1>2, <1>4 DEF CRInv, CopiesInv
<1> QED BY <1>1, <1>2, <1>3, <1>4, <1>5, SweepFacts

\* A pull mints a copy only of a version nobody settled, and keeps the local ones.
LEMMA MintKeeps ==
  ASSUME CRInv, Mint, peer' = peer, made' = made, crNow' = crNow
  PROVE  /\ LabelInv' /\ CopiesInv' /\ PeerTexts' = PeerTexts
         /\ copies' \in [CRCopies -> CRRecords \cup {CRNone}]
         /\ \A c \in Live : copies[c].local => c \in Live' /\ copies'[c].text = copies[c].text
         /\ \A c \in CRCopies : copies[c] = CRNone /\ copies'[c] # CRNone => copies'[c].text = peer.text
<1> USE CRNumbers
<1>1. CASE copies' = Swept
  BY <1>1, SweepKeeps, SweepFacts DEF Live
<1>2. CASE copies' # Swept
  <2>1. PICK new \in CRCopies \ Live :
          copies' = [c \in CRCopies |->
            IF c = new THEN [era |-> "v1", made |-> crNow, text |-> peer.text,
                             mt |-> Restored, local |-> FALSE]
            ELSE IF c \in OfPeer THEN CRNone ELSE Swept[c]]
    BY <1>2, Zenon DEF Mint
  <2> DEFINE minted == [era |-> "v1", made |-> crNow, text |-> peer.text, mt |-> Restored, local |-> FALSE]
  <2>2. Restored \in CRTimes
    BY TimeFacts DEF Restored, CRLower, CRTimes, CRInv, CRTypeOK
  <2>3. minted \in CRRecords
    BY <2>2 DEF CRInv, CRTypeOK, CRRecords, Eras
  <2>4. minted.era = "v1" /\ minted.text = peer.text /\ ~minted.local /\ minted # CRNone
    BY <2>3
  <2> HIDE DEF minted
  <2>5. \A c \in CRCopies : copies'[c] = IF c = new THEN minted ELSE IF c \in OfPeer THEN CRNone ELSE Swept[c]
    BY <2>1, Zenon DEF minted
  <2>6. copies' \in [CRCopies -> CRRecords \cup {CRNone}]
    <3>1. copies' = [c \in CRCopies |-> copies'[c]]
      BY <2>1, Zenon
    <3>2. \A c \in CRCopies : copies'[c] \in CRRecords \cup {CRNone}
      BY <2>3, <2>5, SweepFacts
    <3> QED BY <3>1, <3>2
  <2>7. PeerTexts' = PeerTexts
    BY DEF PeerTexts
  <2>8. \A c \in Live' : c = new \/ (c \in Live /\ copies[c].local /\ copies'[c] = Swept[c])
    BY <2>5, SweepFacts DEF Live
  <2>9. new \in Live' /\ copies'[new] = minted
    BY <2>4, <2>5 DEF Live
  <2>10. LabelInv'
    BY <2>4, <2>8, <2>9, SweepFacts DEF LabelInv
  <2>11. \A c \in Live' : c # new => copies'[c].local
    BY <2>8, SweepFacts
  <2>12. peer.text \in PeerTexts
    BY TimeFacts DEF CRInv, CRTypeOK, CopiesInv, PeerTexts
  <2>13. CopiesInv'
    <3>1. \A c \in Live' : ~copies'[c].local => c = new
      BY <2>11
    <3>2. peer'.text = {<<"theirs", made'.pushes>>}
      BY DEF CRInv, CopiesInv
    <3> QED BY <2>4, <2>7, <2>9, <2>12, <3>1, <3>2 DEF CopiesInv
  <2>14. \A c \in Live : copies[c].local => c \in Live' /\ copies'[c].text = copies[c].text
    BY <2>1, <2>5, SweepFacts DEF Live
  <2>15. \A c \in CRCopies : copies[c] = CRNone /\ copies'[c] # CRNone => copies'[c].text = peer.text
    BY <2>4, <2>5, SweepFacts DEF Live
  <2> QED BY <2>6, <2>7, <2>10, <2>13, <2>14, <2>15
<1> QED BY <1>1, <1>2

\* A pull keeps the invariant, asks about no version that was settled, and drops no
\* copy of this machine's bytes.
LEMMA PullKeeps ==
  ASSUME CRInv, Pull
  PROVE  /\ CRInv'
         /\ \A c \in CRCopies : copies[c] = CRNone /\ copies'[c] # CRNone => copies'[c].text \notin settled
         /\ \A c \in Live : copies[c].local => c \in Live' /\ copies'[c].text = copies[c].text
         /\ doc.text = {} \/ doc'.text = doc.text
<1> USE CRNumbers, TextFacts
<1>1. /\ ~walk.open /\ marker' = SweptMarker
      /\ UNCHANGED <<extra, peer, crNow, walk, given, settled, made>>
  BY DEF Pull
<1>2. copies' = Swept \/ (Mint /\ doc' = doc /\ doc.text # {} /\ doc.text # peer.text /\ ~(doc.mt > peer.mt))
  BY DEF Pull
<1>3. /\ LabelInv' /\ CopiesInv' /\ PeerTexts' = PeerTexts
      /\ copies' \in [CRCopies -> CRRecords \cup {CRNone}]
      /\ \A c \in Live : copies[c].local => c \in Live' /\ copies'[c].text = copies[c].text
  BY <1>1, <1>2, SweepKeeps, MintKeeps
<1>4. doc' = doc \/ doc' = Gone \/ doc' = [text |-> peer.text, mt |-> Restored]
  BY DEF Pull
<1>5. doc' = doc \/ doc.text = {}
  BY DEF Pull
<1>6. doc' \in Stamped
  <2>1. Restored \in CRTimes
    BY TimeFacts DEF Restored, CRLower, CRTimes, CRInv, CRTypeOK
  <2> QED BY <1>4, <2>1, TimeFacts DEF CRInv, CRTypeOK, Gone, Stamped
<1>7. CRTypeOK'
  BY <1>1, <1>3, <1>6, SweepFacts DEF CRInv, CRTypeOK, Stamped
<1>8. ClockInv'
  BY <1>1, SweepFacts DEF CRInv, ClockInv
<1>9. WalkInv'
  BY <1>1 DEF CRInv, WalkInv
<1>10. peer.text \in settled => copies' = Swept
  BY <1>2 DEF CRInv, SettledInv
<1>11. SettledInv'
  <2>1. settled' \subseteq PeerTexts'
    BY <1>1, <1>3 DEF CRInv, SettledInv
  <2>2. ASSUME peer.text \in settled
        PROVE  /\ \A c \in Live' : copies'[c].local
               /\ doc'.text = {} \/ doc'.text = peer.text \/ doc'.mt > peer.mt
    <3>1. Live' = Live /\ \A c \in Live : copies'[c].local <=> copies[c].local
      BY <1>1, <1>10, <2>2, SweepKeeps
    <3>2. \A c \in Live : copies[c].local
      BY <2>2 DEF CRInv, SettledInv
    <3>3. doc.text = {} \/ doc.text = peer.text \/ doc.mt > peer.mt
      BY <2>2 DEF CRInv, SettledInv
    <3>4. doc'.text = {} \/ doc'.text = peer.text \/ doc'.mt > peer.mt
      BY <1>4, <3>3 DEF Gone
    <3> QED BY <3>1, <3>2, <3>4
  <2> QED BY <1>1, <2>1, <2>2 DEF SettledInv
<1>12. \A c \in CRCopies : copies[c] = CRNone /\ copies'[c] # CRNone => copies'[c].text \notin settled
  <2>1. CASE copies' = Swept
    BY <2>1, SweepFacts DEF Live
  <2>2. CASE copies' # Swept
    BY <1>1, <1>2, <1>10, <2>2, MintKeeps
  <2> QED BY <2>1, <2>2
<1> QED BY <1>3, <1>5, <1>7, <1>8, <1>9, <1>11, <1>12 DEF CRInv

\* The walk begins after a sweep, with every copy to show once.
LEMMA BeginWalkKeeps == ASSUME CRInv, BeginWalk PROVE CRInv' /\ Live' = Live /\ \A c \in Live : copies'[c].text = copies[c].text
<1> USE CRNumbers
<1>1. /\ marker' = SweptMarker /\ copies' = Swept
      /\ walk' = [Shut EXCEPT !.open = TRUE, !.hits = {<<c, doc.text # {}>> : c \in Live}]
      /\ UNCHANGED <<doc, extra, peer, crNow, given, settled, made>>
  BY DEF BeginWalk
<1>2. /\ walk'.open = TRUE /\ walk'.hits = {<<c, doc.text # {}>> : c \in Live}
      /\ walk'.at = CRNone /\ walk'.had = FALSE /\ walk'.seen = Gone
  BY <1>1 DEF Shut
<1>3. walk'.hits \subseteq CRCopies \X BOOLEAN
  <2>1. \A c \in Live : c \in CRCopies
    BY DEF Live
  <2> DEFINE had == doc.text # {}
  <2>2. had \in BOOLEAN
    BY Zenon
  <2>3. walk'.hits = {<<c, had>> : c \in Live}
    BY <1>2, Zenon
  <2> HIDE DEF had
  <2> QED BY <2>1, <2>2, <2>3
<1>4. Gone \in Stamped
  BY TimeFacts, TextFacts DEF Gone, Stamped
<1>5. walk' \in Walks
  BY <1>1, <1>3, <1>4 DEF Shut, Walks
<1>6. CRTypeOK'
  BY <1>1, <1>5, SweepFacts DEF CRInv, CRTypeOK, Walks, Stamped
<1>7. /\ LabelInv' /\ CopiesInv' /\ Live' = Live /\ PeerTexts' = PeerTexts
      /\ \A c \in Live : /\ copies'[c].text = copies[c].text
                         /\ copies'[c].local <=> copies[c].local
                         /\ copies'[c].local <=> copies'[c].era = "v0"
  BY <1>1, SweepKeeps
<1>8. ClockInv'
  BY <1>1, SweepFacts DEF CRInv, ClockInv
<1>9. WalkInv'
  <2>1. \A h \in walk'.hits : h[1] \in Live' /\ h[1] # walk'.at
    BY <1>2, <1>7 DEF Live
  <2>2. \A g, h \in walk'.hits : g[1] = h[1] => g = h
    BY <1>2
  <2> QED BY <1>2, <1>7, <2>1, <2>2 DEF WalkInv
<1>10. SettledInv'
  BY <1>1, <1>7 DEF CRInv, SettledInv
<1> QED BY <1>6, <1>7, <1>8, <1>9, <1>10 DEF CRInv

\* The walk moves on to its next hit, or is over.
LEMMA ShowKeeps == ASSUME CRInv, Show \/ EndWalk PROVE CRInv'
<1> USE CRNumbers
<1>1. UNCHANGED <<doc, copies, extra, peer, crNow, marker, given, settled, made>> /\ walk.open
  BY DEF Show, EndWalk
<1>2. LabelInv' /\ CopiesInv' /\ ClockInv' /\ SettledInv' /\ Live' = Live
  BY <1>1 DEF CRInv, LabelInv, CopiesInv, ClockInv, SettledInv, Live, PeerTexts
<1>3. walk \in Walks /\ doc \in Stamped
  BY DEF CRInv, CRTypeOK, Walks, Stamped
<1>4. walk' \in Walks /\ WalkInv'
  <2>1. CASE EndWalk
    <3>1. walk' = Shut /\ Shut \in Walks
      BY <2>1, TimeFacts, TextFacts DEF EndWalk, Shut, Walks, Gone, Stamped
    <3> QED BY <3>1 DEF Shut, WalkInv
  <2>2. CASE Show
    <3>1. PICK h \in walk.hits :
            LET rest == [walk EXCEPT !.hits = @ \ {h}]
            IN walk' = IF h[2] /\ doc.text = {} THEN rest
                       ELSE [rest EXCEPT !.at = h[1], !.had = h[2], !.seen = doc]
      BY <2>2, Zenon DEF Show
    <3>2. walk.at = CRNone
      BY <2>2 DEF Show
    <3>3. h \in CRCopies \X BOOLEAN /\ h[1] \in CRCopies /\ h[2] \in BOOLEAN
      BY <1>3 DEF Walks
    <3> DEFINE rest == [walk EXCEPT !.hits = @ \ {h}]
    <3>4. /\ rest \in Walks /\ rest.open = walk.open /\ rest.hits = walk.hits \ {h} /\ rest.at = CRNone
          /\ rest.had = walk.had /\ rest.seen = walk.seen
      BY <1>3, <3>2 DEF Walks
    <3>5. walk' = rest \/ walk' = [rest EXCEPT !.at = h[1], !.had = h[2], !.seen = doc]
      BY <3>1, Zenon
    <3> HIDE DEF rest
    <3>6. \A g \in walk.hits : g[1] \in Live /\ g[1] # CRNone /\ (g # h => g[1] # h[1])
      BY <1>1 DEF CRInv, WalkInv, Live
    <3>7. CASE walk' = rest
      <4>1. /\ walk' \in Walks /\ walk'.open /\ walk'.hits = walk.hits \ {h} /\ walk'.at = CRNone
        BY <1>1, <3>4, <3>7
      <4>2. \A c \in Live : copies[c].local <=> copies[c].era = "v0"
        BY <1>1 DEF CRInv, WalkInv
      <4>3. \A f, g \in walk.hits : f[1] = g[1] => f = g
        BY <1>1 DEF CRInv, WalkInv
      <4> QED BY <1>1, <1>2, <3>6, <4>1, <4>2, <4>3 DEF WalkInv
    <3>8. CASE walk' = [rest EXCEPT !.at = h[1], !.had = h[2], !.seen = doc]
      <4>1. /\ walk' \in Walks /\ walk'.open /\ walk'.hits = walk.hits \ {h}
            /\ walk'.at = h[1] /\ walk'.seen = doc
        BY <1>1, <1>3, <3>3, <3>4, <3>8 DEF Walks
      <4> QED BY <1>1, <1>2, <3>6, <4>1 DEF CRInv, WalkInv
    <3> QED BY <3>5, <3>7, <3>8
  <2> QED BY <2>1, <2>2
<1>5. CRTypeOK'
  BY <1>1, <1>4 DEF CRInv, CRTypeOK, Walks, Stamped
<1> QED BY <1>2, <1>4, <1>5 DEF CRInv

\* What every answer of the walk does to the file shown and to the walk itself.
LEMMA AnswerFrame ==
  ASSUME CRInv, Answer
  PROVE  /\ walk.at \in Live /\ walk.open /\ Shown \in CRRecords
         /\ walk.had => walk.seen = doc
         /\ UNCHANGED <<peer, crNow, marker, made>>
         /\ copies' \in {copies, Drop} /\ copies' \in [CRCopies -> CRRecords \cup {CRNone}]
         /\ \A c \in CRCopies : copies'[c] \in {copies[c], CRNone}
         /\ copies' = Drop => \A c \in Live' : c # walk.at
         /\ walk' \in Walks /\ WalkInv' /\ ClockInv'
<1> USE CRNumbers
<1>1. /\ walk.at # CRNone /\ UNCHANGED <<peer, crNow, marker, made>>
      /\ walk' = [walk EXCEPT !.at = CRNone, !.had = FALSE, !.seen = Gone]
  BY DEF Answer
<1>2. walk.at \in Live /\ walk.open /\ walk.at \in CRCopies /\ (walk.had => walk.seen = doc)
  BY <1>1 DEF CRInv, WalkInv, Live
<1>3. Shown \in CRRecords
  BY <1>2 DEF Shown, CRInv, CRTypeOK, Live
<1>4. copies' \in {copies, Drop}
  BY DEF Answer, AnswerLocal, AnswerRemote, AnswerMerge, AnswerPromote, MakeCanonical, DeleteCopy, Skip
<1>5. /\ copies' \in [CRCopies -> CRRecords \cup {CRNone}]
      /\ \A c \in CRCopies : copies'[c] \in {copies[c], CRNone}
      /\ copies' = Drop => copies'[walk.at] = CRNone
  BY <1>2, <1>4 DEF Drop, CRInv, CRTypeOK
<1>6. copies' = Drop => \A c \in Live' : c # walk.at
  BY <1>5 DEF Live
<1>7. /\ walk' \in Walks /\ walk'.open = walk.open /\ walk'.hits = walk.hits /\ walk'.at = CRNone
  <2>1. walk \in Walks /\ Gone \in Stamped
    BY TimeFacts, TextFacts DEF CRInv, CRTypeOK, Gone, Walks, Stamped
  <2> HIDE DEF Gone
  <2> QED BY <1>1, <2>1 DEF Walks
<1>8. WalkInv'
  <2>1. \A c \in Live' : c \in Live /\ copies'[c] = copies[c]
    BY <1>5 DEF Live
  <2>2. \A c \in Live' : copies'[c].local <=> copies'[c].era = "v0"
    BY <1>2, <2>1 DEF CRInv, WalkInv
  <2>3. \A h \in walk.hits : h[1] \in Live' /\ h[1] # CRNone
    <3>1. \A h \in walk.hits : h[1] \in Live /\ h[1] # walk.at
      BY <1>2 DEF CRInv, WalkInv
    <3>2. \A c \in Live : c # walk.at => copies'[c] = copies[c]
      BY <1>4 DEF Drop, Live, CRInv, CRTypeOK
    <3> QED BY <3>1, <3>2 DEF Live
  <2>4. \A g, h \in walk.hits : g[1] = h[1] => g = h
    BY <1>2 DEF CRInv, WalkInv
  <2> QED BY <1>2, <1>7, <2>2, <2>3, <2>4 DEF WalkInv
<1>9. ClockInv'
  BY <1>1 DEF CRInv, ClockInv
<1> QED BY <1>1, <1>2, <1>3, <1>4, <1>5, <1>6, <1>7, <1>8, <1>9

\* What becomes of the bytes: of a dropped copy and of the document before the answer,
\* all are in the document, in a file of their own or given up.
LEMMA AnswerBytes ==
  ASSUME CalmResolve, CRInv, Answer
  PROVE  \/ UNCHANGED <<doc, copies, extra, given>>
         \/ /\ copies' = Drop /\ extra \subseteq extra' /\ given \subseteq given'
            /\ doc.text \subseteq doc'.text \cup given'
            /\ Shown.text \subseteq doc'.text \cup given' \cup UNION extra'
<1>1. walk.had => walk.seen = doc
  BY AnswerFrame
<1>2. doc \in Stamped /\ Shown \in CRRecords
  BY AnswerFrame DEF CRInv, CRTypeOK, Stamped
<1>3. CASE walk.had /\ AnswerLocal
  BY <1>1, <1>2, <1>3 DEF AnswerLocal, Stamped
<1>4. CASE walk.had /\ AnswerRemote
  BY <1>1, <1>2, <1>4 DEF AnswerRemote, Stamped
<1>5. CASE walk.had /\ AnswerMerge
  BY <1>1, <1>5 DEF AnswerMerge
<1>6. CASE walk.had /\ AnswerPromote
  BY <1>2, <1>6 DEF AnswerPromote, Stamped
<1>7. CASE MakeCanonical
  <2>1. doc.text = {}
    BY <1>7 DEF MakeCanonical, CalmResolve
  <2> QED BY <1>7, <2>1 DEF MakeCanonical
<1>8. CASE DeleteCopy
  BY <1>8 DEF DeleteCopy
<1>9. CASE Skip
  BY <1>9 DEF Skip
<1> QED BY <1>3, <1>4, <1>5, <1>6, <1>7, <1>8, <1>9 DEF Answer

\* What an answer settles: nothing more, nothing at all, or the peer's version it was
\* about, with the document touched past it.
LEMMA AnswerSettles ==
  ASSUME CRInv, Answer
  PROVE  \/ settled' = {}
         \/ doc' = doc /\ settled' = settled
         \/ /\ Shown.era # "v0" /\ copies' = Drop /\ settled' = Settled
            /\ doc' = IF doc.text = {} THEN doc ELSE [doc EXCEPT !.mt = Bumped(Shown.mt)]
BY DEF Answer, AnswerLocal, AnswerRemote, AnswerMerge, AnswerPromote, MakeCanonical, DeleteCopy, Skip, LocalIsCopy

\* The rest of the shape of a state after an answer.
LEMMA AnswerTyped ==
  ASSUME CRInv, Answer
  PROVE  doc' \in Stamped /\ extra' \subseteq CRTexts /\ given' \subseteq UNION CRTexts
<1> USE TextFacts
<1>1. doc \in Stamped /\ doc.text \in CRTexts /\ Shown \in CRRecords /\ Shown.text \in CRTexts /\ Shown.mt \in CRTimes
      /\ walk.seen.text \in CRTexts
  BY AnswerFrame DEF CRInv, CRTypeOK, CRRecords, Stamped
<1>2. crNow \in 0..CRLast /\ crNow \in CRTimes
  BY TimeFacts DEF CRInv, CRTypeOK
<1>3. Bumped(doc.mt) \in CRTimes /\ Bumped(Shown.mt) \in CRTimes
  BY <1>1, <1>2, BumpedFacts DEF Stamped
<1>4. doc' \in Stamped
  <2>1. doc' \in {doc, [text |-> Shown.text, mt |-> Bumped(doc.mt)], [doc EXCEPT !.mt = Bumped(Shown.mt)],
                  [text |-> Shown.text, mt |-> Shown.mt], [text |-> walk.seen.text \cup Shown.text, mt |-> crNow]}
    BY DEF Answer, AnswerLocal, AnswerRemote, AnswerMerge, AnswerPromote, MakeCanonical, DeleteCopy, Skip
  <2>2. walk.seen.text \cup Shown.text \in CRTexts
    BY <1>1
  <2> QED BY <1>1, <1>2, <1>3, <2>1, <2>2 DEF Stamped
<1>5. extra' \in {extra, extra \cup {Shown.text}}
  BY DEF Answer, AnswerLocal, AnswerRemote, AnswerMerge, AnswerPromote, MakeCanonical, DeleteCopy, Skip
<1>6. given' \in {given, given \cup Shown.text, given \cup walk.seen.text}
  BY DEF Answer, AnswerLocal, AnswerRemote, AnswerMerge, AnswerPromote, MakeCanonical, DeleteCopy, Skip
<1> QED BY <1>1, <1>4, <1>5, <1>6 DEF CRInv, CRTypeOK

LEMMA AnswerKeeps == ASSUME CRInv, Answer PROVE CRInv'
<1> USE CRNumbers
<1>1. /\ walk.at \in Live /\ walk.open /\ Shown \in CRRecords
      /\ UNCHANGED <<peer, crNow, marker, made>>
      /\ copies' \in {copies, Drop} /\ copies' \in [CRCopies -> CRRecords \cup {CRNone}]
      /\ \A c \in CRCopies : copies'[c] \in {copies[c], CRNone}
      /\ copies' = Drop => \A c \in Live' : c # walk.at
      /\ walk' \in Walks /\ WalkInv' /\ ClockInv'
  BY AnswerFrame
<1>2. /\ LabelInv' /\ CopiesInv' /\ Live' \subseteq Live /\ PeerTexts' = PeerTexts
      /\ \A c \in Live' : copies'[c] = copies[c]
  BY <1>1, FewerCopies
<1>3. SettledInv'
  <2>1. CASE settled' = {}
    BY <2>1 DEF SettledInv
  <2>2. CASE doc' = doc /\ settled' = settled
    BY <1>1, <1>2, <2>2 DEF CRInv, SettledInv
  <2>3. ASSUME Shown.era # "v0", copies' = Drop, settled' = Settled,
               doc' = IF doc.text = {} THEN doc ELSE [doc EXCEPT !.mt = Bumped(Shown.mt)]
        PROVE  SettledInv'
    <3>1. ~Shown.local
      BY <1>1, <2>3 DEF CRInv, WalkInv, Shown
    <3>2. Shown.text \in PeerTexts
      BY <1>1, <3>1 DEF CRInv, CopiesInv, Shown
    <3>3. \A c \in Live' : copies'[c].local
      BY <1>1, <1>2, <2>3, <3>1 DEF CRInv, CopiesInv, Shown
    <3>4. peer.text \notin settled
      BY <1>1, <3>1 DEF CRInv, SettledInv, Shown
    <3>5. peer.text \in settled' => Shown.mt = peer.mt /\ peer.mt < crNow + CRSkew
      BY <2>3, <3>4 DEF Settled
    <3>6. peer.mt \in CRTimes /\ crNow \in 0..CRLast /\ doc \in Stamped
      BY DEF CRInv, CRTypeOK, Stamped
    <3>7. peer.text \in settled' => doc'.text = {} \/ doc'.mt > peer.mt
      BY <2>3, <3>5, <3>6, BumpedFacts DEF Stamped
    <3>8. settled' \subseteq PeerTexts
      BY <2>3, <3>2 DEF Settled, CRInv, SettledInv
    <3> QED BY <1>1, <1>2, <3>3, <3>7, <3>8 DEF SettledInv
  <2> QED BY <2>1, <2>2, <2>3, AnswerSettles
<1>4. settled' \subseteq CRTexts
  BY <1>1, AnswerSettles DEF Settled, CRInv, CRTypeOK, CRRecords
<1>5. CRTypeOK'
  BY <1>1, <1>4, AnswerTyped DEF CRInv, CRTypeOK, Walks, Stamped
<1> QED BY <1>1, <1>2, <1>3, <1>5 DEF CRInv

\* Retention takes only copies of the era after the inversion whose bytes the document has.
LEMMA GcFacts ==
  ASSUME CRInv, GcConflicts
  PROVE  /\ UNCHANGED <<doc, extra, peer, crNow, marker, walk, given, settled, made>> /\ ~walk.open
         /\ copies' \in [CRCopies -> CRRecords \cup {CRNone}]
         /\ \A c \in CRCopies : \/ copies'[c] = copies[c]
                                \/ copies'[c] = CRNone /\ copies[c].text = doc.text
<1> DEFINE reaped == {c \in Live : /\ copies[c].era # "v0"
                                   /\ copies[c].made < crNow - CRAge
                                   /\ Redundant(c)}
<1>1. copies' = [c \in CRCopies |-> IF c \in reaped THEN CRNone ELSE copies[c]]
  BY Zenon DEF GcConflicts
<1>2. \A c \in reaped : copies[c].text = doc.text
  BY DEF Redundant
<1> HIDE DEF reaped
<1>3. UNCHANGED <<doc, extra, peer, crNow, marker, walk, given, settled, made>> /\ ~walk.open
  BY DEF GcConflicts
<1> QED BY <1>1, <1>2, <1>3 DEF CRInv, CRTypeOK

LEMMA GcKeeps == ASSUME CRInv, GcConflicts PROVE CRInv'
<1>1. /\ LabelInv' /\ CopiesInv' /\ Live' \subseteq Live /\ PeerTexts' = PeerTexts
      /\ \A c \in Live' : copies'[c] = copies[c]
  BY GcFacts, FewerCopies
<1>2. CRTypeOK'
  BY GcFacts DEF CRInv, CRTypeOK
<1>3. ClockInv' /\ WalkInv'
  BY GcFacts DEF CRInv, ClockInv, WalkInv
<1>4. SettledInv'
  BY GcFacts, <1>1 DEF CRInv, SettledInv
<1> QED BY <1>1, <1>2, <1>3, <1>4 DEF CRInv

\* The user edits or removes the document, not while an answer is being typed.
LEMMA UserWrites ==
  ASSUME CalmResolve, CRInv, Edit \/ Remove
  PROVE  CRInv'
<1> USE CRNumbers, TextFacts
<1>1. /\ walk.at = CRNone /\ settled' = {} /\ UNCHANGED <<copies, extra, peer, crNow, marker, walk>>
      /\ made'.pushes = made.pushes /\ made' \in [edits : 0..CREdits, pushes : 0..CRPushes]
  BY TimeFacts DEF Edit, Remove, Typing, CalmResolve, CRInv, CRTypeOK
<1>2. doc' \in Stamped /\ given' \subseteq UNION CRTexts
  <2>1. doc \in Stamped /\ doc.text \in CRTexts
    BY DEF CRInv, CRTypeOK, Stamped
  <2>2. CASE Edit
    <3>1. {<<"mine", made'.edits>>} \in CRTexts
      BY <1>1
    <3>2. doc.text \cup {<<"mine", made'.edits>>} \in CRTexts
      BY <2>1, <3>1
    <3>3. crNow \in CRTimes
      BY TimeFacts DEF CRInv, CRTypeOK
    <3> QED BY <2>2, <3>2, <3>3 DEF Edit, Stamped, CRInv, CRTypeOK
  <2>3. CASE Remove
    <3>1. given' = given \cup doc.text /\ doc' = Gone
      BY <2>3 DEF Remove
    <3>2. Gone \in Stamped
      BY TimeFacts DEF Gone, Stamped
    <3> QED BY <2>1, <3>1, <3>2 DEF CRInv, CRTypeOK
  <2> QED BY <2>2, <2>3
<1>3. CRTypeOK'
  BY <1>1, <1>2 DEF CRInv, CRTypeOK, Stamped
<1>4. LabelInv' /\ CopiesInv' /\ Live' = Live
  BY <1>1, FewerCopies DEF CRInv, CRTypeOK, Live
<1>5. ClockInv' /\ WalkInv' /\ SettledInv'
  BY <1>1, <1>4 DEF CRInv, ClockInv, WalkInv, SettledInv
<1> QED BY <1>3, <1>4, <1>5 DEF CRInv

\* The peer publishes a version nobody has settled.
LEMMA PeerKeeps == ASSUME CRInv, PeerPushes PROVE CRInv'
<1> USE CRNumbers, TextFacts
<1>1. /\ made.pushes < CRPushes /\ made' = [made EXCEPT !.pushes = @ + 1]
      /\ UNCHANGED <<doc, copies, extra, crNow, marker, walk, given, settled>>
  BY DEF PeerPushes
<1>2. PICK mt \in peer.mt..(crNow + CRSkew + 1) : peer' = [text |-> {<<"theirs", made'.pushes>>}, mt |-> mt]
  BY Zenon DEF PeerPushes
<1>3. /\ made'.pushes = made.pushes + 1 /\ made'.pushes \in 0..CRPushes /\ made'.edits = made.edits
      /\ made' \in [edits : 0..CREdits, pushes : 0..CRPushes] /\ made.pushes \in Nat
  BY <1>1, TimeFacts DEF CRInv, CRTypeOK
<1>4. peer' \in Stamped /\ peer'.text = {<<"theirs", made'.pushes>>}
  <2>1. mt \in CRTimes
    BY <1>2, TimeFacts DEF CRInv, CRTypeOK, CRTimes
  <2>2. {<<"theirs", made'.pushes>>} \in CRTexts
    BY <1>3
  <2> QED BY <1>2, <2>1, <2>2 DEF Stamped
<1>5. PeerTexts \subseteq PeerTexts' /\ peer'.text \notin PeerTexts
  <2> SUFFICES ASSUME NEW t \in PeerTexts PROVE t \in PeerTexts' /\ t # peer'.text
    OBVIOUS
  <2>1. PICK k \in 0..made.pushes : t = {<<"theirs", k>>}
    BY DEF PeerTexts
  <2>2. k \in 0..made'.pushes /\ k # made'.pushes
    BY <1>3
  <2>3. t \in PeerTexts'
    BY <2>1, <2>2 DEF PeerTexts
  <2>4. <<"theirs", k>> # <<"theirs", made'.pushes>>
    BY <2>2
  <2>5. <<"theirs", k>> \in t
    BY <2>1
  <2>6. t # peer'.text
    BY <1>4, <2>4, <2>5
  <2> QED BY <2>3, <2>6
<1>6. CRTypeOK'
  BY <1>1, <1>3, <1>4 DEF CRInv, CRTypeOK, Stamped
<1>7. LabelInv' /\ CopiesInv' /\ ClockInv' /\ WalkInv'
  BY <1>1, <1>4, <1>5 DEF CRInv, LabelInv, CopiesInv, ClockInv, WalkInv, Live
<1>8. SettledInv'
  BY <1>1, <1>5 DEF CRInv, SettledInv
<1> QED BY <1>6, <1>7, <1>8 DEF CRInv

LEMMA PassKeeps == ASSUME CRInv, Pass PROVE CRInv'
<1>1. crNow' = crNow + 1 /\ crNow' \in 0..CRLast
      /\ UNCHANGED <<doc, copies, extra, peer, marker, walk, given, settled, made>>
  BY TimeFacts DEF Pass, CRInv, CRTypeOK
<1>2. CRTypeOK'
  BY <1>1 DEF CRInv, CRTypeOK
<1>3. ClockInv'
  BY <1>1, TimeFacts DEF CRInv, CRTypeOK, ClockInv
<1>4. LabelInv' /\ CopiesInv' /\ WalkInv' /\ SettledInv'
  BY <1>1 DEF CRInv, LabelInv, CopiesInv, WalkInv, SettledInv, Live, PeerTexts
<1> QED BY <1>2, <1>3, <1>4 DEF CRInv

\* The invariant holds of every behaviour in which the marker can be read, no answer is
\* typed over an edit and no removed document comes back in mid-walk.
THEOREM ResolveInvariant == ASSUME CalmResolve PROVE CRSpec => []CRInv
<1> USE CRNumbers, TextFacts
<1>1. CRInit => CRInv
  <2> SUFFICES ASSUME CRInit PROVE CRInv
    OBVIOUS
  <2>1. PICK old \in CRLegacy, c \in CRCopies :
          /\ copies = [d \in CRCopies |-> IF d = c THEN old ELSE CRNone]
          /\ given = IF old.local THEN {} ELSE {<<"old", 0>>}
    BY Zenon DEF CRInit
  <2>2. /\ old \in CRRecords /\ old # CRNone /\ old.era # "v1"
        /\ old.local <=> (old.era = "v0" \/ old.made < CRShipped)
        /\ old.text = IF old.local THEN {<<"old", 0>>} ELSE {<<"theirs", 0>>}
    BY CRLegacyIsOld
  <2>3. Live = {c} /\ copies[c] = old /\ copies \in [CRCopies -> CRRecords \cup {CRNone}]
    BY <2>1, <2>2 DEF Live
  <2>4. /\ doc = [text |-> {<<"mine", 0>>}, mt |-> CRShipped] /\ peer = [text |-> {<<"theirs", 0>>}, mt |-> CRShipped]
        /\ marker = CRNone /\ crNow = CRShipped + 1 /\ extra = {} /\ walk = Shut
        /\ settled = {} /\ made = [edits |-> 0, pushes |-> 0]
    BY DEF CRInit, CalmResolve
  <2>5. CRShipped \in CRTimes /\ 0 \in 0..CRPushes /\ 0 \in 0..CREdits /\ crNow \in 0..CRLast
    BY <2>4, TimeFacts
  <2>6. {<<"mine", 0>>} \in CRTexts /\ {<<"theirs", 0>>} \in CRTexts
    BY <2>5
  <2>7. doc \in Stamped /\ peer \in Stamped
    BY <2>4, <2>5, <2>6 DEF Stamped
  <2>8. walk \in Walks
    BY <2>4, TimeFacts DEF Shut, Walks, Gone, Stamped
  <2>9. given \subseteq UNION CRTexts
    BY <2>1 DEF Edits
  <2>10. CRTypeOK
    BY <2>3, <2>4, <2>5, <2>7, <2>8, <2>9 DEF CRTypeOK, Walks, Stamped
  <2>11. ClockInv
    BY <2>4, TimeFacts DEF ClockInv
  <2>12. LabelInv
    BY <2>2, <2>3 DEF LabelInv, CRRecords, Eras
  <2>13. PeerTexts = {{<<"theirs", k>>} : k \in 0..0}
    BY <2>4 DEF PeerTexts
  <2>14. CopiesInv
    BY <2>2, <2>3, <2>4, <2>13 DEF CopiesInv
  <2>15. WalkInv /\ SettledInv
    BY <2>4 DEF Shut, WalkInv, SettledInv
  <2> QED BY <2>10, <2>11, <2>12, <2>14, <2>15 DEF CRInv
<1>2. CRInv /\ [CRNext]_crVars => CRInv'
  <2> SUFFICES ASSUME CRInv, [CRNext]_crVars PROVE CRInv'
    OBVIOUS
  <2>1. CASE UNCHANGED crVars
    <3>1. CRTypeOK' /\ ClockInv' /\ Live' = Live /\ PeerTexts' = PeerTexts
      BY <2>1 DEF crVars, CRInv, CRTypeOK, ClockInv, Live, PeerTexts
    <3>2. LabelInv' /\ CopiesInv'
      BY <2>1, <3>1 DEF crVars, CRInv, LabelInv, CopiesInv
    <3>3. WalkInv'
      BY <2>1, <3>1 DEF crVars, CRInv, WalkInv
    <3>4. SettledInv'
      BY <2>1, <3>1 DEF crVars, CRInv, SettledInv
    <3> QED BY <3>1, <3>2, <3>3, <3>4 DEF CRInv
  <2>2. CASE CRNext
    BY <2>2, PullKeeps, BeginWalkKeeps, ShowKeeps, AnswerKeeps, GcKeeps, UserWrites, PeerKeeps, PassKeeps DEF CRNext
  <2> QED BY <2>1, <2>2
<1> QED BY <1>1, <1>2, PTL DEF CRSpec

(* An edit, wherever its bytes are. *)
Held(e) == \/ e \in doc.text \/ e \in given \/ \E t \in extra : e \in t
           \/ \E c \in Live : e \in copies[c].text

LEMMA HeldIsKept == (NoEditLost <=> \A e \in Mine : Held(e)) /\ (NoEditLost' <=> \A e \in Mine' : Held(e)')
<1>1. ASSUME NEW e, NEW texts, NEW f, NEW cs
      PROVE  e \in UNION (texts \cup {f[c].text : c \in cs}) <=>
                (\E t \in texts : e \in t) \/ \E c \in cs : e \in f[c].text
  <2>1. \A c \in cs : f[c].text \in texts \cup {f[d].text : d \in cs}
    BY Zenon
  <2>2. \A t \in texts \cup {f[d].text : d \in cs} : t \in texts \/ \E c \in cs : t = f[c].text
    BY Zenon
  <2> DEFINE all == texts \cup {f[d].text : d \in cs}
  <2>3. texts \subseteq all
    BY Zenon
  <2> HIDE DEF all
  <2> QED BY <2>1, <2>2, <2>3, Zenon DEF all
<1>2. ASSUME NEW e PROVE e \in OnDisk \cup given <=> Held(e)
  <2> DEFINE kept == UNION (extra \cup {copies[c].text : c \in Live})
  <2>1. OnDisk = doc.text \cup kept
    BY DEF OnDisk
  <2>2. e \in kept <=> (\E t \in extra : e \in t) \/ \E c \in Live : e \in copies[c].text
    BY <1>1
  <2> HIDE DEF kept
  <2> QED BY <2>1, <2>2 DEF Held
<1>3. ASSUME NEW e PROVE e \in OnDisk' \cup given' <=> Held(e)'
  <2> DEFINE kept == UNION (extra' \cup {copies'[c].text : c \in Live'})
  <2>1. OnDisk' = doc'.text \cup kept
    BY DEF OnDisk
  <2>2. e \in kept <=> (\E t \in extra' : e \in t) \/ \E c \in Live' : e \in copies'[c].text
    BY <1>1
  <2> HIDE DEF kept
  <2> QED BY <2>1, <2>2 DEF Held
<1> QED BY <1>2, <1>3, Zenon DEF NoEditLost

\* No step loses an edit of this machine's.
LEMMA HeldStaysHeld ==
  ASSUME CalmResolve, CRInv, [CRNext]_crVars, NEW e \in Mine, Held(e)
  PROVE  Held(e)'
<1>1. \A k : e # <<"theirs", k>>
  BY DEF Mine
<1>2. \A c \in Live : e \in copies[c].text => copies[c].local
  BY <1>1 DEF CRInv, CopiesInv, PeerTexts
<1>3. CASE UNCHANGED crVars
  BY <1>3 DEF crVars, Held, Live
<1>4. CASE Pull
  <2>1. extra' = extra /\ given' = given
    BY <1>4 DEF Pull
  <2> QED BY <1>2, <1>4, <2>1, PullKeeps DEF Held
<1>5. CASE BeginWalk
  <2>1. extra' = extra /\ given' = given /\ doc' = doc
    BY <1>5 DEF BeginWalk
  <2> QED BY <1>5, <2>1, BeginWalkKeeps DEF Held
<1>6. CASE Show \/ EndWalk \/ PeerPushes \/ Pass
  BY <1>6 DEF Show, EndWalk, PeerPushes, Pass, Held, Live
<1>7. CASE Answer
  <2>1. CASE UNCHANGED <<doc, copies, extra, given>>
    BY <2>1 DEF Held, Live
  <2>2. ASSUME copies' = Drop, extra \subseteq extra', given \subseteq given',
               doc.text \subseteq doc'.text \cup given',
               Shown.text \subseteq doc'.text \cup given' \cup UNION extra'
        PROVE  Held(e)'
    <3>1. \A c \in Live : c # walk.at => c \in Live' /\ copies'[c] = copies[c]
      BY <2>2 DEF Drop, Live, CRInv, CRTypeOK
    <3>2. ASSUME NEW c \in Live, e \in copies[c].text PROVE Held(e)'
      BY <2>2, <3>1, <3>2 DEF Held, Shown
    <3> QED BY <2>2, <3>2 DEF Held
  <2> QED BY <1>7, <2>1, <2>2, AnswerBytes
<1>8. CASE GcConflicts
  BY <1>8, GcFacts DEF Held, Live
<1>9. CASE Edit \/ Remove
  BY <1>9 DEF Edit, Remove, Held, Live, Gone
<1> QED BY <1>3, <1>4, <1>5, <1>6, <1>7, <1>8, <1>9 DEF CRNext

\* Pulls, sweeps, the walk and its answers and retention never lose an edit made on this
\* machine, and no copy of the peer's is ever shown as this machine's (resolveflow.py,
\* conflictmtime.py, pullflow._apply_conflict, retention._gc_old_conflict_files).
THEOREM EditsAreKept == ASSUME CalmResolve PROVE CRSpec => []EditsKept
<1>1. CRInit => NoEditLost
  <2> SUFFICES ASSUME CRInit, NEW e \in Mine PROVE Held(e)
    BY HeldIsKept
  <2>1. PICK old \in CRLegacy, c \in CRCopies :
          /\ copies = [d \in CRCopies |-> IF d = c THEN old ELSE CRNone]
          /\ given = IF old.local THEN {} ELSE {<<"old", 0>>}
    BY Zenon DEF CRInit
  <2>2. old # CRNone /\ old.text = IF old.local THEN {<<"old", 0>>} ELSE {<<"theirs", 0>>}
    BY CRLegacyIsOld, CRNumbers
  <2>3. c \in Live /\ copies[c] = old
    BY <2>1, <2>2 DEF Live
  <2>4. doc.text = {<<"mine", 0>>} /\ made.edits = 0
    BY DEF CRInit
  <2>5. e = <<"old", 0>> \/ e = <<"mine", 0>>
    BY <2>4 DEF Mine
  <2> QED BY <2>1, <2>2, <2>3, <2>4, <2>5 DEF Held
<1>2. CRInv /\ NoEditLost /\ [CRNext]_crVars => NoEditLost'
  <2> SUFFICES ASSUME CRInv, NoEditLost, [CRNext]_crVars, NEW e \in Mine' PROVE Held(e)'
    BY HeldIsKept
  <2>1. CASE e \in Mine
    BY <2>1, HeldStaysHeld, HeldIsKept
  <2>2. CASE e \notin Mine
    <3>1. made'.edits # made.edits
      BY <2>2 DEF Mine
    <3>2. Edit
      BY <3>1 DEF CRNext, crVars, Pull, BeginWalk, Show, EndWalk, Answer, GcConflicts, Remove, PeerPushes, Pass,
                  CRInv, CRTypeOK
    <3>3. made'.edits = made.edits + 1 /\ made.edits \in Nat /\ <<"mine", made'.edits>> \in doc'.text
      BY <3>2 DEF Edit, CRInv, CRTypeOK
    <3>4. e = <<"mine", made'.edits>>
      BY <2>2, <3>3 DEF Mine
    <3> QED BY <3>3, <3>4 DEF Held
  <2> QED BY <2>1, <2>2
<1>3. CRInv => LabelsAreTrue
  BY DEF CRInv, LabelInv, LabelsAreTrue
<1> QED BY <1>1, <1>2, <1>3, ResolveInvariant, PTL DEF CRSpec, EditsKept

\* Once the user kept the local file against a version of the peer's, no pull asks about
\* that version again while the file stays as it is (conflictmtime.py:
\* _bump_canonical_mtime_post_resolve; pullflow._apply_conflict).
THEOREM KeptStaysKept == ASSUME CalmResolve PROVE CRSpec => KeptIsKept
<1>1. CRInv /\ [CRNext]_crVars =>
        [\A c \in CRCopies : copies[c] = CRNone /\ copies'[c] # CRNone => copies'[c].text \notin settled]_crVars
  <2> SUFFICES ASSUME CRInv, [CRNext]_crVars, NEW c \in CRCopies, copies[c] = CRNone, copies'[c] # CRNone
               PROVE  copies'[c].text \notin settled
    OBVIOUS
  <2>1. CASE Pull
    BY <2>1, PullKeeps
  <2>2. CASE BeginWalk
    BY <2>2, SweepFacts DEF BeginWalk, Live
  <2>3. CASE Answer
    BY <2>3, AnswerFrame
  <2>4. CASE GcConflicts
    BY <2>4, GcFacts
  <2>5. CASE Show \/ EndWalk \/ Edit \/ Remove \/ PeerPushes \/ Pass \/ UNCHANGED crVars
    BY <2>5 DEF Show, EndWalk, Edit, Remove, PeerPushes, Pass, crVars
  <2> QED BY <2>1, <2>2, <2>3, <2>4, <2>5 DEF CRNext
<1> QED BY <1>1, ResolveInvariant, PTL DEF CRSpec, KeptIsKept

-----------------------------------------------------------------------------
(* ------------------------------ Cursor usage --------------------------- *)

(* What rows, spools, hooks, stores and passes are.                         *)
QueuedRows == [key : CUGens \cup {CUNone}, day : 0..CULastDay]
SpoolFiles == [ino : Nat, rows : Seq(QueuedRows)]
HookStates == [pc : {"idle", "opened", "locked"}, key : CUGens \cup {CUNone}, ino : Nat, tries : Nat]
StoreRows == [1..CUDirs -> [CURuns -> Rows]]
RunTables == [Keys -> Entries \cup {CUNone}]
RequestTables == [CUGens -> CURuns \cup {CUNone}]
Histories == [runs : RunTables, requests : RequestTables, retained : SUBSET CURuns, once : BOOLEAN, reason : Reasons]
Passes == [pc : {"idle", "fold", "scan", "learn", "write", "unlink"}, runs : RunTables, requests : RequestTables,
           retained : SUBSET CURuns, once : BOOLEAN, learned : RunTables, named : SUBSET CURuns,
           removed : SUBSET CURuns, sqlite : SUBSET CURuns, seen : [Keys -> Rows], dir : Nat \ {0},
           taken : BOOLEAN, skipped : SUBSET CUGens, reason : Reasons]
CursorTyped ==
  /\ cuToday \in 0..CULastDay /\ cuSpool \in SpoolFiles /\ cuMerging \in SpoolFiles
  /\ cuHook \in [CUHooks -> HookStates] /\ cuJson \in StoreRows /\ cuDb \in StoreRows
  /\ cuHist \in Histories /\ cuWritten \in BOOLEAN /\ cuPass \in Passes
  /\ cuAcked \in [CUGens -> 0..CULastDay \cup {CUNone}] /\ cuSettled \subseteq CUGens

(* A spool has its own inode, and who holds its lock, alone, has room in it. *)
SpoolsInv ==
  /\ cuSpool.ino = 0 => cuSpool.rows = <<>>
  /\ cuMerging.ino = 0 => cuMerging.rows = <<>>
  /\ cuSpool.ino # 0 => cuSpool.ino # cuMerging.ino
  /\ Len(cuSpool.rows) <= CUSpoolMax /\ Len(cuMerging.rows) <= CUSpoolMax
  /\ \A h \in CUHooks :
       /\ cuHook[h].pc # "idle" => cuHook[h].ino # 0 /\ cuHook[h].key \in CUGens
       /\ cuHook[h].pc = "locked" =>
            /\ cuHook[h].ino = cuSpool.ino /\ Len(cuSpool.rows) < CUSpoolMax
            /\ \A i \in CUHooks : cuHook[i].pc = "locked" => i = h

(* A row or an entry of a generation is no older than its first report.     *)
ReportedBy(g, day) == cuAcked[g] # CUNone /\ cuAcked[g] <= day
RowsReported(rows) == \A i \in 1..Len(rows) : rows[i].key \in CUGens => ReportedBy(rows[i].key, rows[i].day)
RunsReported(runs) == \A g \in CUGens : runs[g] # CUNone => ReportedBy(g, runs[g].day)
ReportsInv ==
  /\ RowsReported(cuSpool.rows) /\ RowsReported(cuMerging.rows)
  /\ RunsReported(cuHist.runs) /\ RunsReported(cuPass.runs)
  /\ \A g \in CUGens : cuPass.learned[g] = CUNone /\ (cuAcked[g] # CUNone => cuAcked[g] <= cuToday)

(* What was acknowledged is queued, in the history, superseded or expired.  *)
AckedInv ==
  \A g \in CUGens : InRetention(g) =>
    \/ Completed(cuSpool.rows, g) \/ Completed(cuMerging.rows, g)
    \/ cuHist.runs[g] # CUNone \/ g \in cuSettled

(* A generation does not stand beside the run it belongs to.                *)
OnceIn(runs, requests) ==
  \A c \in CURuns : Counted(runs, c) /\ requests[CURequest[c]] = c => runs[CURequest[c]] = CUNone

(* What a pass is going to write has no less than the history, and what it  *)
(* is going to unlink has been folded.                                      *)
PassInv ==
  cuPass.pc \in {"fold", "scan", "learn", "write"} =>
    /\ \A g \in CUGens : InRetention(g) /\ cuHist.runs[g] # CUNone => cuPass.runs[g] # CUNone
    /\ OnceIn(cuPass.runs, cuPass.requests)
    /\ \A c \in cuHist.retained :
         Counted(cuHist.runs, c) /\ ~Expired(cuHist.runs[c].day) =>
           c \in cuPass.retained /\ cuPass.runs[c] = cuHist.runs[c]
    /\ cuPass.taken =>
         \A g \in CUGens : InRetention(g) /\ Completed(cuMerging.rows, g) =>
           cuPass.runs[g] # CUNone \/ g \in cuPass.skipped
UnlinkInv ==
  cuPass.pc = "unlink" =>
    \A g \in CUGens : InRetention(g) /\ Completed(cuMerging.rows, g) =>
      cuHist.runs[g] # CUNone \/ g \in cuSettled \/ Completed(cuSpool.rows, g)

CursorInv ==
  /\ CursorTyped /\ SpoolsInv /\ ReportsInv /\ AckedInv /\ OnceIn(cuHist.runs, cuHist.requests)
  /\ PassInv /\ UnlinkInv

-----------------------------------------------------------------------------
(* A new spool has an inode no file and no hook has.                        *)
LEMMA FreshIs ==
  ASSUME CursorTyped
  PROVE  /\ FreshInode \in Nat /\ FreshInode # 0 /\ FreshInode # cuSpool.ino /\ FreshInode # cuMerging.ino
         /\ \A h \in CUHooks : FreshInode # cuHook[h].ino
<1>1. PICK n \in Nat : n = Cardinality(CUHooks)
  BY CUSets, FS_CardinalityType
<1>2. PICK held : held = {cuHook[h].ino : h \in CUHooks}
  OBVIOUS
<1>3. IsFiniteSet(held) /\ Cardinality(held) <= n
  <2>1. PICK f : f = [h \in CUHooks |-> cuHook[h].ino]
    OBVIOUS
  <2>2. f \in Surjection(CUHooks, held)
    BY <1>2, <2>1 DEF Surjection
  <2> QED BY <1>1, <2>2, CUSets, FS_Surjection
<1>4. PICK used : used = held \cup {cuSpool.ino} \cup {cuMerging.ino}
  OBVIOUS
<1>5. IsFiniteSet(used) /\ Cardinality(used) \in Nat /\ Cardinality(used) <= n + 2
  <2>1. Cardinality(held) \in Nat
    BY <1>3, FS_CardinalityType
  <2>2. IsFiniteSet(held \cup {cuSpool.ino}) /\ Cardinality(held \cup {cuSpool.ino}) \in {Cardinality(held), Cardinality(held) + 1}
    BY <1>3, FS_AddElement
  <2>3. IsFiniteSet(used) /\ Cardinality(used) \in {Cardinality(held \cup {cuSpool.ino}), Cardinality(held \cup {cuSpool.ino}) + 1}
    BY <1>4, <2>2, FS_AddElement
  <2> QED BY <1>1, <1>3, <2>1, <2>2, <2>3
<1>6. \E i \in 1..(n + 3) : i \notin used
  <2>1. SUFFICES ASSUME 1..(n + 3) \subseteq used PROVE FALSE
    OBVIOUS
  <2>2. Cardinality(1..(n + 3)) = n + 3
    <3>1. 1 \in Int /\ n + 3 \in Int /\ ~(1 > n + 3) /\ (n + 3) - 1 + 1 = n + 3
      BY <1>1
    <3> QED BY <3>1, FS_Interval
  <2>3. Cardinality(1..(n + 3)) <= Cardinality(used)
    BY <1>5, <2>1, FS_Subset
  <2> QED BY <1>1, <1>5, <2>2, <2>3
<1>7. used = {cuSpool.ino, cuMerging.ino} \cup {cuHook[h].ino : h \in CUHooks}
  BY <1>2, <1>4
<1>8. FreshInode \in 1..(n + 3) /\ FreshInode \notin used
  BY <1>1, <1>6, <1>7 DEF FreshInode
<1> QED BY <1>1, <1>7, <1>8

(* What a row appended to a spool adds.                                     *)
LEMMA AppendCompletes ==
  ASSUME NEW rows \in Seq(QueuedRows), NEW row \in QueuedRows
  PROVE  /\ Append(rows, row) \in Seq(QueuedRows) /\ Len(Append(rows, row)) = Len(rows) + 1
         /\ \A g : Completed(Append(rows, row), g) <=> Completed(rows, g) \/ row.key = g
<1>1. \A g : Completed(rows, g) => Completed(Append(rows, row), g)
  BY DEF Completed
<1>2. \A g : row.key = g => Completed(Append(rows, row), g)
  <2>1. Append(rows, row)[Len(rows) + 1] = row /\ Len(rows) + 1 \in 1..Len(Append(rows, row))
    OBVIOUS
  <2> QED BY <2>1 DEF Completed
<1>3. \A g : Completed(Append(rows, row), g) => Completed(rows, g) \/ row.key = g
  BY DEF Completed
<1> QED BY <1>1, <1>2, <1>3

(* An empty spool completes nothing.                                        *)
LEMMA NothingCompleted == \A g : ~Completed(<<>>, g)
BY DEF Completed

(* Steps that leave the rows of the spool, the history and the pass alone.  *)
LEMMA SameRows ==
  ASSUME CursorInv, UNCHANGED <<cuToday, cuMerging, cuHist, cuPass, cuAcked, cuSettled>>,
         cuSpool'.rows = cuSpool.rows
  PROVE  ReportsInv' /\ AckedInv' /\ OnceIn(cuHist.runs, cuHist.requests)' /\ PassInv' /\ UnlinkInv'
<1>0. ReportsInv'
  BY DEF CursorInv, ReportsInv, RowsReported, RunsReported, ReportedBy
<1>1. AckedInv'
  BY DEF CursorInv, AckedInv, Completed, InRetention, Expired
<1>2. OnceIn(cuHist.runs, cuHist.requests)'
  BY DEF CursorInv, OnceIn, Counted
<1>3. PassInv'
  BY DEF CursorInv, PassInv, OnceIn, Counted, Completed, InRetention, Expired
<1>4. UnlinkInv'
  BY DEF CursorInv, UnlinkInv, Completed, InRetention, Expired
<1> QED BY <1>0, <1>1, <1>2, <1>3, <1>4

(* The empty pass has nothing to account for.                               *)
LEMMA NoPassIs ==
  /\ NoPass \in Passes /\ NoPass.pc = "idle" /\ NoPass.taken = FALSE /\ RunsReported(NoPass.runs)
  /\ \A g \in CUGens : NoPass.learned[g] = CUNone
<1>1. NoPass \in Passes /\ NoPass.pc = "idle" /\ NoPass.taken = FALSE
  BY DEF NoPass, Passes, Reasons, Empty, NoRequests, RunTables, RequestTables, Rows
<1>2. NoPass.runs = Empty /\ NoPass.learned = Empty
  BY DEF NoPass
<1> QED BY <1>1, <1>2 DEF RunsReported, Empty, Keys


(* The program starts within the invariant.                                 *)
LEMMA CursorInitInv == CUInit => CursorInv
<1> SUFFICES ASSUME CUInit PROVE CursorInv
  OBVIOUS
<1>1. Empty \in RunTables /\ Empty \in [Keys -> Rows] /\ NoRequests \in RequestTables
  BY DEF Empty, NoRequests, RunTables, RequestTables, Rows
<1>2. NoFile \in SpoolFiles /\ NoFile.ino = 0 /\ NoFile.rows = <<>> /\ HookIdle \in HookStates
  BY DEF NoFile, SpoolFiles, HookIdle, HookStates
<1>4. cuHist \in Histories
  BY <1>1 DEF CUInit, Histories, Reasons
<1>5. cuJson \in StoreRows /\ cuDb \in StoreRows
  BY DEF CUInit, StoreRows, Rows
<1>6. CursorTyped
  <2>1. 0 \in 0..CULastDay
    BY CUSets
  <2>2. cuHook \in [CUHooks -> HookStates]
    BY <1>2 DEF CUInit
  <2> QED BY <1>2, NoPassIs, <1>4, <1>5, <2>1, <2>2 DEF CUInit, CursorTyped
<1>7. SpoolsInv
  BY <1>2, CUSets DEF CUInit, SpoolsInv, HookIdle
<1>8. AckedInv /\ PassInv /\ UnlinkInv
  BY NoPassIs DEF CUInit, AckedInv, PassInv, UnlinkInv, InRetention
<1>9. OnceIn(cuHist.runs, cuHist.requests)
  BY <1>4 DEF CUInit, OnceIn, Counted, Empty, Keys
<1>10. ReportsInv
  <2>1. cuSpool.rows = <<>> /\ cuMerging.rows = <<>>
    BY <1>2 DEF CUInit
  <2>2. cuHist.runs = Empty /\ \A g \in CUGens : Empty[g] = CUNone /\ cuAcked[g] = CUNone
    BY DEF CUInit, Empty, Keys
  <2>3. RowsReported(<<>>)
    BY DEF RowsReported
  <2> QED BY <2>1, <2>2, <2>3, NoPassIs DEF CUInit, ReportsInv, RunsReported
<1> QED BY <1>10, <1>6, <1>7, <1>8, <1>9 DEF CursorInv

(* --------------------------------- hooks ------------------------------- *)

(* A hook opens the spool the path names, or makes a new one.               *)
LEMMA OpenKeeps ==
  ASSUME CursorInv, NEW h \in CUHooks, NEW hook \in HookStates, hook.key \in CUGens, OpenSpool(h, hook),
         UNCHANGED <<cuToday, cuMerging, cuStores, cuHist, cuWritten, cuPass, cuAcked, cuSettled>>
  PROVE  CursorInv'
<1>0. CursorTyped /\ SpoolsInv
  BY DEF CursorInv
<1>1. PICK ino \in Nat : /\ ino = IF cuSpool.ino = 0 THEN FreshInode ELSE cuSpool.ino
                         /\ ino # 0 /\ ino # cuMerging.ino
  BY <1>0, FreshIs DEF CursorTyped, SpoolsInv, SpoolFiles
<1>2. cuSpool'.ino = ino /\ cuSpool'.rows = cuSpool.rows /\ cuSpool' \in SpoolFiles
  BY <1>0, <1>1 DEF OpenSpool, CursorTyped, SpoolsInv, SpoolFiles
<1>3. cuHook' = [cuHook EXCEPT ![h] = [hook EXCEPT !.ino = ino, !.pc = "opened"]]
  BY <1>1 DEF OpenSpool
<1>4. /\ cuHook' \in [CUHooks -> HookStates]
      /\ cuHook'[h].pc = "opened" /\ cuHook'[h].ino = ino /\ cuHook'[h].key = hook.key
      /\ \A i \in CUHooks \ {h} : cuHook'[i] = cuHook[i]
  BY <1>0, <1>1, <1>3 DEF CursorTyped, HookStates
<1>5. CursorTyped'
  BY <1>0, <1>2, <1>4 DEF CursorTyped, cuStores
<1>6. SpoolsInv'
  <2>1. ASSUME NEW i \in CUHooks
        PROVE  /\ cuHook'[i].pc # "idle" => cuHook'[i].ino # 0 /\ cuHook'[i].key \in CUGens
               /\ cuHook'[i].pc = "locked" =>
                    /\ cuHook'[i].ino = cuSpool'.ino /\ Len(cuSpool'.rows) < CUSpoolMax
                    /\ \A j \in CUHooks : cuHook'[j].pc = "locked" => j = i
    <3>1. CASE i = h
      BY <1>1, <1>4, <3>1
    <3>2. CASE i # h
      <4>1. cuHook[i].pc = "locked" => cuSpool.ino # 0
        BY <1>0 DEF SpoolsInv
      <4> QED BY <1>0, <1>1, <1>2, <1>4, <3>2, <4>1 DEF SpoolsInv
    <3> QED BY <3>1, <3>2
  <2> QED BY <1>0, <1>1, <1>2, <2>1 DEF SpoolsInv
<1>7. ReportsInv' /\ AckedInv' /\ OnceIn(cuHist.runs, cuHist.requests)' /\ PassInv' /\ UnlinkInv'
  BY <1>2, SameRows
<1> QED BY <1>5, <1>6, <1>7 DEF CursorInv

(* A hook opens the spool for its generation.                               *)
LEMMA StartHookKeeps ==
  ASSUME CursorInv, NEW h \in CUHooks, NEW g \in CUGens, HookStart(h, g)
  PROVE  CursorInv'
<1>0. [HookIdle EXCEPT !.key = g] \in HookStates /\ [HookIdle EXCEPT !.key = g].key = g
  BY DEF HookIdle, HookStates
<1>1. PICK hook \in HookStates : hook = [HookIdle EXCEPT !.key = g] /\ hook.key = g
  BY <1>0
<1>2. OpenSpool(h, hook)
  BY <1>1 DEF HookStart
<1> QED BY <1>1, <1>2, OpenKeeps DEF HookStart

(* A hook that goes idle disturbs nobody.                                   *)
LEMMA IdleKeeps ==
  ASSUME CursorInv, NEW h \in CUHooks, cuHook' = [cuHook EXCEPT ![h] = HookIdle], UNCHANGED cuSpool,
         UNCHANGED <<cuToday, cuMerging, cuStores, cuHist, cuWritten, cuPass, cuAcked, cuSettled>>
  PROVE  CursorInv'
<1>0. CursorTyped /\ SpoolsInv
  BY DEF CursorInv
<1>1. /\ cuHook' \in [CUHooks -> HookStates] /\ cuHook'[h].pc = "idle"
      /\ \A i \in CUHooks \ {h} : cuHook'[i] = cuHook[i]
  BY <1>0 DEF CursorTyped, HookStates, HookIdle
<1>2. CursorTyped'
  BY <1>0, <1>1 DEF CursorTyped, cuStores
<1>3. SpoolsInv'
  BY <1>0, <1>1 DEF SpoolsInv
<1> QED BY <1>2, <1>3, SameRows DEF CursorInv

(* Once locked, a hook looks at the path again: reopen, give up or hold.    *)
LEMMA LockKeeps ==
  ASSUME CursorInv, NEW h \in CUHooks, HookLock(h)
  PROVE  CursorInv'
<1>0. CursorTyped /\ SpoolsInv /\ cuHook[h] \in HookStates /\ cuHook[h].pc = "opened"
  BY DEF CursorInv, CursorTyped, HookLock
<1>1. CASE SpoolMoved(h) /\ cuHook[h].tries < CUAttempts
  <2>0. /\ [cuHook[h] EXCEPT !.tries = @ + 1] \in HookStates
        /\ [cuHook[h] EXCEPT !.tries = @ + 1].key = cuHook[h].key
    <3>1. cuHook[h].tries \in Nat /\ cuHook[h].tries + 1 \in Nat
      BY <1>0 DEF HookStates
    <3> QED BY <1>0, <3>1 DEF HookStates
  <2>1. PICK hook \in HookStates : hook = [cuHook[h] EXCEPT !.tries = @ + 1] /\ hook.key = cuHook[h].key
    BY <2>0
  <2>2. OpenSpool(h, hook) /\ hook.key \in CUGens
    BY <1>0, <1>1, <2>1 DEF HookLock, SpoolsInv
  <2> QED BY <2>1, <2>2, OpenKeeps DEF HookLock
<1>2. CASE cuHook' = [cuHook EXCEPT ![h] = HookIdle] /\ UNCHANGED cuSpool
  BY <1>2, IdleKeeps DEF HookLock
<1>3. CASE /\ ~SpoolMoved(h) /\ ~SpoolFull /\ UNCHANGED cuSpool
           /\ cuHook' = [cuHook EXCEPT ![h] = [cuHook[h] EXCEPT !.pc = "locked"]]
  <2>1. /\ cuHook' \in [CUHooks -> HookStates] /\ cuHook'[h].pc = "locked"
        /\ cuHook'[h].ino = cuHook[h].ino /\ cuHook'[h].key = cuHook[h].key
        /\ \A i \in CUHooks \ {h} : cuHook'[i] = cuHook[i]
    BY <1>0, <1>3 DEF CursorTyped, HookStates
  <2>2. CursorTyped'
    BY <1>0, <1>3, <2>1 DEF CursorTyped, cuStores, HookLock
  <2>3. cuHook[h].ino = cuSpool.ino /\ cuHook[h].ino # 0 /\ cuHook[h].key \in CUGens
    BY <1>0, <1>3 DEF SpoolMoved, SpoolsInv
  <2>4. \A i \in CUHooks : cuHook[i].pc # "locked"
    <3>1. \A i \in CUHooks : cuHook[i].pc = "locked" => cuHook[i].ino = cuHook[h].ino
      BY <1>0, <2>3 DEF SpoolsInv
    <3>2. Holder(cuHook[h].ino) = {}
      BY DEF HookLock
    <3> QED BY <3>1, <3>2 DEF Holder
  <2>5. Len(cuSpool.rows) < CUSpoolMax
    <3>1. Len(cuSpool.rows) \in Nat /\ CUSpoolMax \in Nat
      BY <1>0, CUSets DEF CursorTyped, SpoolFiles
    <3> QED BY <1>3, <3>1 DEF SpoolFull
  <2>6. SpoolsInv'
    <3>1. ASSUME NEW i \in CUHooks
          PROVE  /\ cuHook'[i].pc # "idle" => cuHook'[i].ino # 0 /\ cuHook'[i].key \in CUGens
                 /\ cuHook'[i].pc = "locked" =>
                      /\ cuHook'[i].ino = cuSpool'.ino /\ Len(cuSpool'.rows) < CUSpoolMax
                      /\ \A j \in CUHooks : cuHook'[j].pc = "locked" => j = i
      <4>1. CASE i = h
        BY <1>3, <2>1, <2>3, <2>4, <2>5, <4>1
      <4>2. CASE i # h
        BY <1>0, <2>1, <2>4, <4>2 DEF SpoolsInv
      <4> QED BY <4>1, <4>2
    <3> QED BY <1>0, <1>3, <3>1 DEF SpoolsInv, HookLock
  <2> QED BY <1>3, <2>2, <2>6, SameRows DEF CursorInv, HookLock
<1> QED BY <1>0, <1>1, <1>2, <1>3 DEF HookLock

(* A row, whole or torn, is added to the spool of who holds its lock.       *)
LEMMA WriteRowKeeps ==
  ASSUME CursorInv, NEW h \in CUHooks, cuHook[h].pc = "locked", NEW row \in QueuedRows,
         AppendTo(cuHook[h].ino, row), cuHook' = [cuHook EXCEPT ![h] = HookIdle],
         \/ UNCHANGED <<cuAcked, cuSettled>> /\ row.key \notin CUGens
         \/ /\ cuAcked' = [cuAcked EXCEPT ![row.key] = IF @ = CUNone THEN cuToday ELSE @]
            /\ cuSettled' = cuSettled \ {row.key} /\ row.key \in CUGens /\ row.day = cuToday,
         UNCHANGED <<cuToday, cuStores, cuHist, cuWritten, cuPass>>
  PROVE  CursorInv'
<1>0. CursorTyped /\ SpoolsInv /\ cuSpool.rows \in Seq(QueuedRows)
  BY DEF CursorInv, CursorTyped, SpoolFiles
<1>1. cuHook[h].ino = cuSpool.ino /\ cuSpool.ino # cuMerging.ino /\ Len(cuSpool.rows) < CUSpoolMax
  BY <1>0 DEF SpoolsInv
<1>2. cuSpool' = [cuSpool EXCEPT !.rows = Append(@, row)] /\ cuMerging' = cuMerging
  BY <1>1 DEF AppendTo
<1>3. /\ cuSpool'.ino = cuSpool.ino /\ cuSpool'.rows = Append(cuSpool.rows, row) /\ cuSpool' \in SpoolFiles
      /\ Len(cuSpool'.rows) = Len(cuSpool.rows) + 1
      /\ \A g : Completed(cuSpool'.rows, g) <=> Completed(cuSpool.rows, g) \/ row.key = g
  <2>1. cuSpool'.ino = cuSpool.ino /\ cuSpool'.rows = Append(cuSpool.rows, row) /\ cuSpool.ino \in Nat
    BY <1>0, <1>2 DEF CursorTyped, SpoolFiles
  <2>2. Append(cuSpool.rows, row) \in Seq(QueuedRows)
    BY <1>0, AppendCompletes
  <2>3. cuSpool' \in SpoolFiles
    BY <1>0, <1>2, <2>2 DEF CursorTyped, SpoolFiles
  <2> QED BY <1>0, <2>1, <2>3, AppendCompletes
<1>4. /\ cuHook' \in [CUHooks -> HookStates] /\ cuHook'[h].pc = "idle"
      /\ \A i \in CUHooks \ {h} : cuHook'[i] = cuHook[i]
  BY <1>0 DEF CursorTyped, HookStates, HookIdle
<1>a. /\ cuAcked' \in [CUGens -> 0..CULastDay \cup {CUNone}]
      /\ \A g \in CUGens : cuAcked[g] # CUNone => cuAcked'[g] = cuAcked[g]
      /\ \A g \in CUGens : g # row.key => cuAcked'[g] = cuAcked[g]
      /\ row.key \in CUGens => cuAcked'[row.key] # CUNone /\ cuAcked'[row.key] <= row.day
      /\ \A g \in CUGens : cuAcked'[g] # CUNone => cuAcked'[g] <= cuToday
  <2>1. \A g \in CUGens : cuAcked[g] # CUNone => cuAcked[g] <= cuToday
    BY DEF CursorInv, ReportsInv
  <2>2. cuToday \in 0..CULastDay /\ CULastDay \in Nat /\ CUNone \notin 0..CULastDay
    BY <1>0, CUSets DEF CursorTyped
  <2>3. cuAcked \in [CUGens -> 0..CULastDay \cup {CUNone}]
    BY <1>0 DEF CursorTyped
  <2>4. CASE UNCHANGED <<cuAcked, cuSettled>> /\ row.key \notin CUGens
    BY <2>1, <2>3, <2>4
  <2>5. CASE /\ cuAcked' = [cuAcked EXCEPT ![row.key] = IF @ = CUNone THEN cuToday ELSE @]
             /\ row.key \in CUGens /\ row.day = cuToday
    BY <2>1, <2>2, <2>3, <2>5
  <2> QED BY <2>4, <2>5
<1>b. \A g \in CUGens : /\ cuAcked[g] # CUNone /\ InRetention(g)' => InRetention(g)
                        /\ g # row.key /\ InRetention(g)' => InRetention(g)
  BY <1>a DEF InRetention, Expired
<1>c. ReportsInv /\ cuSettled \ {row.key} \subseteq cuSettled' /\ cuSettled' \subseteq CUGens
  BY <1>0 DEF CursorInv, CursorTyped
<1>d. ReportsInv'
  <2>1. RowsReported(cuSpool.rows)'
    <3>1. SUFFICES ASSUME NEW i \in 1..Len(cuSpool'.rows), cuSpool'.rows[i].key \in CUGens
                   PROVE  /\ cuAcked'[cuSpool'.rows[i].key] # CUNone
                          /\ cuAcked'[cuSpool'.rows[i].key] <= cuSpool'.rows[i].day
      BY DEF RowsReported, ReportedBy
    <3>2. CASE i = Len(cuSpool.rows) + 1
      <4>1. cuSpool'.rows[i] = row
        BY <1>0, <1>3, <3>2
      <4> QED BY <1>a, <3>1, <4>1
    <3>3. CASE i # Len(cuSpool.rows) + 1
      <4>1. i \in 1..Len(cuSpool.rows) /\ cuSpool'.rows[i] = cuSpool.rows[i]
        BY <1>0, <1>3, <3>1, <3>3
      <4> QED BY <1>a, <1>c, <3>1, <4>1 DEF ReportsInv, RowsReported, ReportedBy
    <3> QED BY <3>2, <3>3
  <2>2. RowsReported(cuMerging.rows)'
    BY <1>2, <1>a, <1>c DEF ReportsInv, RowsReported, ReportedBy
  <2>3. RunsReported(cuHist.runs)' /\ RunsReported(cuPass.runs)'
    BY <1>a, <1>c DEF ReportsInv, RunsReported, ReportedBy
  <2> QED BY <1>a, <1>c, <2>1, <2>2, <2>3 DEF ReportsInv
<1>5. CursorTyped'
  BY <1>0, <1>2, <1>3, <1>4, <1>a, <1>c DEF CursorTyped, cuStores
<1>6. SpoolsInv'
  <2>1. \A i \in CUHooks : cuHook'[i].pc # "locked"
    BY <1>0, <1>4 DEF SpoolsInv
  <2>2. Len(cuSpool'.rows) <= CUSpoolMax
    <3>1. Len(cuSpool.rows) \in Nat /\ CUSpoolMax \in Nat
      BY <1>0, CUSets
    <3> QED BY <1>1, <1>3, <3>1
  <2>3. cuSpool.ino # 0
    BY <1>0, <1>1 DEF SpoolsInv
  <2> QED BY <1>0, <1>2, <1>3, <1>4, <2>1, <2>2, <2>3 DEF SpoolsInv
<1>7. AckedInv'
  <2>1. SUFFICES ASSUME NEW g \in CUGens, InRetention(g)', g # row.key
                 PROVE  \/ Completed(cuSpool.rows, g) \/ Completed(cuMerging.rows, g)
                        \/ cuHist.runs[g] # CUNone \/ g \in cuSettled'
    BY <1>2, <1>3 DEF AckedInv
  <2> QED BY <1>b, <1>c, <2>1 DEF CursorInv, AckedInv
<1>8. OnceIn(cuHist.runs, cuHist.requests)'
  BY DEF CursorInv, OnceIn, Counted
<1>r. ASSUME NEW g \in CUGens, InRetention(g)',
             cuHist.runs[g] # CUNone \/ Completed(cuMerging.rows, g)
      PROVE  InRetention(g)
  <2>1. cuAcked[g] # CUNone
    BY <1>r, <1>c DEF ReportsInv, RunsReported, RowsReported, ReportedBy, Completed
  <2> QED BY <1>r, <1>b, <2>1
<1>9. PassInv'
  <2>1. ASSUME cuPass.pc \in {"fold", "scan", "learn", "write"}
        PROVE  /\ \A g \in CUGens : InRetention(g)' /\ cuHist.runs[g] # CUNone => cuPass.runs[g] # CUNone
               /\ cuPass.taken =>
                    \A g \in CUGens : InRetention(g)' /\ Completed(cuMerging.rows, g) =>
                      cuPass.runs[g] # CUNone \/ g \in cuPass.skipped
    BY <1>r, <2>1 DEF CursorInv, PassInv
  <2>2. UNCHANGED <<cuToday, cuHist, cuPass, cuMerging>>
    BY <1>2
  <2> QED BY <2>1, <2>2 DEF CursorInv, PassInv, OnceIn, Counted, Completed, Expired
<1>10. UnlinkInv'
  <2>1. SUFFICES ASSUME cuPass.pc = "unlink", NEW g \in CUGens, InRetention(g)', Completed(cuMerging.rows, g)
                 PROVE  cuHist.runs[g] # CUNone \/ g \in cuSettled' \/ Completed(cuSpool'.rows, g)
    BY <1>2 DEF UnlinkInv
  <2> QED BY <1>3, <1>c, <1>r, <2>1 DEF CursorInv, UnlinkInv
<1> QED BY <1>5, <1>6, <1>7, <1>8, <1>9, <1>10, <1>d DEF CursorInv

(* A whole row is acknowledged, a torn one names no generation.             *)
LEMMA HookWriteKeeps ==
  ASSUME CursorInv, NEW h \in CUHooks, HookWrite(h)
  PROVE  CursorInv'
<1>0. CursorTyped /\ cuHook[h].pc = "locked" /\ cuHook[h].key \in CUGens
  BY DEF CursorInv, SpoolsInv, HookWrite
<1>1. CASE /\ AppendTo(cuHook[h].ino, [key |-> cuHook[h].key, day |-> cuToday])
           /\ cuAcked' = [cuAcked EXCEPT ![cuHook[h].key] = IF @ = CUNone THEN cuToday ELSE @]
           /\ cuSettled' = cuSettled \ {cuHook[h].key}
  <2>0. [key |-> cuHook[h].key, day |-> cuToday] \in QueuedRows
    BY <1>0 DEF QueuedRows, CursorTyped
  <2>1. PICK row \in QueuedRows : row = [key |-> cuHook[h].key, day |-> cuToday]
                                 /\ row.key = cuHook[h].key /\ row.day = cuToday
    BY <2>0
  <2> QED BY <1>0, <1>1, <2>1, WriteRowKeeps DEF HookWrite
<1>2. CASE AppendTo(cuHook[h].ino, Torn) /\ UNCHANGED <<cuAcked, cuSettled>>
  <2>1. Torn \in QueuedRows /\ Torn.key \notin CUGens
    BY CUSets DEF QueuedRows, Torn, Keys
  <2> QED BY <1>0, <1>2, <2>1, WriteRowKeeps DEF HookWrite
<1> QED BY <1>1, <1>2 DEF HookWrite

(* ------------------------- the stores and the clock -------------------- *)

(* Conductor changes its stores, or they disappear.                         *)
LEMMA StoresKeep ==
  ASSUME CursorInv, StoreEdit \/ StoreGone
  PROVE  CursorInv'
<1>0. CursorTyped /\ SpoolsInv /\ UNCHANGED <<cuToday, cuSpool, cuMerging, cuHook, cuHist, cuWritten, cuPass, cuAcked, cuSettled>>
  BY DEF CursorInv, StoreEdit, StoreGone
<1>1. cuJson' \in StoreRows /\ cuDb' \in StoreRows
  <2>1. CASE UNCHANGED <<cuJson, cuDb>>
    BY <1>0, <2>1 DEF CursorTyped
  <2>2. ASSUME NEW d \in 1..CUDirs, NEW c \in CURuns,
               NEW row \in {Pending, CUNone, Entry(cuToday, 1), Entry(cuToday, 2)},
               \/ cuJson' = [cuJson EXCEPT ![d][c] = row] /\ UNCHANGED cuDb
               \/ cuDb' = [cuDb EXCEPT ![d][c] = row] /\ UNCHANGED cuJson
        PROVE  cuJson' \in StoreRows /\ cuDb' \in StoreRows
    <3>1. row \in Rows
      <4>1. CUNone \in Rows /\ Pending \in Rows
        BY DEF Rows
      <4>2. Entry(cuToday, 1) \in Entries /\ Entry(cuToday, 2) \in Entries
        BY <1>0 DEF CursorTyped, Entries, Entry
      <4> QED BY <4>1, <4>2 DEF Rows
    <3> QED BY <1>0, <2>2, <3>1 DEF CursorTyped, StoreRows
  <2> QED BY <2>1, <2>2 DEF StoreEdit, StoreGone
<1>2. CursorTyped'
  BY <1>0, <1>1 DEF CursorTyped
<1>3. SpoolsInv'
  BY <1>0 DEF SpoolsInv
<1> QED BY <1>0, <1>2, <1>3, SameRows DEF CursorInv

(* A day passes only between the passes, and may put days out of retention. *)
LEMMA NextDayKeeps ==
  ASSUME CursorInv, NextDay
  PROVE  CursorInv'
<1>0. CursorTyped /\ cuToday \in Nat /\ cuToday < CULastDay /\ cuToday' = cuToday + 1 /\ CULastDay \in Nat
      /\ UNCHANGED <<cuSpool, cuMerging, cuHook, cuStores, cuHist, cuWritten, cuPass, cuAcked, cuSettled>>
      /\ cuPass.pc = "idle"
  BY CUSets DEF CursorInv, NextDay, CursorTyped
<1>1. cuToday' \in 0..CULastDay
  BY <1>0
<1>2. CursorTyped'
  BY <1>0, <1>1 DEF CursorTyped, cuStores
<1>3. SpoolsInv'
  BY <1>0 DEF CursorInv, SpoolsInv
<1>4. ReportsInv'
  <2>1. \A g \in CUGens : cuAcked[g] # CUNone => cuAcked[g] <= cuToday + 1
    <3>1. ASSUME NEW g \in CUGens, cuAcked[g] # CUNone PROVE cuAcked[g] <= cuToday + 1
      <4>1. cuAcked[g] \in 0..CULastDay /\ cuAcked[g] <= cuToday
        BY <1>0, <3>1 DEF CursorInv, ReportsInv, CursorTyped
      <4> QED BY <1>0, <4>1
    <3> QED BY <3>1
  <2> QED BY <1>0, <2>1 DEF CursorInv, ReportsInv, RowsReported, RunsReported, ReportedBy
<1>5. \A g \in CUGens : InRetention(g)' => InRetention(g)
  <2>1. ASSUME NEW g \in CUGens, cuAcked[g] # CUNone PROVE Expired(cuAcked[g]) => Expired(cuAcked[g])'
    <3>1. cuAcked[g] \in Nat /\ CURetention \in Nat
      BY <1>0, <2>1, CUSets DEF CursorTyped
    <3> QED BY <1>0, <3>1 DEF Expired
  <2> QED BY <1>0, <2>1 DEF InRetention
<1>6. AckedInv'
  BY <1>0, <1>5 DEF CursorInv, AckedInv, Completed
<1>7. OnceIn(cuHist.runs, cuHist.requests)' /\ PassInv' /\ UnlinkInv'
  BY <1>0 DEF CursorInv, OnceIn, Counted, PassInv, UnlinkInv
<1> QED BY <1>2, <1>3, <1>4, <1>6, <1>7 DEF CursorInv

(* -------------------------------- the reader --------------------------- *)

(* Entries, requests and rows are what the tables hold.                     *)
LEMMA EntryIs ==
  /\ \A day \in 0..CULastDay : Entry(day, 2) \in Entries
  /\ \A e \in Entries : e # CUNone
  /\ \A c \in CURuns : c # CUNone /\ c \in Keys /\ c \notin CUGens /\ CURequest[c] \in CUGens
  /\ \A g \in CUGens : g # CUNone /\ g \in Keys
<1>1. \A day \in 0..CULastDay : Entry(day, 2) \in Entries
  BY DEF Entry, Entries
<1> QED BY <1>1, CUSets DEF Keys

(* What is no older than a day in retention has not expired.                *)
LEMMA NothingExpires ==
  ASSUME CursorTyped, NEW g \in CUGens, InRetention(g), NEW day \in 0..CULastDay, ReportedBy(g, day)
  PROVE  ~Expired(day)
<1>1. cuAcked[g] \in Nat /\ CURetention \in Nat /\ cuToday \in Nat
  BY CUSets DEF CursorTyped, InRetention
<1> QED BY <1>1 DEF InRetention, ReportedBy, Expired

(* A pass that moves on keeps what it is going to write.                    *)
LEMMA PassMoves ==
  ASSUME CursorInv, cuPass.pc \in {"fold", "scan"}, cuPass' \in Passes, cuPass'.pc \in {"scan", "learn", "write"},
         cuPass'.runs = cuPass.runs, cuPass'.requests = cuPass.requests, cuPass'.retained = cuPass.retained,
         cuPass'.taken = cuPass.taken, cuPass'.skipped = cuPass.skipped,
         \A g \in CUGens : cuPass'.learned[g] = cuPass.learned[g],
         UNCHANGED <<cuToday, cuSpool, cuMerging, cuHook, cuStores, cuHist, cuWritten, cuAcked, cuSettled>>
  PROVE  CursorInv'
<1>1. CursorTyped'
  BY DEF CursorInv, CursorTyped, cuStores
<1>2. SpoolsInv'
  BY DEF CursorInv, SpoolsInv
<1>3. AckedInv' /\ OnceIn(cuHist.runs, cuHist.requests)'
  BY DEF CursorInv, AckedInv, OnceIn, Counted, Completed, InRetention, Expired
<1>6. ReportsInv'
  BY DEF CursorInv, ReportsInv, RowsReported, RunsReported, ReportedBy
<1>4. PassInv'
  BY DEF CursorInv, PassInv, OnceIn, Counted, Completed, InRetention, Expired
<1>5. UnlinkInv'
  BY DEF UnlinkInv
<1> QED BY <1>1, <1>2, <1>3, <1>4, <1>5, <1>6 DEF CursorInv

(* A pass without a store.                                                  *)
LEMMA RootKeeps ==
  ASSUME CursorInv, RootGone
  PROVE  CursorInv'
<1>1. cuPass \in Passes /\ cuHist.reason \in Reasons /\ cuPass.pc = "scan"
  BY DEF CursorInv, CursorTyped, RootGone, Histories
<1>2. PICK r \in Reasons : cuPass' = [cuPass EXCEPT !.reason = r, !.pc = IF r = "none" THEN "write" ELSE "learn"]
  BY <1>1 DEF RootGone, Reasons
<1>3. PICK pc \in {"write", "learn"} : cuPass' = [cuPass EXCEPT !.reason = r, !.pc = pc]
  BY <1>2
<1>4. /\ cuPass' \in Passes /\ cuPass'.pc = pc
      /\ cuPass'.runs = cuPass.runs /\ cuPass'.requests = cuPass.requests /\ cuPass'.retained = cuPass.retained
      /\ cuPass'.taken = cuPass.taken /\ cuPass'.skipped = cuPass.skipped /\ cuPass'.learned = cuPass.learned
  BY <1>1, <1>3 DEF Passes
<1> QED BY <1>1, <1>4, PassMoves DEF RootGone

(* A pass that stops at a directory.                                        *)
LEMMA StopKeeps ==
  ASSUME CursorInv, StopScan
  PROVE  CursorInv'
<1>1. cuPass \in Passes /\ cuPass.pc = "scan"
  BY DEF CursorInv, CursorTyped, StopScan
<1>2. PICK r \in Reasons, pc \in {"learn", "write"} :
             cuPass' = [cuPass EXCEPT !.reason = r, !.pc = pc]
  BY DEF StopScan, Reasons
<1>3. /\ cuPass' \in Passes /\ cuPass'.pc \in {"learn", "write"}
      /\ cuPass'.runs = cuPass.runs /\ cuPass'.requests = cuPass.requests /\ cuPass'.retained = cuPass.retained
      /\ cuPass'.taken = cuPass.taken /\ cuPass'.skipped = cuPass.skipped /\ cuPass'.learned = cuPass.learned
  BY <1>1, <1>2 DEF Passes
<1> QED BY <1>1, <1>3, PassMoves DEF StopScan

(* What a directory shows is a table of rows of the runs.                   *)
LEMMA StagedIs ==
  ASSUME CursorTyped, NEW d \in 1..CUDirs, NEW c \in CURuns
  PROVE  Staged(d)[c] \in Rows /\ (Rank(Staged(d)[c]) # 0 => Staged(d)[c] \in Entries)
<1>1. cuJson[d][c] \in Rows /\ cuDb[d][c] \in Rows
  BY DEF CursorTyped, StoreRows
<1>2. Staged(d)[c] \in Rows
  BY <1>1 DEF Staged
<1>3. Rank(Pending) = 0
  BY DEF Rank, Pending, Entry
<1>4. Rank(CUNone) = 0
  BY DEF Rank
<1> QED BY <1>2, <1>3, <1>4 DEF Rows

(* A pass that reads a directory, or finds two of them at odds.             *)
LEMMA ReadKeeps ==
  ASSUME CursorInv, ReadDirectory
  PROVE  CursorInv'
<1>1. cuPass \in Passes /\ cuPass.pc = "scan" /\ CursorTyped
  BY DEF CursorInv, CursorTyped, ReadDirectory
<1>2. CASE cuPass' = [cuPass EXCEPT !.reason = "malformed", !.pc = "write"]
  <2>1. /\ cuPass' \in Passes /\ cuPass'.pc = "write"
        /\ cuPass'.runs = cuPass.runs /\ cuPass'.requests = cuPass.requests /\ cuPass'.retained = cuPass.retained
        /\ cuPass'.taken = cuPass.taken /\ cuPass'.skipped = cuPass.skipped /\ cuPass'.learned = cuPass.learned
    BY <1>1, <1>2 DEF Passes, Reasons
  <2> QED BY <1>1, <2>1, PassMoves DEF ReadDirectory
<1>3. CASE ~(Clash(cuPass, cuPass.dir) \/ AliasClash(cuPass, Named(cuPass.dir)))
  <2>1. PICK d \in 1..CUDirs : d = cuPass.dir /\ d + 1 \in Nat \ {0}
    <3>1. cuPass.dir \in Nat \ {0} /\ cuPass.dir <= CUDirs /\ CUDirs \in Nat
      BY <1>1, CUSets DEF Passes, ReadDirectory
    <3> QED BY <3>1
  <2>2. PICK staged \in SUBSET CURuns : staged = {c \in CURuns : Staged(d)[c] # CUNone}
    OBVIOUS
  <2>3. PICK seen : seen = [k \in Keys |-> IF k \in staged THEN Staged(d)[k] ELSE cuPass.seen[k]]
    OBVIOUS
  <2>4. PICK learned : learned = [k \in Keys |->
              IF k \notin staged THEN cuPass.learned[k]
              ELSE IF Rank(Staged(d)[k]) = 0 \/ Expired(Staged(d)[k].day) THEN CUNone
              ELSE Staged(d)[k]]
    OBVIOUS
  <2>5. cuPass' = [cuPass EXCEPT !.dir = d + 1, !.seen = seen, !.sqlite = @ \cup SqliteOf(d),
                     !.named = @ \cup Named(d), !.removed = @ \cup RetractedBy(d), !.learned = learned]
    BY <1>3, <2>1, <2>2, <2>3, <2>4 DEF ReadDirectory
  <2>6. seen \in [Keys -> Rows]
    <3>1. cuPass.seen \in [Keys -> Rows]
      BY <1>1 DEF Passes
    <3> QED BY <1>1, <2>3, <3>1, StagedIs
  <2>7. learned \in RunTables
    <3>1. cuPass.learned \in RunTables
      BY <1>1 DEF Passes
    <3> QED BY <1>1, <2>2, <2>4, <3>1, StagedIs DEF RunTables
  <2>8. SqliteOf(d) \subseteq CURuns /\ Named(d) \subseteq CURuns /\ RetractedBy(d) \subseteq CURuns
    BY DEF SqliteOf, Named, RetractedBy
  <2>9. /\ cuPass' \in Passes /\ cuPass'.pc = "scan"
        /\ cuPass'.runs = cuPass.runs /\ cuPass'.requests = cuPass.requests /\ cuPass'.retained = cuPass.retained
        /\ cuPass'.taken = cuPass.taken /\ cuPass'.skipped = cuPass.skipped /\ cuPass'.learned = learned
    BY <1>1, <2>1, <2>5, <2>6, <2>7, <2>8 DEF Passes
  <2>10. \A g \in CUGens : learned[g] = cuPass.learned[g]
    BY <2>2, <2>4, EntryIs
  <2> QED BY <1>1, <2>9, <2>10, PassMoves DEF ReadDirectory
<1> QED BY <1>2, <1>3 DEF ReadDirectory

(* A pass that ends without a write leaves the history as it was.           *)
LEMMA DiesKeeps ==
  ASSUME CursorInv, PassDies
  PROVE  CursorInv'
<1>1. CursorTyped'
  BY NoPassIs DEF CursorInv, CursorTyped, cuStores, PassDies
<1>2. SpoolsInv'
  BY DEF CursorInv, SpoolsInv, PassDies
<1>3. ReportsInv'
  BY NoPassIs DEF CursorInv, ReportsInv, RowsReported, RunsReported, ReportedBy, PassDies
<1>4. AckedInv' /\ OnceIn(cuHist.runs, cuHist.requests)'
  BY DEF CursorInv, AckedInv, OnceIn, Counted, Completed, InRetention, Expired, PassDies
<1>5. PassInv' /\ UnlinkInv'
  BY NoPassIs DEF PassInv, UnlinkInv, PassDies
<1> QED BY <1>1, <1>2, <1>3, <1>4, <1>5 DEF CursorInv

(* What is pruned of a history is what has expired.                         *)
LEMMA PruneIs ==
  ASSUME CursorTyped, NEW runs \in RunTables
  PROVE  /\ Prune(runs) \in RunTables
         /\ \A k \in Keys : Prune(runs)[k] # CUNone => Prune(runs)[k] = runs[k]
         /\ \A k \in Keys : runs[k] # CUNone /\ ~Expired(runs[k].day) => Prune(runs)[k] = runs[k]
<1>1. \A k \in Keys : Prune(runs)[k] = IF runs[k] # CUNone /\ ~Expired(runs[k].day) THEN runs[k] ELSE CUNone
  BY DEF Prune
<1>2. Prune(runs) \in RunTables
  BY DEF Prune, RunTables
<1> QED BY <1>1, <1>2

(* A pass prunes the history and takes the spool, if nobody holds it.       *)
LEMMA SpoolTakeKeeps ==
  ASSUME CursorInv, TakeSpool
  PROVE  CursorInv'
<1>0. CursorTyped /\ SpoolsInv /\ cuHist \in Histories /\ cuHist.runs \in RunTables
  BY DEF CursorInv, CursorTyped, Histories
<1>1. PICK retained \in SUBSET CURuns : retained = {c \in cuHist.retained : cuHist.runs[c] # CUNone}
  BY <1>0 DEF Histories
<1>2. PICK runs \in RunTables : runs = Prune(cuHist.runs)
  BY <1>0, PruneIs
<1>3. cuPass' = [NoPass EXCEPT !.pc = "fold", !.runs = runs, !.requests = cuHist.requests, !.once = cuHist.once,
                   !.retained = retained]
  BY <1>1, <1>2 DEF TakeSpool
<1>5. /\ cuPass' \in Passes /\ cuPass'.pc = "fold" /\ cuPass'.runs = runs /\ cuPass'.requests = cuHist.requests
      /\ cuPass'.retained = retained /\ cuPass'.taken = FALSE /\ cuPass'.learned = NoPass.learned
  BY <1>0, <1>3, NoPassIs DEF Passes, Histories
<1>u. UNCHANGED <<cuToday, cuHist, cuAcked, cuSettled>>
  BY DEF TakeSpool
<1>6. ASSUME UNCHANGED <<cuMerging, cuSpool>>
      PROVE  CursorTyped' /\ SpoolsInv' /\ AckedInv'
  <2>1. CursorTyped'
    BY <1>0, <1>5, <1>6 DEF CursorTyped, cuStores, TakeSpool
  <2>2. SpoolsInv'
    BY <1>0, <1>6 DEF SpoolsInv, TakeSpool
  <2>3. AckedInv'
    BY <1>6, <1>u DEF CursorInv, AckedInv, Completed, InRetention, Expired
  <2> QED BY <2>1, <2>2, <2>3
<1>7. ASSUME cuMerging.ino = 0, cuSpool.ino # 0, Holder(cuSpool.ino) = {}, cuMerging' = cuSpool, cuSpool' = NoFile
      PROVE  CursorTyped' /\ SpoolsInv' /\ AckedInv'
  <2>1. NoFile \in SpoolFiles /\ NoFile.ino = 0 /\ NoFile.rows = <<>>
    BY DEF NoFile, SpoolFiles
  <2>2. CursorTyped'
    BY <1>0, <1>5, <1>7, <2>1 DEF CursorTyped, cuStores, TakeSpool
  <2>3. \A h \in CUHooks : cuHook[h].pc # "locked"
    BY <1>0, <1>7 DEF SpoolsInv, Holder
  <2>4. SpoolsInv'
    <3>1. Len(<<>>) <= CUSpoolMax
      BY CUSets
    <3> QED BY <1>0, <1>7, <2>1, <2>3, <3>1 DEF SpoolsInv, TakeSpool
  <2>5. AckedInv'
    <3>1. \A g : ~Completed(cuMerging.rows, g)
      BY <1>0, <1>7, NothingCompleted DEF SpoolsInv
    <3> QED BY <1>7, <1>u, <3>1 DEF CursorInv, AckedInv, InRetention, Expired
  <2> QED BY <2>2, <2>4, <2>5
<1>8. CursorTyped' /\ SpoolsInv' /\ AckedInv'
  <2>1. \/ UNCHANGED <<cuMerging, cuSpool>>
        \/ cuMerging.ino = 0 /\ cuSpool.ino # 0 /\ Holder(cuSpool.ino) = {} /\ cuMerging' = cuSpool /\ cuSpool' = NoFile
    BY DEF TakeSpool
  <2> QED BY <1>6, <1>7, <2>1
<1>9. OnceIn(cuHist.runs, cuHist.requests)' /\ UnlinkInv'
  BY <1>5 DEF CursorInv, OnceIn, Counted, UnlinkInv, TakeSpool
<1>10. PassInv'
  <2>1. ASSUME NEW g \in CUGens, InRetention(g), cuHist.runs[g] # CUNone PROVE runs[g] # CUNone
    <3>1. cuHist.runs[g] \in Entries
      BY <1>0, <2>1, EntryIs DEF RunTables
    <3>2. cuHist.runs[g].day \in 0..CULastDay /\ ReportedBy(g, cuHist.runs[g].day)
      BY <2>1, <3>1 DEF CursorInv, ReportsInv, RunsReported, Entries
    <3>3. ~Expired(cuHist.runs[g].day)
      BY <1>0, <2>1, <3>2, NothingExpires
    <3> QED BY <1>0, <1>2, <2>1, <3>3, PruneIs, EntryIs
  <2>2. OnceIn(runs, cuHist.requests)
    BY <1>0, <1>2, PruneIs, EntryIs DEF CursorInv, OnceIn, Counted
  <2>3. \A c \in cuHist.retained : Counted(cuHist.runs, c) /\ ~Expired(cuHist.runs[c].day) =>
           c \in retained /\ runs[c] = cuHist.runs[c]
    BY <1>0, <1>1, <1>2, PruneIs, EntryIs DEF Counted, Histories
  <2>4. UNCHANGED <<cuHist, cuToday, cuAcked>>
    BY DEF TakeSpool
  <2> QED BY <1>5, <2>1, <2>2, <2>3, <2>4 DEF PassInv, OnceIn, Counted, InRetention, Expired
<1>11. ReportsInv'
  <2>1. RunsReported(runs)
    BY <1>0, <1>2, PruneIs, EntryIs DEF CursorInv, ReportsInv, RunsReported
  <2>2. RowsReported(<<>>)
    BY DEF RowsReported
  <2>3. RowsReported(cuSpool'.rows) /\ RowsReported(cuMerging'.rows)
    <3>1. RowsReported(cuSpool.rows) /\ RowsReported(cuMerging.rows) /\ NoFile.rows = <<>>
      BY DEF CursorInv, ReportsInv, NoFile
    <3>2. \/ UNCHANGED <<cuMerging, cuSpool>>
          \/ cuMerging' = cuSpool /\ cuSpool' = NoFile
      BY DEF TakeSpool
    <3> QED BY <2>2, <3>1, <3>2
  <2> QED BY <1>5, <1>u, <2>1, <2>3, NoPassIs DEF CursorInv, ReportsInv, RowsReported, RunsReported, ReportedBy
<1> QED BY <1>8, <1>9, <1>10, <1>11 DEF CursorInv

(* What folding a batch makes of one generation.                            *)
LEMMA FoldRowsIs ==
  ASSUME CursorTyped, NEW p \in Passes, NEW rows \in Seq(QueuedRows), NEW g \in CUGens,
         RowsReported(rows), RunsReported(p.runs)
  PROVE  /\ FoldRows(p, rows, g) \in Entries \cup {CUNone}
         /\ FoldRows(p, rows, g) # CUNone => ReportedBy(g, FoldRows(p, rows, g).day)
         /\ p.runs[g] # CUNone => FoldRows(p, rows, g) # CUNone
         /\ Superseded(p, g) => FoldRows(p, rows, g) = p.runs[g]
         /\ Completed(rows, g) /\ InRetention(g) /\ ~Superseded(p, g) => FoldRows(p, rows, g) # CUNone
<1>1. g \in Keys /\ p.runs[g] \in Entries \cup {CUNone}
  BY EntryIs DEF Passes, RunTables
<1>2. CASE Superseded(p, g) \/ InTime(rows, g) = {}
  <2>1. FoldRows(p, rows, g) = p.runs[g]
    BY <1>2 DEF FoldRows
  <2>2. Completed(rows, g) /\ InRetention(g) => InTime(rows, g) # {}
    <3>1. SUFFICES ASSUME InRetention(g), NEW i \in 1..Len(rows), rows[i].key = g PROVE i \in InTime(rows, g)
      BY DEF Completed
    <3>3. ReportedBy(g, rows[i].day)
      BY <3>1 DEF RowsReported
    <3>2. rows[i].day \in 0..CULastDay
      <4>1. rows[i] \in QueuedRows
        OBVIOUS
      <4> QED BY <4>1 DEF QueuedRows
    <3> QED BY <3>1, <3>2, <3>3, NothingExpires DEF InTime
  <2> QED BY <1>1, <1>2, <2>1, <2>2 DEF RunsReported
<1>3. CASE ~Superseded(p, g) /\ InTime(rows, g) # {}
  <2>1. PICK i : i = Min(InTime(rows, g))
    OBVIOUS
  <2>2. i \in 1..Len(rows) /\ rows[i].key = g
    <3>1. InTime(rows, g) \subseteq 1..Len(rows) /\ InTime(rows, g) \subseteq Nat
      BY DEF InTime
    <3>2. i \in InTime(rows, g)
      BY <1>3, <2>1, <3>1, MinIsMember
    <3> QED BY <3>2 DEF InTime
  <2>3. rows[i].day \in 0..CULastDay
    <3>1. rows[i] \in QueuedRows
      BY <2>2
    <3> QED BY <3>1 DEF QueuedRows
  <2>4. PICK day \in 0..CULastDay : day = IF p.runs[g] # CUNone THEN p.runs[g].day ELSE rows[i].day
    BY <1>1, <2>3 DEF Entries
  <2>5. FoldRows(p, rows, g) = Entry(day, 2)
    BY <1>3, <2>1, <2>4 DEF FoldRows
  <2>6. ReportedBy(g, day)
    BY <2>2, <2>4 DEF RunsReported, RowsReported
  <2>7. FoldRows(p, rows, g).day = day
    BY <2>5 DEF Entry
  <2> QED BY <1>3, <2>5, <2>6, <2>7, EntryIs
<1> QED BY <1>2, <1>3

(* What the spool completes is counted, or known to be superseded.         *)
LEMMA BatchFoldKeeps ==
  ASSUME CursorInv, NEW valid \in BOOLEAN, valid <=> \E g \in CUGens : Completed(cuMerging.rows, g),
         cuPass.pc = "fold", NEW once \in BOOLEAN,
         cuPass' = [Fold(cuPass, cuMerging.rows) EXCEPT !.taken = valid, !.pc = "scan", !.once = once],
         cuMerging' = IF valid THEN cuMerging ELSE NoFile,
         UNCHANGED <<cuToday, cuSpool, cuHook, cuStores, cuHist, cuWritten, cuAcked, cuSettled>>
  PROVE  CursorInv'
<1>0. /\ CursorTyped /\ SpoolsInv /\ cuPass \in Passes /\ cuMerging.rows \in Seq(QueuedRows)
      /\ RowsReported(cuMerging.rows) /\ RunsReported(cuPass.runs)
  BY DEF CursorInv, CursorTyped, SpoolFiles, ReportsInv
<1>1. PICK runs : runs = [k \in Keys |-> IF k \in CUGens THEN FoldRows(cuPass, cuMerging.rows, k) ELSE cuPass.runs[k]]
  OBVIOUS
<1>2. PICK skipped \in SUBSET CUGens :
        skipped = cuPass.skipped \cup {g \in CUGens : Superseded(cuPass, g) /\ Completed(cuMerging.rows, g)}
  BY <1>0 DEF Passes
<1>3. runs \in RunTables /\ cuPass.runs \in RunTables
  <2>1. cuPass.runs \in RunTables
    BY <1>0 DEF Passes
  <2>2. \A k \in CUGens : FoldRows(cuPass, cuMerging.rows, k) \in Entries \cup {CUNone}
    BY <1>0, FoldRowsIs
  <2> QED BY <1>1, <2>1, <2>2 DEF RunTables
<1>4. Fold(cuPass, cuMerging.rows) = [cuPass EXCEPT !.skipped = skipped, !.runs = runs]
  BY <1>1, <1>2 DEF Fold
<1>5. /\ cuPass' \in Passes /\ cuPass'.pc = "scan" /\ cuPass'.runs = runs /\ cuPass'.requests = cuPass.requests
      /\ cuPass'.retained = cuPass.retained /\ cuPass'.taken = valid /\ cuPass'.skipped = skipped
      /\ cuPass'.learned = cuPass.learned
  BY <1>0, <1>3, <1>4 DEF Passes
<1>6. /\ cuMerging' \in SpoolFiles
      /\ \A g \in CUGens : Completed(cuMerging'.rows, g) <=> Completed(cuMerging.rows, g)
      /\ cuMerging'.ino \in {0, cuMerging.ino} /\ Len(cuMerging'.rows) <= CUSpoolMax
      /\ cuMerging'.ino = 0 => cuMerging'.rows = <<>>
  <2>1. NoFile \in SpoolFiles /\ NoFile.ino = 0 /\ NoFile.rows = <<>> /\ Len(<<>>) <= CUSpoolMax
    BY CUSets DEF NoFile, SpoolFiles
  <2>2. CASE valid
    BY <1>0, <2>2 DEF CursorTyped, SpoolsInv
  <2>3. CASE ~valid
    <3>1. cuMerging' = NoFile /\ cuMerging'.rows = <<>>
      BY <2>1, <2>3
    <3>2. \A g \in CUGens : ~Completed(cuMerging'.rows, g)
      BY <3>1, NothingCompleted
    <3> QED BY <2>1, <2>3, <3>1, <3>2
  <2> QED BY <2>2, <2>3
<1>7. CursorTyped'
  BY <1>0, <1>5, <1>6 DEF CursorTyped, cuStores
<1>8. SpoolsInv'
  BY <1>0, <1>6 DEF SpoolsInv
<1>9. AckedInv'
  BY <1>0, <1>6 DEF CursorInv, CursorTyped, AckedInv, InRetention, Expired
<1>10. OnceIn(cuHist.runs, cuHist.requests)' /\ UnlinkInv'
  BY <1>5 DEF CursorInv, OnceIn, Counted, UnlinkInv
<1>11. PassInv'
  <2>0. PassInv /\ cuPass.pc \in {"fold", "scan", "learn", "write"}
    BY DEF CursorInv
  <2>1. \A g \in CUGens : InRetention(g) /\ cuHist.runs[g] # CUNone => runs[g] # CUNone
    <3>1. ASSUME NEW g \in CUGens, cuPass.runs[g] # CUNone PROVE runs[g] # CUNone
      BY <1>0, <1>1, <3>1, FoldRowsIs, EntryIs
    <3> QED BY <2>0, <3>1 DEF PassInv
  <2>2. \A c \in CURuns : runs[c] = cuPass.runs[c]
    BY <1>1, EntryIs
  <2>3. OnceIn(runs, cuPass.requests)
    <3>1. SUFFICES ASSUME NEW c \in CURuns, Counted(runs, c), cuPass.requests[CURequest[c]] = c
                   PROVE  runs[CURequest[c]] = CUNone
      BY DEF OnceIn
    <3>2. PICK g \in CUGens : g = CURequest[c]
      BY EntryIs
    <3>3. Counted(cuPass.runs, c)
      BY <2>2, <3>1 DEF Counted
    <3>4. cuPass.runs[g] = CUNone
      BY <2>0, <3>1, <3>2, <3>3 DEF PassInv, OnceIn
    <3>5. Superseded(cuPass, g)
      BY <3>1, <3>2, <3>3, EntryIs DEF Superseded
    <3>6. runs[g] = FoldRows(cuPass, cuMerging.rows, g)
      BY <1>1, EntryIs
    <3> QED BY <1>0, <3>2, <3>4, <3>5, <3>6, FoldRowsIs
  <2>4. \A c \in cuHist.retained : Counted(cuHist.runs, c) /\ ~Expired(cuHist.runs[c].day) =>
           c \in cuPass.retained /\ runs[c] = cuHist.runs[c]
    <3>1. cuHist.retained \subseteq CURuns
      BY <1>0 DEF CursorTyped, Histories
    <3> QED BY <2>0, <2>2, <3>1 DEF PassInv
  <2>5. \A g \in CUGens : InRetention(g) /\ Completed(cuMerging.rows, g) => runs[g] # CUNone \/ g \in skipped
    <3>1. SUFFICES ASSUME NEW g \in CUGens, InRetention(g), Completed(cuMerging.rows, g), g \notin skipped
                   PROVE  runs[g] # CUNone
      OBVIOUS
    <3>2. ~Superseded(cuPass, g)
      BY <1>2, <3>1
    <3>3. runs[g] = FoldRows(cuPass, cuMerging.rows, g)
      BY <1>1, EntryIs
    <3> QED BY <1>0, <3>1, <3>2, <3>3, FoldRowsIs
  <2> QED BY <1>5, <1>6, <2>1, <2>3, <2>4, <2>5 DEF PassInv, OnceIn, Counted, InRetention, Expired
<1>12. ReportsInv'
  <2>1. RunsReported(runs)
    <3>1. \A g \in CUGens : runs[g] = FoldRows(cuPass, cuMerging.rows, g)
      BY <1>1, EntryIs
    <3> QED BY <1>0, <3>1, FoldRowsIs DEF RunsReported
  <2>2. RowsReported(cuMerging'.rows)
    <3>1. NoFile.rows = <<>> /\ RowsReported(<<>>)
      BY DEF NoFile, RowsReported
    <3> QED BY <1>0, <3>1
  <2> QED BY <1>5, <2>1, <2>2 DEF CursorInv, ReportsInv, RowsReported, RunsReported, ReportedBy
<1> QED BY <1>7, <1>8, <1>9, <1>10, <1>11, <1>12 DEF CursorInv

(* A batch is folded, or cannot be read and stays.                          *)
LEMMA FoldKeeps ==
  ASSUME CursorInv, FoldSpool
  PROVE  CursorInv'
<1>1. PICK valid \in BOOLEAN : valid <=> \E g \in CUGens : Completed(cuMerging.rows, g)
  OBVIOUS
<1>2. valid = \E g \in CUGens : Completed(cuMerging.rows, g)
  BY <1>1
<1>3. cuPass.pc = "fold" /\ cuPass \in Passes
  BY DEF CursorInv, CursorTyped, FoldSpool
<1>4. CASE /\ cuPass' = [Fold(cuPass, cuMerging.rows) EXCEPT
                 !.taken = valid, !.pc = "scan",
                 !.once = cuPass.once \/ (valid /\ cuHist.reason \notin Blockers)]
           /\ cuMerging' = IF valid THEN cuMerging ELSE NoFile
  <2>1. PICK once \in BOOLEAN : once = (cuPass.once \/ (valid /\ cuHist.reason \notin Blockers))
    OBVIOUS
  <2> QED BY <1>1, <1>3, <1>4, <2>1, BatchFoldKeeps DEF FoldSpool
<1>5. CASE /\ \E r \in {"transient", "unsupported"} : cuPass' = [cuPass EXCEPT !.reason = r, !.pc = "learn"]
           /\ UNCHANGED cuMerging
  <2>1. PICK r \in Reasons : cuPass' = [cuPass EXCEPT !.reason = r, !.pc = "learn"]
    BY <1>5 DEF Reasons
  <2>2. /\ cuPass' \in Passes /\ cuPass'.pc = "learn"
        /\ cuPass'.runs = cuPass.runs /\ cuPass'.requests = cuPass.requests /\ cuPass'.retained = cuPass.retained
        /\ cuPass'.taken = cuPass.taken /\ cuPass'.skipped = cuPass.skipped /\ cuPass'.learned = cuPass.learned
    BY <1>3, <2>1 DEF Passes
  <2> QED BY <1>3, <1>5, <2>2, PassMoves DEF FoldSpool
<1> QED BY <1>2, <1>4, <1>5 DEF FoldSpool

(* The generations a history gives up for a counted run.                    *)
GivenUp(p) == {g \in CUGens : p.requests[g] # CUNone /\ Counted(p.runs, p.requests[g])}

(* What is written keeps what the history and the batch to be unlinked had. *)
Writable(p) ==
  /\ p \in Passes
  /\ p.taken = cuPass.taken /\ p.skipped = cuPass.skipped
  /\ RunsReported(p.runs)
  /\ \A g \in CUGens : InRetention(g) /\ cuHist.runs[g] # CUNone => p.runs[g] # CUNone \/ g \in GivenUp(p)
  /\ OnceIn(p.runs, p.requests)
  /\ \A c \in cuHist.retained : Counted(cuHist.runs, c) /\ ~Expired(cuHist.runs[c].day) => Counted(p.runs, c)
  /\ cuPass.taken =>
       \A g \in CUGens : InRetention(g) /\ Completed(cuMerging.rows, g) =>
         p.runs[g] # CUNone \/ g \in p.skipped \/ g \in GivenUp(p)

(* A pass that is written as it stands.                                     *)
LEMMA PassIsWritable ==
  ASSUME CursorInv, cuPass.pc \in {"scan", "learn", "write"}
  PROVE  Writable(cuPass)
<1>1. cuPass \in Passes /\ PassInv /\ RunsReported(cuPass.runs) /\ cuHist.retained \subseteq CURuns
  BY DEF CursorInv, CursorTyped, Histories, ReportsInv
<1>2. \A c \in cuHist.retained : Counted(cuHist.runs, c) /\ ~Expired(cuHist.runs[c].day) => Counted(cuPass.runs, c)
  BY <1>1 DEF PassInv, Counted
<1> QED BY <1>1, <1>2 DEF Writable, PassInv

(* What _commit_learned makes of the runs and requests of a pass.           *)
LEMMA LearnedIsWritable ==
  ASSUME CursorInv, cuPass.pc \in {"scan", "learn"}
  PROVE  Writable(Learned(cuPass))
<1>0. /\ cuPass \in Passes /\ PassInv /\ RunsReported(cuPass.runs) /\ cuHist.retained \subseteq CURuns
      /\ \A g \in CUGens : cuPass.learned[g] = CUNone
  BY DEF CursorInv, CursorTyped, Histories, ReportsInv
<1>1. /\ cuPass.runs \in RunTables /\ cuPass.learned \in RunTables /\ cuPass.requests \in RequestTables
      /\ cuPass.removed \subseteq CURuns /\ cuPass.named \subseteq CURuns
  BY <1>0 DEF Passes
<1> DEFINE retained == cuPass.retained \cup cuPass.sqlite
           base == [k \in Keys |-> IF k \in cuPass.removed \ retained THEN CUNone ELSE cuPass.runs[k]]
           runs == [k \in Keys |-> IF cuPass.learned[k] = CUNone \/ CountersStand(cuPass, retained, base, k)
                                   THEN base[k] ELSE cuPass.learned[k]]
           named == [g \in CUGens |-> IF \E c \in cuPass.named : CURequest[c] = g
                                      THEN CHOOSE c \in cuPass.named : CURequest[c] = g
                                      ELSE cuPass.requests[g]]
           requests == [g \in CUGens |-> IF named[g] # CUNone /\ runs[named[g]] # CUNone
                                         THEN named[g] ELSE CUNone]
           final == [k \in Keys |-> IF GivesWay(runs, requests, k) THEN CUNone ELSE runs[k]]
<1>2. retained \in SUBSET CURuns /\ retained = cuPass.retained \cup cuPass.sqlite
  BY <1>0 DEF Passes
<1> HIDE DEF retained
<1>3. base = [k \in Keys |-> IF k \in cuPass.removed \ retained THEN CUNone ELSE cuPass.runs[k]]
  OBVIOUS
<1> HIDE DEF base
<1>4. runs = [k \in Keys |-> IF cuPass.learned[k] = CUNone \/ CountersStand(cuPass, retained, base, k)
                             THEN base[k] ELSE cuPass.learned[k]]
  OBVIOUS
<1>5. named = [g \in CUGens |-> IF \E c \in cuPass.named : CURequest[c] = g
                                THEN CHOOSE c \in cuPass.named : CURequest[c] = g
                                ELSE cuPass.requests[g]]
  OBVIOUS
<1> HIDE DEF runs, named
<1>6. requests = [g \in CUGens |-> IF named[g] # CUNone /\ runs[named[g]] # CUNone
                                   THEN named[g] ELSE CUNone]
  OBVIOUS
<1> HIDE DEF requests
<1>7. final = [k \in Keys |-> IF GivesWay(runs, requests, k) THEN CUNone ELSE runs[k]]
  OBVIOUS
<1> HIDE DEF final
<1>8. Learned(cuPass) = [cuPass EXCEPT !.retained = retained, !.requests = requests, !.runs = final]
  BY DEF Learned, retained, base, runs, named, requests, final
<1>9. base \in RunTables /\ runs \in RunTables /\ final \in RunTables
  <2>1. base \in RunTables
    BY <1>1, <1>3 DEF RunTables
  <2>2. runs \in RunTables
    BY <1>1, <1>4, <2>1 DEF RunTables
  <2> QED BY <1>7, <2>1, <2>2 DEF RunTables
<1>10. requests \in RequestTables
  <2>1. ASSUME NEW g \in CUGens PROVE named[g] \in CURuns \cup {CUNone}
    <3>1. CASE \E c \in cuPass.named : CURequest[c] = g
      BY <1>1, <1>5, <3>1
    <3>2. CASE ~\E c \in cuPass.named : CURequest[c] = g
      BY <1>1, <1>5, <3>2 DEF RequestTables
    <3> QED BY <3>1, <3>2
  <2> QED BY <1>6, <2>1 DEF RequestTables
<1>11. \E p \in Passes :
         /\ p = Learned(cuPass) /\ p.retained = retained /\ p.requests = requests /\ p.runs = final
         /\ p.taken = cuPass.taken /\ p.skipped = cuPass.skipped
  <2>1. PICK old \in Passes, r \in SUBSET CURuns, q \in RequestTables, t \in RunTables :
           old = cuPass /\ r = retained /\ q = requests /\ t = final
    BY <1>0, <1>2, <1>9, <1>10
  <2>2. PICK p : p = [old EXCEPT !.retained = r, !.requests = q, !.runs = t]
    OBVIOUS
  <2>3. /\ p \in Passes /\ p.retained = r /\ p.requests = q /\ p.runs = t
        /\ p.taken = old.taken /\ p.skipped = old.skipped
    BY <2>2 DEF Passes
  <2>4. p = Learned(cuPass)
    BY <1>8, <2>1, <2>2
  <2> QED BY <2>1, <2>3, <2>4
<1>12. PICK p \in Passes :
         /\ p = Learned(cuPass) /\ p.retained = retained /\ p.requests = requests /\ p.runs = final
         /\ p.taken = cuPass.taken /\ p.skipped = cuPass.skipped
  BY <1>11
<1>13. \A c \in CURuns : final[c] = runs[c]
  BY <1>7, EntryIs DEF GivesWay
<1>14. \A g \in CUGens : cuPass.runs[g] # CUNone => final[g] # CUNone \/ g \in GivenUp(p)
  <2>1. SUFFICES ASSUME NEW g \in CUGens, cuPass.runs[g] # CUNone, final[g] = CUNone PROVE g \in GivenUp(p)
    OBVIOUS
  <2>2. base[g] = cuPass.runs[g]
    BY <1>1, <1>3, EntryIs
  <2>3. runs[g] # CUNone
    BY <1>4, <2>1, <2>2, EntryIs
  <2>4. requests[g] # CUNone /\ Counted(runs, requests[g])
    BY <1>7, <2>1, <2>3, EntryIs DEF GivesWay
  <2>5. requests[g] \in CURuns
    BY <1>10, <2>4 DEF RequestTables
  <2> QED BY <1>12, <1>13, <2>4, <2>5 DEF GivenUp, Counted
<1>15. OnceIn(final, requests)
  <2>1. SUFFICES ASSUME NEW c \in CURuns, Counted(final, c), requests[CURequest[c]] = c
                 PROVE  final[CURequest[c]] = CUNone
    BY DEF OnceIn
  <2>2. GivesWay(runs, requests, CURequest[c])
    BY <1>13, <2>1, EntryIs DEF GivesWay, Counted
  <2> QED BY <1>7, <2>2, EntryIs
<1>16. \A c \in cuHist.retained : Counted(cuHist.runs, c) /\ ~Expired(cuHist.runs[c].day) => Counted(final, c)
  <2>1. SUFFICES ASSUME NEW c \in cuHist.retained, Counted(cuHist.runs, c), ~Expired(cuHist.runs[c].day)
                 PROVE  Counted(runs, c)
    BY <1>0, <1>13 DEF Counted
  <2>2. c \in CURuns /\ c \in Keys /\ c \in cuPass.retained /\ cuPass.runs[c] = cuHist.runs[c]
    BY <1>0, <2>1, EntryIs DEF PassInv
  <2>3. base[c] = cuPass.runs[c] /\ Counted(base, c) /\ c \in retained
    BY <1>2, <1>3, <2>1, <2>2 DEF Counted
  <2>4. CASE cuPass.learned[c] = CUNone \/ CountersStand(cuPass, retained, base, c)
    BY <1>4, <2>2, <2>3, <2>4 DEF Counted
  <2>5. CASE cuPass.learned[c] # CUNone /\ ~CountersStand(cuPass, retained, base, c)
    <3>1. runs[c] = cuPass.learned[c] /\ cuPass.learned[c] \in Entries
      BY <1>1, <1>4, <2>2, <2>5 DEF RunTables
    <3>2. cuPass.learned[c].rank \in 1..2 /\ cuPass.learned[c].rank # 1
      BY <2>3, <2>5, <3>1 DEF CountersStand, Entries
    <3> QED BY <2>5, <3>1, <3>2 DEF Counted
  <2> QED BY <2>4, <2>5
<1>17. Writable(p)
  <2>1. \A g \in CUGens : InRetention(g) /\ cuHist.runs[g] # CUNone => final[g] # CUNone \/ g \in GivenUp(p)
    BY <1>0, <1>14 DEF PassInv
  <2>2. cuPass.taken =>
          \A g \in CUGens : InRetention(g) /\ Completed(cuMerging.rows, g) => final[g] # CUNone \/ g \in p.skipped \/ g \in GivenUp(p)
    BY <1>0, <1>12, <1>14 DEF PassInv
  <2>3. RunsReported(final)
    <3>1. ASSUME NEW g \in CUGens, final[g] # CUNone PROVE final[g] = cuPass.runs[g]
      BY <1>0, <1>3, <1>4, <1>7, <3>1, EntryIs
    <3> QED BY <1>0, <3>1 DEF RunsReported
  <2> QED BY <1>12, <1>15, <1>16, <2>1, <2>2, <2>3 DEF Writable
<1> QED BY <1>12, <1>17

(* The pass that is written, and what the write leaves.                     *)
LEMMA WriteIs ==
  ASSUME CursorInv, WriteHistory
  PROVE  \/ UNCHANGED <<cuHist, cuSettled, cuWritten>> /\ cuPass' = NoPass
         \/ \E p \in Passes :
              /\ Writable(p)
              /\ cuHist' \in Histories /\ cuHist'.runs = p.runs /\ cuHist'.requests = p.requests
              /\ cuWritten' = TRUE /\ cuSettled' = cuSettled \cup p.skipped \cup GivenUp(p)
              /\ cuPass' = IF p.taken THEN [NoPass EXCEPT !.pc = "unlink"] ELSE NoPass
<1>1. cuPass.pc \in {"learn", "write", "scan"} /\ cuHist.reason \in Reasons
  BY DEF WriteHistory, CursorInv, CursorTyped, Histories
<1>2. Writable(IF cuPass.pc = "write" THEN cuPass ELSE Learned(cuPass))
  <2>1. CASE cuPass.pc = "write"
    BY <1>1, <2>1, PassIsWritable
  <2>2. CASE cuPass.pc # "write"
    BY <1>1, <2>2, LearnedIsWritable
  <2> QED BY <2>1, <2>2
<1>3. PICK p \in Passes : Writable(p) /\ p = IF cuPass.pc = "write" THEN cuPass ELSE Learned(cuPass)
  BY <1>2 DEF Writable
<1>4. PICK outcome \in Reasons : outcome = Outcome(p)
  BY DEF Outcome, Passes, Reasons
<1>5. CASE outcome = "absent"
  BY <1>3, <1>4, <1>5 DEF WriteHistory
<1>6. CASE outcome # "absent"
  <2>1. PICK replaced : replaced = p.skipped \cup GivenUp(p)
    OBVIOUS
  <2>2. PICK late \in BOOLEAN :
          cuHist' = [runs |-> p.runs, requests |-> p.requests,
                     retained |-> {c \in p.retained : p.runs[c] # CUNone},
                     once |-> p.once \/ outcome = "none",
                     reason |-> IF late /\ outcome = "none" THEN "transient" ELSE Carried(outcome)]
    BY <1>3, <1>4, <1>6 DEF WriteHistory
  <2>3. /\ cuWritten' = TRUE /\ cuSettled' = cuSettled \cup replaced
        /\ cuPass' = IF p.taken THEN [NoPass EXCEPT !.pc = "unlink"] ELSE NoPass
    BY <1>3, <1>4, <1>6, <2>1 DEF WriteHistory, GivenUp
  <2>4. PICK reason \in Reasons : reason = IF late /\ outcome = "none" THEN "transient" ELSE Carried(outcome)
    BY <1>1 DEF Carried, Reasons
  <2>5. PICK retained \in SUBSET CURuns : retained = {c \in p.retained : p.runs[c] # CUNone}
    BY DEF Passes
  <2>6. PICK once \in BOOLEAN : once = (p.once \/ outcome = "none")
    OBVIOUS
  <2>7. cuHist' = [runs |-> p.runs, requests |-> p.requests, retained |-> retained, once |-> once, reason |-> reason]
    BY <2>2, <2>4, <2>5, <2>6
  <2>8. cuHist' \in Histories /\ cuHist'.runs = p.runs /\ cuHist'.requests = p.requests
    BY <2>7 DEF Histories, Passes
  <2>9. cuSettled' = cuSettled \cup p.skipped \cup GivenUp(p)
    BY <2>1, <2>3
  <2> QED BY <1>3, <2>3, <2>8, <2>9
<1> QED BY <1>5, <1>6

(* The history is replaced before its batch goes.                           *)
LEMMA WriteHistoryKeeps ==
  ASSUME CursorInv, WriteHistory
  PROVE  CursorInv'
<1>0. /\ CursorTyped /\ PassInv
      /\ UNCHANGED <<cuToday, cuSpool, cuMerging, cuHook, cuStores, cuAcked>>
      /\ cuPass.pc \in {"learn", "write", "scan"}
  BY DEF CursorInv, WriteHistory
<1>1. \A p \in {NoPass, [NoPass EXCEPT !.pc = "unlink"]} :
        /\ p \in Passes /\ p.pc \in {"idle", "unlink"} /\ RunsReported(p.runs)
        /\ \A g \in CUGens : p.learned[g] = CUNone
  <2>1. [NoPass EXCEPT !.pc = "unlink"] \in Passes /\ [NoPass EXCEPT !.pc = "unlink"].pc = "unlink"
        /\ [NoPass EXCEPT !.pc = "unlink"].runs = NoPass.runs /\ [NoPass EXCEPT !.pc = "unlink"].learned = NoPass.learned
    BY NoPassIs DEF Passes
  <2> QED BY <2>1, NoPassIs
<1>r. ASSUME NEW runs, RunsReported(runs), cuHist'.runs = runs, cuPass' \in {NoPass, [NoPass EXCEPT !.pc = "unlink"]}
      PROVE  ReportsInv'
  <2>1. RunsReported(cuPass'.runs) /\ \A g \in CUGens : cuPass'.learned[g] = CUNone
    BY <1>1, <1>r
  <2> QED BY <1>0, <1>r, <2>1 DEF CursorInv, ReportsInv, RowsReported, RunsReported, ReportedBy
<1>2. SpoolsInv'
  BY <1>0 DEF CursorInv, SpoolsInv
<1>3. CASE UNCHANGED <<cuHist, cuSettled, cuWritten>> /\ cuPass' = NoPass
  <2>1. CursorTyped'
    BY <1>0, <1>1, <1>3 DEF CursorTyped, cuStores
  <2>2. AckedInv' /\ OnceIn(cuHist.runs, cuHist.requests)'
    BY <1>0, <1>3 DEF CursorInv, AckedInv, OnceIn, Counted, Completed, InRetention, Expired
  <2>3. PassInv' /\ UnlinkInv'
    BY <1>3, NoPassIs DEF PassInv, UnlinkInv
  <2>4. ReportsInv'
    BY <1>3, <1>r DEF CursorInv, ReportsInv
  <2> QED BY <1>2, <2>1, <2>2, <2>3, <2>4 DEF CursorInv
<1>4. ASSUME NEW p \in Passes, Writable(p),
             cuHist' \in Histories, cuHist'.runs = p.runs, cuHist'.requests = p.requests,
             cuWritten' = TRUE, cuSettled' = cuSettled \cup p.skipped \cup GivenUp(p),
             cuPass' = IF p.taken THEN [NoPass EXCEPT !.pc = "unlink"] ELSE NoPass
      PROVE  CursorInv'
  <2>1. cuPass' \in Passes /\ cuPass'.pc \in {"idle", "unlink"} /\ (cuPass'.pc = "unlink" => p.taken)
    BY <1>1, <1>4, NoPassIs
  <2>2. cuSettled' \subseteq CUGens
    BY <1>0, <1>4 DEF CursorTyped, Passes, GivenUp
  <2>3. CursorTyped'
    BY <1>0, <1>4, <2>1, <2>2 DEF CursorTyped, cuStores
  <2>4. AckedInv'
    <3>1. SUFFICES ASSUME NEW g \in CUGens, InRetention(g)
                   PROVE  \/ Completed(cuSpool.rows, g) \/ Completed(cuMerging.rows, g)
                          \/ p.runs[g] # CUNone \/ g \in cuSettled'
      BY <1>0, <1>4 DEF AckedInv, InRetention, Expired, Completed
    <3>3. cuHist.runs[g] # CUNone => p.runs[g] # CUNone \/ g \in GivenUp(p)
      BY <1>4, <3>1 DEF Writable
    <3> QED BY <1>4, <3>1, <3>3 DEF CursorInv, AckedInv
  <2>5. OnceIn(cuHist.runs, cuHist.requests)'
    BY <1>4 DEF Writable, OnceIn, Counted
  <2>6. PassInv'
    BY <2>1 DEF PassInv
  <2>7. UnlinkInv'
    <3>1. SUFFICES ASSUME p.taken, NEW g \in CUGens, InRetention(g), Completed(cuMerging.rows, g)
                   PROVE  p.runs[g] # CUNone \/ g \in cuSettled'
      BY <1>0, <1>4, <2>1 DEF UnlinkInv, InRetention, Expired, Completed
    <3> QED BY <1>4, <3>1 DEF Writable
  <2>8. ReportsInv'
    BY <1>4, <1>r DEF Writable
  <2> QED BY <1>2, <2>3, <2>4, <2>5, <2>6, <2>7, <2>8 DEF CursorInv
<1> QED BY <1>3, <1>4, WriteIs

(* The batch goes after the history has it.                                 *)
LEMMA UnlinkKeeps ==
  ASSUME CursorInv, UnlinkMerged
  PROVE  CursorInv'
<1>2. NoFile \in SpoolFiles /\ NoFile.ino = 0 /\ NoFile.rows = <<>> /\ Len(<<>>) <= CUSpoolMax
  BY CUSets DEF NoFile, SpoolFiles
<1>3. CursorTyped'
  BY NoPassIs, <1>2 DEF CursorInv, CursorTyped, cuStores, UnlinkMerged
<1>4. SpoolsInv'
  BY <1>2 DEF CursorInv, SpoolsInv, UnlinkMerged
<1>5. AckedInv'
  <2>1. UnlinkInv /\ AckedInv /\ cuPass.pc = "unlink" 
    BY DEF CursorInv, CursorTyped, UnlinkMerged
  <2>2. UNCHANGED <<cuToday, cuSpool, cuHist, cuAcked, cuSettled>>
    BY DEF UnlinkMerged
  <2> QED BY <2>1, <2>2 DEF AckedInv, UnlinkInv, Completed, InRetention, Expired
<1>8. ReportsInv'
  <2>1. NoFile.rows = <<>> /\ RowsReported(<<>>)
    BY DEF NoFile, RowsReported
  <2> QED BY <2>1, NoPassIs DEF CursorInv, ReportsInv, RowsReported, RunsReported, ReportedBy, UnlinkMerged
<1>6. OnceIn(cuHist.runs, cuHist.requests)'
  BY DEF CursorInv, OnceIn, Counted, UnlinkMerged
<1>7. PassInv' /\ UnlinkInv'
  BY NoPassIs DEF PassInv, UnlinkInv, UnlinkMerged
<1> QED BY <1>3, <1>4, <1>5, <1>6, <1>7, <1>8 DEF CursorInv

(* ------------------------------ the theorems --------------------------- *)

(* Every step keeps the invariant.                                          *)
LEMMA CursorNextInv ==
  ASSUME CursorInv, [CUNext]_cuVars
  PROVE  CursorInv'
<1>1. CASE \E h \in CUHooks : \/ \E g \in CUGens : HookStart(h, g)
                              \/ HookLock(h) \/ HookWrite(h) \/ HookDies(h)
  <2>1. ASSUME NEW h \in CUHooks, HookDies(h) PROVE CursorInv'
    BY <2>1, IdleKeeps DEF HookDies
  <2> QED BY <1>1, <2>1, StartHookKeeps, LockKeeps, HookWriteKeeps
<1>2. CASE StoreEdit \/ StoreGone \/ NextDay
  BY <1>2, StoresKeep, NextDayKeeps
<1>3. CASE PassStep
  BY <1>3, SpoolTakeKeeps, FoldKeeps, RootKeeps, ReadKeeps, WriteHistoryKeeps, UnlinkKeeps DEF PassStep
<1>4. CASE StopScan \/ PassDies
  BY <1>4, StopKeeps, DiesKeeps
<1>5. CASE UNCHANGED cuVars
  <2>1. UNCHANGED <<cuToday, cuSpool, cuMerging, cuHook, cuStores, cuHist, cuWritten, cuPass, cuAcked, cuSettled>>
    BY <1>5 DEF cuVars
  <2>2. CursorTyped' /\ SpoolsInv'
    BY <2>1 DEF CursorInv, CursorTyped, SpoolsInv, cuStores
  <2> QED BY <2>1, <2>2, SameRows DEF CursorInv
<1> QED BY <1>1, <1>2, <1>3, <1>4, <1>5 DEF CUNext

(* The rows of a file name what it completed.                               *)
LEMMA CursorInvSays == CursorInv => AckedNeverLost /\ CountedOnce
<1> SUFFICES ASSUME CursorInv PROVE AckedNeverLost /\ CountedOnce
  OBVIOUS
<1>1. ASSUME NEW g \in CUGens, InRetention(g)
      PROVE  \/ \E r \in RowsOf(cuSpool) \cup RowsOf(cuMerging) : r.key = g
             \/ cuHist.runs[g] # CUNone \/ g \in cuSettled
  <2>1. Completed(cuSpool.rows, g) \/ Completed(cuMerging.rows, g) =>
          \E r \in RowsOf(cuSpool) \cup RowsOf(cuMerging) : r.key = g
    BY DEF Completed, RowsOf
  <2> QED BY <1>1, <2>1 DEF CursorInv, AckedInv
<1>2. CountedOnce
  BY DEF CursorInv, OnceIn, CountedOnce
<1> QED BY <1>1, <1>2 DEF AckedNeverLost

(* No step takes back counters SQLite vouched for.                          *)
LEMMA SqliteStands ==
  ASSUME CursorInv, [CUNext]_cuVars
  PROVE  \A c \in cuHist.retained :
           Counted(cuHist.runs, c) /\ ~Expired(cuHist.runs[c].day) => Counted(cuHist'.runs, c)
<1>1. CASE UNCHANGED cuHist
  BY <1>1 DEF Counted
<1>2. CASE WriteHistory
  <2>1. UNCHANGED cuHist \/ \E p \in Passes : Writable(p) /\ cuHist'.runs = p.runs
    BY <1>2, WriteIs
  <2> QED BY <1>1, <2>1 DEF Writable, Counted
<1>3. UNCHANGED cuHist \/ WriteHistory
  BY DEF CUNext, PassStep, HookStart, HookLock, HookWrite, HookDies, StoreEdit, StoreGone, NextDay, TakeSpool,
         FoldSpool, RootGone, ReadDirectory, UnlinkMerged, StopScan, PassDies, cuVars
<1> QED BY <1>1, <1>2, <1>3

(* The Cursor history keeps what was acknowledged or vouched for, and counts *)
(* it once: whatever the hooks, the stores and the passes do, and wherever  *)
(* any of them dies, a completion a hook reported stays queued, counted or  *)
(* superseded until it is out of retention, a generation never counts       *)
(* beside its run, and counters SQLite vouched for stay.                    *)
THEOREM CursorHistoryKept == CUSpec => HistoryKept
<1>1. CUInit => CursorInv
  BY CursorInitInv
<1>2. CursorInv /\ [CUNext]_cuVars => CursorInv'
  BY CursorNextInv
<1>3. CursorInv => AckedNeverLost /\ CountedOnce
  BY CursorInvSays
<1>4. CursorInv /\ [CUNext]_cuVars =>
        [\A c \in cuHist.retained :
           Counted(cuHist.runs, c) /\ ~Expired(cuHist.runs[c].day) => Counted(cuHist'.runs, c)]_cuVars
  BY SqliteStands
<1> QED BY <1>1, <1>2, <1>3, <1>4, PTL DEF CUSpec, HistoryKept, SqliteNeverRetracts

(* The types of the Cursor spool, history and pass, and the spool's bound.  *)
THEOREM CursorTypeCorrect == CUSpec => []CUTypeOK
<1>1. CUInit => CursorInv
  BY CursorInitInv
<1>2. CursorInv /\ [CUNext]_cuVars => CursorInv'
  BY CursorNextInv
<1>3. CursorInv => CUTypeOK
  <2> SUFFICES ASSUME CursorInv PROVE CUTypeOK
    OBVIOUS
  <2>1. CursorTyped /\ SpoolsInv
    BY DEF CursorInv
  <2>2. \A f \in {cuSpool, cuMerging} : Len(f.rows) <= CUSpoolMax /\ f.ino \in Nat
    BY <2>1 DEF CursorTyped, SpoolFiles, SpoolsInv
  <2>3. \A d \in 1..CUDirs, c \in CURuns : cuJson[d][c] \in Rows /\ cuDb[d][c] \in Rows
    BY <2>1 DEF CursorTyped, StoreRows
  <2>4. /\ cuHist.runs \in RunTables /\ cuHist.requests \in RequestTables /\ cuHist.reason \in Reasons
        /\ cuHist.retained \subseteq CURuns /\ cuPass.runs \in RunTables /\ cuPass.reason \in Reasons
    BY <2>1 DEF CursorTyped, Histories, Passes
  <2> QED BY <2>1, <2>2, <2>3, <2>4 DEF CUTypeOK, CursorTyped, RunTables, RequestTables
<1> QED BY <1>1, <1>2, <1>3, PTL DEF CUSpec

(* --------------------------- the components together ------------------- *)
(* MCLocal checks the components side by side.  A behaviour of it is, for   *)
(* each component, a behaviour of that component: the others stand still.   *)
THEOREM ScenesAreComponents ==
  Spec => CUSpec /\ UPSpec /\ SLSpec /\ CRSpec /\ FKSpec
<1>1. Init => CUInit /\ UPInit /\ SLInit /\ CRInit /\ FKInit
  BY DEF Init
<1>2. [Next]_allVars => [CUNext]_cuVars
  BY DEF Next, allVars, CursorScene, UpgradeScene, SkillScene, ResolveScene, FleetScene
<1>3. [Next]_allVars => [UPNext]_upVars
  BY DEF Next, allVars, CursorScene, UpgradeScene, SkillScene, ResolveScene, FleetScene
<1>4. [Next]_allVars => [SLNext]_slVars
  BY DEF Next, allVars, CursorScene, UpgradeScene, SkillScene, ResolveScene, FleetScene
<1>5. [Next]_allVars => [CRNext]_crVars
  BY DEF Next, allVars, CursorScene, UpgradeScene, SkillScene, ResolveScene, FleetScene
<1>6. [Next]_allVars => [FKNext]_fkVars
  BY DEF Next, allVars, CursorScene, UpgradeScene, SkillScene, ResolveScene, FleetScene
<1> QED BY <1>1, <1>2, <1>3, <1>4, <1>5, <1>6, PTL DEF Spec, CUSpec, UPSpec, SLSpec, CRSpec, FKSpec

(* The state of every component keeps its shape, whichever of them runs.    *)
THEOREM LocalTypes == ASSUME CalmResolve PROVE Spec => []TypeOK
<1>1. CUTypeOK /\ UPTypeOK /\ SLInv /\ CRInv /\ FKInv => TypeOK
  BY DEF TypeOK, SLInv, CRInv, FKInv, Typed
<1> QED BY <1>1, ScenesAreComponents, CursorTypeCorrect, UpgradeTypeCorrect, SkillInvariant, ResolveInvariant,
           FleetKeyInvariant, PTL

(* So what is proved of each component is true of them side by side: every  *)
(* property the run over MCLocal checks, for any constants.                 *)
THEOREM LocalIsRight ==
  ASSUME CalmResolve
  PROVE  Spec => /\ [](SwapsAreSafe /\ GateIsExact) /\ []EditsKept
                 /\ HistoryKept /\ RetryGap /\ LinksAreWanted /\ KeptIsKept /\ FleetKeyIsSafe
<1>1. Spec => []SwapsAreSafe /\ RetryGap
  BY ScenesAreComponents, SwapsSafe, RetriesWait, PTL
<1>2. Spec => []GateIsExact /\ LinksAreWanted
  BY ScenesAreComponents, GateExact, LinksWanted, PTL
<1>3. Spec => []EditsKept /\ KeptIsKept
  BY ScenesAreComponents, EditsAreKept, KeptStaysKept, PTL
<1>4. Spec => HistoryKept /\ FleetKeyIsSafe
  BY ScenesAreComponents, CursorHistoryKept, FleetKeySafe, PTL
<1> QED BY <1>1, <1>2, <1>3, <1>4, PTL
=============================================================================
