----------------------------- MODULE PushProofs -----------------------------
(***************************************************************************)
(* What is proved of Push for every value of its constants: its types and   *)
(* the agreement of what it keeps; what it carries over from the accepted   *)
(* manifest to the next one, the entries of the files it has to hold and    *)
(* every live deletion, for every menu of environment steps; and that a     *)
(* deletion it announces is one, where the menu leaves conflict copies and  *)
(* flapping roots out, and its symlinks are tame.                           *)
(***************************************************************************)
EXTENDS Push, TLAPS

(* The sync tool shows at most one conflict copy at a time, and holds at    *)
(* most one more back: the guards of Duplicate, TakeCopy, DeliverCopy.      *)
AtMostOne(S) == \A m, n \in S : m = n
FewCopies == AtMostOne(copies) /\ AtMostOne(transit)

(* Merging one or two manifests gives a manifest whose entries and          *)
(* tombstones come from them.                                               *)
LEMMA NewestOfTwo ==
  ASSUME NEW m \in Manifests, NEW n \in Manifests
  PROVE  /\ Newest({m, n}) \in {m, n}
         /\ \A k \in {m, n} : k.ts <= Newest({m, n}).ts
<1> USE DEF Manifests
<1>1. \E x \in {m, n} : \A y \in {m, n} : y.ts <= x.ts
  <2>1. m.ts \in Nat /\ n.ts \in Nat
    OBVIOUS
  <2>2. CASE m.ts <= n.ts
    BY <2>1, <2>2
  <2>3. CASE n.ts <= m.ts
    BY <2>1, <2>3
  <2> QED BY <2>1, <2>2, <2>3
<1> QED BY <1>1 DEF Newest

LEMMA LatestOfTwo ==
  ASSUME NEW t \in Nat, NEW u \in Nat
  PROVE  Latest({t, u}) \in {t, u}
<1>1. \E x \in {t, u} : \A y \in {t, u} : y <= x
  BY t <= u \/ u <= t
<1> QED BY <1>1 DEF Latest

LEMMA MergeOfTwo ==
  ASSUME NEW m \in Manifests, NEW n \in Manifests
  PROVE  /\ MergeManifests({m, n}) \in Manifests
         /\ \A p \in Paths : MergeManifests({m, n}).files[p] \in {m.files[p], n.files[p]}
<1> DEFINE R == {m, n}
           F == MergeManifests(R)
<1> USE DEF Manifests, Files, Tombs, Times
<1>1. \A p \in Paths : F.files[p] \in {m.files[p], n.files[p]}
  <2> SUFFICES ASSUME NEW p \in Paths
               PROVE  F.files[p] \in {m.files[p], n.files[p]}
    OBVIOUS
  <2> DEFINE having == {k \in R : k.files[p] # Absent}
  <2>0. F.files[p] = IF having = {} THEN Absent ELSE Newest(having).files[p]
    BY DEF MergeManifests
  <2>1. CASE having = {}
    BY <2>0, <2>1
  <2>2. CASE having # {}
    <3>1. PICK x \in R, y \in R : having = {x, y}
      <4>1. CASE m \in having /\ n \in having
        BY <4>1
      <4>2. CASE m \in having /\ n \notin having
        <5>1. having = {m, m}
          BY <4>2
        <5> QED BY <5>1
      <4>3. CASE m \notin having /\ n \in having
        <5>1. having = {n, n}
          BY <4>3
        <5> QED BY <5>1
      <4> QED BY <2>2, <4>1, <4>2, <4>3
    <3>2. Newest(having) \in having
      BY <3>1, NewestOfTwo
    <3> HIDE DEF F
    <3> QED BY <2>0, <2>2, <3>2
  <2> QED BY <2>1, <2>2
<1>2. F.files \in [Paths -> Revs \cup {Absent}]
  <2>1. F.files = [p \in Paths |-> F.files[p]]
    BY DEF MergeManifests
  <2>2. \A p \in Paths : F.files[p] \in Revs \cup {Absent}
    BY <1>1
  <2> HIDE DEF F
  <2> QED BY <2>1, <2>2
<1>3. F.tombs \in [Paths -> {0} \cup 1 .. MaxClock]
  <2> SUFFICES ASSUME NEW p \in Paths
               PROVE  F.tombs[p] \in {0} \cup 1 .. MaxClock
    BY DEF MergeManifests
  <2>1. F.tombs[p] = Latest({k.tombs[p] : k \in R})
    BY DEF MergeManifests
  <2>2. {k.tombs[p] : k \in R} = {m.tombs[p], n.tombs[p]}
    OBVIOUS
  <2>3. m.tombs[p] \in {0} \cup 1 .. MaxClock /\ n.tombs[p] \in {0} \cup 1 .. MaxClock
    OBVIOUS
  <2>4. m.tombs[p] \in Nat /\ n.tombs[p] \in Nat
    BY <2>3, BoundsAssumption
  <2>5. Latest({m.tombs[p], n.tombs[p]}) \in {m.tombs[p], n.tombs[p]}
    BY <2>4, LatestOfTwo
  <2> HIDE DEF F
  <2> QED BY <2>1, <2>2, <2>3, <2>5
<1>4. F.srcs \in SUBSET Sources
  BY DEF MergeManifests
<1>5. F.ts \in Nat
  BY NewestOfTwo DEF MergeManifests
<1>6. F = [files |-> F.files, tombs |-> F.tombs, srcs |-> F.srcs, ts |-> F.ts]
  BY DEF MergeManifests
<1>7. F \in Manifests
  <2> HIDE DEF F
  <2> QED BY <1>2, <1>3, <1>4, <1>5, <1>6
<1> QED BY <1>1, <1>7

-----------------------------------------------------------------------------
(* A read that answers merges at most two manifests: ours and a copy of it. *)
LEMMA FetchMerges ==
  ASSUME TypeOK, FewCopies, NEW seen \in BOOLEAN,
         FetchManifest(seen).manifest # NoManifest \/ FetchManifest(seen).status = "ok"
  PROVE  /\ FetchManifest(seen).status = "ok"
         /\ \E m \in Manifests, n \in Manifests :
              /\ {m, n} \subseteq copies \cup {manifest}
              /\ FetchManifest(seen).manifest = MergeManifests({m, n})
<1> DEFINE main == IF seen /\ canonical = "ok" THEN {manifest} ELSE {}
           readable == main \cup copies
<1>1. readable # {}
  BY DEF FetchManifest
<1>2. FetchManifest(seen).manifest = MergeManifests(readable)
  BY <1>1 DEF FetchManifest
<1>3. FetchManifest(seen).status = "ok"
  BY <1>1 DEF FetchManifest
<1>4. main \subseteq Manifests /\ copies \subseteq Manifests
  BY DEF TypeOK, StoreOK
<1>5. PICK m \in Manifests, n \in Manifests : readable = {m, n}
  <2>1. CASE copies = {}
    <3>1. readable = {manifest, manifest} /\ manifest \in Manifests
      BY <1>1, <1>4, <2>1
    <3> QED BY <3>1
  <2>2. CASE copies # {}
    <3>1. PICK c \in Manifests : copies = {c}
      BY <1>4, <2>2 DEF FewCopies, AtMostOne
    <3>2. CASE main = {}
      <4>1. readable = {c, c}
        BY <3>1, <3>2
      <4> QED BY <4>1
    <3>3. CASE main # {}
      <4>1. readable = {manifest, c} /\ manifest \in Manifests
        BY <3>1, <3>3, <1>4
      <4> QED BY <4>1
    <3> QED BY <3>2, <3>3
  <2> QED BY <2>1, <2>2
<1> QED BY <1>2, <1>3, <1>5

LEMMA FetchIsManifest ==
  ASSUME TypeOK, FewCopies, NEW seen \in BOOLEAN
  PROVE  /\ FetchManifest(seen).manifest \in Manifests \cup {NoManifest}
         /\ FetchManifest(seen).status = "ok" => FetchManifest(seen).manifest \in Manifests
<1>1. CASE FetchManifest(seen).manifest # NoManifest \/ FetchManifest(seen).status = "ok"
  <2>1. PICK m \in Manifests, n \in Manifests :
           FetchManifest(seen).manifest = MergeManifests({m, n})
    BY <1>1, FetchMerges
  <2> QED BY <2>1, MergeOfTwo
<1>2. CASE FetchManifest(seen).manifest = NoManifest /\ FetchManifest(seen).status # "ok"
  BY <1>2
<1> QED BY <1>1, <1>2

LEMMA FallbackIsManifest ==
  ASSUME TypeOK
  PROVE  Fallback \in Manifests \cup {NoManifest}
<1>1. PeerTombs \in Tombs
  BY BoundsAssumption DEF PeerTombs, Tombs, Times
<1> QED BY <1>1 DEF Fallback, NoFiles, TypeOK, StoreOK, Manifests, Files

LEMMA RecoveredIsManifest ==
  ASSUME TypeOK, FewCopies, NEW seen \in BOOLEAN
  PROVE  RecoverPrior(FetchManifest(seen)) \in Manifests \cup {NoManifest}
<1> DEFINE f == FetchManifest(seen)
<1>1. f.status = "ok" => f.manifest \in Manifests
  BY FetchIsManifest
<1>2. sidecar \in Manifests \cup {NoManifest}
  BY DEF TypeOK, StoreOK
<1>3. f.status = "ok" /\ sidecar # NoManifest => MergeManifests({f.manifest, sidecar}) \in Manifests
  BY <1>1, <1>2, MergeOfTwo
<1>4. \/ RecoverPrior(f) \in {NoManifest, Fallback}
      \/ f.status = "ok" /\ RecoverPrior(f) = f.manifest
      \/ /\ f.status = "ok" /\ sidecar # NoManifest
         /\ RecoverPrior(f) = MergeManifests({f.manifest, sidecar})
  BY DEF RecoverPrior
<1> HIDE DEF f
<1>5. RecoverPrior(f) \in Manifests \cup {NoManifest}
  BY <1>1, <1>3, <1>4, FallbackIsManifest
<1> QED BY <1>5 DEF f

LEMMA TombstonesAreTombs ==
  ASSUME TypeOK, NEW files, NEW before \in Manifests \cup {NoManifest}
  PROVE  GenerateTombstones(files, before) \in Tombs
BY DEF GenerateTombstones, NoTombs, TypeOK, HistoryOK, Manifests, Tombs, Times

-----------------------------------------------------------------------------
(* Typing and the sync tool's restraint, together inductive.                *)
Typed == TypeOK /\ FewCopies

LEMMA TypedInit == Init => Typed
<1> USE DEF Init
<1>1. Init => UserOK /\ RunOK
  BY DEF UserOK, RunOK, Phases
<1>2. Init => ScanOK /\ UploadOK
  BY DEF ScanOK, UploadOK, NoFiles, NoTombs, Files, Tombs
<1>3. Init => StoreOK /\ FewCopies
  BY DEF StoreOK, FewCopies, AtMostOne
<1>4. Init => HistoryOK
  BY BoundsAssumption DEF HistoryOK, Times
<1> QED BY <1>1, <1>2, <1>3, <1>4 DEF Typed, TypeOK

(* A part whose variables a step leaves alone stays typed, ...              *)
LEMMA Frames ==
  /\ UserOK /\ UNCHANGED <<diskVars, configVars>> => UserOK'
  /\ StoreOK /\ UNCHANGED <<storeVars, sidecar>> => StoreOK'
  /\ FewCopies /\ UNCHANGED <<copies, transit>> => FewCopies'
  /\ RunOK /\ UNCHANGED <<pc, fetchVars>> => RunOK'
  /\ ScanOK /\ UNCHANGED scanVars => ScanOK'
  /\ UploadOK /\ UNCHANGED uploadVars => UploadOK'
  /\ HistoryOK /\ UNCHANGED historyVars => HistoryOK'
<1> USE DEF diskVars, configVars, storeVars, fetchVars, scanVars, uploadVars, historyVars
<1>1. UserOK /\ UNCHANGED <<diskVars, configVars>> => UserOK'
  BY DEF UserOK
<1>2. StoreOK /\ UNCHANGED <<storeVars, sidecar>> => StoreOK'
  BY DEF StoreOK
<1>3. FewCopies /\ UNCHANGED <<copies, transit>> => FewCopies'
  BY DEF FewCopies, AtMostOne
<1>4. RunOK /\ UNCHANGED <<pc, fetchVars>> => RunOK'
  BY DEF RunOK
<1>5. ScanOK /\ UNCHANGED scanVars => ScanOK'
  BY DEF ScanOK
<1>6. UploadOK /\ UNCHANGED uploadVars => UploadOK'
  BY DEF UploadOK
<1>7. HistoryOK /\ UNCHANGED historyVars => HistoryOK'
  BY DEF HistoryOK
<1> QED BY <1>1, <1>2, <1>3, <1>4, <1>5, <1>6, <1>7

(* ... and a run that ends leaves nothing behind.                           *)
LEMMA EndRunTyped == EndRun => RunOK' /\ ScanOK' /\ UploadOK'
<1>1. EndRun => RunOK'
  BY DEF EndRun, RunOK, Phases
<1>2. EndRun => ScanOK'
  BY DEF EndRun, ScanOK, NoFiles, Files
<1>3. EndRun => UploadOK'
  BY DEF EndRun, UploadOK, NoTombs, Tombs
<1> QED BY <1>1, <1>2, <1>3

LEMMA TypedNext == Typed /\ [Next]_vars => Typed'
<1> SUFFICES ASSUME Typed, [Next]_vars PROVE Typed'
  OBVIOUS
<1> USE DEF Typed, TypeOK, vars, worldVars, runVars, diskVars, configVars, storeVars,
            fetchVars, scanVars, uploadVars, historyVars
<1>0. CASE UNCHANGED vars
  BY <1>0, Frames
<1>1. CASE StartPush
  <2>1. RunOK'
    BY <1>1 DEF StartPush, RunOK, Phases, UserOK
  <2> QED
    BY <1>1, <2>1, Frames DEF StartPush
<1>2. CASE FetchOwn
  <2>1. RunOK'
    BY <1>2, RecoveredIsManifest, FetchIsManifest, EndRunTyped DEF FetchOwn, Stop, RunOK, Phases
  <2> QED
    BY <1>2, <2>1, Frames, EndRunTyped DEF FetchOwn, Stop
<1>3. CASE ListFiles
  <2>1. RunOK'
    BY <1>3 DEF ListFiles, RunOK, Phases
  <2>2. ScanOK'
    BY <1>3 DEF ListFiles, ScanOK, Scope, In, UserOK
  <2> QED
    BY <1>3, <2>1, <2>2, Frames DEF ListFiles
<1>4. CASE ReadFiles
  <2>1. RunOK'
    BY <1>4, EndRunTyped DEF ReadFiles, Stop, RunOK, Phases
  <2>2. ScanOK'
    <3>1. CASE EndRun
      BY <3>1, EndRunTyped
    <3>2. CASE ~EndRun
      <4>1. PICK moving \in SUBSET listed, candidate \in SUBSET listed :
              LET vanished == {p \in listed : Look(p) = Absent}
                  read == {p \in listed \ moving : Look(p) \in Revs}
                  again == Carried(read)
              IN /\ local' = [p \in Paths |-> IF p \in read THEN disk[p]
                                             ELSE IF p \in Scope \ again THEN Absent
                                             ELSE local[p]]
                 /\ frozen' = (frozen \ Scope) \cup again
                 /\ held' = (held \ Scope) \cup moving \cup (vanished \ candidate)
                 /\ candidates' = candidate
                 /\ listed' = {}
                 /\ UNCHANGED <<rescan, checkouts>>
        BY <1>4, <3>2 DEF ReadFiles, Stop
      <4> DEFINE read == {p \in listed \ moving : Look(p) \in Revs}
      <4>2. Carried(read) \subseteq Paths
        BY DEF Carried, Scope, In
      <4>3. \A p \in read : disk[p] \in Revs
        BY MarksAssumption DEF Look
      <4>4. local' \in Files
        BY <4>1, <4>3 DEF ScanOK, Files
      <4> QED BY <4>1, <4>2, <4>4 DEF ScanOK
    <3> QED BY <3>1, <3>2
  <2> QED
    BY <1>4, <2>1, <2>2, Frames, EndRunTyped DEF ReadFiles, Stop
<1>5. CASE FilterPrior
  <2>1. RunOK'
    <3>1. prior' \in Manifests \cup {NoManifest}
      <4>1. CASE prior = NoManifest \/ rescan
        BY <1>5, <4>1 DEF FilterPrior, RunOK
      <4>2. CASE ~(prior = NoManifest \/ rescan)
        <5> DEFINE D == (Paths \ Eligible) \cup Linked \cup (checkouts \ Stays)
                   K == Forgotten(Linked)
        <5>1. prior' = [prior EXCEPT
                 !.files = Cleared(D, prior.files),
                 !.tombs = [p \in Paths |-> IF p \in K THEN 0 ELSE prior.tombs[p]]]
          BY <1>5, <4>2 DEF FilterPrior
        <5>2. prior \in Manifests
          BY <4>2 DEF RunOK
        <5>3. Cleared(D, prior.files) \in Files
          BY <5>2 DEF Cleared, Manifests, Files
        <5>4. [p \in Paths |-> IF p \in K THEN 0 ELSE prior.tombs[p]] \in Tombs
          BY <5>2 DEF Manifests, Tombs
        <5> HIDE DEF D, K
        <5> QED BY <5>1, <5>2, <5>3, <5>4 DEF Manifests
      <4> QED BY <4>1, <4>2
    <3> QED BY <1>5, <3>1 DEF FilterPrior, RunOK, Phases
  <2>2. ScanOK'
    BY <1>5 DEF FilterPrior, ScanOK, RunOK, Manifests, Files, Stays
  <2> QED
    BY <1>5, <2>1, <2>2, Frames DEF FilterPrior
<1>6. CASE InjectHeld
  <2>1. RunOK'
    BY <1>6, EndRunTyped DEF InjectHeld, Stop, RunOK, Phases
  <2>2. ScanOK'
    BY <1>6, EndRunTyped DEF InjectHeld, Stop, ScanOK, RunOK, Manifests, Files
  <2> QED
    BY <1>6, <2>1, <2>2, Frames, EndRunTyped DEF InjectHeld, Stop
<1>7. CASE ProveRoots
  <2>1. RunOK'
    BY <1>7, EndRunTyped DEF ProveRoots, Stop, RunOK, Phases
  <2> QED
    BY <1>7, <2>1, Frames, EndRunTyped DEF ProveRoots, Stop
<1>8. CASE Decide
  <2>1. RunOK'
    BY <1>8, EndRunTyped DEF Decide, Stop, RunOK, Phases
  <2>2. ScanOK'
    BY <1>8, EndRunTyped DEF Decide, Stop, ScanOK
  <2>3. UploadOK'
    BY <1>8, EndRunTyped, TombstonesAreTombs DEF Decide, Stop, UploadOK, RunOK, Changed, Present
  <2> QED
    BY <1>8, <2>1, <2>2, <2>3, Frames, EndRunTyped DEF Decide, Stop
<1>9. ASSUME NEW p \in Paths, UploadOrDefer(p) PROVE Typed'
  <2>1. StoreOK'
    BY <1>9 DEF UploadOrDefer, StoreOK, ScanOK, Files, Revs
  <2>2. UploadOK'
    BY <1>9 DEF UploadOrDefer, UploadOK
  <2> QED
    BY <1>9, <2>1, <2>2, Frames DEF UploadOrDefer
<1>10. ASSUME NEW p \in Paths, UploadSettled(p) PROVE Typed'
  <2>1. StoreOK'
    BY <1>10, MarksAssumption DEF UploadSettled, StoreOK, Look, Revs
  <2>2. ScanOK'
    BY <1>10, MarksAssumption DEF UploadSettled, ScanOK, Look, Files
  <2>3. UploadOK'
    BY <1>10 DEF UploadSettled, UploadOK
  <2> QED
    BY <1>10, <2>1, <2>2, <2>3, Frames DEF UploadSettled
<1>11. ASSUME NEW p \in Paths, UploadHold(p) PROVE Typed'
  <2>1. RunOK'
    BY <1>11, EndRunTyped DEF UploadHold, Stop, RunOK, Phases
  <2>2. ScanOK'
    BY <1>11, EndRunTyped DEF UploadHold, Stop, ScanOK, HoldEntry, RemoteFiles, NoFiles, RunOK, Manifests, Files
  <2>3. UploadOK'
    BY <1>11, EndRunTyped, PathsAssumption DEF UploadHold, Stop, UploadOK
  <2> QED
    BY <1>11, <2>1, <2>2, <2>3, Frames, EndRunTyped DEF UploadHold, Stop
<1>12. ASSUME NEW p \in Paths, UploadRefused(p) PROVE Typed'
  <2> QED
    BY <1>12, Frames, EndRunTyped DEF UploadRefused, Stop
<1>13. CASE FinishUpload
  <2>1. RunOK'
    BY <1>13 DEF FinishUpload, RunOK, Phases
  <2>2. UploadOK'
    BY <1>13, TombstonesAreTombs DEF FinishUpload, UploadOK, RunOK
  <2> QED
    BY <1>13, <2>1, <2>2, Frames DEF FinishUpload
<1>38. CASE ProveUploaded
  <2>1. UploadOK'
    BY <1>38, EndRunTyped DEF ProveUploaded, Stop, UploadOK
  <2> QED
    BY <1>38, <2>1, Frames, EndRunTyped DEF ProveUploaded, Stop
<1>14. CASE PutManifest
  <2>1. StoreOK'
    BY <1>14, NoManifestAssumption DEF PutManifest, StoreOK, RunOK, ScanOK, UploadOK, Manifests
  <2>2. RunOK'
    BY <1>14 DEF PutManifest, RunOK, Phases
  <2>3. HistoryOK'
    BY <1>14 DEF PutManifest, HistoryOK
  <2> QED
    BY <1>14, <2>1, <2>2, <2>3, Frames DEF PutManifest
<1>15. CASE WriteSidecar
  <2>1. StoreOK'
    BY <1>15 DEF WriteSidecar, StoreOK
  <2>2. RunOK'
    BY <1>15 DEF WriteSidecar, RunOK, Phases
  <2>3. HistoryOK'
    BY <1>15, BoundsAssumption DEF WriteSidecar, HistoryOK
  <2> QED
    BY <1>15, <2>1, <2>2, <2>3, Frames DEF WriteSidecar
<1>16. CASE CleanupCopies
  <2>1. StoreOK'
    BY <1>16 DEF CleanupCopies, StoreOK
  <2>2. FewCopies'
    BY <1>16 DEF CleanupCopies, FewCopies, AtMostOne
  <2> QED
    BY <1>16, <2>1, <2>2, Frames, EndRunTyped DEF CleanupCopies
<1>17. CASE StartGc
  <2>1. RunOK'
    BY <1>17 DEF StartGc, RunOK, Phases
  <2>2. HistoryOK'
    BY <1>17, BoundsAssumption DEF StartGc, HistoryOK, Edit
  <2> QED
    BY <1>17, <2>1, <2>2, Frames DEF StartGc
<1>18. ASSUME NEW from, NEW to \in Phases, GcFetch(from, to) PROVE Typed'
  <2>1. RunOK'
    BY <1>18, EndRunTyped DEF GcFetch, Stop, RunOK, Phases
  <2>2. UploadOK'
    <3> DEFINE f == FetchManifest(canonical # "absent")
    <3>1. f.status = "ok" => f.manifest \in Manifests
      BY FetchIsManifest
    <3>2. f.status = "ok" => ShasOf(f.manifest.files) \subseteq Shas
      <4> HIDE DEF f
      <4> QED BY <3>1 DEF ShasOf, Present, Manifests, Files, Revs
    <3>3. EndRun \/ /\ f.status = "ok"
                    /\ refs' = refs \cup ShasOf(f.manifest.files)
                    /\ UNCHANGED <<tombs, todo, deferred, gone, uploadHeld>>
      BY <1>18 DEF GcFetch, Stop
    <3> HIDE DEF f
    <3> QED BY <3>2, <3>3, EndRunTyped DEF UploadOK
  <2> QED
    BY <1>18, <2>1, <2>2, Frames, EndRunTyped DEF GcFetch, Stop
<1>19. ASSUME NEW s \in Shas, GcDelete(s) PROVE Typed'
  <2>1. StoreOK'
    BY <1>19 DEF GcDelete, StoreOK
  <2> QED
    BY <1>19, <2>1, Frames DEF GcDelete
<1>20. CASE GcDone
  <2> QED
    BY <1>20, Frames, EndRunTyped DEF GcDone, Stop
<1>21. ASSUME NEW p \in Paths, Write(p) PROVE Typed'
  <2>1. UserOK'
    BY <1>21 DEF Write, UserOK
  <2>2. HistoryOK'
    BY <1>21, BoundsAssumption DEF Write, HistoryOK, Edit
  <2> QED
    BY <1>21, <2>1, <2>2, Frames DEF Write
<1>22. ASSUME NEW p \in Paths, Delete(p) PROVE Typed'
  <2>1. UserOK'
    BY <1>22 DEF Delete, UserOK
  <2>2. HistoryOK'
    BY <1>22, BoundsAssumption DEF Delete, HistoryOK, Edit
  <2> QED
    BY <1>22, <2>1, <2>2, Frames DEF Delete
<1>23. ASSUME NEW p \in Paths, NEW kind, NEW mark \in {Big, Link}, Replace(kind, p, mark) PROVE Typed'
  <2>1. UserOK'
    BY <1>23 DEF Replace, UserOK
  <2>2. HistoryOK'
    BY <1>23, BoundsAssumption DEF Replace, HistoryOK, Edit
  <2> QED
    BY <1>23, <2>1, <2>2, Frames DEF Replace
<1>24. ASSUME NEW p \in Paths, StartWriting(p) PROVE Typed'
  <2>1. UserOK'
    BY <1>24 DEF StartWriting, UserOK
  <2>2. HistoryOK'
    BY <1>24, BoundsAssumption DEF StartWriting, HistoryOK, Edit
  <2> QED
    BY <1>24, <2>1, <2>2, Frames DEF StartWriting
<1>25. ASSUME NEW p \in Paths, StopWriting(p) PROVE Typed'
  <2>1. UserOK'
    BY <1>25 DEF StopWriting, UserOK
  <2> QED
    BY <1>25, <2>1, Frames, EndRunTyped DEF StopWriting
<1>26. ASSUME NEW p \in Paths, ToggleCheckout(p) PROVE Typed'
  <2>1. UserOK'
    BY <1>26 DEF ToggleCheckout, UserOK
  <2>2. HistoryOK'
    BY <1>26, BoundsAssumption DEF ToggleCheckout, HistoryOK, Edit
  <2> QED
    BY <1>26, <2>1, <2>2, Frames DEF ToggleCheckout
<1>27. ASSUME NEW src \in Sources, Unmount(src) PROVE Typed'
  <2>1. UserOK'
    BY <1>27 DEF Unmount, UserOK
  <2>2. HistoryOK'
    BY <1>27, BoundsAssumption DEF Unmount, HistoryOK, Edit
  <2> QED
    BY <1>27, <2>1, <2>2, Frames DEF Unmount
<1>28. ASSUME NEW src \in Sources, Mount(src) PROVE Typed'
  <2>1. UserOK'
    BY <1>28 DEF Mount, UserOK
  <2> QED
    BY <1>28, <2>1, Frames DEF Mount
<1>29. CASE SelectSources
  <2>1. UserOK'
    BY <1>29 DEF SelectSources, UserOK
  <2>2. HistoryOK'
    BY <1>29, BoundsAssumption DEF SelectSources, HistoryOK, Edit
  <2> QED
    BY <1>29, <2>1, <2>2, Frames DEF SelectSources
<1>30. ASSUME NEW p \in Paths, ExcludePath(p) PROVE Typed'
  <2>1. UserOK'
    BY <1>30 DEF ExcludePath, UserOK
  <2>2. HistoryOK'
    BY <1>30, BoundsAssumption DEF ExcludePath, HistoryOK, Edit
  <2> QED
    BY <1>30, <2>1, <2>2, Frames DEF ExcludePath
<1>31. CASE Crash
  <2>1. HistoryOK'
    BY <1>31, BoundsAssumption DEF Crash, HistoryOK, Fault
  <2> QED
    BY <1>31, <2>1, Frames, EndRunTyped DEF Crash
<1>32. ASSUME NEW kind, NEW state \in {"corrupt", "absent"}, Damage(kind, state) PROVE Typed'
  <2>1. StoreOK'
    BY <1>32 DEF Damage, StoreOK
  <2>2. HistoryOK'
    BY <1>32, BoundsAssumption DEF Damage, HistoryOK, Fault
  <2> QED
    BY <1>32, <2>1, <2>2, Frames DEF Damage
<1>33. CASE Restore
  <2>1. StoreOK'
    BY <1>33 DEF Restore, StoreOK
  <2> QED
    BY <1>33, <2>1, Frames DEF Restore
<1>34. CASE Duplicate
  <2>1. StoreOK'
    BY <1>34 DEF Duplicate, StoreOK
  <2>2. FewCopies'
    BY <1>34 DEF Duplicate, FewCopies, AtMostOne
  <2>3. HistoryOK'
    BY <1>34, BoundsAssumption DEF Duplicate, HistoryOK, Fault
  <2> QED
    BY <1>34, <2>1, <2>2, <2>3, Frames DEF Duplicate
<1>35. CASE TakeCopy
  <2>1. StoreOK'
    BY <1>35 DEF TakeCopy, StoreOK
  <2>2. FewCopies'
    BY <1>35 DEF TakeCopy, FewCopies, AtMostOne
  <2>3. HistoryOK'
    BY <1>35, BoundsAssumption DEF TakeCopy, HistoryOK, Fault
  <2> QED
    BY <1>35, <2>1, <2>2, <2>3, Frames DEF TakeCopy
<1>36. CASE DeliverCopy
  <2>1. StoreOK'
    BY <1>36 DEF DeliverCopy, StoreOK
  <2>2. FewCopies'
    BY <1>36 DEF DeliverCopy, FewCopies, AtMostOne
  <2> QED
    BY <1>36, <2>1, <2>2, Frames DEF DeliverCopy
<1>37. CASE Tick
  <2>1. HistoryOK'
    BY <1>37, BoundsAssumption DEF Tick, HistoryOK, Times
  <2> QED
    BY <1>37, <2>1, Frames DEF Tick
<1> QED
  BY <1>0, <1>1, <1>2, <1>3, <1>4, <1>5, <1>6, <1>7, <1>8, <1>9, <1>10, <1>11, <1>12,
     <1>13, <1>14, <1>15, <1>16, <1>17, <1>18, <1>19, <1>20, <1>21, <1>22, <1>23, <1>24,
     <1>25, <1>26, <1>27, <1>28, <1>29, <1>30, <1>31, <1>32, <1>33, <1>34, <1>35, <1>36,
     <1>37, <1>38
  DEF Next, PushStep, GcStep, UserStep, SyncStep, GcReferences, GcRevalidate, Phases

(* Every variable keeps the kind of value the code gives it.                *)
THEOREM TypeCorrect == Spec => []TypeOK
<1>1. Typed => TypeOK
  BY DEF Typed
<1> QED BY TypedInit, TypedNext, <1>1, PTL DEF Spec
-----------------------------------------------------------------------------
(* Published blobs stay stored, as long as the sync tool leaves no conflict *)
(* copy of the manifest (with one, a late copy breaks it).  The invariant   *)
(* alone is not inductive: it needs what a push and a collection remember.  *)
Stored(f) == ShasOf(f) \subseteq blobs

NoCopies == copies = {} /\ transit = {}

(* Between runs, and before a push has read its manifest, nothing is held   *)
(* in memory that a collection could make stale.                            *)
QuietPhases == {"idle", "fetch", "gc", "gc again", "gc sweep"}
QuietMemory == pc \in QuietPhases =>
    /\ prior = NoManifest /\ remote = NoManifest
    /\ local = NoFiles /\ held = {} /\ candidates = {} /\ frozen = {}

(* A collection sweeps only once it knows every published blob.             *)
GcKnows == pc = "gc sweep" => manifest # NoManifest /\ ShasOf(manifest.files) \subseteq refs

(* What a push diffs against is stored, and so is the prior it holds and    *)
(* freezes entries from, unless it is recovering: then it holds nothing.    *)
RemoteStored == remote # NoManifest => Stored(remote.files)
PriorStored == prior # NoManifest /\ ~recovering => Stored(prior.files)
RecoveringHoldsNothing == recovering => held = {} /\ candidates = {}

(* The walk lists only files of the scope being scanned.                     *)
ListedInScope == pc = "read" => listed \subseteq Scope

(* Entries kept without an upload were published before.                    *)
KeptStored == \A p \in frozen \cup held : local[p] # Absent => local[p].sha \in blobs

(* Every entry about to be published is stored, or still to be uploaded.    *)
UploadCovers == pc = "upload" =>
    \A p \in Present(local) : local[p].sha \in blobs \/ p \in todo \cup deferred
PublishCovers == pc = "publish" => Stored(local)

StoredInv ==
    /\ PublishedBlobsStored /\ NoCopies /\ QuietMemory /\ GcKnows /\ RemoteStored
    /\ PriorStored /\ RecoveringHoldsNothing /\ ListedInScope /\ KeptStored /\ UploadCovers /\ PublishCovers

LEMMA StoredInit == Init => StoredInv
BY DEF Init, StoredInv, PublishedBlobsStored, NoCopies, QuietMemory, GcKnows, RemoteStored,
       PriorStored, RecoveringHoldsNothing, KeptStored, UploadCovers, PublishCovers, NoFiles, ListedInScope

(* What is kept by a step that takes no blob away.                          *)
LEMMA StoredFrames ==
  ASSUME blobs \subseteq blobs'
  PROVE  /\ PublishedBlobsStored /\ UNCHANGED manifest => PublishedBlobsStored'
         /\ NoCopies /\ UNCHANGED <<copies, transit>> => NoCopies'
         /\ /\ QuietMemory /\ (pc' \in QuietPhases => pc \in QuietPhases)
            /\ UNCHANGED <<prior, remote, local, held, candidates, frozen>>
            => QuietMemory'
         /\ pc' # "gc sweep" => GcKnows'
         /\ RemoteStored /\ UNCHANGED remote => RemoteStored'
         /\ PriorStored /\ UNCHANGED <<prior, recovering>> => PriorStored'
         /\ RecoveringHoldsNothing /\ UNCHANGED <<recovering, held, candidates>>
            => RecoveringHoldsNothing'
         /\ KeptStored /\ UNCHANGED <<local, held, frozen>> => KeptStored'
         /\ pc' # "read" => ListedInScope'
         /\ pc' # "upload" => UploadCovers'
         /\ pc' # "publish" => PublishCovers'
<1>1. PublishedBlobsStored /\ UNCHANGED manifest => PublishedBlobsStored'
  BY DEF PublishedBlobsStored
<1>2. NoCopies /\ UNCHANGED <<copies, transit>> => NoCopies'
  BY DEF NoCopies
<1>3. /\ QuietMemory /\ (pc' \in QuietPhases => pc \in QuietPhases)
      /\ UNCHANGED <<prior, remote, local, held, candidates, frozen>>
      => QuietMemory'
  BY DEF QuietMemory
<1>4. RemoteStored /\ UNCHANGED remote => RemoteStored'
  BY DEF RemoteStored, Stored
<1>5. PriorStored /\ UNCHANGED <<prior, recovering>> => PriorStored'
  BY DEF PriorStored, Stored
<1>6. RecoveringHoldsNothing /\ UNCHANGED <<recovering, held, candidates>>
        => RecoveringHoldsNothing'
  BY DEF RecoveringHoldsNothing
<1>7. KeptStored /\ UNCHANGED <<local, held, frozen>> => KeptStored'
  BY DEF KeptStored
<1> QED BY <1>1, <1>2, <1>3, <1>4, <1>5, <1>6, <1>7 DEF GcKnows, ListedInScope, UploadCovers, PublishCovers

(* The user, the sync tool's damage and the clock touch none of it.         *)
LEMMA StoredElsewhere ==
  ASSUME StoredInv,
         UNCHANGED <<manifest, copies, transit, blobs, pc, prior, remote, recovering, local,
                     held, candidates, frozen, todo, deferred, refs, listed,
                     rescan, avail>>
  PROVE  StoredInv'
<1>1. GcKnows' /\ ListedInScope' /\ UploadCovers' /\ PublishCovers'
  BY DEF StoredInv, GcKnows, ListedInScope, Scope, In, UploadCovers, PublishCovers, Stored
<1> QED BY <1>1, StoredFrames DEF StoredInv

(* A run that ends forgets everything that could be stale.                  *)
LEMMA StoredEndRun ==
  ASSUME StoredInv, EndRun, UNCHANGED <<manifest, blobs, transit>>, copies' \subseteq copies
  PROVE  StoredInv'
<1>1. PublishedBlobsStored' /\ NoCopies'
  BY DEF StoredInv, PublishedBlobsStored, NoCopies
<1>2. QuietMemory' /\ RemoteStored' /\ PriorStored' /\ RecoveringHoldsNothing' /\ KeptStored'
  BY DEF EndRun, QuietMemory, RemoteStored, PriorStored, RecoveringHoldsNothing, KeptStored
<1> QED BY <1>1, <1>2, StoredFrames DEF StoredInv, EndRun

(* Without conflict copies, what is fetched has the manifest's entries.     *)
LEMMA FetchIsPublished ==
  ASSUME Typed, NoCopies, NEW seen \in BOOLEAN,
         FetchManifest(seen).manifest # NoManifest \/ FetchManifest(seen).status = "ok"
  PROVE  /\ FetchManifest(seen).status = "ok" /\ manifest # NoManifest
         /\ FetchManifest(seen).manifest.files = manifest.files
<1> DEFINE f == FetchManifest(seen)
<1>1. PICK m \in Manifests, n \in Manifests :
        /\ {m, n} \subseteq copies \cup {manifest}
        /\ f.manifest = MergeManifests({m, n})
  BY FetchMerges DEF Typed
<1>2. m = manifest /\ n = manifest
  BY <1>1 DEF NoCopies
<1>3. f.manifest \in Manifests /\ manifest \in Manifests
  BY <1>1, <1>2, MergeOfTwo
<1>4. \A p \in Paths : f.manifest.files[p] = manifest.files[p]
  BY <1>1, <1>2, MergeOfTwo
<1>5. f.manifest.files = manifest.files
  <2> HIDE DEF f
  <2> QED BY <1>3, <1>4 DEF Manifests, Files
<1> QED BY <1>3, <1>5, FetchMerges, NoManifestAssumption DEF Typed

LEMMA StoredNext ==
  ASSUME "copy" \notin Menu, "late" \notin Menu, Typed, StoredInv, [Next]_vars
  PROVE  StoredInv'
<1> USE DEF vars, worldVars, runVars, diskVars, configVars, storeVars, fetchVars, scanVars,
            uploadVars, historyVars
<1> DEFINE Quiet == UNCHANGED <<prior, remote, local, held, candidates, frozen>>
<1>1. CASE StartPush
  BY <1>1, StoredFrames DEF StartPush, StoredInv, QuietPhases
<1>2. CASE FetchOwn
  <2>1. CASE EndRun
    BY <1>2, <2>1, StoredEndRun DEF FetchOwn, Stop
  <2>2. CASE ~EndRun
    <3> DEFINE f == FetchManifest(saw)
    <3>1. /\ pc = "fetch" /\ pc' = "list"
          /\ prior' = RecoverPrior(f) /\ remote' = f.manifest
          /\ recovering' = (f.status = "corrupt" \/ f.copiesOnly \/ f.vanished)
          /\ UNCHANGED <<manifest, copies, transit, blobs, local, held, candidates, frozen>>
      BY <1>2, <2>2 DEF FetchOwn, Stop
    <3>2. saw \in BOOLEAN
      BY DEF Typed, TypeOK, RunOK
    <3>3. f.manifest # NoManifest \/ f.status = "ok"
             => f.manifest.files = manifest.files /\ manifest # NoManifest
      BY <3>2, FetchIsPublished DEF StoredInv
    <3>4. RemoteStored'
      BY <3>1, <3>3 DEF RemoteStored, Stored, StoredInv, PublishedBlobsStored
    <3>5. PriorStored'
      <4>1. f.status \in {"ok", "corrupt", "missing"}
        BY DEF FetchManifest
      <4>2. CASE recovering'
        BY <4>2 DEF PriorStored
      <4>3. CASE ~recovering'
        <5>1. prior' = NoManifest \/ (prior' = f.manifest /\ f.status = "ok")
          <6>1. ~f.copiesOnly /\ ~f.vanished /\ f.status # "corrupt"
            BY <3>1, <4>3
          <6> HIDE DEF f
          <6> QED BY <3>1, <4>1, <6>1 DEF RecoverPrior
        <5> QED BY <3>1, <3>3, <5>1 DEF PriorStored, Stored, StoredInv, PublishedBlobsStored
      <4> QED BY <4>2, <4>3
    <3>6. RecoveringHoldsNothing' /\ KeptStored'
      BY <3>1 DEF StoredInv, QuietMemory, QuietPhases, RecoveringHoldsNothing, KeptStored
    <3>7. QuietMemory'
      BY <3>1 DEF QuietMemory, QuietPhases
    <3> QED BY <3>1, <3>4, <3>5, <3>6, <3>7, StoredFrames DEF StoredInv
  <2> QED BY <2>1, <2>2
<1>3. CASE ListFiles
  <2>1. ListedInScope'
    BY <1>3 DEF ListFiles, ListedInScope, Scope, In
  <2> QED BY <1>3, <2>1, StoredFrames DEF ListFiles, StoredInv, QuietPhases
<1>4. CASE ReadFiles
  <2>1. CASE EndRun
    BY <1>4, <2>1, StoredEndRun DEF ReadFiles, Stop
  <2>2. CASE ~EndRun
    <3>1. PICK moving \in SUBSET listed, candidate \in SUBSET listed :
            LET vanished == {p \in listed : Look(p) = Absent}
                read == {p \in listed \ moving : Look(p) \in Revs}
                again == Carried(read)
            IN /\ recovering => moving \cup vanished = {}
               /\ candidate \subseteq vanished
               /\ pc' = "filter"
               /\ local' = [p \in Paths |-> IF p \in read THEN disk[p]
                                            ELSE IF p \in Scope \ again THEN Absent
                                            ELSE local[p]]
               /\ frozen' = (frozen \ Scope) \cup again
               /\ held' = (held \ Scope) \cup moving \cup (vanished \ candidate)
               /\ candidates' = candidate
      BY ZenonT(60), <1>4, <2>2 DEF ReadFiles, Stop
    <3> DEFINE vanished == {p \in listed : Look(p) = Absent}
               read == {p \in listed \ moving : Look(p) \in Revs}
    <3>2. UNCHANGED <<manifest, copies, transit, blobs, prior, remote, recovering>>
      BY <1>4, <2>2 DEF ReadFiles, Stop
    <3>3. RecoveringHoldsNothing'
      BY <3>1, <3>2 DEF StoredInv, RecoveringHoldsNothing
    <3>4. KeptStored'
      <4> SUFFICES ASSUME NEW p \in frozen' \cup held', local'[p] # Absent
                   PROVE  local'[p].sha \in blobs'
        BY DEF KeptStored
      <4>1. p \in Paths
        BY <3>1 DEF Typed, TypeOK, ScanOK, Carried, Scope, In
      <4>2. listed \subseteq Scope
        BY <1>4 DEF ReadFiles, StoredInv, ListedInScope
      <4>3. p \notin read
        BY <3>1, <4>2, MarksAssumption DEF Carried
      <4> DEFINE again == Carried(read)
      <4>4. again \subseteq Scope /\ again \subseteq frozen \cup held
        BY DEF Carried
      <4>5. p \in Scope => p \in again
        BY <3>1, <4>1, <4>3
      <4>6. p \notin Scope => p \in frozen \cup held
        BY <3>1, <4>2, <4>4
      <4>7. p \in frozen \cup held /\ local'[p] = local[p]
        BY <3>1, <4>1, <4>3, <4>4, <4>5, <4>6
      <4> QED BY <3>2, <4>7 DEF StoredInv, KeptStored
    <3>5. QuietMemory'
      BY <3>1 DEF QuietMemory, QuietPhases
    <3> QED BY <3>1, <3>2, <3>3, <3>4, <3>5, StoredFrames DEF StoredInv
  <2> QED BY <2>1, <2>2
<1>5. CASE FilterPrior
  <2>0. /\ pc' = "inject"
        /\ UNCHANGED <<manifest, copies, transit, blobs, remote, recovering, held, candidates>>
    BY <1>5 DEF FilterPrior
  <2>1. CASE prior = NoManifest \/ rescan
    <3>1. UNCHANGED <<prior, local, frozen>>
      BY <1>5, <2>1 DEF FilterPrior
    <3> QED BY <2>0, <3>1, StoredFrames DEF StoredInv, QuietPhases
  <2>2. CASE ~(prior = NoManifest \/ rescan)
    <3> DEFINE dropped == (Paths \ Eligible) \cup Linked \cup (checkouts \ Stays)
               forgotten == [p \in Paths |-> IF p \in Forgotten(Linked)
                                             THEN 0 ELSE prior.tombs[p]]
    <3>1. /\ frozen' = Stays
          /\ local' = [p \in Paths |-> IF p \in Stays THEN prior.files[p] ELSE local[p]]
          /\ prior' = [prior EXCEPT !.files = Cleared(dropped, prior.files),
                                    !.tombs = forgotten]
      BY <1>5, <2>2 DEF FilterPrior
    <3>2. prior \in Manifests
      BY <2>2 DEF Typed, TypeOK, RunOK
    <3>3. \A p \in Paths : prior'.files[p] \in {Absent, prior.files[p]}
      <4> HIDE DEF dropped, forgotten
      <4> QED BY <3>1, <3>2 DEF Manifests, Cleared
    <3>4. PriorStored'
      BY <2>0, <2>2, <3>3 DEF StoredInv, PriorStored, Stored, ShasOf, Present
    <3>5. KeptStored'
      <4> SUFFICES ASSUME NEW p \in frozen' \cup held', local'[p] # Absent
                   PROVE  local'[p].sha \in blobs'
        BY DEF KeptStored
      <4>1. p \in Paths
        BY <2>0, <3>1 DEF Typed, TypeOK, ScanOK, Stays
      <4>2. CASE p \in Stays
        <5>1. local'[p] = prior.files[p]
          BY <3>1, <4>1, <4>2
        <5>2. prior.files[p].sha \in blobs
          <6>1. p \in Present(prior.files) /\ (recovering => prior.files[p].sha \in blobs)
            BY <4>1, <4>2 DEF Stays, Present, Typed, TypeOK, RunOK
          <6>2. ~recovering => ShasOf(prior.files) \subseteq blobs
            BY <2>2 DEF StoredInv, PriorStored, Stored
          <6> QED BY <6>1, <6>2 DEF ShasOf
        <5> QED BY <2>0, <5>1, <5>2
      <4>3. CASE p \notin Stays
        BY <2>0, <3>1, <4>1, <4>3 DEF StoredInv, KeptStored
      <4> QED BY <4>2, <4>3
    <3> QED BY <2>0, <3>4, <3>5, StoredFrames DEF StoredInv, QuietMemory, QuietPhases
  <2> QED BY <2>1, <2>2
<1>6. CASE InjectHeld
  <2>1. CASE EndRun
    BY <1>6, <2>1, StoredEndRun DEF InjectHeld, Stop
  <2>2. CASE ~EndRun
    <3> DEFINE waiting == {p \in (held \cap Scope) \cup candidates :
                             /\ local[p] = Absent /\ p \notin frozen
                             /\ prior # NoManifest => prior.tombs[p] = 0}
    <3>1. /\ pc' = "prove"
          /\ held' = (held \ Scope) \cup waiting
          /\ local' = [p \in Paths |-> IF p \in waiting /\ prior # NoManifest
                                       THEN prior.files[p] ELSE local[p]]
          /\ candidates' = {}
          /\ UNCHANGED <<manifest, copies, transit, blobs, prior, remote, recovering, frozen>>
      BY <1>6, <2>2 DEF InjectHeld, Stop
    <3>2. RecoveringHoldsNothing'
      BY <3>1 DEF StoredInv, RecoveringHoldsNothing
    <3>3. KeptStored'
      <4> SUFFICES ASSUME NEW p \in frozen' \cup held', local'[p] # Absent
                   PROVE  local'[p].sha \in blobs'
        BY DEF KeptStored
      <4>1. p \in Paths
        BY <3>1 DEF Typed, TypeOK, ScanOK
      <4>2. CASE p \in waiting
        <5>1. prior # NoManifest /\ local'[p] = prior.files[p]
          BY <3>1, <4>1, <4>2
        <5>2. ~recovering
          BY <4>2 DEF StoredInv, RecoveringHoldsNothing
        <5> QED BY <3>1, <4>1, <5>1, <5>2
                DEF StoredInv, PriorStored, Stored, ShasOf, Present
      <4>3. CASE p \notin waiting
        BY <3>1, <4>1, <4>3 DEF StoredInv, KeptStored
      <4> QED BY <4>2, <4>3
    <3> QED BY <3>1, <3>2, <3>3, StoredFrames DEF StoredInv, QuietMemory, QuietPhases
  <2> QED BY <2>1, <2>2
<1>7. CASE ProveRoots
  <2>1. CASE EndRun
    BY <1>7, <2>1, StoredEndRun DEF ProveRoots, Stop
  <2>2. CASE ~EndRun
    BY <1>7, <2>2, StoredFrames DEF ProveRoots, Stop, StoredInv, QuietPhases
  <2> QED BY <2>1, <2>2
<1>8. CASE Decide
  <2>1. CASE EndRun
    BY <1>8, <2>1, StoredEndRun DEF Decide, Stop
  <2>2. CASE ~EndRun
    <3>1. /\ pc' = "list" \/ /\ pc' = "upload"
                             /\ todo' = Changed(local) \ (frozen \cup held)
          /\ UNCHANGED <<manifest, copies, transit, blobs, prior, remote, recovering, local,
                         held, candidates, frozen, deferred>>
      BY <1>8, <2>2 DEF Decide, Stop
    <3>2. UploadCovers'
      <4> SUFFICES ASSUME pc' = "upload", NEW p \in Present(local)
                   PROVE  local[p].sha \in blobs \/ p \in todo'
        BY <3>1 DEF UploadCovers, Present
      <4>1. CASE p \in Changed(local)
        BY <3>1, <4>1 DEF StoredInv, KeptStored, Present
      <4>2. CASE p \notin Changed(local)
        <5>1. RemoteFiles[p] # Absent /\ local[p].sha = RemoteFiles[p].sha
          BY <4>2 DEF Changed
        <5>2. remote # NoManifest /\ RemoteFiles = remote.files
          BY <5>1 DEF RemoteFiles, NoFiles, Present
        <5> QED BY <5>1, <5>2 DEF StoredInv, RemoteStored, Stored, ShasOf, Present
      <4> QED BY <4>1, <4>2
    <3> QED BY <3>1, <3>2, StoredFrames DEF StoredInv, QuietPhases
  <2> QED BY <2>1, <2>2
<1>9. ASSUME NEW p \in Paths, UploadOrDefer(p) PROVE StoredInv'
  <2>1. /\ pc = "upload" /\ pc' = "upload"
        /\ blobs \subseteq blobs'
        /\ (local[p].sha \in blobs' /\ UNCHANGED deferred) \/ deferred' = deferred \cup {p}
        /\ todo' = todo \ {p}
        /\ UNCHANGED <<manifest, copies, transit, prior, remote, recovering, local, held,
                       candidates, frozen>>
    BY <1>9 DEF UploadOrDefer
  <2>2. UploadCovers'
    BY <2>1 DEF StoredInv, UploadCovers, Present
  <2> QED BY <2>1, <2>2, StoredFrames DEF StoredInv, QuietPhases
<1>10. ASSUME NEW p \in Paths, UploadSettled(p) PROVE StoredInv'
  <2>1. /\ pc = "upload" /\ pc' = "upload"
        /\ blobs' = blobs \cup {disk[p].sha}
        /\ local' = [local EXCEPT ![p] = disk[p]]
        /\ deferred' = deferred \ {p}
        /\ UNCHANGED <<manifest, copies, transit, prior, remote, recovering, held, candidates,
                       frozen, todo>>
    BY <1>10 DEF UploadSettled
  <2>2. local \in Files
    BY DEF Typed, TypeOK, ScanOK
  <2>3. local'[p].sha \in blobs' /\ \A q \in Paths \ {p} : local'[q] = local[q]
    BY <2>1, <2>2 DEF Files
  <2>4. KeptStored'
    BY <2>1, <2>3 DEF StoredInv, KeptStored, Typed, TypeOK, ScanOK
  <2>5. UploadCovers'
    BY <2>1, <2>3 DEF StoredInv, UploadCovers, Present
  <2> QED BY <2>1, <2>4, <2>5, StoredFrames DEF StoredInv, QuietMemory, QuietPhases
<1>11. ASSUME NEW p \in Paths, UploadHold(p) PROVE StoredInv'
  <2>1. CASE EndRun
    BY <1>11, <2>1, StoredEndRun DEF UploadHold, Stop
  <2>2. CASE ~EndRun
    <3>1. /\ pc = "upload" /\ pc' = "upload" /\ ~recovering
          /\ local' = [local EXCEPT ![p] = HoldEntry(p)]
          /\ held' \subseteq held \cup {p}
          /\ deferred' = deferred \ {p}
          /\ UNCHANGED <<manifest, copies, transit, blobs, prior, remote, recovering,
                         candidates, frozen, todo>>
      BY <1>11, <2>2 DEF UploadHold, Stop
    <3>2. local \in Files
      BY DEF Typed, TypeOK, ScanOK
    <3>3. HoldEntry(p) # Absent => HoldEntry(p).sha \in blobs
      <4>1. HoldEntry(p) # Absent => remote # NoManifest /\ HoldEntry(p) = remote.files[p]
        BY DEF HoldEntry, RemoteFiles, NoFiles
      <4> QED BY <4>1 DEF StoredInv, RemoteStored, Stored, ShasOf, Present
    <3>4. /\ local'[p] # Absent => local'[p].sha \in blobs'
          /\ \A q \in Paths \ {p} : local'[q] = local[q]
      BY <3>1, <3>2, <3>3 DEF Files
    <3>5. KeptStored'
      BY <3>1, <3>4 DEF StoredInv, KeptStored, Typed, TypeOK, ScanOK
    <3>6. UploadCovers'
      BY <3>1, <3>4 DEF StoredInv, UploadCovers, Present
    <3>7. RecoveringHoldsNothing'
      BY <3>1 DEF RecoveringHoldsNothing
    <3> QED BY <3>1, <3>5, <3>6, <3>7, StoredFrames DEF StoredInv, QuietMemory, QuietPhases
  <2> QED BY <2>1, <2>2
<1>12. ASSUME NEW p \in Paths, UploadRefused(p) PROVE StoredInv'
  BY <1>12, StoredEndRun DEF UploadRefused, Stop
<1>13. CASE FinishUpload
  <2>1. /\ pc = "upload" /\ todo = {} /\ deferred = {} /\ pc' = "publish"
        /\ UNCHANGED <<manifest, copies, transit, blobs, prior, remote, recovering, local,
                       held, candidates, frozen>>
    BY <1>13 DEF FinishUpload
  <2>2. PublishCovers'
    BY <2>1 DEF StoredInv, UploadCovers, PublishCovers, Stored, ShasOf
  <2> QED BY <2>1, <2>2, StoredFrames DEF StoredInv, QuietPhases
<1>25. CASE ProveUploaded
  BY <1>25, StoredEndRun, StoredElsewhere DEF ProveUploaded, Stop
<1>14. CASE PutManifest
  <2>1. /\ pc = "publish" /\ pc' = "sidecar"
        /\ manifest'.files = local
        /\ UNCHANGED <<copies, transit, blobs, prior, remote, recovering, local, held,
                       candidates, frozen>>
    BY <1>14 DEF PutManifest
  <2>2. PublishedBlobsStored'
    BY <2>1 DEF StoredInv, PublishCovers, Stored, PublishedBlobsStored
  <2> QED BY <2>1, <2>2, StoredFrames DEF StoredInv, QuietPhases
<1>15. CASE WriteSidecar
  BY <1>15, StoredFrames DEF WriteSidecar, StoredInv, QuietPhases
<1>16. CASE CleanupCopies
  BY <1>16, StoredEndRun DEF CleanupCopies
<1>17. CASE StartGc
  BY <1>17, StoredFrames DEF StartGc, StoredInv, QuietPhases
<1>18. ASSUME NEW from \in {"gc", "gc again"}, NEW to \in {"gc again", "gc sweep"},
              GcFetch(from, to)
       PROVE  StoredInv'
  <2>1. CASE EndRun
    BY <1>18, <2>1, StoredEndRun DEF GcFetch, Stop
  <2>2. CASE ~EndRun
    <3> DEFINE f == FetchManifest(canonical # "absent")
    <3>1. /\ pc = from /\ pc' = to /\ f.status = "ok"
          /\ refs' = refs \cup ShasOf(f.manifest.files)
          /\ UNCHANGED <<manifest, copies, transit, blobs, prior, remote, recovering, local,
                         held, candidates, frozen>>
      BY <1>18, <2>2 DEF GcFetch, Stop
    <3>2. manifest # NoManifest /\ f.manifest.files = manifest.files
      BY <3>1, FetchIsPublished DEF StoredInv
    <3>3. GcKnows'
      <4> HIDE DEF f
      <4> QED BY <3>1, <3>2 DEF GcKnows
    <3> HIDE DEF f
    <3> QED BY <3>1, <3>3, StoredFrames DEF StoredInv, QuietPhases
  <2> QED BY <2>1, <2>2
<1>19. ASSUME NEW s \in Shas, GcDelete(s) PROVE StoredInv'
  <2>1. /\ pc = "gc sweep" /\ s \notin refs /\ blobs' = blobs \ {s}
        /\ UNCHANGED <<pc, manifest, copies, transit, prior, remote, recovering, local, held,
                       candidates, frozen, refs>>
    BY <1>19 DEF GcDelete
  <2>2. PublishedBlobsStored' /\ GcKnows'
    BY <2>1 DEF StoredInv, PublishedBlobsStored, GcKnows
  <2>3. /\ prior = NoManifest /\ remote = NoManifest
        /\ held = {} /\ candidates = {} /\ frozen = {}
    BY <2>1 DEF StoredInv, QuietMemory, QuietPhases
  <2>4. QuietMemory' /\ RemoteStored' /\ PriorStored' /\ RecoveringHoldsNothing' /\ KeptStored'
    BY <2>1, <2>3 DEF StoredInv, QuietMemory, RemoteStored, PriorStored,
                      RecoveringHoldsNothing, KeptStored
  <2>5. NoCopies' /\ ListedInScope' /\ UploadCovers' /\ PublishCovers'
    BY <2>1 DEF StoredInv, NoCopies, ListedInScope, UploadCovers, PublishCovers
  <2> QED BY <2>2, <2>4, <2>5 DEF StoredInv
<1>20. CASE GcDone
  BY <1>20, StoredEndRun DEF GcDone, Stop
<1>21. CASE Crash
  BY <1>21, StoredEndRun DEF Crash
<1>22. CASE UserStep
  BY <1>22, StoredElsewhere DEF UserStep, SelectSources, Unmount, Mount, Write, Delete,
       StartWriting, StopWriting, Replace, ToggleCheckout, ExcludePath
<1>23. CASE SyncStep
  <2>1. ~Duplicate /\ ~TakeCopy /\ ~DeliverCopy
    BY DEF Duplicate, TakeCopy, DeliverCopy, Fault, StoredInv, NoCopies
  <2> QED BY <1>23, <2>1, StoredElsewhere DEF SyncStep, Damage, Restore
<1>24. CASE Tick \/ UNCHANGED vars
  BY <1>24, StoredElsewhere DEF Tick
<1> QED
  BY <1>1, <1>2, <1>3, <1>4, <1>5, <1>6, <1>7, <1>8, <1>9, <1>10, <1>11, <1>12, <1>13, <1>14,
     <1>15, <1>16, <1>17, <1>18, <1>19, <1>20, <1>21, <1>22, <1>23, <1>24, <1>25
  DEF Next, PushStep, GcStep, GcReferences, GcRevalidate

(* Without conflict copies, every entry of the accepted manifest names a    *)
(* blob that is stored, at every step of pushes, collections and crashes.   *)
THEOREM BlobsStored ==
  ASSUME "copy" \notin Menu, "late" \notin Menu
  PROVE  Spec => []PublishedBlobsStored
<1>1. Typed /\ StoredInv /\ [Next]_vars => StoredInv'
  BY StoredNext
<1>2. StoredInv => PublishedBlobsStored
  BY DEF StoredInv
<1> QED BY TypedInit, TypedNext, StoredInit, <1>1, <1>2, PTL DEF Spec
-----------------------------------------------------------------------------
(* A collection takes only orphans, whatever conflict copies the sync tool  *)
(* leaves: a copy is never newer than the accepted manifest (it was taken   *)
(* of this one or of an earlier one), so merging it takes no entry of the   *)
(* manifest away; what gc read once it keeps until it has swept, and the    *)
(* lock keeps a push from replacing the manifest meanwhile.                 *)
CopiesOlder == \A c \in copies \cup transit :
    /\ manifest # NoManifest /\ c.ts <= manifest.ts
    /\ c.ts = manifest.ts => c = manifest
GcReadAll == pc \in {"gc again", "gc sweep"} =>
    manifest # NoManifest /\ ShasOf(manifest.files) \subseteq refs

OrphansInv == CopiesOlder /\ GcReadAll

(* Merged with older variants, a manifest keeps every entry it has.         *)
LEMMA MergeKeepsNewest ==
  ASSUME NEW m \in Manifests, NEW C \in SUBSET Manifests,
         \A c \in C : c.ts <= m.ts /\ (c.ts = m.ts => c = m),
         NEW p \in Paths, m.files[p] # Absent
  PROVE  MergeManifests({m} \cup C).files[p] = m.files[p]
<1> DEFINE R == {m} \cup C
           having == {k \in R : k.files[p] # Absent}
<1>1. MergeManifests(R).files[p] = IF having = {} THEN Absent ELSE Newest(having).files[p]
  BY DEF MergeManifests
<1>2. m \in having
  OBVIOUS
<1>3. \A k \in having : k.ts \in Nat /\ k.ts <= m.ts /\ (k.ts = m.ts => k = m)
  BY DEF Manifests
<1>4. \A n \in having : n.ts <= m.ts
  BY <1>3
<1>5. Newest(having) \in having /\ \A n \in having : n.ts <= Newest(having).ts
  <2> HIDE DEF having
  <2> QED BY <1>2, <1>4 DEF Newest
<1>6. Newest(having) = m
  <2> HIDE DEF having
  <2>1. m.ts <= Newest(having).ts
    BY <1>2, <1>5
  <2> QED BY <1>2, <1>3, <1>5, <2>1
<1> QED BY <1>1, <1>2, <1>6

(* What gc reads names every blob of the accepted manifest, or gc stops.    *)
LEMMA GcReadsManifest ==
  ASSUME TypeOK, CopiesOlder, NEW seen \in BOOLEAN,
         FetchManifest(seen).status = "ok", ~FetchManifest(seen).copiesOnly
  PROVE  /\ manifest # NoManifest
         /\ ShasOf(manifest.files) \subseteq ShasOf(FetchManifest(seen).manifest.files)
<1> DEFINE main == IF seen /\ canonical = "ok" THEN {manifest} ELSE {}
           readable == main \cup copies
<1>1. readable # {} /\ main # {}
  BY DEF FetchManifest
<1>2. main = {manifest} /\ manifest \in Manifests /\ manifest # NoManifest
  BY <1>1, NoManifestAssumption DEF TypeOK, StoreOK
<1>3. FetchManifest(seen).manifest = MergeManifests({manifest} \cup copies)
  BY <1>1, <1>2 DEF FetchManifest
<1>4. copies \in SUBSET Manifests /\ \A c \in copies :
        c.ts <= manifest.ts /\ (c.ts = manifest.ts => c = manifest)
  BY DEF TypeOK, StoreOK, CopiesOlder
<1>5. \A p \in Present(manifest.files) :
        FetchManifest(seen).manifest.files[p] = manifest.files[p]
  BY ZenonT(60), <1>2, <1>3, <1>4, MergeKeepsNewest DEF Present
<1> HIDE DEF main, readable
<1> QED BY <1>2, <1>5 DEF ShasOf, Present

(* A step that leaves the store's manifests and gc's references alone.      *)
LEMMA OrphansElsewhere ==
  ASSUME OrphansInv, UNCHANGED manifest, copies' \cup transit' \subseteq copies \cup transit,
         pc' \in {"gc again", "gc sweep"} => UNCHANGED <<pc, refs>>
  PROVE  OrphansInv'
BY DEF OrphansInv, CopiesOlder, GcReadAll

LEMMA OrphansInit == Init => OrphansInv
BY DEF Init, OrphansInv, CopiesOlder, GcReadAll

LEMMA OrphansNext == Typed /\ OrphansInv /\ [Next]_vars => OrphansInv'
<1> SUFFICES ASSUME Typed, OrphansInv, [Next]_vars PROVE OrphansInv'
  OBVIOUS
<1> USE DEF vars, worldVars, runVars, diskVars, configVars, storeVars, fetchVars, scanVars,
            uploadVars, historyVars
<1>1. CASE StartPush \/ FetchOwn \/ ListFiles \/ ReadFiles \/ FilterPrior
  BY <1>1, OrphansElsewhere
  DEF StartPush, FetchOwn, ListFiles, ReadFiles, FilterPrior, Stop, EndRun
<1>2. CASE InjectHeld \/ ProveRoots \/ Decide
  BY <1>2, OrphansElsewhere DEF InjectHeld, ProveRoots, Decide, Stop, EndRun
<1>3. CASE \E p \in Paths : UploadOrDefer(p) \/ UploadSettled(p)
  BY <1>3, OrphansElsewhere DEF UploadOrDefer, UploadSettled
<1>4. CASE \E p \in Paths : UploadHold(p) \/ UploadRefused(p)
  BY <1>4, OrphansElsewhere DEF UploadHold, UploadRefused, Stop, EndRun
<1>5. CASE ProveUploaded \/ FinishUpload \/ WriteSidecar \/ CleanupCopies
  BY <1>5, OrphansElsewhere DEF ProveUploaded, FinishUpload, WriteSidecar, CleanupCopies, Stop, EndRun
<1>6. CASE PutManifest
  <2>1. /\ pc' = "sidecar" /\ UNCHANGED <<copies, transit>>
        /\ manifest' = [files |-> local, tombs |-> tombs, srcs |-> avail,
                        ts |-> IF manifest = NoManifest THEN 1 ELSE manifest.ts + 1]
    BY <1>6 DEF PutManifest
  <2>2. manifest' \in Manifests
    <3>1. manifest' \in Manifests \cup {NoManifest} /\ local \in Files
      BY TypedNext DEF Typed, TypeOK, StoreOK, ScanOK
    <3>2. manifest # NoManifest => manifest.ts \in Nat
      BY DEF Typed, TypeOK, StoreOK, Manifests
    <3> QED BY <2>1, <3>1, <3>2 DEF Typed, TypeOK, RunOK, UploadOK, Manifests
  <2>3. \A c \in copies \cup transit : c.ts \in Nat /\ manifest.ts \in Nat /\ c.ts <= manifest.ts
    BY DEF OrphansInv, CopiesOlder, Typed, TypeOK, StoreOK, Manifests
  <2>4. \A c \in copies \cup transit : c.ts < manifest'.ts
    BY <2>1, <2>3 DEF OrphansInv, CopiesOlder
  <2>5. CopiesOlder'
    BY <2>1, <2>2, <2>3, <2>4, NoManifestAssumption DEF CopiesOlder
  <2> QED BY <2>1, <2>5 DEF OrphansInv, GcReadAll
<1>7. CASE StartGc \/ GcDone \/ Crash \/ (\E s \in Shas : GcDelete(s))
  BY <1>7, OrphansElsewhere DEF StartGc, GcDone, Crash, GcDelete, Stop, EndRun
<1>8. ASSUME NEW from, NEW to, GcFetch(from, to)
      PROVE  OrphansInv'
  <2>1. CASE EndRun
    BY <1>8, <2>1, OrphansElsewhere DEF GcFetch, Stop, EndRun
  <2>2. CASE ~EndRun
    <3> DEFINE f == FetchManifest(canonical # "absent")
    <3>1. /\ f.status = "ok" /\ ~f.copiesOnly
          /\ refs' = refs \cup ShasOf(f.manifest.files)
          /\ UNCHANGED <<manifest, copies, transit>>
      BY <1>8, <2>2 DEF GcFetch, Stop
    <3>2. manifest # NoManifest /\ ShasOf(manifest.files) \subseteq ShasOf(f.manifest.files)
      BY <3>1, GcReadsManifest DEF Typed, OrphansInv
    <3> HIDE DEF f
    <3>3. GcReadAll'
      BY <3>1, <3>2 DEF GcReadAll, ShasOf, Present
    <3> QED BY <3>1, <3>3 DEF OrphansInv, CopiesOlder
  <2> QED BY <2>1, <2>2
<1>9. CASE GcReferences \/ GcRevalidate
  BY <1>8, <1>9 DEF GcReferences, GcRevalidate
<1>10. CASE UserStep
  BY <1>10, OrphansElsewhere DEF UserStep, SelectSources, Unmount, Mount, Write, Delete,
       StartWriting, StopWriting, Replace, ToggleCheckout, ExcludePath
<1>11. CASE Damage("corrupt", "corrupt") \/ Damage("vanish", "absent") \/ Restore \/ DeliverCopy
  BY <1>11, OrphansElsewhere DEF Damage, Restore, DeliverCopy
<1>12. CASE Duplicate \/ TakeCopy
  <2>1. canonical = "ok" /\ manifest \in Manifests /\ manifest # NoManifest
    BY <1>12, NoManifestAssumption DEF Duplicate, TakeCopy, Typed, TypeOK, StoreOK
  <2>2. manifest.ts <= manifest.ts
    BY <2>1 DEF Manifests
  <2>3. CopiesOlder'
    BY <1>12, <2>1, <2>2 DEF Duplicate, TakeCopy, OrphansInv, CopiesOlder
  <2> QED BY <1>12, <2>3 DEF Duplicate, TakeCopy, OrphansInv, GcReadAll
<1>13. CASE Tick \/ UNCHANGED vars
  BY <1>13, OrphansElsewhere DEF Tick
<1> QED
  BY <1>1, <1>2, <1>3, <1>4, <1>5, <1>6, <1>7, <1>9, <1>10, <1>11, <1>12, <1>13
  DEF Next, PushStep, GcStep, SyncStep

(* Only GcDelete takes a blob away.                                         *)
LEMMA OnlyGcTakesBlobs ==
  ASSUME [Next]_vars, NEW s \in blobs \ blobs'
  PROVE  \E t \in Shas : GcDelete(t)
<1> USE DEF vars, worldVars, runVars, diskVars, configVars, storeVars, fetchVars, scanVars,
            uploadVars, historyVars
<1>1. ~StartPush /\ ~FetchOwn /\ ~ListFiles /\ ~ReadFiles /\ ~FilterPrior
  BY DEF StartPush, FetchOwn, ListFiles, ReadFiles, FilterPrior, Stop, EndRun
<1>2. ~InjectHeld /\ ~ProveRoots /\ ~Decide /\ ~ProveUploaded /\ ~FinishUpload
  BY DEF InjectHeld, ProveRoots, Decide, ProveUploaded, FinishUpload, Stop, EndRun
<1>3. ~PutManifest /\ ~WriteSidecar /\ ~CleanupCopies
  BY DEF PutManifest, WriteSidecar, CleanupCopies, EndRun
<1>4. \A p \in Paths : ~UploadOrDefer(p) /\ ~UploadSettled(p)
  BY DEF UploadOrDefer, UploadSettled
<1>5. \A p \in Paths : ~UploadHold(p) /\ ~UploadRefused(p)
  BY DEF UploadHold, UploadRefused, Stop, EndRun
<1>6. ~StartGc /\ ~GcReferences /\ ~GcRevalidate /\ ~GcDone /\ ~Crash
  BY DEF StartGc, GcReferences, GcRevalidate, GcFetch, GcDone, Crash, Stop, EndRun
<1>7. ~UserStep
  BY DEF UserStep, SelectSources, Unmount, Mount, Write, Delete, StartWriting, StopWriting,
         Replace, ToggleCheckout, ExcludePath
<1>8. ~SyncStep /\ ~Tick /\ ~UNCHANGED vars
  BY DEF SyncStep, Damage, Restore, Duplicate, TakeCopy, DeliverCopy, Tick
<1> QED BY <1>1, <1>2, <1>3, <1>4, <1>5, <1>6, <1>7, <1>8 DEF Next, PushStep, GcStep

(* mm gc never removes a blob of the accepted manifest, however pushes,     *)
(* collections, crashes and late conflict copies follow one another.        *)
THEOREM GcTakesOrphans == Spec => CollectsOnlyOrphans
<1>1. ASSUME OrphansInv, [Next]_vars, NEW s \in blobs \ blobs'
      PROVE  s \notin ShasOf(manifest.files)
  <2>1. PICK t \in Shas : GcDelete(t)
    BY <1>1, OnlyGcTakesBlobs
  <2> QED BY <1>1, <2>1 DEF GcDelete, OrphansInv, GcReadAll
<1>2. OrphansInv /\ [Next]_vars => [\A s \in blobs \ blobs' : s \notin ShasOf(manifest.files)]_vars
  BY <1>1
<1> QED
  BY TypedInit, TypedNext, OrphansInit, OrphansNext, <1>2, PTL DEF Spec, CollectsOnlyOrphans
-----------------------------------------------------------------------------

(* From the moment a push has read its manifest until the next one stands.  *)
InRun == pc \in {"list", "read", "filter", "inject", "prove", "decide", "upload", "publish"}

Walking == pc \in {"list", "read", "filter", "inject", "prove", "decide"}
Filtered == pc \in {"inject", "prove", "decide", "upload"}

(* The runs the two properties speak of: they found the accepted manifest,  *)
(* or recovered it from a sidecar that is not out of date.                  *)
Knows == manifest # NoManifest /\ saw /\ (recovering => sidecar = manifest)

(* What the histories remember of the user's files.                         *)
LinksAreAway == \A p \in Paths : disk[p] = Link => p \in away
FilesAreBack == \A p \in Paths : disk[p] \in Revs => p \in backSince

(* A run starts from nothing, walks what is selected, and holds only what   *)
(* it walked; a file being uploaded is not one it holds.                    *)
FreshRun == pc \in {"idle", "fetch"} \/ (pc = "list" /\ ~rescan) =>
    /\ ~rescan /\ local = NoFiles /\ held = {} /\ candidates = {} /\ frozen = {}
    /\ checkouts = {}
FirstScan == ~rescan /\ pc \in {"read", "filter"} =>
    /\ held \subseteq Scope
    /\ \A p \in checkouts : local[p] = Absent /\ (pc = "read" => p \notin listed)
    /\ pc = "read" => local = NoFiles /\ held = {} /\ frozen = {}
WalkScope ==
    /\ pc = "fetch" \/ InRun => avail \subseteq selected
    /\ pc = "read" => listed \subseteq Scope \ excluded
    /\ Walking => held \cup candidates \subseteq In(avail) \ excluded
UploadScope ==
    /\ pc # "upload" => todo = {} /\ deferred = {}
    /\ (todo \cup deferred) \cap held = {}
    /\ todo \cup deferred \subseteq Present(local)

(* An excluded path loses its deletion record with the first manifest that  *)
(* is accepted after it was excluded.                                       *)
ExcludedSilent ==
    /\ manifest # NoManifest => \A p \in excluded \ away : manifest.tombs[p] = 0
    /\ prior # NoManifest /\ (Filtered \/ (rescan /\ pc \in {"list", "read", "filter"}))
         => \A p \in excluded : prior.tombs[p] = 0 /\ prior.files[p] = Absent
    /\ pc \in {"upload", "publish"} => \A p \in excluded : tombs[p] = 0

(* The prior and the manifest that was read still tell every live deletion  *)
(* and every entry of the accepted one.                                     *)
PriorTells == InRun /\ Knows =>
    /\ prior # NoManifest
    /\ \A p \in Paths \ away : manifest.tombs[p] <= prior.tombs[p]
    /\ ~recovering => \A p \in In(avail) \ (away \cup excluded) :
         manifest.files[p] # Absent
           => prior.files[p] = manifest.files[p] \/ prior.tombs[p] # 0
RemoteTells == InRun /\ Knows /\ ~recovering =>
    /\ remote # NoManifest
    /\ \A p \in Paths : /\ manifest.tombs[p] <= remote.tombs[p]
                        /\ manifest.files[p] # Absent => remote.files[p] = manifest.files[p]

(* What is about to be published: held files at their accepted entry, a     *)
(* deleted path only when it came back, and every live deletion otherwise.  *)
HeldAtEntry == InRun /\ Knows => \A p \in held \ away :
    manifest.files[p] # Absent /\ (pc \in {"filter", "inject"} => p \notin Scope)
      => local[p] = manifest.files[p]
ReturnedIsBack == InRun /\ Knows => \A p \in Paths \ away :
    manifest.tombs[p] # 0 /\ local[p] # Absent => p \in backSince
DeletionsTold == Knows /\ (pc = "publish" \/ (pc = "upload" /\ ~uploadHeld)) =>
    \A p \in Paths \ away : Active(manifest.tombs[p]) => tombs[p] # 0 \/ local[p] # Absent

KeepsInv ==
    /\ LinksAreAway /\ FilesAreBack /\ FreshRun /\ FirstScan /\ WalkScope /\ UploadScope
    /\ RecoveringHoldsNothing /\ ExcludedSilent /\ PriorTells /\ RemoteTells
    /\ HeldAtEntry /\ ReturnedIsBack /\ DeletionsTold

-----------------------------------------------------------------------------
LEMMA KeepsInit == Init => KeepsInv
<1> SUFFICES ASSUME Init PROVE KeepsInv
  OBVIOUS
<1> USE DEF Init
<1>1. LinksAreAway /\ FilesAreBack
  BY MarksAssumption DEF LinksAreAway, FilesAreBack
<1>2. FreshRun /\ FirstScan /\ WalkScope /\ UploadScope /\ RecoveringHoldsNothing
  BY DEF FreshRun, FirstScan, WalkScope, UploadScope, RecoveringHoldsNothing, InRun, Walking
<1>3. ExcludedSilent /\ PriorTells /\ RemoteTells
  BY DEF ExcludedSilent, PriorTells, RemoteTells, InRun, Filtered
<1>4. HeldAtEntry /\ ReturnedIsBack /\ DeletionsTold
  BY DEF HeldAtEntry, ReturnedIsBack, DeletionsTold, InRun
<1> QED BY <1>1, <1>2, <1>3, <1>4 DEF KeepsInv

(* What the user, the sync tool and the clock do: they never touch what a   *)
(* run remembers, and a configuration edit waits for the run to end.        *)
LEMMA KeepsOutside ==
  ASSUME Typed, KeepsInv, UNCHANGED <<manifest, sidecar, runVars>>,
         LinksAreAway', FilesAreBack', away \subseteq away', backSince \subseteq backSince',
         UNCHANGED <<selected, excluded>> \/ pc = "idle",
         excluded' \ away' \subseteq excluded \ away,
         clock' \in Nat, clock <= clock'
  PROVE  KeepsInv'
<1> USE DEF runVars, fetchVars, scanVars, uploadVars
<1>1. FreshRun' /\ FirstScan' /\ UploadScope' /\ RecoveringHoldsNothing'
  BY DEF KeepsInv, FreshRun, FirstScan, UploadScope, RecoveringHoldsNothing, Scope, In, Present
<1>2. WalkScope'
  BY DEF KeepsInv, WalkScope, InRun, Walking, Scope, In
<1>3. ExcludedSilent'
  BY DEF KeepsInv, ExcludedSilent, Filtered
<1>4. PriorTells' /\ RemoteTells'
  BY DEF KeepsInv, PriorTells, RemoteTells, InRun, Knows, In
<1>5. HeldAtEntry' /\ ReturnedIsBack'
  BY DEF KeepsInv, HeldAtEntry, ReturnedIsBack, InRun, Knows, Scope, In
<1>6. DeletionsTold'
  <2>1. ASSUME manifest # NoManifest, NEW p \in Paths, Active(manifest.tombs[p])'
        PROVE  Active(manifest.tombs[p])
    <3>1. manifest.tombs[p] \in Nat /\ clock \in Nat /\ TTL \in Nat
      BY <2>1, BoundsAssumption
      DEF Typed, TypeOK, StoreOK, HistoryOK, Manifests, Tombs, Times
    <3> QED BY <2>1, <3>1 DEF Active
  <2> QED BY <2>1 DEF KeepsInv, DeletionsTold, Knows
<1> QED BY <1>1, <1>2, <1>3, <1>4, <1>5, <1>6 DEF KeepsInv

(* A run that ends leaves nothing to keep but the histories.                *)
LEMMA KeepsEndRun ==
  ASSUME KeepsInv, EndRun, UNCHANGED <<manifest, disk, away, backSince, excluded>>
  PROVE  KeepsInv'
<1> USE DEF EndRun
<1>1. LinksAreAway' /\ FilesAreBack'
  BY DEF KeepsInv, LinksAreAway, FilesAreBack
<1>2. FreshRun' /\ FirstScan' /\ WalkScope' /\ UploadScope' /\ RecoveringHoldsNothing'
  BY DEF FreshRun, FirstScan, WalkScope, UploadScope, RecoveringHoldsNothing, InRun, Walking
<1>3. ExcludedSilent'
  BY DEF KeepsInv, ExcludedSilent, Filtered
<1>4. PriorTells' /\ RemoteTells' /\ HeldAtEntry' /\ ReturnedIsBack' /\ DeletionsTold'
  BY DEF PriorTells, RemoteTells, HeldAtEntry, ReturnedIsBack, DeletionsTold, InRun
<1> QED BY <1>1, <1>2, <1>3, <1>4 DEF KeepsInv

(* Away from the run's own phases only the histories matter.                *)
LEMMA KeepsBetween ==
  ASSUME KeepsInv, pc' \in {"sidecar", "cleanup", "gc", "gc again", "gc sweep"},
         LinksAreAway', FilesAreBack',
         manifest' # NoManifest => \A p \in excluded' \ away' : manifest'.tombs[p] = 0,
         todo' = {}, deferred' = {},
         UNCHANGED <<recovering, held, candidates>>
  PROVE  KeepsInv'
<1>1. FreshRun' /\ FirstScan' /\ WalkScope' /\ UploadScope' /\ RecoveringHoldsNothing'
  BY DEF KeepsInv, FreshRun, FirstScan, WalkScope, UploadScope, RecoveringHoldsNothing,
         InRun, Walking
<1>2. ExcludedSilent'
  BY DEF ExcludedSilent, Filtered
<1>3. PriorTells' /\ RemoteTells' /\ HeldAtEntry' /\ ReturnedIsBack' /\ DeletionsTold'
  BY DEF PriorTells, RemoteTells, HeldAtEntry, ReturnedIsBack, DeletionsTold, InRun
<1> QED BY <1>1, <1>2, <1>3 DEF KeepsInv

-----------------------------------------------------------------------------
(* Merging keeps the later of two deletions.                                *)
LEMMA MergeKeepsTombs ==
  ASSUME NEW m \in Manifests, NEW n \in Manifests, NEW p \in Paths
  PROVE  /\ m.tombs[p] <= MergeManifests({m, n}).tombs[p]
         /\ n.tombs[p] <= MergeManifests({m, n}).tombs[p]
<1>1. m.tombs[p] \in Nat /\ n.tombs[p] \in Nat
  BY BoundsAssumption DEF Manifests, Tombs, Times
<1>2. MergeManifests({m, n}).tombs[p] = Latest({m.tombs[p], n.tombs[p]})
  <2>1. {k.tombs[p] : k \in {m, n}} = {m.tombs[p], n.tombs[p]}
    OBVIOUS
  <2>2. MergeManifests({m, n}).tombs[p] = Latest({k.tombs[p] : k \in {m, n}})
    BY DEF MergeManifests
  <2> QED BY <2>1, <2>2
<1>3. ASSUME NEW t \in Nat, NEW u \in Nat
      PROVE  t <= Latest({t, u}) /\ u <= Latest({t, u})
  <2>1. \E x \in {t, u} : \A y \in {t, u} : y <= x
    BY t <= u \/ u <= t
  <2> QED BY <2>1 DEF Latest
<1> QED BY <1>1, <1>2, <1>3

(* What is read when the main manifest is there: all of its entries and     *)
(* deletions.                                                               *)
LEMMA FetchTells ==
  ASSUME Typed, CopiesOlder, canonical = "ok"
  PROVE  LET f == FetchManifest(TRUE)
         IN /\ f.status = "ok" /\ ~f.copiesOnly /\ ~f.vanished
            /\ f.manifest \in Manifests
            /\ \A p \in Paths :
                 /\ manifest.tombs[p] <= f.manifest.tombs[p]
                 /\ manifest.files[p] # Absent => f.manifest.files[p] = manifest.files[p]
<1> DEFINE f == FetchManifest(TRUE)
<1>1. manifest \in Manifests
  BY NoManifestAssumption DEF Typed, TypeOK, StoreOK
<1>2. /\ f.status = "ok" /\ ~f.copiesOnly /\ ~f.vanished
      /\ f.manifest = MergeManifests({manifest} \cup copies)
  BY DEF FetchManifest
<1>3. copies \in SUBSET Manifests /\ \A c \in copies :
        c.ts <= manifest.ts /\ (c.ts = manifest.ts => c = manifest)
  BY DEF Typed, TypeOK, StoreOK, CopiesOlder
<1>4. \A p \in Paths : manifest.files[p] # Absent => f.manifest.files[p] = manifest.files[p]
  BY <1>1, <1>2, <1>3, MergeKeepsNewest
<1>5. PICK n \in Manifests : {manifest} \cup copies = {manifest, n}
  <2>1. CASE copies = {}
    <3>1. {manifest} \cup copies = {manifest, manifest}
      BY <2>1
    <3> QED BY <1>1, <3>1
  <2>2. CASE copies # {}
    <3>1. PICK c \in Manifests : copies = {c}
      BY <1>3, <2>2 DEF Typed, FewCopies, AtMostOne
    <3> QED BY <3>1
  <2> QED BY <2>1, <2>2
<1>6. f.manifest = MergeManifests({manifest, n})
  BY <1>2, <1>5
<1>7. f.manifest \in Manifests /\ \A p \in Paths : manifest.tombs[p] <= f.manifest.tombs[p]
  BY <1>1, <1>6, MergeOfTwo, MergeKeepsTombs
<1> QED BY <1>2, <1>4, <1>7

(* The prior a push recovers tells at least as much as the manifest that    *)
(* it found, or as the sidecar that was written with it.                    *)
LEMMA RecoveredTells ==
  ASSUME Typed, CopiesOlder, manifest # NoManifest, saw,
         NEW f, f = FetchManifest(saw), NEW r \in BOOLEAN,
         r = (f.status = "corrupt" \/ f.copiesOnly \/ f.vanished),
         r => sidecar = manifest
  PROVE  /\ RecoverPrior(f) \in Manifests
         /\ \A p \in Paths : manifest.tombs[p] <= RecoverPrior(f).tombs[p]
         /\ ~r => canonical = "ok" /\ RecoverPrior(f) = f.manifest
<1>1. canonical \in {"ok", "corrupt", "absent"} /\ manifest \in Manifests
  BY DEF Typed, TypeOK, StoreOK
<1>2. saw = TRUE
  BY DEF Typed, TypeOK, RunOK
<1>3. CASE canonical = "ok"
  <2>1. /\ f.status = "ok" /\ ~f.copiesOnly /\ ~f.vanished
        /\ f.manifest \in Manifests
        /\ \A p \in Paths : manifest.tombs[p] <= f.manifest.tombs[p]
    BY <1>2, <1>3, FetchTells
  <2> QED BY <1>3, <2>1 DEF RecoverPrior
<1>4. CASE canonical # "ok"
  <2>1. /\ f.status = "ok" <=> copies # {}
        /\ f.copiesOnly <=> copies # {}
        /\ f.status # "ok" => f.status \in {"corrupt", "missing"}
        /\ f.status = "missing" => f.vanished
    BY <1>1, <1>2, <1>4 DEF FetchManifest
  <2>2. r
    BY <2>1
  <2>3. sidecar = manifest
    BY <2>2
  <2>4. manifest.tombs \in Tombs /\ \A p \in Paths : manifest.tombs[p] <= manifest.tombs[p]
    <3>1. \A p \in Paths : manifest.tombs[p] \in Nat
      BY <1>1, BoundsAssumption DEF Manifests, Tombs, Times
    <3> QED BY <1>1, <3>1 DEF Manifests
  <2>5. CASE f.status = "ok"
    <3>1. f.manifest \in Manifests
      BY <1>2, <2>5, FetchIsManifest DEF Typed
    <3>2. RecoverPrior(f) = MergeManifests({f.manifest, manifest})
      BY <2>1, <2>3, <2>5 DEF RecoverPrior
    <3> QED BY <1>1, <2>2, <3>1, <3>2, MergeOfTwo, MergeKeepsTombs
  <2>6. CASE f.status # "ok"
    <3>1. RecoverPrior(f) = manifest
      BY <2>1, <2>3, <2>6 DEF RecoverPrior, Fallback
    <3> QED BY <1>1, <2>2, <2>4, <3>1
  <2> QED BY <2>5, <2>6
<1> QED BY <1>3, <1>4

(* Tombstones generated from such a prior tell every live deletion ...      *)
LEMMA GeneratedTell ==
  ASSUME TypeOK, manifest # NoManifest, prior # NoManifest, NEW p \in Paths,
         manifest.tombs[p] <= prior.tombs[p], Active(manifest.tombs[p]), local[p] = Absent
  PROVE  GenerateTombstones(local, prior)[p] # 0
<1>1. manifest.tombs[p] \in Nat /\ prior.tombs[p] \in Nat /\ clock \in Nat /\ TTL \in Nat
  BY BoundsAssumption DEF TypeOK, StoreOK, RunOK, HistoryOK, Manifests, Tombs, Times
<1>2. Active(prior.tombs[p])
  BY <1>1 DEF Active
<1> QED BY <1>1, <1>2 DEF GenerateTombstones, Active

(* ... and nothing about a path the prior is silent on.                     *)
LEMMA SilentStaysSilent ==
  ASSUME NEW p \in Paths,
         prior # NoManifest => prior.tombs[p] = 0 /\ prior.files[p] = Absent
  PROVE  GenerateTombstones(local, prior)[p] = 0
BY DEF GenerateTombstones, NoTombs, Active

-----------------------------------------------------------------------------
(* One lemma for each step of a push.                                       *)
LEMMA KeepsFetchOwn ==
  ASSUME Typed, CopiesOlder, KeepsInv, FetchOwn
  PROVE  KeepsInv'
<1> USE DEF worldVars, diskVars, configVars, storeVars, historyVars, scanVars, uploadVars
<1>1. CASE EndRun
  BY <1>1, KeepsEndRun DEF FetchOwn, Stop
<1>2. CASE ~EndRun
  <2> DEFINE f == FetchManifest(saw)
  <2>1. /\ pc = "fetch" /\ pc' = "list"
        /\ prior' = RecoverPrior(f) /\ remote' = f.manifest
        /\ recovering' = (f.status = "corrupt" \/ f.copiesOnly \/ f.vanished)
        /\ UNCHANGED <<worldVars, saw, avail, scanVars, uploadVars>>
    BY <1>2 DEF FetchOwn, Stop
  <2>2. LinksAreAway' /\ FilesAreBack'
    BY <2>1 DEF KeepsInv, LinksAreAway, FilesAreBack
  <2>3. FreshRun' /\ FirstScan' /\ RecoveringHoldsNothing'
    BY <2>1 DEF KeepsInv, FreshRun, FirstScan, RecoveringHoldsNothing
  <2>4. WalkScope' /\ UploadScope'
    BY <2>1 DEF KeepsInv, FreshRun, WalkScope, UploadScope, InRun, Present
  <2>5. ExcludedSilent'
    BY <2>1 DEF KeepsInv, FreshRun, ExcludedSilent, Filtered
  <2>6. PriorTells' /\ RemoteTells'
    <3>1. SUFFICES ASSUME Knows' PROVE PriorTells' /\ RemoteTells'
      BY DEF PriorTells, RemoteTells
    <3>2. /\ manifest # NoManifest /\ saw
          /\ recovering' => sidecar = manifest
      BY <2>1, <3>1 DEF Knows
    <3>3. recovering' \in BOOLEAN
      BY <2>1
    <3>4. /\ prior' \in Manifests
          /\ \A p \in Paths : manifest.tombs[p] <= prior'.tombs[p]
          /\ ~recovering' => canonical = "ok" /\ prior' = remote'
      <4> HIDE DEF f
      <4>1. f = FetchManifest(saw)
        BY DEF f
      <4> QED BY <2>1, <3>2, <3>3, <4>1, RecoveredTells
    <3>5. ASSUME ~recovering'
          PROVE  /\ remote' \in Manifests
                 /\ \A p \in Paths :
                      /\ manifest.tombs[p] <= remote'.tombs[p]
                      /\ manifest.files[p] # Absent => remote'.files[p] = manifest.files[p]
      <4>1. saw = TRUE
        BY <3>2 DEF Typed, TypeOK, RunOK
      <4>2. f = FetchManifest(TRUE) /\ canonical = "ok"
        BY <3>4, <3>5, <4>1
      <4>3. /\ f.manifest \in Manifests
            /\ \A p \in Paths :
                 /\ manifest.tombs[p] <= f.manifest.tombs[p]
                 /\ manifest.files[p] # Absent => f.manifest.files[p] = manifest.files[p]
        BY <4>2, FetchTells
      <4> HIDE DEF f
      <4> QED BY <2>1, <4>3
    <3> QED BY <2>1, <3>4, <3>5, NoManifestAssumption DEF PriorTells, RemoteTells, In
  <2>7. HeldAtEntry' /\ ReturnedIsBack' /\ DeletionsTold'
    BY <2>1 DEF KeepsInv, FreshRun, NoFiles, HeldAtEntry, ReturnedIsBack, DeletionsTold
  <2> QED BY <2>2, <2>3, <2>4, <2>5, <2>6, <2>7 DEF KeepsInv
<1> QED BY <1>1, <1>2

LEMMA KeepsListFiles ==
  ASSUME Typed, KeepsInv, ListFiles
  PROVE  KeepsInv'
<1> USE DEF worldVars, diskVars, configVars, storeVars, historyVars, fetchVars, uploadVars
<1>1. /\ pc = "list" /\ pc' = "read"
      /\ listed' = {p \in Scope \ (nested \cup excluded) : Look(p) \notin {Absent, Link}}
      /\ checkouts' = checkouts \cup {p \in Scope \cap nested : SourceOf[p] \in mounted}
      /\ UNCHANGED <<worldVars, fetchVars, rescan, local, held, candidates, frozen,
                     uploadVars>>
  BY DEF ListFiles
<1>2. LinksAreAway' /\ FilesAreBack'
  BY <1>1 DEF KeepsInv, LinksAreAway, FilesAreBack
<1>3. FreshRun' /\ UploadScope' /\ RecoveringHoldsNothing'
  BY <1>1 DEF KeepsInv, FreshRun, UploadScope, RecoveringHoldsNothing, Present
<1>4. FirstScan'
  <2> SUFFICES ASSUME ~rescan PROVE FirstScan'
    BY <1>1 DEF FirstScan
  <2>1. local = NoFiles /\ held = {} /\ checkouts = {} /\ frozen = {}
    BY <1>1 DEF KeepsInv, FreshRun
  <2> QED BY <1>1, <2>1 DEF FirstScan, NoFiles, Scope, In
<1>5. WalkScope'
  BY <1>1 DEF KeepsInv, WalkScope, InRun, Walking, Scope, In
<1>6. ExcludedSilent'
  BY <1>1 DEF KeepsInv, ExcludedSilent, Filtered
<1>7. PriorTells' /\ RemoteTells'
  BY <1>1 DEF KeepsInv, PriorTells, RemoteTells, InRun, Knows, In
<1>8. HeldAtEntry' /\ ReturnedIsBack' /\ DeletionsTold'
  BY <1>1 DEF KeepsInv, HeldAtEntry, ReturnedIsBack, DeletionsTold, InRun, Knows
<1> QED BY <1>2, <1>3, <1>4, <1>5, <1>6, <1>7, <1>8 DEF KeepsInv

LEMMA KeepsReadFiles ==
  ASSUME Typed, KeepsInv, ReadFiles
  PROVE  KeepsInv'
<1> USE DEF worldVars, diskVars, configVars, storeVars, historyVars, fetchVars, uploadVars
<1>1. CASE EndRun
  BY <1>1, KeepsEndRun DEF ReadFiles, Stop
<1>2. CASE ~EndRun
  <2>1. PICK moving \in SUBSET listed, candidate \in SUBSET listed :
          LET vanished == {p \in listed : Look(p) = Absent}
              read == {p \in listed \ moving : Look(p) \in Revs}
              again == Carried(read)
          IN /\ recovering => moving \cup vanished = {}
             /\ candidate \subseteq vanished
             /\ local' = [p \in Paths |-> IF p \in read THEN disk[p]
                                          ELSE IF p \in Scope \ again THEN Absent
                                          ELSE local[p]]
             /\ held' = (held \ Scope) \cup moving \cup (vanished \ candidate)
             /\ candidates' = candidate
    BY ZenonT(60), <1>2 DEF ReadFiles, Stop
  <2>2. /\ pc = "read" /\ pc' = "filter"
        /\ UNCHANGED <<worldVars, fetchVars, rescan, checkouts, uploadVars>>
    BY <1>2 DEF ReadFiles, Stop
  <2> DEFINE read == {p \in listed \ moving : Look(p) \in Revs}
             new == moving \cup candidate \cup {p \in listed : Look(p) = Absent}
  <2>3. listed \subseteq Scope \ excluded /\ Scope \subseteq In(avail) /\ avail \subseteq selected
    BY <2>2 DEF KeepsInv, WalkScope, InRun, Scope, In
  <2>4. held' \cup candidates' \subseteq (held \ Scope) \cup new /\ new \subseteq listed
    BY <2>1
  <2>5. \A p \in Paths : \/ p \in read /\ local'[p] = disk[p] /\ disk[p] \in Revs
                         \/ p \notin read /\ local'[p] = Absent /\ p \in Scope
                         \/ p \notin read /\ local'[p] = local[p]
    BY <2>1, MarksAssumption DEF Look
  <2>6. \A p \in Paths \ Scope : local'[p] = local[p]
    BY <2>1, <2>3
  <2>7. LinksAreAway' /\ FilesAreBack'
    BY <2>2 DEF KeepsInv, LinksAreAway, FilesAreBack
  <2>8. FreshRun' /\ UploadScope' /\ RecoveringHoldsNothing'
    <3>1. RecoveringHoldsNothing'
      BY <2>1, <2>2 DEF KeepsInv, RecoveringHoldsNothing
    <3>2. UploadScope'
      BY <2>2 DEF KeepsInv, UploadScope
    <3> QED BY <2>2, <3>1, <3>2 DEF FreshRun
  <2>9. FirstScan'
    <3> SUFFICES ASSUME ~rescan PROVE FirstScan'
      BY <2>2 DEF FirstScan
    <3>1. held = {} /\ local = NoFiles /\ \A p \in checkouts : p \notin listed
      BY <2>2 DEF KeepsInv, FirstScan
    <3>2. held' \subseteq Scope
      BY <2>3, <2>4, <3>1
    <3>3. \A p \in checkouts : local'[p] = Absent
      BY <2>5, <3>1 DEF NoFiles, Typed, TypeOK, ScanOK
    <3> QED BY <2>2, <3>2, <3>3 DEF FirstScan, Scope
  <2>10. WalkScope'
    <3>1. held \subseteq In(avail) \ excluded
      BY <2>2 DEF KeepsInv, WalkScope, Walking
    <3> QED BY <2>2, <2>3, <2>4, <3>1 DEF WalkScope, In
  <2>11. ExcludedSilent'
    BY <2>2 DEF KeepsInv, ExcludedSilent, Filtered
  <2>12. PriorTells' /\ RemoteTells'
    BY <2>2 DEF KeepsInv, PriorTells, RemoteTells, InRun, Knows, In
  <2>13. HeldAtEntry'
    <3> SUFFICES ASSUME Knows, NEW p \in held' \ away, manifest.files[p] # Absent, p \notin Scope
                 PROVE  local'[p] = manifest.files[p]
      BY <2>2 DEF HeldAtEntry, Knows, Scope, In
    <3>1. p \in held /\ p \in Paths
      BY <2>3, <2>4 DEF Typed, TypeOK, ScanOK
    <3> QED BY <2>2, <2>6, <3>1 DEF KeepsInv, HeldAtEntry, InRun
  <2>14. ReturnedIsBack'
    <3>1. \A p \in Paths : local'[p] # Absent => p \in backSince \/ local'[p] = local[p]
      BY <2>5 DEF KeepsInv, FilesAreBack
    <3> QED BY <2>2, <3>1 DEF KeepsInv, ReturnedIsBack, InRun, Knows
  <2> QED BY <2>2, <2>7, <2>8, <2>9, <2>10, <2>11, <2>12, <2>13, <2>14
          DEF KeepsInv, DeletionsTold
<1> QED BY <1>1, <1>2

(* What the consumer filters leave of the prior.                            *)
LEMMA FilteredPrior ==
  ASSUME TypeOK, FilterPrior, prior # NoManifest, ~rescan
  PROVE  /\ prior' \in Manifests
         /\ prior'.files = Cleared((Paths \ Eligible) \cup Linked \cup (checkouts \ Stays),
                                   prior.files)
         /\ prior'.tombs = [p \in Paths |-> IF p \in Forgotten(Linked)
                                            THEN 0 ELSE prior.tombs[p]]
<1> DEFINE dropped == (Paths \ Eligible) \cup Linked \cup (checkouts \ Stays)
           kept == [p \in Paths |-> IF p \in Forgotten(Linked) THEN 0 ELSE prior.tombs[p]]
<1>1. prior' = [prior EXCEPT !.files = Cleared(dropped, prior.files), !.tombs = kept]
  BY DEF FilterPrior
<1>2. prior \in Manifests
  BY DEF TypeOK, RunOK
<1>3. Cleared(dropped, prior.files) \in Files /\ kept \in Tombs
  BY <1>2 DEF Cleared, Manifests, Files, Tombs
<1>4. /\ prior' \in Manifests
      /\ prior'.files = Cleared(dropped, prior.files)
      /\ prior'.tombs = kept
  <2> HIDE DEF dropped, kept
  <2> QED BY <1>1, <1>2, <1>3 DEF Manifests
<1> QED BY <1>4

LEMMA KeepsFilterPrior ==
  ASSUME Typed, KeepsInv, FilterPrior
  PROVE  KeepsInv'
<1> USE DEF worldVars, diskVars, configVars, storeVars, historyVars, uploadVars
<1>1. /\ pc = "filter" /\ pc' = "inject"
      /\ UNCHANGED <<worldVars, saw, avail, remote, recovering, reselected, rescan, listed,
                     held, candidates, checkouts, uploadVars>>
  BY DEF FilterPrior
<1>2. LinksAreAway' /\ FilesAreBack' /\ FreshRun' /\ FirstScan'
  BY <1>1 DEF KeepsInv, LinksAreAway, FilesAreBack, FreshRun, FirstScan
<1>3. WalkScope' /\ UploadScope' /\ RecoveringHoldsNothing' /\ RemoteTells' /\ DeletionsTold'
  BY <1>1 DEF KeepsInv, WalkScope, InRun, Walking, UploadScope, RecoveringHoldsNothing,
              RemoteTells, DeletionsTold, Knows
<1>4. CASE prior = NoManifest \/ rescan
  <2>1. UNCHANGED <<prior, local, frozen>>
    BY <1>4 DEF FilterPrior
  <2>2. ExcludedSilent' /\ PriorTells'
    BY <1>1, <1>4, <2>1 DEF KeepsInv, ExcludedSilent, Filtered, PriorTells, InRun, Knows
  <2>3. HeldAtEntry' /\ ReturnedIsBack'
    BY <1>1, <2>1 DEF KeepsInv, HeldAtEntry, ReturnedIsBack, InRun, Knows, Scope
  <2> QED BY <1>2, <1>3, <2>2, <2>3 DEF KeepsInv
<1>5. CASE ~(prior = NoManifest \/ rescan)
  <2> DEFINE dropped == (Paths \ Eligible) \cup Linked \cup (checkouts \ Stays)
             kept == [p \in Paths |-> IF p \in Forgotten(Linked) THEN 0 ELSE prior.tombs[p]]
  <2>1. local' = [p \in Paths |-> IF p \in Stays THEN prior.files[p] ELSE local[p]]
    BY <1>5 DEF FilterPrior
  <2>2. prior \in Manifests
    BY <1>5 DEF Typed, TypeOK, RunOK
  <2>3. /\ prior' \in Manifests
        /\ prior'.files = Cleared(dropped, prior.files)
        /\ prior'.tombs = kept
    BY <1>5, FilteredPrior DEF Typed
  <2>4. Linked \subseteq away
    BY MarksAssumption DEF KeepsInv, LinksAreAway, Linked, In, Look
  <2>5. ExcludedSilent'
    <3>1. excluded \subseteq Paths
      BY DEF Typed, TypeOK, UserOK
    <3>2. \A p \in excluded : prior'.tombs[p] = 0 /\ prior'.files[p] = Absent
      BY <2>3, <3>1 DEF Forgotten, Eligible, Cleared
    <3> QED BY <1>1, <3>2 DEF KeepsInv, ExcludedSilent
  <2>6. PriorTells'
    <3> SUFFICES ASSUME Knows
                 PROVE  /\ prior' # NoManifest
                        /\ \A p \in Paths \ away : manifest.tombs[p] <= prior'.tombs[p]
                        /\ ~recovering => \A p \in In(avail) \ (away \cup excluded) :
                             manifest.files[p] # Absent
                               => prior'.files[p] = manifest.files[p] \/ prior'.tombs[p] # 0
      BY <1>1 DEF PriorTells, Knows, In
    <3>1. \A p \in Paths \ (away \cup excluded) : prior'.tombs[p] = prior.tombs[p]
      BY <2>3, <2>4 DEF Forgotten
    <3>2. ASSUME NEW p \in Paths \ away
          PROVE  manifest.tombs[p] <= prior'.tombs[p]
      <4>1. CASE p \in excluded
        BY <1>1, <2>3, <4>1 DEF KeepsInv, ExcludedSilent, Forgotten, Knows
      <4>2. CASE p \notin excluded
        BY <1>1, <3>1, <4>2 DEF KeepsInv, PriorTells, InRun
      <4> QED BY <4>1, <4>2
    <3>3. ASSUME ~recovering, NEW p \in In(avail) \ (away \cup excluded),
                 manifest.files[p] # Absent, prior'.tombs[p] = 0
          PROVE  prior'.files[p] = manifest.files[p]
      <4>1. p \in Paths /\ p \in Eligible /\ p \notin Linked
        BY <1>1, <2>4, <3>3 DEF KeepsInv, WalkScope, InRun, Eligible, In
      <4>2. prior.files[p] = manifest.files[p] /\ prior.tombs[p] = 0
        BY <1>1, <3>1, <3>3, <4>1 DEF KeepsInv, PriorTells, InRun
      <4>3. p \in checkouts => p \in Stays
        BY <1>1, <1>5, <3>3, <4>1, <4>2 DEF KeepsInv, FirstScan, Stays
      <4> QED BY <2>3, <4>1, <4>2, <4>3 DEF Cleared
    <3> QED BY <2>3, <3>2, <3>3, NoManifestAssumption
  <2>7. HeldAtEntry'
    <3>1. held \subseteq Scope /\ Scope' = Scope
      BY <1>1, <1>5 DEF KeepsInv, FirstScan, Scope
    <3> QED BY <1>1, <3>1 DEF HeldAtEntry
  <2>8. ReturnedIsBack'
    <3> SUFFICES ASSUME Knows, NEW p \in Paths \ away, manifest.tombs[p] # 0,
                        local'[p] # Absent
                 PROVE  p \in backSince
      BY <1>1 DEF ReturnedIsBack, Knows
    <3>1. manifest.tombs[p] \in Nat /\ manifest.tombs[p] <= prior.tombs[p]
      BY <1>1, BoundsAssumption
      DEF KeepsInv, PriorTells, InRun, Knows, Typed, TypeOK, StoreOK, Manifests, Tombs, Times
    <3>2. p \notin Stays
      BY <3>1 DEF Stays
    <3> QED BY <1>1, <2>1, <3>2 DEF KeepsInv, ReturnedIsBack, InRun
  <2> QED BY <1>2, <1>3, <2>5, <2>6, <2>7, <2>8 DEF KeepsInv
<1> QED BY <1>4, <1>5

LEMMA KeepsInjectHeld ==
  ASSUME Typed, KeepsInv, InjectHeld
  PROVE  KeepsInv'
<1> USE DEF worldVars, diskVars, configVars, storeVars, historyVars, fetchVars, uploadVars
<1>1. CASE EndRun
  BY <1>1, KeepsEndRun DEF InjectHeld, Stop
<1>2. CASE ~EndRun
  <2> DEFINE waiting == {p \in (held \cap Scope) \cup candidates :
                           /\ local[p] = Absent /\ p \notin frozen
                           /\ prior # NoManifest => prior.tombs[p] = 0}
  <2>1. /\ held' = (held \ Scope) \cup waiting
        /\ local' = [p \in Paths |-> IF p \in waiting /\ prior # NoManifest
                                     THEN prior.files[p] ELSE local[p]]
    BY <1>2 DEF InjectHeld, Stop
  <2>2. /\ pc = "inject" /\ pc' = "prove" /\ candidates' = {}
        /\ UNCHANGED <<worldVars, fetchVars, rescan, listed, frozen, checkouts, uploadVars>>
    BY <1>2 DEF InjectHeld, Stop
  <2>3. LinksAreAway' /\ FilesAreBack' /\ FreshRun' /\ FirstScan'
    BY <2>2 DEF KeepsInv, LinksAreAway, FilesAreBack, FreshRun, FirstScan
  <2>4. WalkScope' /\ UploadScope' /\ RecoveringHoldsNothing'
    <3>1. held' \subseteq held \cup candidates
      BY <2>1
    <3> HIDE DEF waiting
    <3> QED BY <2>2, <3>1 DEF KeepsInv, WalkScope, InRun, Walking, UploadScope,
                              RecoveringHoldsNothing, In
  <2>5. ExcludedSilent' /\ PriorTells' /\ RemoteTells' /\ DeletionsTold'
    BY <2>2 DEF KeepsInv, ExcludedSilent, Filtered, PriorTells, RemoteTells, DeletionsTold,
                InRun, Knows, In
  <2>6. HeldAtEntry'
    <3> SUFFICES ASSUME Knows, NEW p \in held' \ away, manifest.files[p] # Absent
                 PROVE  local'[p] = manifest.files[p]
      BY <2>2 DEF HeldAtEntry, Knows
    <3>1. p \in Paths
      BY <2>1 DEF Typed, TypeOK, ScanOK
    <3>2. CASE p \in waiting
      <4>1. p \in In(avail) \ excluded /\ ~recovering
        BY <2>2, <3>2 DEF KeepsInv, WalkScope, Walking, RecoveringHoldsNothing
      <4>2. prior # NoManifest /\ prior.files[p] = manifest.files[p]
        BY <2>2, <3>2, <4>1 DEF KeepsInv, PriorTells, InRun
      <4> QED BY <2>1, <3>1, <3>2, <4>2
    <3>3. CASE p \notin waiting
      <4>1. p \in held \ Scope /\ local'[p] = local[p]
        BY <2>1, <3>1, <3>3
      <4> QED BY <2>2, <4>1 DEF KeepsInv, HeldAtEntry, InRun
    <3> QED BY <3>2, <3>3
  <2>7. ReturnedIsBack'
    <3> SUFFICES ASSUME Knows, NEW p \in Paths \ away, manifest.tombs[p] # 0,
                        local'[p] # Absent
                 PROVE  p \in backSince
      BY <2>2 DEF ReturnedIsBack, Knows
    <3>1. /\ manifest.tombs[p] \in Nat /\ manifest.tombs[p] <= prior.tombs[p]
          /\ prior # NoManifest
      BY <2>2, BoundsAssumption
      DEF KeepsInv, PriorTells, InRun, Knows, Typed, TypeOK, StoreOK, Manifests, Tombs, Times
    <3>2. p \notin waiting
      BY <3>1
    <3> QED BY <2>1, <2>2, <3>2 DEF KeepsInv, ReturnedIsBack, InRun
  <2> QED BY <2>3, <2>4, <2>5, <2>6, <2>7 DEF KeepsInv
<1> QED BY <1>1, <1>2

LEMMA KeepsProveRoots ==
  ASSUME Typed, KeepsInv, ProveRoots
  PROVE  KeepsInv'
<1> USE DEF worldVars, diskVars, configVars, storeVars, historyVars, fetchVars, scanVars,
            uploadVars
<1>1. CASE EndRun
  BY <1>1, KeepsEndRun DEF ProveRoots, Stop
<1>2. CASE ~EndRun
  <2>1. /\ pc = "prove" /\ pc' = "decide"
        /\ UNCHANGED <<worldVars, fetchVars, scanVars, uploadVars>>
    BY <1>2 DEF ProveRoots, Stop
  <2>2. LinksAreAway' /\ FilesAreBack' /\ FreshRun' /\ FirstScan'
    BY <2>1 DEF KeepsInv, LinksAreAway, FilesAreBack, FreshRun, FirstScan
  <2>3. WalkScope' /\ UploadScope' /\ RecoveringHoldsNothing'
    BY <2>1 DEF KeepsInv, WalkScope, InRun, Walking, UploadScope, RecoveringHoldsNothing,
                Present, In
  <2>4. ExcludedSilent' /\ PriorTells' /\ RemoteTells' /\ DeletionsTold'
    BY <2>1 DEF KeepsInv, ExcludedSilent, Filtered, PriorTells, RemoteTells, DeletionsTold,
                InRun, Knows, In
  <2>5. HeldAtEntry' /\ ReturnedIsBack'
    BY <2>1 DEF KeepsInv, HeldAtEntry, ReturnedIsBack, InRun, Knows
  <2> QED BY <2>2, <2>3, <2>4, <2>5 DEF KeepsInv
<1> QED BY <1>1, <1>2

LEMMA KeepsDecide ==
  ASSUME Typed, KeepsInv, Decide
  PROVE  KeepsInv'
<1> USE DEF worldVars, diskVars, configVars, storeVars, historyVars, fetchVars
<1>1. CASE EndRun
  BY <1>1, KeepsEndRun DEF Decide, Stop
<1>2. CASE ~EndRun
  <2>1. /\ pc = "decide"
        /\ \/ pc' = "list" /\ rescan' /\ todo' = {}
           \/ pc' = "upload" /\ todo' = Changed(local) \ (frozen \cup held)
        /\ tombs' = GenerateTombstones(local, prior)
        /\ UNCHANGED <<worldVars, fetchVars, listed, local, held, candidates, frozen,
                       checkouts, deferred, gone, uploadHeld, refs>>
    BY <1>2 DEF Decide, Stop
  <2>2. LinksAreAway' /\ FilesAreBack' /\ FreshRun' /\ FirstScan'
    BY <2>1 DEF KeepsInv, LinksAreAway, FilesAreBack, FreshRun, FirstScan
  <2>3. WalkScope' /\ RecoveringHoldsNothing'
    BY <2>1 DEF KeepsInv, WalkScope, InRun, Walking, RecoveringHoldsNothing, In
  <2>4. UploadScope'
    BY <2>1 DEF KeepsInv, UploadScope, Changed, Present
  <2>5. ExcludedSilent'
    <3>1. \A p \in excluded : p \in Paths
      BY DEF Typed, TypeOK, UserOK
    <3>2. \A p \in excluded : tombs'[p] = 0
      BY <2>1, <3>1, SilentStaysSilent DEF KeepsInv, ExcludedSilent, Filtered
    <3> QED BY <2>1, <3>2 DEF KeepsInv, ExcludedSilent, Filtered
  <2>6. PriorTells' /\ RemoteTells'
    BY <2>1 DEF KeepsInv, PriorTells, RemoteTells, InRun, Knows, In
  <2>7. HeldAtEntry' /\ ReturnedIsBack'
    BY <2>1 DEF KeepsInv, HeldAtEntry, ReturnedIsBack, InRun, Knows
  <2>8. DeletionsTold'
    <3> SUFFICES ASSUME Knows, NEW p \in Paths \ away, Active(manifest.tombs[p]),
                        local[p] = Absent
                 PROVE  tombs'[p] # 0
      BY <2>1 DEF DeletionsTold, Knows, Active
    <3> QED BY <2>1, GeneratedTell DEF Typed, KeepsInv, PriorTells, InRun, Knows
  <2> QED BY <2>2, <2>3, <2>4, <2>5, <2>6, <2>7, <2>8 DEF KeepsInv
<1> QED BY <1>1, <1>2

(* What the steps of the upload phase leave alone.                          *)
LEMMA KeepsUploading ==
  ASSUME Typed, KeepsInv, pc = "upload", pc' \in {"upload", "publish"},
         UNCHANGED <<disk, selected, excluded, manifest, sidecar, clock, backSince, away,
                     fetchVars, rescan, candidates>>
  PROVE  /\ LinksAreAway' /\ FilesAreBack' /\ FreshRun' /\ FirstScan' /\ WalkScope'
         /\ PriorTells' /\ RemoteTells'
         /\ pc' = "upload" /\ UNCHANGED tombs => ExcludedSilent'
<1> USE DEF fetchVars
<1>1. LinksAreAway' /\ FilesAreBack' /\ FreshRun' /\ FirstScan' /\ WalkScope'
  BY DEF KeepsInv, LinksAreAway, FilesAreBack, FreshRun, FirstScan, WalkScope, InRun, Walking
<1>2. PriorTells' /\ RemoteTells'
  BY DEF KeepsInv, PriorTells, RemoteTells, InRun, Knows, In
<1>3. pc' = "upload" /\ UNCHANGED tombs => ExcludedSilent'
  BY DEF KeepsInv, ExcludedSilent, Filtered
<1> QED BY <1>1, <1>2, <1>3

LEMMA KeepsUploads ==
  ASSUME Typed, KeepsInv, NEW p \in Paths, UploadOrDefer(p) \/ UploadSettled(p)
  PROVE  KeepsInv'
<1> USE DEF diskVars, configVars, historyVars
<1>1. CASE UploadOrDefer(p)
  <2>1. /\ pc = "upload" /\ pc' = "upload" /\ p \in todo
        /\ todo' = todo \ {p} /\ deferred' \subseteq deferred \cup {p}
        /\ UNCHANGED <<diskVars, configVars, manifest, sidecar, historyVars, fetchVars,
                       scanVars, tombs, uploadHeld>>
    BY <1>1 DEF UploadOrDefer
  <2>2. /\ LinksAreAway' /\ FilesAreBack' /\ FreshRun' /\ FirstScan' /\ WalkScope'
        /\ PriorTells' /\ RemoteTells' /\ ExcludedSilent'
    BY <2>1, KeepsUploading DEF scanVars
  <2> USE DEF scanVars, fetchVars
  <2>3. UploadScope' /\ RecoveringHoldsNothing'
    BY <2>1 DEF KeepsInv, UploadScope, RecoveringHoldsNothing, Present
  <2>4. HeldAtEntry' /\ ReturnedIsBack' /\ DeletionsTold'
    BY <2>1 DEF KeepsInv, HeldAtEntry, ReturnedIsBack, DeletionsTold, InRun, Knows, Active
  <2> QED BY <2>2, <2>3, <2>4 DEF KeepsInv
<1>2. CASE UploadSettled(p)
  <2>1. /\ pc = "upload" /\ pc' = "upload" /\ p \in deferred
        /\ local' = [local EXCEPT ![p] = disk[p]]
        /\ deferred' = deferred \ {p}
        /\ Look(p) \in Revs
        /\ UNCHANGED <<diskVars, configVars, manifest, sidecar, historyVars, fetchVars,
                       rescan, held, candidates, tombs, todo, uploadHeld>>
    BY <1>2 DEF UploadSettled, LastOfSource
  <2>2. /\ LinksAreAway' /\ FilesAreBack' /\ FreshRun' /\ FirstScan' /\ WalkScope'
        /\ PriorTells' /\ RemoteTells' /\ ExcludedSilent'
    BY <2>1, KeepsUploading
  <2> USE DEF fetchVars
  <2>3. /\ local'[p] = disk[p] /\ disk[p] \in Revs /\ disk[p] # Absent
        /\ \A q \in Paths \ {p} : local'[q] = local[q]
    BY <2>1, MarksAssumption DEF Look, Typed, TypeOK, ScanOK, Files
  <2>4. p \notin held /\ held \subseteq Paths /\ p \in backSince
    BY <2>1, <2>3 DEF KeepsInv, UploadScope, FilesAreBack, Typed, TypeOK, ScanOK
  <2>5. UploadScope' /\ RecoveringHoldsNothing'
    BY <2>1, <2>3 DEF KeepsInv, UploadScope, RecoveringHoldsNothing, Present
  <2>6. HeldAtEntry' /\ ReturnedIsBack' /\ DeletionsTold'
    BY <2>1, <2>3, <2>4
    DEF KeepsInv, HeldAtEntry, ReturnedIsBack, DeletionsTold, InRun, Knows, Active
  <2> QED BY <2>2, <2>5, <2>6 DEF KeepsInv
<1> QED BY <1>1, <1>2

LEMMA KeepsUploadHold ==
  ASSUME Typed, KeepsInv, NEW p \in Paths, UploadHold(p)
  PROVE  KeepsInv'
<1> USE DEF worldVars, diskVars, configVars, storeVars, historyVars
<1>1. CASE EndRun
  BY <1>1, KeepsEndRun DEF UploadHold, Stop
<1>2. CASE ~EndRun
  <2>1. /\ pc = "upload" /\ pc' = "upload" /\ LastOfSource(p) /\ ~recovering
        /\ local' = [local EXCEPT ![p] = HoldEntry(p)]
        /\ held' = IF RemoteTombs[p] = 0 THEN held \cup {p} ELSE held
        /\ uploadHeld'
        /\ deferred' = deferred \ {p}
        /\ UNCHANGED <<worldVars, fetchVars, rescan, candidates, tombs, todo>>
    BY <1>2 DEF UploadHold, Stop
  <2>2. /\ LinksAreAway' /\ FilesAreBack' /\ FreshRun' /\ FirstScan' /\ WalkScope'
        /\ PriorTells' /\ RemoteTells' /\ ExcludedSilent'
    BY <2>1, KeepsUploading
  <2> USE DEF fetchVars
  <2>3. /\ local'[p] = HoldEntry(p)
        /\ \A q \in Paths \ {p} : local'[q] = local[q]
    BY <2>1 DEF Typed, TypeOK, ScanOK, Files
  <2>4. p \in deferred /\ p \notin todo /\ p \notin held
    BY <2>1 DEF LastOfSource, KeepsInv, UploadScope
  <2>5. UploadScope' /\ RecoveringHoldsNothing'
    BY <2>1, <2>3, <2>4 DEF KeepsInv, UploadScope, RecoveringHoldsNothing, Present
  <2>6. Knows => /\ RemoteTombs[p] = 0 => HoldEntry(p) = remote.files[p]
                 /\ RemoteTombs[p] # 0 => HoldEntry(p) = Absent
                 /\ RemoteTombs = remote.tombs
    BY <2>1 DEF KeepsInv, RemoteTells, InRun, HoldEntry, RemoteFiles, RemoteTombs
  <2>7. HeldAtEntry'
    <3> SUFFICES ASSUME Knows, NEW q \in held' \ away, manifest.files[q] # Absent
                 PROVE  local'[q] = manifest.files[q]
      BY <2>1 DEF HeldAtEntry, Knows
    <3>1. CASE q = p
      <4>1. RemoteTombs[p] = 0
        BY <2>1, <2>4, <3>1
      <4> QED BY <2>1, <2>3, <2>6, <3>1, <4>1 DEF KeepsInv, RemoteTells, InRun
    <3>2. CASE q # p
      BY <2>1, <2>3, <3>2 DEF KeepsInv, HeldAtEntry, InRun, Typed, TypeOK, ScanOK
    <3> QED BY <3>1, <3>2
  <2>8. ReturnedIsBack'
    <3> SUFFICES ASSUME Knows, NEW q \in Paths \ away, manifest.tombs[q] # 0,
                        local'[q] # Absent
                 PROVE  q \in backSince
      BY <2>1 DEF ReturnedIsBack, Knows
    <3>1. manifest.tombs[q] \in Nat /\ manifest.tombs[q] <= remote.tombs[q]
      BY <2>1, BoundsAssumption
      DEF KeepsInv, RemoteTells, InRun, Knows, Typed, TypeOK, StoreOK, Manifests, Tombs, Times
    <3>2. q # p
      BY <2>3, <2>6, <3>1
    <3> QED BY <2>1, <2>3, <3>2 DEF KeepsInv, ReturnedIsBack, InRun
  <2>9. DeletionsTold'
    BY <2>1 DEF DeletionsTold
  <2> QED BY <2>2, <2>5, <2>7, <2>8, <2>9 DEF KeepsInv
<1> QED BY <1>1, <1>2

LEMMA KeepsProveUploaded ==
  ASSUME Typed, KeepsInv, ProveUploaded
  PROVE  KeepsInv'
<1> USE DEF worldVars, diskVars, configVars, storeVars, historyVars
<1>1. CASE EndRun
  BY <1>1, KeepsEndRun DEF ProveUploaded, Stop
<1>2. CASE ~EndRun
  <2>1. /\ pc = "upload" /\ pc' = "upload"
        /\ UNCHANGED <<worldVars, fetchVars, scanVars, tombs, todo, deferred, uploadHeld>>
    BY <1>2 DEF ProveUploaded, Stop
  <2>2. /\ LinksAreAway' /\ FilesAreBack' /\ FreshRun' /\ FirstScan' /\ WalkScope'
        /\ PriorTells' /\ RemoteTells' /\ ExcludedSilent'
    BY <2>1, KeepsUploading DEF scanVars
  <2> USE DEF scanVars, fetchVars
  <2>3. UploadScope' /\ RecoveringHoldsNothing'
    BY <2>1 DEF KeepsInv, UploadScope, RecoveringHoldsNothing, Present
  <2>4. HeldAtEntry' /\ ReturnedIsBack'
    BY <2>1 DEF KeepsInv, HeldAtEntry, ReturnedIsBack, InRun, Knows
  <2>5. DeletionsTold'
    BY <2>1 DEF KeepsInv, DeletionsTold, Knows, Active
  <2> QED BY <2>2, <2>3, <2>4, <2>5 DEF KeepsInv
<1> QED BY <1>1, <1>2

LEMMA KeepsFinishUpload ==
  ASSUME Typed, KeepsInv, FinishUpload
  PROVE  KeepsInv'
<1> USE DEF worldVars, diskVars, configVars, storeVars, historyVars
<1>1. /\ pc = "upload" /\ pc' = "publish" /\ todo = {} /\ deferred = {}
      /\ tombs' = IF uploadHeld THEN GenerateTombstones(local, prior) ELSE tombs
      /\ UNCHANGED <<worldVars, fetchVars, scanVars, todo, deferred, uploadHeld>>
  BY DEF FinishUpload
<1>2. /\ LinksAreAway' /\ FilesAreBack' /\ FreshRun' /\ FirstScan' /\ WalkScope'
      /\ PriorTells' /\ RemoteTells'
  BY <1>1, KeepsUploading DEF scanVars
<1> USE DEF scanVars, fetchVars
<1>3. UploadScope' /\ RecoveringHoldsNothing'
  BY <1>1 DEF KeepsInv, UploadScope, RecoveringHoldsNothing, Present
<1>4. ExcludedSilent'
  <2>1. \A p \in excluded : p \in Paths
    BY DEF Typed, TypeOK, UserOK
  <2>2. \A p \in excluded : tombs'[p] = 0
    BY <1>1, <2>1, SilentStaysSilent DEF KeepsInv, ExcludedSilent, Filtered
  <2> QED BY <1>1, <2>2 DEF KeepsInv, ExcludedSilent, Filtered
<1>5. HeldAtEntry' /\ ReturnedIsBack'
  BY <1>1 DEF KeepsInv, HeldAtEntry, ReturnedIsBack, InRun, Knows
<1>6. DeletionsTold'
  <2> SUFFICES ASSUME Knows, NEW p \in Paths \ away, Active(manifest.tombs[p]),
                      local[p] = Absent
               PROVE  tombs'[p] # 0
    BY <1>1 DEF DeletionsTold, Knows, Active
  <2>1. uploadHeld => GenerateTombstones(local, prior)[p] # 0
    BY <1>1, GeneratedTell DEF Typed, KeepsInv, PriorTells, InRun, Knows
  <2>2. ~uploadHeld => tombs[p] # 0
    BY <1>1 DEF KeepsInv, DeletionsTold
  <2> QED BY <1>1, <2>1, <2>2
<1> QED BY <1>2, <1>3, <1>4, <1>5, <1>6 DEF KeepsInv

LEMMA KeepsPutManifest ==
  ASSUME Typed, KeepsInv, PutManifest
  PROVE  KeepsInv'
<1>1. /\ pc = "publish" /\ pc' = "sidecar"
      /\ manifest' = [files |-> local, tombs |-> tombs, srcs |-> avail,
                      ts |-> IF manifest = NoManifest THEN 1 ELSE manifest.ts + 1]
      /\ backSince' = {p \in Paths : disk[p] \in Revs}
      /\ away' = {p \in Paths : disk[p] = Link}
      /\ UNCHANGED <<disk, excluded, recovering, held, candidates, todo, deferred>>
  BY DEF PutManifest, diskVars, configVars, fetchVars, scanVars, uploadVars
<1>2. LinksAreAway' /\ FilesAreBack'
  BY <1>1 DEF LinksAreAway, FilesAreBack
<1>3. \A p \in excluded : manifest'.tombs[p] = 0
  BY <1>1 DEF KeepsInv, ExcludedSilent
<1>4. todo = {} /\ deferred = {}
  BY <1>1 DEF KeepsInv, UploadScope
<1> QED BY <1>1, <1>2, <1>3, <1>4, KeepsBetween

LEMMA KeepsNext == Typed /\ OrphansInv /\ KeepsInv /\ [Next]_vars => KeepsInv'
<1> SUFFICES ASSUME Typed, OrphansInv, KeepsInv, [Next]_vars PROVE KeepsInv'
  OBVIOUS
<1> USE DEF worldVars, diskVars, configVars, storeVars, historyVars
<1>1. CASE StartPush
  <2>1. /\ pc = "idle" /\ pc' = "fetch" /\ avail' \subseteq selected
        /\ UNCHANGED <<worldVars, prior, remote, recovering, reselected, scanVars, uploadVars>>
    BY <1>1 DEF StartPush
  <2> USE DEF scanVars, uploadVars
  <2>2. LinksAreAway' /\ FilesAreBack'
    BY <2>1 DEF KeepsInv, LinksAreAway, FilesAreBack
  <2>3. FreshRun' /\ FirstScan' /\ WalkScope' /\ UploadScope' /\ RecoveringHoldsNothing'
    BY <2>1 DEF KeepsInv, FreshRun, FirstScan, WalkScope, UploadScope,
                RecoveringHoldsNothing, InRun, Walking, Present
  <2>4. ExcludedSilent'
    BY <2>1 DEF KeepsInv, ExcludedSilent, Filtered
  <2>5. PriorTells' /\ RemoteTells' /\ HeldAtEntry' /\ ReturnedIsBack' /\ DeletionsTold'
    BY <2>1 DEF PriorTells, RemoteTells, HeldAtEntry, ReturnedIsBack, DeletionsTold, InRun
  <2> QED BY <2>2, <2>3, <2>4, <2>5 DEF KeepsInv
<1>2. CASE FetchOwn \/ ListFiles \/ ReadFiles \/ FilterPrior \/ InjectHeld
  BY <1>2, KeepsFetchOwn, KeepsListFiles, KeepsReadFiles, KeepsFilterPrior, KeepsInjectHeld
  DEF OrphansInv
<1>3. CASE ProveRoots \/ Decide \/ ProveUploaded \/ FinishUpload \/ PutManifest
  BY <1>3, KeepsProveRoots, KeepsDecide, KeepsProveUploaded, KeepsFinishUpload, KeepsPutManifest
<1>4. CASE \E p \in Paths : UploadOrDefer(p) \/ UploadSettled(p) \/ UploadHold(p)
  BY <1>4, KeepsUploads, KeepsUploadHold
<1>5. CASE \/ \E p \in Paths : UploadRefused(p)
           \/ CleanupCopies \/ GcDone \/ Crash
  BY <1>5, KeepsEndRun DEF UploadRefused, CleanupCopies, GcDone, Crash, Stop
<1>6. ASSUME pc \in {"idle", "sidecar", "gc", "gc again", "gc sweep"},
             pc' \in {"sidecar", "cleanup", "gc", "gc again", "gc sweep"},
             UNCHANGED <<disk, excluded, manifest, backSince, away, todo, deferred, recovering,
                         held, candidates>>
      PROVE  KeepsInv'
  <2>1. LinksAreAway' /\ FilesAreBack'
    BY <1>6 DEF KeepsInv, LinksAreAway, FilesAreBack
  <2>2. manifest # NoManifest => \A p \in excluded \ away : manifest.tombs[p] = 0
    BY DEF KeepsInv, ExcludedSilent
  <2>3. todo = {} /\ deferred = {}
    BY <1>6 DEF KeepsInv, UploadScope
  <2> QED BY <1>6, <2>1, <2>2, <2>3, KeepsBetween
<1>7. CASE WriteSidecar \/ StartGc
  BY <1>7, <1>6 DEF WriteSidecar, StartGc, fetchVars, scanVars, uploadVars
<1>8. CASE GcReferences \/ GcRevalidate
  <2>1. CASE EndRun
    BY <1>8, <2>1, KeepsEndRun DEF GcReferences, GcRevalidate, GcFetch, Stop
  <2>2. CASE ~EndRun
    BY <1>8, <2>2, <1>6
    DEF GcReferences, GcRevalidate, GcFetch, Stop, fetchVars, scanVars
  <2> QED BY <2>1, <2>2
<1>9. CASE \E s \in Shas : GcDelete(s)
  BY <1>9, <1>6 DEF GcDelete, runVars, fetchVars, scanVars, uploadVars
<1>10. clock \in Nat /\ clock' \in Nat
  BY TypedNext, BoundsAssumption DEF Typed, TypeOK, HistoryOK, Times
<1>11. CASE UserStep
  <2>1. UNCHANGED <<manifest, sidecar, runVars, clock>> /\ clock <= clock'
    BY <1>10, <1>11 DEF UserStep, SelectSources, Unmount, Mount, Write, Delete, StartWriting,
                        StopWriting, Replace, ToggleCheckout, ExcludePath
  <2>2. UNCHANGED <<selected, excluded>> \/ pc = "idle"
    BY <1>11 DEF UserStep, SelectSources, Unmount, Mount, Write, Delete, StartWriting,
                 StopWriting, Replace, ToggleCheckout, ExcludePath
  <2>3. /\ away \subseteq away' /\ backSince \subseteq backSince'
        /\ excluded' \ away' \subseteq excluded \ away
    BY <1>11 DEF UserStep, SelectSources, Unmount, Mount, Write, Delete, StartWriting,
                 StopWriting, Replace, ToggleCheckout, ExcludePath
  <2>4. disk \in [Paths -> Revs \cup {Absent, Big, Link}]
    BY DEF Typed, TypeOK, UserOK
  <2>5. \A p \in Paths : \/ disk'[p] = disk[p]
                         \/ disk'[p] \in Revs /\ p \in backSince'
                         \/ disk'[p] \in {Absent, Big}
                         \/ disk'[p] = Link /\ p \in away'
    <3>1. CASE SelectSources \/ \E s \in Sources : Unmount(s) \/ Mount(s)
      BY <3>1 DEF SelectSources, Unmount, Mount
    <3>2. ASSUME NEW p \in Paths, Write(p) \/ Delete(p)
          PROVE  <2>5!:
      BY <2>4, <3>2 DEF Write, Delete
    <3>3. ASSUME NEW p \in Paths, \/ StartWriting(p) \/ StopWriting(p)
                                  \/ ToggleCheckout(p) \/ ExcludePath(p)
          PROVE  <2>5!:
      BY <3>3 DEF StartWriting, StopWriting, ToggleCheckout, ExcludePath
    <3>4. ASSUME NEW p \in Paths, Replace("grow", p, Big) \/ Replace("link", p, Link)
          PROVE  <2>5!:
      BY <2>4, <3>4 DEF Replace
    <3> QED BY <1>11, <3>1, <3>2, <3>3, <3>4 DEF UserStep
  <2>6. LinksAreAway' /\ FilesAreBack'
    BY <2>3, <2>5, MarksAssumption DEF KeepsInv, LinksAreAway, FilesAreBack
  <2> QED BY <1>10, <2>1, <2>2, <2>3, <2>6, KeepsOutside
<1>12. CASE SyncStep \/ Tick \/ UNCHANGED vars
  <2>1. /\ UNCHANGED <<manifest, sidecar, runVars, disk, selected, excluded, backSince, away>>
        /\ clock <= clock'
    BY <1>10, <1>12 DEF SyncStep, Damage, Restore, Duplicate, TakeCopy, DeliverCopy, Tick, vars
  <2>2. LinksAreAway' /\ FilesAreBack'
    BY <2>1 DEF KeepsInv, LinksAreAway, FilesAreBack
  <2> QED BY <1>10, <2>1, <2>2, KeepsOutside
<1> QED
  BY <1>1, <1>2, <1>3, <1>4, <1>5, <1>7, <1>8, <1>9, <1>11, <1>12 DEF Next, PushStep, GcStep

(* Only PutManifest publishes.                                              *)
LEMMA OnlyPutPublishes ==
  ASSUME [Next]_vars, pc = "publish", manifest' # manifest
  PROVE  PutManifest
<1> USE DEF vars, worldVars, runVars, diskVars, configVars, storeVars, historyVars
<1>1. ~StartPush /\ ~FetchOwn /\ ~ListFiles /\ ~ReadFiles /\ ~FilterPrior /\ ~InjectHeld
  BY DEF StartPush, FetchOwn, ListFiles, ReadFiles, FilterPrior, InjectHeld
<1>2. /\ ~ProveRoots /\ ~Decide /\ ~ProveUploaded /\ ~FinishUpload
      /\ ~WriteSidecar /\ ~CleanupCopies
  BY DEF ProveRoots, Decide, ProveUploaded, FinishUpload, WriteSidecar, CleanupCopies
<1>3. \A p \in Paths : ~UploadOrDefer(p) /\ ~UploadSettled(p) /\ ~UploadHold(p)
                         /\ ~UploadRefused(p)
  BY DEF UploadOrDefer, UploadSettled, UploadHold, UploadRefused
<1>4. ~StartGc /\ ~GcStep /\ ~Crash /\ ~Tick /\ ~UNCHANGED vars
  BY DEF StartGc, GcStep, GcReferences, GcRevalidate, GcFetch, GcDelete, GcDone, Crash, Tick
<1>5. ~UserStep
  BY DEF UserStep, SelectSources, Unmount, Mount, Write, Delete, StartWriting, StopWriting,
         Replace, ToggleCheckout, ExcludePath
<1>6. ~SyncStep
  BY DEF SyncStep, Damage, Restore, Duplicate, TakeCopy, DeliverCopy
<1> QED BY <1>1, <1>2, <1>3, <1>4, <1>5, <1>6 DEF Next, PushStep

LEMMA KeepsAlways == Spec => [](Typed /\ OrphansInv /\ KeepsInv)
<1> QED
  BY TypedInit, TypedNext, OrphansInit, OrphansNext, KeepsInit, KeepsNext, PTL DEF Spec

-----------------------------------------------------------------------------
(* A file that never settles stays published at its accepted version,       *)
(* through holds at the scan, at the rescan and at the upload, nested       *)
(* checkouts and merged conflict copies.                                    *)
THEOREM HeldStaysPublished == Spec => HeldKeepsEntry
<1> DEFINE A == Accepts /\ saw /\ manifest # NoManifest => \A p \in held \ away :
                  manifest.files[p] # Absent => manifest'.files[p] = manifest.files[p]
<1>1. ASSUME Typed, KeepsInv, [Next]_vars PROVE A
  <2> SUFFICES ASSUME Accepts, saw, manifest # NoManifest, NEW p \in held \ away,
                      manifest.files[p] # Absent
               PROVE  manifest'.files[p] = manifest.files[p]
    OBVIOUS
  <2>1. PutManifest
    BY <1>1, OnlyPutPublishes DEF Accepts
  <2>2. manifest'.files = local
    BY <2>1 DEF PutManifest
  <2> QED BY <1>1, <2>2 DEF Accepts, KeepsInv, HeldAtEntry, InRun, Knows
<1>2. Typed /\ OrphansInv /\ KeepsInv /\ [Next]_vars => [A]_vars
  BY <1>1
<1> QED BY KeepsAlways, <1>2, PTL DEF Spec, HeldKeepsEntry

(* A push that found its manifest carries every live deletion over, unless  *)
(* it publishes the path again and the path did come back since.            *)
THEOREM DeletionsCarried == Spec => DeletionRecordKept
<1> DEFINE A == Accepts /\ saw => \A p \in Paths \ away :
                  Active(TombsOf(manifest)[p])
                    => \/ manifest'.tombs[p] # 0
                       \/ manifest'.files[p] # Absent /\ p \in backSince
<1>1. ASSUME Typed, KeepsInv, [Next]_vars PROVE A
  <2> SUFFICES ASSUME Accepts, saw, NEW p \in Paths \ away, Active(TombsOf(manifest)[p])
               PROVE  \/ manifest'.tombs[p] # 0
                      \/ manifest'.files[p] # Absent /\ p \in backSince
    OBVIOUS
  <2>1. manifest # NoManifest /\ TombsOf(manifest) = manifest.tombs /\ manifest.tombs[p] # 0
    BY DEF TombsOf, NoTombs, Active
  <2>2. PutManifest
    BY <1>1, OnlyPutPublishes DEF Accepts
  <2>3. manifest'.files = local /\ manifest'.tombs = tombs
    BY <2>2 DEF PutManifest
  <2>4. pc = "publish" /\ Knows
    BY <2>1 DEF Accepts, Knows
  <2>5. tombs[p] # 0 \/ local[p] # Absent
    BY <1>1, <2>1, <2>4 DEF KeepsInv, DeletionsTold
  <2>6. local[p] # Absent => p \in backSince
    BY <1>1, <2>1, <2>4 DEF KeepsInv, ReturnedIsBack, InRun
  <2> QED BY <2>3, <2>5, <2>6
<1>2. Typed /\ OrphansInv /\ KeepsInv /\ [Next]_vars => [A]_vars
  BY <1>1
<1> QED BY KeepsAlways, <1>2, PTL DEF Spec, DeletionRecordKept

-----------------------------------------------------------------------------
(* A file that is not there went since the last acceptance.                 *)
AbsentIsGone == \A p \in Paths : disk[p] = Absent => p \in goneSince

(* Symlinks.  What the user does to a file.                                  *)
LEMMA UserTouches ==
  ASSUME Typed, UserStep, NEW p \in Paths
  PROVE  \/ disk'[p] = disk[p]
         \/ disk'[p] \in Revs
         \/ disk'[p] = Absent /\ p \in goneSince'
         \/ disk'[p] = Big /\ "grow" \in Menu
         \/ /\ disk'[p] = Link /\ "link" \in Menu /\ disk[p] \in Revs
            /\ (SourceOf[p] \notin Internal /\ p \notin away) \/ "relink" \in Menu
<1> USE DEF diskVars, configVars, storeVars, historyVars
<1>1. disk \in [Paths -> Revs \cup {Absent, Big, Link}]
  BY DEF Typed, TypeOK, UserOK
<1>2. CASE SelectSources \/ \E s \in Sources : Unmount(s) \/ Mount(s)
  BY <1>2 DEF SelectSources, Unmount, Mount
<1>3. ASSUME NEW q \in Paths, Write(q) \/ Delete(q)
      PROVE  \/ disk'[p] = disk[p]
             \/ disk'[p] \in Revs
             \/ disk'[p] = Absent /\ p \in goneSince'
  BY <1>1, <1>3 DEF Write, Delete
<1>4. ASSUME NEW q \in Paths, \/ StartWriting(q) \/ StopWriting(q)
                              \/ ToggleCheckout(q) \/ ExcludePath(q)
      PROVE  disk'[p] = disk[p]
  BY <1>4 DEF StartWriting, StopWriting, ToggleCheckout, ExcludePath
<1>5. ASSUME NEW q \in Paths, Replace("grow", q, Big)
      PROVE  disk'[p] = disk[p] \/ (disk'[p] = Big /\ "grow" \in Menu)
  BY <1>1, <1>5 DEF Replace, Edit
<1>6. ASSUME NEW q \in Paths, Replace("link", q, Link)
      PROVE  \/ disk'[p] = disk[p]
             \/ /\ disk'[p] = Link /\ "link" \in Menu /\ disk[p] \in Revs
                /\ (SourceOf[p] \notin Internal /\ p \notin away) \/ "relink" \in Menu
  BY <1>1, <1>6 DEF Replace, Edit
<1> QED BY <1>2, <1>3, <1>4, <1>5, <1>6 DEF UserStep

(* The menus whose symlinks are seen through: none; or no oversize file that *)
(* could shrink back beside them, no link where mm alone writes and no       *)
(* second link in one place between two manifests.                          *)
TameLinks == "link" \notin Menu \/ ("grow" \notin Menu /\ "relink" \notin Menu)
LinkKinds ==
    \A p \in Paths : disk[p] # Big /\ (disk[p] = Link => SourceOf[p] \notin Internal)
Linkable(p) == disk[p] = Link \/ p \notin away

(* The first scan passes over no path that could yet become a link, unless  *)
(* that is told by something else; and once the consumer filters have run,  *)
(* what the prior names and may be a link has a local entry.                *)
FirstLook == ~rescan /\ pc \in {"read", "filter"} =>
    \A p \in In(avail \cap mounted) \ (away \cup excluded \cup goneSince \cup checkouts) :
        /\ pc = "read" => p \in listed
        /\ pc = "filter" => local[p] # Absent \/ p \in held \cup candidates
Later == pc \in {"inject", "prove", "decide"} \/ (rescan /\ pc \in {"list", "read", "filter"})
LaterLook == Later /\ prior # NoManifest =>
    \A p \in Present(prior.files) \ goneSince :
        SourceOf[p] \in (avail \cap mounted) \ Internal /\ Linkable(p) /\ prior.tombs[p] = 0
          => local[p] # Absent \/ (pc = "inject" /\ ~rescan /\ p \in held \cup candidates)
FrozenLocal == pc = "inject" /\ ~rescan /\ prior # NoManifest =>
    \A p \in frozen : local[p] # Absent
NoLinks == \A p \in Paths : disk[p] # Link
LinksInv == IF "link" \notin Menu THEN NoLinks
            ELSE LinkKinds /\ FirstLook /\ LaterLook /\ FrozenLocal

LEMMA LinksInit == Init => LinksInv
<1> SUFFICES ASSUME Init PROVE LinksInv
  OBVIOUS
<1>1. NoLinks /\ LinkKinds
  BY MarksAssumption DEF Init, NoLinks, LinkKinds
<1>2. FirstLook /\ LaterLook /\ FrozenLocal
  BY DEF Init, FirstLook, LaterLook, FrozenLocal, Later
<1> QED BY <1>1, <1>2 DEF LinksInv

(* Outside a walk only the kinds matter.                                    *)
LEMMA LinksBetween ==
  ASSUME LinksInv, UNCHANGED disk,
         ~Walking' \/ (pc' = "list" /\ ~rescan')
  PROVE  LinksInv'
<1>1. (NoLinks => NoLinks') /\ (LinkKinds => LinkKinds')
  BY DEF NoLinks, LinkKinds
<1>2. FirstLook' /\ LaterLook' /\ FrozenLocal'
  BY DEF FirstLook, LaterLook, FrozenLocal, Later, Walking
<1> QED BY <1>1, <1>2 DEF LinksInv

LEMMA LinksEndRun ==
  ASSUME LinksInv, EndRun, UNCHANGED disk
  PROVE  LinksInv'
BY LinksBetween DEF EndRun, Walking

(* A walk lists what is there and no checkout covers.                       *)
LEMMA LinksList ==
  ASSUME Typed, KeepsInv, AbsentIsGone, LinksInv, ListFiles
  PROVE  LinksInv'
<1> USE DEF worldVars, diskVars, configVars, storeVars, historyVars, fetchVars, uploadVars
<1>1. /\ pc = "list" /\ pc' = "read"
      /\ listed' = {p \in Scope \ (nested \cup excluded) : Look(p) \notin {Absent, Link}}
      /\ checkouts' = checkouts \cup {p \in Scope \cap nested : SourceOf[p] \in mounted}
      /\ UNCHANGED <<disk, mounted, excluded, avail, prior, rescan, local, held, candidates,
                     frozen, goneSince, away>>
  BY DEF ListFiles
<1>2. (NoLinks => NoLinks') /\ (LinkKinds => LinkKinds')
  BY <1>1 DEF NoLinks, LinkKinds
<1>3. FirstLook'
  <2> SUFFICES ASSUME ~rescan, NEW p \in Paths, SourceOf[p] \in avail, SourceOf[p] \in mounted,
                      p \notin away, p \notin excluded, p \notin goneSince, p \notin checkouts'
               PROVE  p \in listed'
    BY <1>1 DEF FirstLook, In
  <2>1. p \in Scope
    BY DEF Scope, In
  <2>2. Look(p) = disk[p] /\ disk[p] # Absent /\ disk[p] # Link
    BY DEF Look, AbsentIsGone, KeepsInv, LinksAreAway
  <2> QED BY <1>1, <2>1, <2>2
<1>4. "link" \in Menu => LaterLook'
  <2> SUFFICES ASSUME "link" \in Menu, rescan, prior # NoManifest,
                      NEW p \in Present(prior.files), p \notin goneSince,
                      SourceOf[p] \in (avail \cap mounted) \ Internal, Linkable(p),
                      prior.tombs[p] = 0
               PROVE  local[p] # Absent
    BY <1>1 DEF LaterLook, Later, Present, Linkable
  <2> QED BY <1>1 DEF LinksInv, LaterLook, Later
<1>5. FrozenLocal'
  BY <1>1 DEF FrozenLocal
<1> QED BY <1>2, <1>3, <1>4, <1>5 DEF LinksInv

(* What was listed is read, held or told as a candidate, but for links.     *)
LEMMA LinksRead ==
  ASSUME TameLinks, Typed, KeepsInv, AbsentIsGone, LinksInv, ReadFiles
  PROVE  LinksInv'
<1> USE DEF worldVars, diskVars, configVars, storeVars, historyVars, fetchVars, uploadVars
<1>1. CASE EndRun
  BY <1>1, LinksEndRun DEF ReadFiles, Stop
<1>2. CASE ~EndRun
  <2>1. PICK moving \in SUBSET {p \in listed \cap busy : Look(p) \in Revs},
             candidate \in SUBSET {p \in listed : Look(p) = Absent} :
             LET vanished == {p \in listed : Look(p) = Absent}
                 read == {p \in listed \ moving : Look(p) \in Revs}
                 again == Carried(read)
             IN  /\ pc' = "filter"
                 /\ local' = [p \in Paths |->
                                IF p \in read THEN disk[p]
                                ELSE IF p \in Scope \ again THEN Absent
                                ELSE local[p]]
                 /\ held' = (held \ Scope) \cup moving \cup (vanished \ candidate)
                 /\ candidates' = candidate
                 /\ UNCHANGED <<worldVars, fetchVars, rescan, checkouts, uploadVars>>
    BY <1>2 DEF ReadFiles, Stop
  <2> DEFINE vanished == {p \in listed : Look(p) = Absent}
             read == {p \in listed \ moving : Look(p) \in Revs}
             again == Carried(read)
  <2>2. /\ pc = "read" /\ pc' = "filter"
        /\ UNCHANGED <<disk, mounted, excluded, avail, prior, rescan, goneSince, away, checkouts>>
    BY <2>1 DEF ReadFiles
  <2>3. /\ \A p \in Paths : local'[p] = IF p \in read THEN disk[p]
                                        ELSE IF p \in Scope \ again THEN Absent
                                        ELSE local[p]
        /\ \A p \in moving \cup vanished : p \in held' \cup candidates'
    BY <2>1
  <2> HIDE DEF read, vanished, again
  <2>4. (NoLinks => NoLinks') /\ (LinkKinds => LinkKinds')
    BY <2>2 DEF NoLinks, LinkKinds
  <2>5. "link" \in Menu => FirstLook'
    <3> SUFFICES ASSUME "link" \in Menu, ~rescan, NEW p \in Paths, SourceOf[p] \in avail,
                        SourceOf[p] \in mounted, p \notin away, p \notin excluded,
                        p \notin goneSince, p \notin checkouts
                 PROVE  local'[p] # Absent \/ p \in held' \cup candidates'
      BY <2>2 DEF FirstLook, In
    <3>1. p \in listed
      BY <2>2 DEF LinksInv, FirstLook, In
    <3>2. Look(p) = disk[p] /\ disk[p] # Absent /\ disk[p] # Link /\ disk[p] # Big
      BY DEF Look, AbsentIsGone, KeepsInv, LinksAreAway, LinksInv, LinkKinds
    <3>3. Look(p) \in Revs
      BY <3>2 DEF Typed, TypeOK, UserOK
    <3>4. CASE p \in moving
      BY <2>3, <3>4
    <3>5. CASE p \notin moving
      <4>1. p \in read
        BY <3>1, <3>3, <3>5 DEF read
      <4> QED BY <2>3, <3>2, <4>1
    <3> QED BY <3>4, <3>5
  <2>6. "link" \in Menu => LaterLook'
    <3> SUFFICES ASSUME "link" \in Menu, rescan, prior # NoManifest,
                        NEW p \in Present(prior.files), p \notin goneSince,
                        SourceOf[p] \in (avail \cap mounted) \ Internal, Linkable(p),
                        prior.tombs[p] = 0
                 PROVE  local'[p] # Absent
      BY <2>2 DEF LaterLook, Later, Present, Linkable
    <3>1. local[p] # Absent /\ p \in Paths
      BY <2>2 DEF LinksInv, LaterLook, Later, Present
    <3>2. p \notin Scope
      BY DEF Scope, In
    <3>3. p \notin listed
      BY <2>2, <3>2 DEF KeepsInv, WalkScope
    <3> QED BY <2>3, <3>1, <3>2, <3>3 DEF read
  <2>7. FrozenLocal'
    BY <2>2 DEF FrozenLocal
  <2> QED BY <2>4, <2>5, <2>6, <2>7 DEF LinksInv
<1> QED BY <1>1, <1>2

(* The consumer filters drop what is a link.                                *)
LEMMA LinksFilter ==
  ASSUME Typed, KeepsInv, LinksInv, FilterPrior
  PROVE  LinksInv'
<1> USE DEF worldVars, diskVars, configVars, storeVars, historyVars
<1>1. /\ pc = "filter" /\ pc' = "inject"
      /\ UNCHANGED <<disk, mounted, excluded, avail, rescan, goneSince, away, held, candidates,
                     checkouts>>
  BY DEF FilterPrior
<1>2. (NoLinks => NoLinks') /\ (LinkKinds => LinkKinds') /\ FirstLook'
  BY <1>1 DEF NoLinks, LinkKinds, FirstLook
<1>3. CASE prior = NoManifest \/ rescan
  <2>1. UNCHANGED <<prior, local>>
    BY <1>3 DEF FilterPrior
  <2>2. "link" \in Menu => LaterLook'
    <3> SUFFICES ASSUME "link" \in Menu, rescan, prior # NoManifest,
                        NEW p \in Present(prior.files), p \notin goneSince,
                        SourceOf[p] \in (avail \cap mounted) \ Internal, Linkable(p),
                        prior.tombs[p] = 0
                 PROVE  local[p] # Absent
      BY <1>1, <1>3, <2>1 DEF LaterLook, Later, Present, Linkable
    <3> QED BY <1>1 DEF LinksInv, LaterLook, Later
  <2>3. FrozenLocal'
    BY <1>1, <1>3, <2>1 DEF FrozenLocal
  <2> QED BY <1>2, <2>2, <2>3 DEF LinksInv
<1>4. CASE ~(prior = NoManifest \/ rescan)
  <2> DEFINE dropped == (Paths \ Eligible) \cup Linked \cup (checkouts \ Stays)
  <2>1. /\ prior' \in Manifests
        /\ prior'.files = Cleared(dropped, prior.files)
    BY <1>4, FilteredPrior DEF Typed
  <2>2. /\ frozen' = Stays
        /\ local' = [p \in Paths |-> IF p \in Stays THEN prior.files[p] ELSE local[p]]
    BY <1>4 DEF FilterPrior
  <2>3. /\ \A p \in Paths : prior'.files[p] # Absent => p \notin dropped
        /\ \A p \in Stays : p \in Paths /\ local'[p] # Absent
        /\ \A p \in Paths : local[p] # Absent => local'[p] # Absent
    BY <2>1, <2>2 DEF Cleared, Stays, Eligible, In
  <2>4. "link" \in Menu => LaterLook'
    <3> SUFFICES ASSUME "link" \in Menu, NEW p \in Paths, prior'.files[p] # Absent,
                        p \notin goneSince, SourceOf[p] \in avail, SourceOf[p] \in mounted,
                        Linkable(p), local'[p] = Absent
                 PROVE  p \in held \cup candidates
      BY <1>1, <1>4 DEF LaterLook, Present, Linkable
    <3>1. p \in Eligible /\ p \notin Linked /\ p \notin checkouts
      BY <2>3
    <3>2. p \notin away /\ p \notin excluded
      BY <3>1 DEF Linkable, Linked, Look, Eligible, In
    <3>3. local[p] # Absent \/ p \in held \cup candidates
      BY <1>1, <1>4, <3>1, <3>2 DEF LinksInv, FirstLook, In
    <3> QED BY <2>3, <3>3
  <2>5. FrozenLocal'
    BY <2>2, <2>3 DEF FrozenLocal
  <2> QED BY <1>2, <2>4, <2>5 DEF LinksInv
<1> QED BY <1>3, <1>4

(* Held files get their entry, and what is decided stays.                   *)
LEMMA LinksDecide ==
  ASSUME Typed, KeepsInv, LinksInv, InjectHeld \/ ProveRoots \/ Decide
  PROVE  LinksInv'
<1> USE DEF worldVars, diskVars, configVars, storeVars, historyVars, fetchVars, scanVars
<1>1. CASE EndRun
  BY <1>1, LinksEndRun DEF InjectHeld, ProveRoots, Decide, Stop
<1>2. CASE ~EndRun
  <2>1. UNCHANGED <<disk, mounted, avail, prior, goneSince, away>>
    BY <1>2 DEF InjectHeld, ProveRoots, Decide, Stop
  <2>2. \/ pc = "inject" /\ pc' = "prove"
        \/ pc = "prove" /\ pc' = "decide" /\ UNCHANGED local
        \/ pc = "decide" /\ pc' \in {"list", "upload"} /\ UNCHANGED local
    BY <1>2 DEF InjectHeld, ProveRoots, Decide, Stop
  <2>3. (NoLinks => NoLinks') /\ (LinkKinds => LinkKinds') /\ FirstLook' /\ FrozenLocal'
    BY <2>1, <2>2 DEF NoLinks, LinkKinds, FirstLook, FrozenLocal
  <2>4. "link" \in Menu => LaterLook'
    <3> SUFFICES ASSUME "link" \in Menu, prior # NoManifest,
                        NEW p \in Present(prior.files), p \notin goneSince,
                        SourceOf[p] \in (avail \cap mounted) \ Internal, Linkable(p),
                        prior.tombs[p] = 0
                 PROVE  local'[p] # Absent
      BY <2>1 DEF LaterLook, Present, Linkable
    <3>1. /\ p \in Paths /\ prior.files[p] # Absent
          /\ local[p] # Absent \/ (pc = "inject" /\ ~rescan /\ p \in held \cup candidates)
      BY <2>2 DEF LinksInv, LaterLook, Later, Present
    <3>2. CASE pc # "inject"
      BY <2>2, <3>1, <3>2
    <3>3. CASE pc = "inject"
      <4>1. InjectHeld
        BY <3>3 DEF ProveRoots, Decide
      <4> DEFINE waiting == {q \in (held \cap Scope) \cup candidates :
                               /\ local[q] = Absent /\ q \notin frozen
                               /\ prior # NoManifest => prior.tombs[q] = 0}
      <4>2. local' = [q \in Paths |-> IF q \in waiting /\ prior # NoManifest
                                      THEN prior.files[q] ELSE local[q]]
        BY <1>2, <4>1 DEF InjectHeld, Stop
      <4>3. local'[p] = IF p \in waiting THEN prior.files[p] ELSE local[p]
        BY <3>1, <4>2
      <4>4. ASSUME local[p] = Absent PROVE p \in waiting
        <5>1. ~rescan /\ p \in held \cup candidates
          BY <3>1, <4>4
        <5>2. p \in Scope
          BY <3>1, <5>1 DEF Scope, In
        <5>3. p \notin frozen
          BY <3>3, <4>4, <5>1 DEF LinksInv, FrozenLocal
        <5> QED BY <4>4, <5>1, <5>2, <5>3
      <4> HIDE DEF waiting
      <4> QED BY <3>1, <4>3, <4>4
    <3> QED BY <3>2, <3>3
  <2> QED BY <2>3, <2>4 DEF LinksInv
<1> QED BY <1>1, <1>2

(* What the user does during a run makes a link of nothing that was not     *)
(* looked at: only of what is linkable, and once.                           *)
LEMMA LinksUser ==
  ASSUME TameLinks, "flap" \notin Menu, Typed, KeepsInv, AbsentIsGone, LinksInv, UserStep
  PROVE  LinksInv'
<1> USE DEF diskVars, configVars, storeVars, historyVars
<1>1. /\ UNCHANGED runVars /\ goneSince \subseteq goneSince' /\ away \subseteq away'
      /\ UNCHANGED excluded \/ pc = "idle"
      /\ mounted' \subseteq mounted \/ pc = "idle"
  BY DEF UserStep, SelectSources, Unmount, Mount, Write, Delete, StartWriting,
         StopWriting, Replace, ToggleCheckout, ExcludePath
<1>2. CASE "link" \notin Menu
  <2>1. NoLinks'
    BY <1>2, UserTouches, MarksAssumption DEF LinksInv, NoLinks
  <2> QED BY <1>2, <2>1 DEF LinksInv
<1>3. CASE "link" \in Menu
  <2>1. LinkKinds'
    BY <1>3, UserTouches, MarksAssumption DEF LinksInv, LinkKinds, TameLinks
  <2>2. CASE pc = "idle"
    BY <1>1, <1>3, <2>1, <2>2
    DEF LinksInv, FirstLook, LaterLook, Later, FrozenLocal, runVars, KeepsInv, FreshRun
  <2>3. CASE pc # "idle"
    <3>1. FirstLook'
      BY <1>1, <1>3, <2>3
      DEF LinksInv, FirstLook, In, runVars, fetchVars, scanVars
    <3>2. ASSUME NEW p \in Paths, p \notin goneSince, Linkable(p)' PROVE Linkable(p)
      <4>1. disk[p] # Absent
        BY <3>2 DEF AbsentIsGone
      <4>2. CASE p \notin away
        BY <4>2 DEF Linkable
      <4>3. CASE p \in away
        <5>1. disk'[p] = Link
          BY <1>1, <3>2, <4>3 DEF Linkable
        <5>2. disk'[p] = disk[p]
          BY <1>3, <4>3, <5>1, UserTouches, MarksAssumption DEF TameLinks
        <5> QED BY <5>1, <5>2 DEF Linkable
      <4> QED BY <4>2, <4>3
    <3>3. LaterLook'
      BY <1>1, <1>3, <2>3, <3>2
      DEF LinksInv, LaterLook, Later, Present, runVars, fetchVars, scanVars
    <3>4. FrozenLocal'
      BY <1>1, <1>3 DEF LinksInv, FrozenLocal, runVars, fetchVars, scanVars
    <3> QED BY <1>3, <2>1, <3>1, <3>3, <3>4 DEF LinksInv
  <2> QED BY <2>2, <2>3
<1> QED BY <1>2, <1>3

LEMMA LinksNext ==
  ASSUME TameLinks, "flap" \notin Menu, Typed, KeepsInv, AbsentIsGone, LinksInv, [Next]_vars
  PROVE  LinksInv'
<1> USE DEF worldVars, diskVars, configVars, storeVars, historyVars
<1>1. CASE \/ StartPush \/ WriteSidecar \/ StartGc \/ PutManifest
           \/ ProveUploaded \/ FinishUpload
  <2>1. CASE EndRun
    BY <1>1, <2>1, LinksEndRun
    DEF StartPush, WriteSidecar, StartGc, PutManifest, ProveUploaded, FinishUpload, Stop
  <2>2. CASE ~EndRun
    BY <1>1, <2>2, LinksBetween
    DEF StartPush, WriteSidecar, StartGc, PutManifest, ProveUploaded, FinishUpload, Stop, Walking
  <2> QED BY <2>1, <2>2
<1>2. CASE FetchOwn
  <2>1. CASE EndRun
    BY <1>2, <2>1, LinksEndRun DEF FetchOwn, Stop
  <2>2. CASE ~EndRun
    <3>1. pc = "fetch" /\ pc' = "list" /\ UNCHANGED <<disk, rescan>>
      BY <1>2, <2>2 DEF FetchOwn, Stop, scanVars
    <3> QED BY <3>1, LinksBetween DEF KeepsInv, FreshRun
  <2> QED BY <2>1, <2>2
<1>3. CASE ListFiles \/ ReadFiles \/ FilterPrior
  BY <1>3, LinksList, LinksRead, LinksFilter
<1>4. CASE InjectHeld \/ ProveRoots \/ Decide
  BY <1>4, LinksDecide
<1>5. CASE \E p \in Paths : UploadOrDefer(p) \/ UploadSettled(p) \/ UploadHold(p)
  <2>1. CASE EndRun
    BY <1>5, <2>1, LinksEndRun DEF UploadOrDefer, UploadSettled, UploadHold, Stop
  <2>2. CASE ~EndRun
    <3>1. pc' = "upload" /\ UNCHANGED disk
      BY <1>5, <2>2 DEF UploadOrDefer, UploadSettled, UploadHold, Stop
    <3> QED BY <3>1, LinksBetween DEF Walking
  <2> QED BY <2>1, <2>2
<1>6. CASE \/ \E p \in Paths : UploadRefused(p)
           \/ CleanupCopies \/ GcDone \/ Crash
  BY <1>6, LinksEndRun DEF UploadRefused, CleanupCopies, GcDone, Crash, Stop
<1>7. CASE GcReferences \/ GcRevalidate
  <2>1. CASE EndRun
    BY <1>7, <2>1, LinksEndRun DEF GcReferences, GcRevalidate, GcFetch, Stop
  <2>2. CASE ~EndRun
    BY <1>7, <2>2, LinksBetween DEF GcReferences, GcRevalidate, GcFetch, Stop, Walking
  <2> QED BY <2>1, <2>2
<1>8. CASE \E s \in Shas : GcDelete(s)
  BY <1>8, LinksBetween DEF GcDelete, Walking, runVars
<1>9. CASE UserStep
  BY <1>9, LinksUser
<1>10. CASE SyncStep \/ Tick \/ UNCHANGED vars
  <2>1. UNCHANGED <<disk, mounted, excluded, goneSince, away, runVars>>
    BY <1>10 DEF SyncStep, Damage, Restore, Duplicate, TakeCopy, DeliverCopy, Tick, vars
  <2>2. /\ (NoLinks => NoLinks') /\ (LinkKinds => LinkKinds') /\ (FirstLook => FirstLook')
        /\ (LaterLook => LaterLook') /\ (FrozenLocal => FrozenLocal')
    BY <2>1
    DEF NoLinks, LinkKinds, FirstLook, LaterLook, Later, Linkable, Present, FrozenLocal, In,
        runVars, fetchVars, scanVars
  <2> QED BY <2>2 DEF LinksInv
<1> QED
  BY <1>1, <1>2, <1>3, <1>4, <1>5, <1>6, <1>7, <1>8, <1>9, <1>10 DEF Next, PushStep, GcStep

-----------------------------------------------------------------------------
(* Runs whose prior is not out of date, the ones the property speaks of.    *)
Recovers == recovering => sidecar = manifest
DeletedIn(m, p) == m # NoManifest /\ m.tombs[p] # 0

(* The prior says nothing that the accepted manifest does not say, but for  *)
(* the deletions peers published; once the consumer filters have run, it    *)
(* has entries of walked sources only.                                      *)
PriorIsOurs == InRun /\ Recovers /\ prior # NoManifest => \A p \in Paths :
    /\ prior.tombs[p] # 0 => DeletedIn(manifest, p) \/ p \in PeerDeleted
    /\ prior.files[p] # Absent => manifest # NoManifest /\ manifest.files[p] = prior.files[p]
PriorIsWalked == InRun /\ prior # NoManifest => \A p \in Present(prior.files) :
    /\ SourceOf[p] \notin selected \ avail
    /\ Filtered \/ pc = "publish" \/ rescan => SourceOf[p] \in avail
RemoteIsOurs == InRun /\ ~recovering /\ prior # NoManifest =>
    /\ manifest # NoManifest /\ remote # NoManifest
    /\ remote.files = manifest.files /\ remote.tombs = manifest.tombs

(* A root stays between the proof that it is there and the looks below it.  *)
RootsThere == pc = "decide" /\ prior # NoManifest =>
    \A p \in Present(prior.files) : SourceOf[p] \in avail => SourceOf[p] \in mounted

(* What a push omits is gone, and what it announces is omitted.             *)
OmittedIsGone == pc \in {"upload", "publish"} /\ Recovers /\ prior # NoManifest =>
    \A p \in Present(prior.files) :
        local[p] = Absent => p \in goneSince \cup PeerDeleted \/ DeletedIn(manifest, p)
TombsAreTrue == pc \in {"upload", "publish"} /\ Recovers => \A p \in Paths :
    tombs[p] # 0 => p \in goneSince \cup PeerDeleted \/ DeletedIn(manifest, p)

TrueInv ==
    /\ AbsentIsGone /\ PriorIsOurs /\ PriorIsWalked /\ RemoteIsOurs /\ RootsThere
    /\ OmittedIsGone /\ TombsAreTrue

-----------------------------------------------------------------------------
(* What nobody but the user and the clock can disturb.                      *)
LEMMA TrueOutside ==
  ASSUME TrueInv, UNCHANGED <<manifest, sidecar, runVars>>,
         AbsentIsGone', goneSince \subseteq goneSince',
         UNCHANGED selected \/ pc = "idle",
         pc = "decide" => mounted \subseteq mounted'
  PROVE  TrueInv'
<1> USE DEF runVars, fetchVars, scanVars, uploadVars
<1>1. PriorIsOurs' /\ PriorIsWalked' /\ RemoteIsOurs'
  BY DEF TrueInv, PriorIsOurs, PriorIsWalked, RemoteIsOurs, InRun, Recovers, DeletedIn,
         Present, Filtered
<1>2. RootsThere' /\ OmittedIsGone' /\ TombsAreTrue'
  BY DEF TrueInv, RootsThere, OmittedIsGone, TombsAreTrue, Recovers, DeletedIn, Present
<1> QED BY <1>1, <1>2 DEF TrueInv

(* Outside a run's phases only the histories matter.                        *)
LEMMA TrueBetween ==
  ASSUME ~InRun', AbsentIsGone'
  PROVE  TrueInv'
<1>1. PriorIsOurs' /\ PriorIsWalked' /\ RemoteIsOurs'
  BY DEF PriorIsOurs, PriorIsWalked, RemoteIsOurs
<1>2. RootsThere' /\ OmittedIsGone' /\ TombsAreTrue'
  BY DEF RootsThere, OmittedIsGone, TombsAreTrue, InRun
<1> QED BY <1>1, <1>2 DEF TrueInv

LEMMA TrueEndRun ==
  ASSUME TrueInv, EndRun, UNCHANGED <<disk, goneSince>>
  PROVE  TrueInv'
<1>1. AbsentIsGone'
  BY DEF TrueInv, AbsentIsGone
<1> QED BY <1>1, TrueBetween DEF EndRun, InRun

(* A step of the run that changes neither the prior nor what was read.      *)
LEMMA TruePrior ==
  ASSUME TrueInv, InRun,
         UNCHANGED <<disk, selected, manifest, sidecar, goneSince, avail, prior, remote,
                     recovering>>,
         Filtered' \/ pc' = "publish" \/ rescan' => Filtered \/ pc = "publish" \/ rescan
  PROVE  AbsentIsGone' /\ PriorIsOurs' /\ PriorIsWalked' /\ RemoteIsOurs'
<1>1. AbsentIsGone'
  BY DEF TrueInv, AbsentIsGone
<1>2. PriorIsOurs' /\ PriorIsWalked' /\ RemoteIsOurs'
  BY DEF TrueInv, PriorIsOurs, PriorIsWalked, RemoteIsOurs, Recovers, DeletedIn, Present
<1> QED BY <1>1, <1>2

(* Tombstones generated against such a prior are true.                      *)
LEMMA GeneratedAreTrue ==
  ASSUME TrueInv, InRun, Recovers, NEW p \in Paths,
         prior # NoManifest /\ p \in Present(prior.files) /\ local[p] = Absent
           => p \in goneSince \cup PeerDeleted \/ DeletedIn(manifest, p),
         GenerateTombstones(local, prior)[p] # 0
  PROVE  p \in goneSince \cup PeerDeleted \/ DeletedIn(manifest, p)
<1>1. prior # NoManifest /\ local[p] = Absent
  BY DEF GenerateTombstones, NoTombs
<1>2. Active(prior.tombs[p]) \/ p \in Present(prior.files)
  BY <1>1 DEF GenerateTombstones, Present
<1>3. Active(prior.tombs[p]) => p \in PeerDeleted \/ DeletedIn(manifest, p)
  BY <1>1 DEF TrueInv, PriorIsOurs, Active
<1> QED BY <1>1, <1>2, <1>3

LEMMA TrueFetchOwn ==
  ASSUME Typed, NoCopies, KeepsInv, TrueInv, FetchOwn
  PROVE  TrueInv'
<1> USE DEF worldVars, diskVars, configVars, storeVars, historyVars
<1>1. CASE EndRun
  BY <1>1, TrueEndRun DEF FetchOwn, Stop
<1>2. CASE ~EndRun
  <2> DEFINE f == FetchManifest(saw)
  <2>1. /\ pc' = "list"
        /\ prior' = RecoverPrior(f) /\ remote' = f.manifest
        /\ recovering' = (f.status = "corrupt" \/ f.copiesOnly \/ f.vanished)
        /\ UNCHANGED <<worldVars, avail, rescan>>
    BY <1>2 DEF FetchOwn, Stop, scanVars
  <2>2. /\ pc = "fetch"
        /\ \A s \in selected \ avail :
             prior' # NoManifest => Present(prior'.files) \cap In({s}) = {}
    BY <1>2, <2>1 DEF FetchOwn, Stop
  <2>3. AbsentIsGone'
    BY <2>1 DEF TrueInv, AbsentIsGone
  <2>4. saw \in BOOLEAN /\ f.status \in {"ok", "corrupt", "missing"}
    BY DEF Typed, TypeOK, RunOK, FetchManifest
  <2>5. ASSUME f.status = "ok"
        PROVE  /\ manifest # NoManifest /\ f.manifest # NoManifest
               /\ f.manifest.files = manifest.files /\ f.manifest.tombs = manifest.tombs
    <3>1. manifest # NoManifest /\ f.manifest.files = manifest.files
      BY <2>4, <2>5, FetchIsPublished
    <3>2. PICK m \in Manifests, n \in Manifests :
            /\ {m, n} \subseteq copies \cup {manifest}
            /\ f.manifest = MergeManifests({m, n})
      BY <2>4, <2>5, FetchMerges DEF Typed
    <3>3. m = manifest /\ n = manifest /\ manifest \in Manifests
      BY <3>2 DEF NoCopies
    <3>4. f.manifest = MergeManifests({manifest})
      BY <3>2, <3>3
    <3>5. \A p \in Paths : f.manifest.tombs[p] = manifest.tombs[p]
      <4> SUFFICES ASSUME NEW p \in Paths
                   PROVE  MergeManifests({manifest}).tombs[p] = manifest.tombs[p]
        BY <3>4
      <4>1. MergeManifests({manifest}).tombs[p] = Latest({k.tombs[p] : k \in {manifest}})
        BY DEF MergeManifests
      <4>2. {k.tombs[p] : k \in {manifest}} = {manifest.tombs[p], manifest.tombs[p]}
        OBVIOUS
      <4>3. manifest.tombs[p] \in Nat
        BY <3>3, BoundsAssumption DEF Manifests, Tombs, Times
      <4> QED BY <4>1, <4>2, <4>3, LatestOfTwo
    <3>6. f.manifest \in Manifests
      BY <3>2, MergeOfTwo
    <3>7. f.manifest.tombs = manifest.tombs
      <4> HIDE DEF f
      <4> QED BY <3>3, <3>5, <3>6 DEF Manifests, Tombs
    <3> QED BY <3>1, <3>6, <3>7, NoManifestAssumption
  <2>6. f.status # "ok" => ~f.copiesOnly
    BY DEF FetchManifest
  <2>7. f.status = "ok" => ~f.copiesOnly /\ ~f.vanished
    BY DEF FetchManifest, NoCopies
  <2>8. ASSUME ~recovering' PROVE PriorIsOurs' /\ RemoteIsOurs'
    <3>1. prior' = NoManifest \/ (f.status = "ok" /\ prior' = f.manifest)
      <4> HIDE DEF f
      <4> QED BY <2>1, <2>4, <2>8 DEF RecoverPrior
    <3>2. prior' # NoManifest => /\ manifest # NoManifest /\ remote' # NoManifest
                                 /\ remote' = prior'
                                 /\ prior'.files = manifest.files
                                 /\ prior'.tombs = manifest.tombs
      <4> HIDE DEF f
      <4> QED BY <2>1, <2>5, <3>1
    <3> QED BY <2>1, <3>2 DEF PriorIsOurs, RemoteIsOurs, DeletedIn
  <2>9. ASSUME recovering' PROVE PriorIsOurs' /\ RemoteIsOurs'
    <3>1. f.status # "ok"
      <4> HIDE DEF f
      <4> QED BY <2>1, <2>7, <2>9
    <3>2. prior' = Fallback \/ prior' = NoManifest
      <4> HIDE DEF f
      <4> QED BY <2>1, <3>1 DEF RecoverPrior
    <3>3. ASSUME Recovers', prior' # NoManifest, NEW p \in Paths
          PROVE  /\ prior'.tombs[p] # 0 => DeletedIn(manifest, p) \/ p \in PeerDeleted
                 /\ prior'.files[p] # Absent => /\ manifest # NoManifest
                                                /\ manifest.files[p] = prior'.files[p]
      <4>1. sidecar = manifest
        BY <2>1, <2>9, <3>3 DEF Recovers
      <4>2. CASE sidecar # NoManifest
        BY <3>2, <3>3, <4>1, <4>2 DEF Fallback, DeletedIn
      <4>3. CASE sidecar = NoManifest
        <5>1. prior' = [files |-> NoFiles, tombs |-> PeerTombs, srcs |-> {}, ts |-> 0]
          BY <3>2, <3>3, <4>3 DEF Fallback
        <5> QED BY <5>1 DEF NoFiles, PeerTombs
      <4> QED BY <4>2, <4>3
    <3> QED BY <2>1, <2>9, <3>3 DEF PriorIsOurs, RemoteIsOurs, DeletedIn
  <2>10. PriorIsOurs' /\ RemoteIsOurs'
    BY <2>8, <2>9
  <2>11. PriorIsWalked'
    <3>1. ~rescan
      BY <2>2 DEF KeepsInv, FreshRun
    <3>2. \A s \in selected \ avail : \A p \in Present(prior'.files) :
            prior' # NoManifest => SourceOf[p] # s
      BY <2>2 DEF Present, In
    <3> HIDE DEF f
    <3> QED BY <2>1, <3>1, <3>2 DEF PriorIsWalked, Filtered, Present
  <2>12. RootsThere' /\ OmittedIsGone' /\ TombsAreTrue'
    BY <2>1 DEF RootsThere, OmittedIsGone, TombsAreTrue
  <2> QED BY <2>3, <2>10, <2>11, <2>12 DEF TrueInv
<1> QED BY <1>1, <1>2

LEMMA TrueScan ==
  ASSUME Typed, TrueInv, ListFiles \/ ReadFiles \/ InjectHeld \/ ProveRoots
  PROVE  TrueInv'
<1> USE DEF worldVars, diskVars, configVars, storeVars, historyVars, fetchVars
<1>1. CASE EndRun
  BY <1>1, TrueEndRun DEF ListFiles, ReadFiles, InjectHeld, ProveRoots, Stop
<1>2. CASE ~EndRun
  <2>1. UNCHANGED <<disk, mounted, selected, manifest, sidecar, goneSince, avail, prior,
                    remote, recovering, rescan>>
    BY <1>2 DEF ListFiles, ReadFiles, InjectHeld, ProveRoots, Stop, scanVars
  <2>2. \/ pc = "list" /\ pc' = "read"
        \/ pc = "read" /\ pc' = "filter"
        \/ pc = "inject" /\ pc' = "prove"
        \/ pc = "prove" /\ pc' = "decide" /\ ProveRoots
    BY <1>2 DEF ListFiles, ReadFiles, InjectHeld, ProveRoots, Stop
  <2>3. AbsentIsGone' /\ PriorIsOurs' /\ PriorIsWalked' /\ RemoteIsOurs'
    BY <2>1, <2>2, TruePrior DEF InRun, Filtered
  <2>4. RootsThere'
    <3> SUFFICES ASSUME ProveRoots, prior # NoManifest
                 PROVE  \A p \in Present(prior.files) :
                          SourceOf[p] \in avail => SourceOf[p] \in mounted
      BY <2>1, <2>2 DEF RootsThere, Present
    <3> QED BY <1>2, PathsAssumption DEF ProveRoots, Stop, Present, In
  <2>5. OmittedIsGone' /\ TombsAreTrue'
    BY <2>2 DEF OmittedIsGone, TombsAreTrue
  <2> QED BY <2>3, <2>4, <2>5 DEF TrueInv
<1> QED BY <1>1, <1>2

LEMMA TrueFilterPrior ==
  ASSUME Typed, KeepsInv, TrueInv, FilterPrior
  PROVE  TrueInv'
<1> USE DEF worldVars, diskVars, configVars, storeVars, historyVars
<1>1. /\ pc = "filter" /\ pc' = "inject"
      /\ UNCHANGED <<disk, mounted, selected, manifest, sidecar, goneSince, avail, remote,
                     recovering, rescan>>
  BY DEF FilterPrior
<1>2. AbsentIsGone' /\ RootsThere' /\ OmittedIsGone' /\ TombsAreTrue'
  BY <1>1 DEF TrueInv, AbsentIsGone, RootsThere, OmittedIsGone, TombsAreTrue
<1>3. CASE prior = NoManifest \/ rescan
  <2>1. UNCHANGED prior
    BY <1>3 DEF FilterPrior
  <2>2. PriorIsOurs' /\ PriorIsWalked' /\ RemoteIsOurs'
    BY <1>1, <1>3, <2>1
    DEF TrueInv, PriorIsOurs, PriorIsWalked, RemoteIsOurs, InRun, Recovers, DeletedIn, Present
  <2> QED BY <1>2, <2>2 DEF TrueInv
<1>4. CASE ~(prior = NoManifest \/ rescan)
  <2> DEFINE dropped == (Paths \ Eligible) \cup Linked \cup (checkouts \ Stays)
  <2>1. /\ prior' \in Manifests
        /\ prior'.files = Cleared(dropped, prior.files)
        /\ prior'.tombs = [p \in Paths |-> IF p \in Forgotten(Linked) THEN 0 ELSE prior.tombs[p]]
    BY <1>4, FilteredPrior DEF Typed
  <2>2. \A p \in Paths : /\ prior'.tombs[p] \in {0, prior.tombs[p]}
                         /\ prior'.files[p] # Absent => /\ prior'.files[p] = prior.files[p]
                                                        /\ p \in Eligible
    BY <2>1 DEF Cleared
  <2>3. PriorIsOurs' /\ RemoteIsOurs'
    BY <1>1, <1>4, <2>2
    DEF TrueInv, PriorIsOurs, RemoteIsOurs, InRun, Recovers, DeletedIn
  <2>4. PriorIsWalked'
    <3> SUFFICES ASSUME NEW p \in Paths, prior'.files[p] # Absent
                 PROVE  SourceOf[p] \in avail
      BY <1>1 DEF PriorIsWalked, Present
    <3>1. SourceOf[p] \in selected /\ prior.files[p] # Absent
      BY <2>2 DEF Eligible, In
    <3> QED BY <1>1, <1>4, <3>1 DEF TrueInv, PriorIsWalked, InRun, Present
  <2> QED BY <1>2, <2>3, <2>4 DEF TrueInv
<1> QED BY <1>3, <1>4

LEMMA TrueDecide ==
  ASSUME Typed, TrueInv, LinksInv, Decide
  PROVE  TrueInv'
<1> USE DEF worldVars, diskVars, configVars, storeVars, historyVars, fetchVars
<1>1. CASE EndRun
  BY <1>1, TrueEndRun DEF Decide, Stop
<1>2. CASE ~EndRun
  <2>1. /\ pc = "decide" /\ pc' \in {"list", "upload"}
        /\ tombs' = GenerateTombstones(local, prior)
        /\ UNCHANGED <<disk, selected, manifest, sidecar, goneSince, avail, prior, remote,
                       recovering, local>>
    BY <1>2 DEF Decide, Stop
  <2>2. \A p \in In(avail) : prior # NoManifest /\ prior.files[p] # Absent /\ local[p] = Absent
                               => ~StillThere(p)
    BY <1>2 DEF Decide, Stop
  <2>3. AbsentIsGone' /\ PriorIsOurs' /\ PriorIsWalked' /\ RemoteIsOurs'
    BY <2>1, TruePrior DEF InRun, Filtered
  <2>4. ASSUME Recovers, prior # NoManifest, NEW p \in Present(prior.files), local[p] = Absent
        PROVE  p \in goneSince \cup PeerDeleted \/ DeletedIn(manifest, p)
    <3>1. p \in Paths /\ prior.files[p] # Absent
      BY <2>4 DEF Present
    <3>2. SourceOf[p] \in avail /\ SourceOf[p] \in mounted
      BY <2>1, <2>4 DEF TrueInv, PriorIsWalked, RootsThere, InRun, Filtered
    <3>3. Look(p) = disk[p] /\ disk[p] \in {Absent, Link}
      BY <2>2, <2>4, <3>1, <3>2 DEF StillThere, Look, In
    <3>4. CASE disk[p] = Absent
      BY <3>1, <3>4 DEF TrueInv, AbsentIsGone
    <3>5. CASE disk[p] = Link
      <4>1. "link" \in Menu /\ SourceOf[p] \notin Internal
        BY <3>1, <3>5 DEF LinksInv, NoLinks, LinkKinds
      <4>2. p \in goneSince \/ prior.tombs[p] # 0
        BY <2>1, <2>4, <3>2, <3>5, <4>1 DEF LinksInv, LaterLook, Later, Linkable
      <4> QED BY <2>1, <2>4, <3>1, <4>2 DEF TrueInv, PriorIsOurs, InRun
    <3> QED BY <3>3, <3>4, <3>5
  <2>5. OmittedIsGone'
    BY <2>1, <2>4 DEF OmittedIsGone, Recovers, DeletedIn
  <2>6. TombsAreTrue'
    <3> SUFFICES ASSUME Recovers, NEW p \in Paths, tombs'[p] # 0
                 PROVE  p \in goneSince \cup PeerDeleted \/ DeletedIn(manifest, p)
      BY <2>1 DEF TombsAreTrue, Recovers, DeletedIn
    <3> QED BY <2>1, <2>4, GeneratedAreTrue DEF InRun
  <2>7. RootsThere'
    BY <2>1 DEF RootsThere
  <2> QED BY <2>3, <2>5, <2>6, <2>7 DEF TrueInv
<1> QED BY <1>1, <1>2

LEMMA TrueUploads ==
  ASSUME Typed, TrueInv, NEW p \in Paths,
         UploadOrDefer(p) \/ UploadSettled(p) \/ UploadHold(p)
  PROVE  TrueInv'
<1> USE DEF worldVars, diskVars, configVars, storeVars, historyVars, fetchVars
<1>1. CASE EndRun
  BY <1>1, TrueEndRun DEF UploadOrDefer, UploadSettled, UploadHold, Stop
<1>2. CASE ~EndRun
  <2>1. /\ pc = "upload" /\ pc' = "upload"
        /\ UNCHANGED <<disk, selected, manifest, sidecar, goneSince, avail, prior, remote,
                       recovering, rescan, tombs>>
    BY <1>2 DEF UploadOrDefer, UploadSettled, UploadHold, Stop, scanVars
  <2>2. local \in Files
    BY DEF Typed, TypeOK, ScanOK
  <2>3. \/ UNCHANGED local
        \/ local' = [local EXCEPT ![p] = disk[p]] /\ disk[p] # Absent
        \/ local' = [local EXCEPT ![p] = HoldEntry(p)] /\ ~recovering
    BY <1>2, MarksAssumption DEF UploadOrDefer, UploadSettled, UploadHold, Stop, scanVars, Look
  <2>4. \A q \in Paths : \/ local'[q] = local[q]
                         \/ local'[q] # Absent
                         \/ q = p /\ HoldEntry(p) = Absent /\ ~recovering
    BY <2>2, <2>3 DEF Files
  <2>5. AbsentIsGone' /\ PriorIsOurs' /\ PriorIsWalked' /\ RemoteIsOurs'
    BY <2>1, TruePrior DEF InRun, Filtered
  <2>6. ASSUME Recovers, ~recovering, prior # NoManifest, prior.files[p] # Absent,
               HoldEntry(p) = Absent
        PROVE  DeletedIn(manifest, p)
    <3>1. /\ manifest # NoManifest /\ remote # NoManifest
          /\ remote.files = manifest.files /\ remote.tombs = manifest.tombs
          /\ manifest.files[p] = prior.files[p]
      BY <2>1, <2>6 DEF TrueInv, RemoteIsOurs, PriorIsOurs, InRun
    <3> QED BY <2>6, <3>1 DEF HoldEntry, RemoteFiles, RemoteTombs, DeletedIn
  <2>7. OmittedIsGone'
    BY <2>1, <2>4, <2>6 DEF TrueInv, OmittedIsGone, Recovers, DeletedIn, Present
  <2>8. TombsAreTrue' /\ RootsThere'
    BY <2>1 DEF TrueInv, TombsAreTrue, Recovers, DeletedIn, RootsThere
  <2> QED BY <2>5, <2>7, <2>8 DEF TrueInv
<1> QED BY <1>1, <1>2

LEMMA TrueProveUploaded ==
  ASSUME Typed, TrueInv, ProveUploaded
  PROVE  TrueInv'
<1> USE DEF worldVars, diskVars, configVars, storeVars, historyVars, fetchVars, scanVars
<1>1. CASE EndRun
  BY <1>1, TrueEndRun DEF ProveUploaded, Stop
<1>2. CASE ~EndRun
  <2>1. /\ pc = "upload" /\ pc' = "upload"
        /\ UNCHANGED <<disk, selected, manifest, sidecar, goneSince, avail, prior, remote,
                       recovering, rescan, local, tombs>>
    BY <1>2 DEF ProveUploaded, Stop
  <2>2. AbsentIsGone' /\ PriorIsOurs' /\ PriorIsWalked' /\ RemoteIsOurs'
    BY <2>1, TruePrior DEF InRun, Filtered
  <2>3. OmittedIsGone' /\ RootsThere' /\ TombsAreTrue'
    BY <2>1 DEF TrueInv, OmittedIsGone, Recovers, DeletedIn, Present, RootsThere, TombsAreTrue
  <2> QED BY <2>2, <2>3 DEF TrueInv
<1> QED BY <1>1, <1>2

LEMMA TrueFinishUpload ==
  ASSUME Typed, TrueInv, FinishUpload
  PROVE  TrueInv'
<1> USE DEF worldVars, diskVars, configVars, storeVars, historyVars, fetchVars, scanVars
<1>1. /\ pc = "upload" /\ pc' = "publish"
      /\ tombs' = IF uploadHeld THEN GenerateTombstones(local, prior) ELSE tombs
      /\ UNCHANGED <<disk, selected, manifest, sidecar, goneSince, avail, prior, remote,
                     recovering, rescan, local>>
  BY DEF FinishUpload
<1>2. AbsentIsGone' /\ PriorIsOurs' /\ PriorIsWalked' /\ RemoteIsOurs'
  BY <1>1, TruePrior DEF InRun, Filtered
<1>3. OmittedIsGone' /\ RootsThere'
  BY <1>1 DEF TrueInv, OmittedIsGone, Recovers, DeletedIn, Present, RootsThere
<1>4. TombsAreTrue'
  <2> SUFFICES ASSUME Recovers, NEW p \in Paths, tombs'[p] # 0
               PROVE  p \in goneSince \cup PeerDeleted \/ DeletedIn(manifest, p)
    BY <1>1 DEF TombsAreTrue, Recovers, DeletedIn
  <2>1. CASE uploadHeld
    <3>1. GenerateTombstones(local, prior)[p] # 0
      BY <1>1, <2>1
    <3>2. prior # NoManifest /\ p \in Present(prior.files) /\ local[p] = Absent
            => p \in goneSince \cup PeerDeleted \/ DeletedIn(manifest, p)
      BY <1>1 DEF TrueInv, OmittedIsGone
    <3> QED BY <1>1, <3>1, <3>2, GeneratedAreTrue DEF InRun
  <2>2. CASE ~uploadHeld
    BY <1>1, <2>2 DEF TrueInv, TombsAreTrue
  <2> QED BY <2>1, <2>2
<1> QED BY <1>2, <1>3, <1>4 DEF TrueInv

LEMMA TrueInit == Init => TrueInv
<1> SUFFICES ASSUME Init PROVE TrueInv
  OBVIOUS
<1>1. AbsentIsGone
  BY MarksAssumption DEF Init, AbsentIsGone
<1>2. PriorIsOurs /\ PriorIsWalked /\ RemoteIsOurs
  BY DEF Init, PriorIsOurs, PriorIsWalked, RemoteIsOurs
<1>3. RootsThere /\ OmittedIsGone /\ TombsAreTrue
  BY DEF Init, RootsThere, OmittedIsGone, TombsAreTrue
<1> QED BY <1>1, <1>2, <1>3 DEF TrueInv

LEMMA TrueNext ==
  ASSUME "flap" \notin Menu,
         Typed, NoCopies, KeepsInv, LinksInv, TrueInv, [Next]_vars
  PROVE  TrueInv'
<1> USE DEF worldVars, diskVars, configVars, storeVars, historyVars
<1>0. ASSUME UNCHANGED <<disk, goneSince>> PROVE AbsentIsGone'
  BY <1>0 DEF TrueInv, AbsentIsGone
<1>1. CASE StartPush \/ WriteSidecar \/ StartGc
  BY <1>0, <1>1, TrueBetween DEF StartPush, WriteSidecar, StartGc, InRun
<1>2. CASE FetchOwn \/ ListFiles \/ ReadFiles \/ FilterPrior \/ InjectHeld
  BY <1>2, TrueFetchOwn, TrueScan, TrueFilterPrior
<1>3. CASE ProveRoots \/ Decide \/ ProveUploaded \/ FinishUpload
  BY <1>3, TrueScan, TrueDecide, TrueProveUploaded, TrueFinishUpload
<1>4. CASE \E p \in Paths : UploadOrDefer(p) \/ UploadSettled(p) \/ UploadHold(p)
  BY <1>4, TrueUploads
<1>5. CASE \/ \E p \in Paths : UploadRefused(p)
           \/ CleanupCopies \/ GcDone \/ Crash
  BY <1>5, TrueEndRun DEF UploadRefused, CleanupCopies, GcDone, Crash, Stop
<1>6. CASE PutManifest
  <2>1. AbsentIsGone'
    BY <1>6 DEF PutManifest, TrueInv, AbsentIsGone
  <2> QED BY <1>6, <2>1, TrueBetween DEF PutManifest, InRun
<1>7. CASE GcReferences \/ GcRevalidate
  <2>1. CASE EndRun
    BY <1>7, <2>1, TrueEndRun DEF GcReferences, GcRevalidate, GcFetch, Stop
  <2>2. CASE ~EndRun
    BY <1>0, <1>7, <2>2, TrueBetween DEF GcReferences, GcRevalidate, GcFetch, Stop, InRun
  <2> QED BY <2>1, <2>2
<1>8. CASE \E s \in Shas : GcDelete(s)
  BY <1>0, <1>8, TrueBetween DEF GcDelete, InRun, runVars
<1>9. CASE UserStep
  <2>1. UNCHANGED <<manifest, sidecar, runVars>> /\ goneSince \subseteq goneSince'
    BY <1>9 DEF UserStep, SelectSources, Unmount, Mount, Write, Delete, StartWriting,
                StopWriting, Replace, ToggleCheckout, ExcludePath
  <2>2. UNCHANGED selected \/ pc = "idle"
    BY <1>9 DEF UserStep, SelectSources, Unmount, Mount, Write, Delete, StartWriting,
                StopWriting, Replace, ToggleCheckout, ExcludePath
  <2>3. pc = "decide" => mounted \subseteq mounted'
    BY <1>9 DEF UserStep, SelectSources, Unmount, Mount, Write, Delete, StartWriting,
                StopWriting, Replace, ToggleCheckout, ExcludePath
  <2>4. AbsentIsGone'
    BY <1>9, <2>1, UserTouches, MarksAssumption DEF TrueInv, AbsentIsGone
  <2> QED BY <2>1, <2>2, <2>3, <2>4, TrueOutside
<1>10. CASE SyncStep \/ Tick \/ UNCHANGED vars
  <2>1. UNCHANGED <<manifest, sidecar, runVars, disk, mounted, selected, goneSince>>
    BY <1>10 DEF SyncStep, Damage, Restore, Duplicate, TakeCopy, DeliverCopy, Tick, vars
  <2> QED BY <1>0, <2>1, TrueOutside
<1> QED
  BY <1>1, <1>2, <1>3, <1>4, <1>5, <1>6, <1>7, <1>8, <1>9, <1>10 DEF Next, PushStep, GcStep

-----------------------------------------------------------------------------
(* Where the sync tool leaves no conflict copies, no root flaps between two *)
(* looks of one check, and symlinks, if they take the place of a file, are  *)
(* tame and no file is oversize, a push announces no deletion of a file     *)
(* that was there all along: what it left out (moving, oversize or a link,  *)
(* unselected, excluded, nested, unmounted), held or recovered is never     *)
(* told as gone.                                                            *)
THEOREM TombstonesAreTrue ==
  ASSUME "copy" \notin Menu, "late" \notin Menu, "flap" \notin Menu, TameLinks
  PROVE  Spec => NoFalseTombstone
<1> DEFINE A == Accepts => \A p \in Paths :
                  manifest'.tombs[p] # 0 /\ TombsOf(manifest)[p] = 0
                    => p \in goneSince \cup PeerDeleted
           I == Typed /\ StoredInv /\ OrphansInv /\ KeepsInv /\ TrueInv /\ LinksInv
<1>1. ASSUME TrueInv, [Next]_vars PROVE A
  <2> SUFFICES ASSUME Accepts, NEW p \in Paths, manifest'.tombs[p] # 0,
                      TombsOf(manifest)[p] = 0
               PROVE  p \in goneSince \cup PeerDeleted
    OBVIOUS
  <2>1. PutManifest
    BY <1>1, OnlyPutPublishes DEF Accepts
  <2>2. manifest'.tombs = tombs
    BY <2>1 DEF PutManifest
  <2>3. ~DeletedIn(manifest, p)
    BY DEF DeletedIn, TombsOf
  <2> QED BY <1>1, <2>2, <2>3 DEF Accepts, Recovers, TrueInv, TombsAreTrue
<1>2. Init => I
  BY TypedInit, StoredInit, OrphansInit, KeepsInit, TrueInit, LinksInit
<1>3. I /\ [Next]_vars => I'
  BY TypedNext, StoredNext, OrphansNext, KeepsNext, TrueNext, LinksNext DEF StoredInv, TrueInv
<1>4. I /\ [Next]_vars => [A]_vars
  BY <1>1
<1> HIDE DEF I
<1> QED BY <1>2, <1>3, <1>4, PTL DEF Spec, NoFalseTombstone

(* Under the same conditions selection, checkouts and the rescan of mm's    *)
(* own sources change neither what is stored nor what counts as deleted.    *)
THEOREM SelectionSafe ==
  ASSUME "copy" \notin Menu, "late" \notin Menu, "flap" \notin Menu, TameLinks
  PROVE  Spec => SelectionIsSafe
BY BlobsStored, TombstonesAreTrue, DeletionsCarried DEF SelectionIsSafe
=============================================================================
