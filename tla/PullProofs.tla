----------------------------- MODULE PullProofs -----------------------------
(***************************************************************************)
(* What is proved of Pull for every value of its constants.                 *)
(***************************************************************************)
EXTENDS Pull, FiniteSetTheorems, TLAPS

(* While files are applied the peer in hand has a readable manifest which    *)
(* lists every queued file; the file in hand is queued; a merge and a prompt *)
(* are about an ordinary local file.                                        *)
Acting == {"write", "merge", "ask", "conflict", "stale"}
Walking == {"apply"} \cup Acting
WalkInv ==
    /\ pc \in Walking => /\ peer \in Peers /\ cache[peer] # NoManifest
                         /\ \A p \in queue : Rev(p) # Absent
    /\ pc \in Acting => at.path \in queue
    /\ pc \in {"merge", "ask"} => at.local \in Locals
TypeInv == TypeOK /\ WalkInv

-----------------------------------------------------------------------------
LEMMA EntriesAreManifests ==
  ASSUME NEW F \in [Paths -> Revs \cup Locals \cup {Absent}], NEW T \in SUBSET Paths,
         NEW t \in Nat
  PROVE  [files |-> F, tombs |-> T, ts |-> t] \in Manifests
BY DEF Manifests

LEMMA NewestOfTwo ==
  ASSUME NEW m \in Manifests, NEW n \in Manifests
  PROVE  Newest({m, n}) \in {m, n}
<1> USE DEF Manifests
<1>1. \E x \in {m, n} : \A y \in {m, n} : y.ts <= x.ts
  <2>1. m.ts \in Nat /\ n.ts \in Nat
    OBVIOUS
  <2>2. CASE m.ts <= n.ts
    BY <2>1, <2>2
  <2>3. CASE n.ts <= m.ts
    BY <2>1, <2>3
  <2> QED BY <2>1, <2>2, <2>3
<1> QED BY <1>1 DEF Newest

LEMMA NewestOfFew ==
  ASSUME NEW m \in Manifests, NEW n \in Manifests, NEW V \in SUBSET {m, n}, V # {}
  PROVE  Newest(V) \in V
<1>1. CASE m \in V /\ n \in V
  <2>1. V = {m, n}
    BY <1>1
  <2> QED BY <2>1, NewestOfTwo
<1>2. CASE n \notin V
  <2>1. V = {m, m}
    BY <1>2
  <2> QED BY <2>1, NewestOfTwo
<1>3. CASE m \notin V
  <2>1. V = {n, n}
    BY <1>3
  <2> QED BY <2>1, NewestOfTwo
<1> QED BY <1>1, <1>2, <1>3

(* A read of a manifest gives a manifest where one can be read, or none.     *)
LEMMA FetchSome ==
  ASSUME StoreOK, NEW d \in Devices, Versions(d) # {}
  PROVE  Fetch(d) \in Manifests
<1>1. PICK m \in Manifests, n \in Manifests : Versions(d) \subseteq {m, n}
  <2>1. main[d] \in Manifests
    BY DEF StoreOK
  <2>2. CASE spare[d] = NoManifest
    <3>1. Versions(d) \subseteq {main[d], main[d]}
      BY <2>2 DEF Versions
    <3> QED BY <2>1, <3>1
  <2>3. CASE spare[d] # NoManifest
    <3>1. Versions(d) \subseteq {main[d], spare[d]} /\ spare[d] \in Manifests
      BY <2>3 DEF Versions, StoreOK
    <3> QED BY <2>1, <3>1
  <2> QED BY <2>2, <2>3
<1> DEFINE F == [p \in Paths |->
                   LET having == {v \in Versions(d) : v.files[p] # Absent}
                   IN IF having = {} THEN Absent ELSE Newest(having).files[p]]
           T == UNION {v.tombs : v \in Versions(d)}
<1>2. Fetch(d) = [files |-> F, tombs |-> T, ts |-> Newest(Versions(d)).ts]
  BY DEF Fetch
<1>3. ASSUME NEW p \in Paths
      PROVE  F[p] \in Revs \cup Locals \cup {Absent}
  <2> DEFINE having == {v \in Versions(d) : v.files[p] # Absent}
  <2>1. CASE having = {}
    BY <2>1
  <2>2. CASE having # {}
    <3>1. having \in SUBSET {m, n}
      BY <1>1
    <3>2. Newest(having) \in having
      BY <2>2, <3>1, NewestOfFew
    <3>3. Newest(having) \in Manifests
      BY <3>1, <3>2
    <3> QED BY <2>2, <3>3 DEF Manifests
  <2> QED BY <2>1, <2>2
<1>4. F \in [Paths -> Revs \cup Locals \cup {Absent}]
  BY <1>3
<1>5. T \in SUBSET Paths
  BY <1>1 DEF Manifests
<1>6. Newest(Versions(d)).ts \in Nat
  <2>1. Newest(Versions(d)) \in Manifests
    BY <1>1, NewestOfFew
  <2> QED BY <2>1 DEF Manifests
<1> HIDE DEF F, T
<1> QED BY <1>2, <1>4, <1>5, <1>6, EntriesAreManifests

LEMMA FetchType ==
  ASSUME StoreOK, NEW d \in Devices
  PROVE  Fetch(d) \in Manifests \cup {NoManifest}
BY FetchSome DEF Fetch

LEMMA StampOf ==
  ASSUME NEW mt \in Nat
  PROVE  Restored(mt) \in Stamps /\ BumpPast(mt) \in Stamps
BY TimesAssumption DEF Restored, Stamps, NoTime, Lower, Upper, BumpPast

LEMMA EntryType ==
  ASSUME NEW r \in Revs \cup Locals
  PROVE  r.text \in Texts /\ r.mt \in Nat
<1>1. CASE r \in Revs
  BY <1>1, TimesAssumption DEF Revs
<1>2. CASE r \in Locals
  BY <1>2, TimesAssumption DEF Locals, Stamps
<1> QED BY <1>1, <1>2

(* The entry of a queued file.                                              *)
LEMMA RevType ==
  ASSUME TypeInv, pc \in Walking, NEW p \in queue
  PROVE  /\ p \in Paths /\ peer \in Peers
         /\ Rev(p).text \in Texts /\ Rev(p).mt \in Nat
         /\ Restored(Rev(p).mt) \in Stamps
<1>1. p \in Paths /\ peer \in Peers /\ peer \in Devices
  BY DEF TypeInv, TypeOK, WalkOK, WalkInv, Peers, Devices
<1>2. cache[peer] \in Manifests
  BY <1>1 DEF TypeInv, TypeOK, SetupOK, WalkInv
<1>3. Rev(p) \in Revs \cup Locals
  BY <1>1, <1>2 DEF Manifests, Rev, TypeInv, WalkInv
<1>4. Rev(p).text \in Texts /\ Rev(p).mt \in Nat
  BY <1>3, EntryType
<1> QED BY <1>1, <1>4, StampOf

-----------------------------------------------------------------------------
(* Type correctness.                                                        *)
LEMMA BlankType ==
  /\ Nowhere \in [path : Paths \cup {NoFile}, local : Locals \cup {Absent, Link},
                 stale : SUBSET Copies]
  /\ NonePending \in [Paths -> {NotKept} \cup Nat]
  /\ 0 \in 0 .. NPeers + 1
<1>1. {} \in SUBSET Copies
  OBVIOUS
<1>2. Nowhere \in [path : Paths \cup {NoFile}, local : Locals \cup {Absent, Link},
                  stale : SUBSET Copies]
  BY <1>1 DEF Nowhere
<1>3. NonePending \in [Paths -> {NotKept} \cup Nat]
  BY DEF NonePending
<1>4. 0 \in 0 .. NPeers + 1
  BY PeersAssumption
<1> QED BY <1>2, <1>3, <1>4

LEMMA TypeInit == Init => TypeInv
<1> SUFFICES ASSUME Init PROVE TypeInv
  OBVIOUS
<1> USE DEF Init
<1>1. Empty \in Manifests
  BY EntriesAreManifests DEF Empty
<1>2. FilesOK /\ StoreOK
  BY <1>1, PeersAssumption DEF FilesOK, StoreOK, NoOne, Devices, Peers
<1>3. SetupOK /\ NotesOK
  BY DEF SetupOK, NotesOK, NoOne
<1>4. WalkOK
  BY BlankType DEF WalkOK
<1>5. WalkInv
  BY DEF WalkInv, Walking, Acting
<1> QED BY <1>2, <1>3, <1>4, <1>5 DEF TypeInv, TypeOK

(* A step that ends the run and leaves the rest well typed.                 *)
LEMMA OverType ==
  ASSUME Over
  PROVE  SetupOK' /\ WalkOK' /\ WalkInv' /\ leftOpen' = {} /\ reopened' = {}
<1>1. SetupOK'
  BY DEF Over, SetupOK, NoOne
<1>2. WalkOK'
  BY BlankType DEF Over, WalkOK
<1>3. WalkInv'
  BY DEF Over, WalkInv, Walking, Acting
<1> QED BY <1>1, <1>2, <1>3 DEF Over

LEMMA PutsType ==
  ASSUME TypeInv, pc \in Acting, NEW text \in Texts, NEW mt \in Stamps, Puts(text, mt),
         mine' \in [Paths -> Texts \cup {Absent, Link}]
  PROVE  TypeInv'
<1> USE DEF TypeInv, Puts, Goes, Voids
<1>0. at.path \in queue /\ at.path \in Paths
  BY DEF TypeOK, WalkOK, WalkInv
<1>1. FilesOK'
  BY <1>0 DEF TypeOK, FilesOK, Locals
<1>2. StoreOK'
  BY DEF TypeOK, StoreOK, storeVars
<1>3. SetupOK'
  BY DEF TypeOK, SetupOK, setupVars
<1>4. WalkOK'
  BY DEF TypeOK, WalkOK, Nowhere, NotKept
<1>5. NotesOK'
  BY <1>0 DEF TypeOK, NotesOK, budgetVars
<1>6. WalkInv'
  BY DEF WalkInv, Walking, Acting, setupVars, Rev
<1> QED BY <1>1, <1>2, <1>3, <1>4, <1>5, <1>6 DEF TypeOK

(* The steps of a run.                                                      *)
LEMMA BeginType ==
  ASSUME TypeInv, NEW m \in Modes, Begin(m)
  PROVE  TypeInv'
<1> USE DEF TypeInv, Begin
<1>1. FilesOK' /\ StoreOK'
  BY DEF TypeOK, FilesOK, StoreOK, fileVars, storeVars
<1>2. cache' \in [Devices -> Manifests \cup {NoManifest}]
  BY FetchType DEF TypeOK
<1>3. tombs' \subseteq Paths
  BY <1>2 DEF CollectTombstones, Readable, Manifests
<1>4. SetupOK'
  BY <1>2, <1>3, ModesAssumption DEF SetupOK
<1>5. WalkOK'
  BY PeersAssumption DEF TypeOK, WalkOK
<1>6. NotesOK'
  BY DEF TypeOK, NotesOK, budgetVars
<1>7. WalkInv'
  BY DEF WalkInv, Walking, Acting
<1> QED BY <1>1, <1>4, <1>5, <1>6, <1>7 DEF TypeOK

LEMMA PreflightType ==
  ASSUME TypeInv, Preflight
  PROVE  TypeInv'
<1> USE DEF TypeInv, Preflight
<1>1. FilesOK' /\ StoreOK'
  BY DEF TypeOK, FilesOK, StoreOK, fileVars, storeVars
<1>2. CASE WouldConflict
  <2>1. NotesOK'
    BY <1>2, OverType DEF TypeOK, NotesOK, budgetVars
  <2> QED BY <1>1, <1>2, <2>1, OverType DEF TypeOK
<1>3. CASE ~WouldConflict
  <2>1. SetupOK'
    BY <1>3 DEF TypeOK, SetupOK, setupVars
  <2>2. WalkOK'
    BY <1>3 DEF TypeOK, WalkOK, walkVars
  <2>3. NotesOK'
    BY <1>3 DEF TypeOK, NotesOK, budgetVars, noteVars
  <2>4. WalkInv'
    BY <1>3 DEF WalkInv, Walking, Acting
  <2> QED BY <1>1, <2>1, <2>2, <2>3, <2>4 DEF TypeOK
<1> QED BY <1>2, <1>3

LEMMA NextPeerType ==
  ASSUME TypeInv, NextPeer
  PROVE  TypeInv'
<1> USE DEF TypeInv, NextPeer
<1>1. FilesOK' /\ StoreOK'
  BY DEF TypeOK, FilesOK, StoreOK, fileVars, storeVars
<1>2. SetupOK'
  BY DEF TypeOK, SetupOK, setupVars
<1>3. WalkOK'
  <2>1. peer' \in 0 .. NPeers + 1
    BY PeersAssumption DEF Peers
  <2>2. queue' \subseteq Paths
    BY DEF TypeOK, WalkOK
  <2> QED BY <2>1, <2>2 DEF TypeOK, WalkOK
<1>4. NotesOK'
  BY DEF TypeOK, NotesOK, budgetVars, noteVars
<1>5. WalkInv'
  BY DEF WalkInv, Walking, Acting, setupVars, Differs, Rev
<1> QED BY <1>1, <1>2, <1>3, <1>4, <1>5 DEF TypeOK

(* A queued file leaves the queue with nothing written.                     *)
LEMMA PassesType ==
  ASSUME TypeInv, NEW p \in Paths, pc = "apply", Passes(p),
         acted' \in BOOLEAN, lacking' \in BOOLEAN,
         edits' \in Nat, pubs' \in Nat, faults' \in Nat
  PROVE  TypeInv'
<1> USE DEF TypeInv, Passes
<1>1. FilesOK' /\ StoreOK'
  BY DEF TypeOK, FilesOK, StoreOK, fileVars, storeVars
<1>2. SetupOK'
  BY DEF TypeOK, SetupOK, setupVars
<1>3. WalkOK'
  BY DEF TypeOK, WalkOK
<1>4. NotesOK'
  BY DEF TypeOK, NotesOK, noteVars
<1>5. WalkInv'
  BY DEF WalkInv, Walking, Acting, setupVars, Rev
<1> QED BY <1>1, <1>2, <1>3, <1>4, <1>5 DEF TypeOK

LEMMA FileType ==
  ASSUME TypeInv, NEW p \in Paths, Waits(p) \/ Leaves(p) \/ Fails(p)
  PROVE  TypeInv'
<1>1. pc = "apply" /\ Passes(p)
  BY DEF Waits, Leaves, Fails, Arrived
<1>2. acted' \in BOOLEAN /\ lacking' \in BOOLEAN
  BY DEF Waits, Leaves, Fails, TypeInv, TypeOK, WalkOK
<1>3. edits' \in Nat /\ pubs' \in Nat /\ faults' \in Nat
  BY DEF Waits, Leaves, Fails, TypeInv, TypeOK, NotesOK, budgetVars
<1> QED BY <1>1, <1>2, <1>3, PassesType

LEMMA LooksType ==
  ASSUME TypeInv, NEW p \in Paths, Looks(p)
  PROVE  TypeInv'
<1> USE DEF TypeInv, Looks
<1>0. /\ Doing(p) \in {"write", "merge", "ask", "conflict"}
      /\ Doing(p) \in {"merge", "ask"} => disk[p] \notin {Absent, Link}
  BY DEF Doing
<1>1. FilesOK' /\ StoreOK'
  BY DEF TypeOK, FilesOK, StoreOK, fileVars, storeVars
<1>2. SetupOK'
  BY <1>0 DEF TypeOK, SetupOK, setupVars
<1>3. disk[p] \in Locals \cup {Absent, Link}
  BY DEF TypeOK, FilesOK
<1>4. WalkOK'
  BY <1>3 DEF TypeOK, WalkOK
<1>5. NotesOK'
  BY DEF TypeOK, NotesOK, budgetVars, noteVars
<1>6. WalkInv'
  BY <1>0, <1>3 DEF WalkInv, Walking, Acting, setupVars, Rev, Arrived
<1> QED BY <1>1, <1>2, <1>4, <1>5, <1>6 DEF TypeOK

LEMMA WriteType ==
  ASSUME TypeInv, Write
  PROVE  TypeInv'
<1>1. pc \in Acting /\ pc \in Walking /\ at.path \in queue
  BY DEF Write, Acting, Walking, TypeInv, WalkInv
<1>2. mine' \in [Paths -> Texts \cup {Absent, Link}]
  BY DEF Write, TypeInv, TypeOK, NotesOK
<1>3. Rev(at.path).text \in Texts /\ Restored(Rev(at.path).mt) \in Stamps
  BY <1>1, RevType
<1>4. Puts(Rev(at.path).text, Restored(Rev(at.path).mt))
  BY DEF Write
<1> QED BY <1>1, <1>2, <1>3, <1>4, PutsType

(* What a merge or the prompt's third answer writes.                        *)
LEMMA UnionType ==
  ASSUME TypeInv, pc \in {"merge", "ask"}
  PROVE  Union(at.local, Rev(at.path)) \in Texts /\ Now \in Stamps
<1>1. pc \in Walking /\ at.path \in queue /\ at.local \in Locals
  BY DEF Acting, Walking, TypeInv, WalkInv
<1>2. Rev(at.path).text \in Texts /\ at.local.text \in Texts
  BY <1>1, RevType DEF Locals
<1>3. Now \in Stamps
  BY TimesAssumption DEF Stamps
<1> QED BY <1>2, <1>3, TextsAssumption DEF Union

LEMMA MergeType ==
  ASSUME TypeInv, Merge
  PROVE  TypeInv'
<1> DEFINE new == Union(at.local, Rev(at.path))
<1>1. pc \in Acting /\ pc \in {"merge", "ask"}
  BY DEF Merge, Acting
<1>2. CASE new # at.local.text
  <2>1. Puts(new, Now) /\ mine' = mine
    BY <1>2 DEF Merge
  <2>2. mine' \in [Paths -> Texts \cup {Absent, Link}]
    BY <2>1 DEF TypeInv, TypeOK, NotesOK
  <2> HIDE DEF new
  <2>3. new \in Texts /\ Now \in Stamps
    BY <1>1, UnionType DEF new
  <2> QED BY <1>1, <2>1, <2>2, <2>3, PutsType
<1>3. CASE new = at.local.text
  <2>0. /\ Goes
        /\ UNCHANGED <<fileVars, storeVars, setupVars, peer, acted, lacking,
                        pending, budgetVars, noteVars>>
    BY <1>3 DEF Merge
  <2> USE <2>0 DEF TypeInv, Goes
  <2>1. FilesOK' /\ StoreOK'
    BY DEF TypeOK, FilesOK, StoreOK, fileVars, storeVars
  <2>2. SetupOK'
    BY DEF TypeOK, SetupOK, setupVars
  <2>3. WalkOK'
    BY BlankType DEF TypeOK, WalkOK
  <2>4. NotesOK'
    BY DEF TypeOK, NotesOK, budgetVars, noteVars
  <2>5. WalkInv'
    BY <1>1 DEF WalkInv, Walking, Acting, setupVars, Rev
  <2> QED BY <2>1, <2>2, <2>3, <2>4, <2>5 DEF TypeOK
<1> QED BY <1>2, <1>3

LEMMA KeepLocalType ==
  ASSUME TypeInv, KeepLocal
  PROVE  TypeInv'
<1> USE DEF TypeInv, KeepLocal, Goes
<1>0. pc \in Walking /\ pc \in Acting /\ at.path \in queue
  BY DEF Walking, Acting, WalkInv
<1>1. at.path \in Paths /\ Rev(at.path).mt \in Nat
  BY <1>0, RevType
<1>2. FilesOK' /\ StoreOK'
  BY DEF TypeOK, FilesOK, StoreOK, fileVars, storeVars
<1>3. SetupOK'
  BY DEF TypeOK, SetupOK, setupVars
<1>4. pending' \in [Paths -> {NotKept} \cup Nat]
  BY <1>1 DEF TypeOK, WalkOK, Highest, Upper
<1>5. WalkOK'
  BY <1>4, BlankType DEF TypeOK, WalkOK
<1>6. NotesOK'
  BY <1>1 DEF TypeOK, NotesOK, budgetVars
<1>7. WalkInv'
  BY <1>0 DEF WalkInv, Walking, Acting, setupVars, Rev
<1> QED BY <1>2, <1>3, <1>5, <1>6, <1>7 DEF TypeOK

LEMMA AnsweredType ==
  ASSUME TypeInv, NEW text \in Texts, Answered(text)
  PROVE  mine' \in [Paths -> Texts \cup {Absent, Link}]
BY DEF Answered, TypeInv, TypeOK, NotesOK

LEMMA KeepTextType ==
  ASSUME TypeInv, KeepRemote \/ KeepMerged
  PROVE  TypeInv'
<1>1. pc \in Acting /\ pc \in Walking /\ pc \in {"merge", "ask"} /\ at.path \in queue
  BY DEF KeepRemote, KeepMerged, Acting, Walking, TypeInv, WalkInv
<1>2. CASE KeepRemote
  <2>1. Rev(at.path).text \in Texts /\ Restored(Rev(at.path).mt) \in Stamps
    BY <1>1, RevType
  <2>2. mine' \in [Paths -> Texts \cup {Absent, Link}]
    BY <1>2, <2>1, AnsweredType DEF KeepRemote
  <2>3. Puts(Rev(at.path).text, Restored(Rev(at.path).mt))
    BY <1>2 DEF KeepRemote
  <2> QED BY <1>1, <2>1, <2>2, <2>3, PutsType
<1>3. CASE KeepMerged
  <2>1. Union(at.local, Rev(at.path)) \in Texts /\ Now \in Stamps
    BY <1>1, UnionType
  <2>2. mine' \in [Paths -> Texts \cup {Absent, Link}]
    BY <1>3, <2>1, AnsweredType DEF KeepMerged
  <2>3. Puts(Union(at.local, Rev(at.path)), Now)
    BY <1>3 DEF KeepMerged
  <2> QED BY <1>1, <2>1, <2>2, <2>3, PutsType
<1> QED BY <1>2, <1>3

LEMMA KeepBothType ==
  ASSUME TypeInv, KeepBoth
  PROVE  TypeInv'
<1> USE DEF TypeInv, KeepBoth
<1>1. FilesOK' /\ StoreOK'
  BY DEF TypeOK, FilesOK, StoreOK, fileVars, storeVars
<1>2. SetupOK'
  BY DEF TypeOK, SetupOK, setupVars
<1>3. WalkOK'
  BY DEF TypeOK, WalkOK, walkVars
<1>4. NotesOK'
  BY DEF TypeOK, NotesOK, budgetVars, noteVars
<1>5. WalkInv'
  BY DEF WalkInv, Walking, Acting, setupVars, walkVars, Rev
<1> QED BY <1>1, <1>2, <1>3, <1>4, <1>5 DEF TypeOK

LEMMA SaveType ==
  ASSUME TypeInv, Save
  PROVE  TypeInv'
<1> DEFINE new == [from |-> peer, text |-> Rev(at.path).text]
<1> USE DEF TypeInv, Save, Goes, Voids
<1>0. pc \in Walking /\ pc \in Acting /\ at.path \in queue
  BY DEF Walking, Acting, WalkInv
<1>1. at.path \in Paths /\ peer \in Peers /\ Rev(at.path).text \in Texts
  BY <1>0, RevType
<1>2. new \in Copies
  BY <1>1 DEF Copies
<1>3. FilesOK'
  <2>1. copies' = copies \/ copies' = [copies EXCEPT ![at.path] = @ \cup {new}]
    OBVIOUS
  <2> HIDE DEF new
  <2>2. disk' = disk
    OBVIOUS
  <2> QED BY <1>1, <1>2, <2>1, <2>2 DEF TypeOK, FilesOK
<1>4. StoreOK'
  BY DEF TypeOK, StoreOK, storeVars
<1>5. SetupOK'
  BY DEF TypeOK, SetupOK, setupVars
<1>6. WalkOK'
  <2>1. From(peer, at.path) \subseteq Copies
    BY <1>1 DEF From, TypeOK, FilesOK
  <2>2. at' = Nowhere \/ at' = [at EXCEPT !.stale = From(peer, at.path)]
    OBVIOUS
  <2>3. at' \in [path : Paths \cup {NoFile}, local : Locals \cup {Absent, Link},
                stale : SUBSET Copies]
    BY <2>1, <2>2, BlankType DEF TypeOK, WalkOK
  <2>4. queue' \subseteq Paths /\ pending' \in [Paths -> {NotKept} \cup Nat]
    BY DEF TypeOK, WalkOK
  <2> QED BY <2>3, <2>4 DEF TypeOK, WalkOK
<1>7. NotesOK'
  BY <1>1 DEF TypeOK, NotesOK, budgetVars
<1>8. WalkInv'
  <2>1. peer' = peer /\ cache' = cache /\ queue' \subseteq queue
    BY DEF setupVars
  <2>2. pc' \in {"apply", "stale"}
    OBVIOUS
  <2>3. pc' = "stale" => at'.path = at.path /\ queue' = queue
    BY DEF TypeOK, WalkOK
  <2> QED BY <1>0, <2>1, <2>2, <2>3 DEF WalkInv, Walking, Acting, Rev
<1> QED BY <1>3, <1>4, <1>5, <1>6, <1>7, <1>8 DEF TypeOK

LEMMA ReapType ==
  ASSUME TypeInv, Reap
  PROVE  TypeInv'
<1> USE DEF TypeInv, Reap, Goes
<1>0. pc \in Walking /\ pc \in Acting /\ at.path \in queue
  BY DEF Walking, Acting, WalkInv
<1>1. FilesOK'
  BY DEF TypeOK, FilesOK
<1>2. StoreOK' /\ SetupOK'
  BY DEF TypeOK, StoreOK, storeVars, SetupOK, setupVars
<1>3. WalkOK'
  BY BlankType DEF TypeOK, WalkOK
<1>4. NotesOK'
  BY DEF TypeOK, NotesOK, budgetVars, noteVars
<1>5. WalkInv'
  BY <1>0 DEF WalkInv, Walking, Acting, setupVars, Rev
<1> QED BY <1>1, <1>2, <1>3, <1>4, <1>5 DEF TypeOK

LEMMA EndPeerType ==
  ASSUME TypeInv, EndPeer
  PROVE  TypeInv'
<1> USE DEF TypeInv, EndPeer
<1>1. FilesOK'
  BY DEF TypeOK, FilesOK, fileVars
<1>2. StoreOK'
  BY DEF TypeOK, StoreOK
<1>3. SetupOK'
  BY DEF TypeOK, SetupOK, setupVars
<1>4. WalkOK'
  <2>1. peer \in Peers
    BY DEF WalkInv, Walking
  <2>2. peer' \in 0 .. NPeers + 1
    BY <2>1, PeersAssumption DEF Peers
  <2> QED BY <2>2 DEF TypeOK, WalkOK
<1>5. NotesOK'
  BY DEF TypeOK, NotesOK, budgetVars, noteVars
<1>6. WalkInv'
  BY DEF WalkInv, Walking, Acting
<1> QED BY <1>1, <1>2, <1>3, <1>4, <1>5, <1>6 DEF TypeOK

LEMMA DrainType ==
  ASSUME TypeInv, Drain
  PROVE  TypeInv'
<1>1. \A p \in Paths : disk'[p] \in Locals \cup {Absent, Link}
  <2> SUFFICES ASSUME NEW p \in Paths
               PROVE  disk'[p] \in Locals \cup {Absent, Link}
    OBVIOUS
  <2>1. disk[p] \in Locals \cup {Absent, Link} /\ pending[p] \in {NotKept} \cup Nat
    BY DEF TypeInv, TypeOK, FilesOK, WalkOK
  <2>2. CASE pending[p] = NotKept \/ disk[p] \in {Absent, Link}
    BY <2>1, <2>2 DEF Drain
  <2>3. CASE ~(pending[p] = NotKept \/ disk[p] \in {Absent, Link})
    <3>1. disk[p] \in Locals /\ BumpPast(pending[p]) \in Stamps
      BY <2>1, <2>3, StampOf
    <3>2. disk'[p] = [disk[p] EXCEPT !.mt = BumpPast(pending[p])]
      BY <2>3 DEF Drain
    <3> QED BY <3>1, <3>2 DEF Locals
  <2> QED BY <2>2, <2>3
<1>2. disk' = [p \in Paths |-> disk'[p]]
  BY DEF Drain
<1>3. FilesOK'
  BY <1>1, <1>2 DEF Drain, TypeInv, TypeOK, FilesOK
<1>4. StoreOK'
  BY DEF Drain, TypeInv, TypeOK, StoreOK, storeVars
<1>5. SetupOK' /\ WalkOK' /\ WalkInv' /\ leftOpen' = {} /\ reopened' = {}
  BY OverType DEF Drain
<1>6. NotesOK'
  BY <1>5 DEF Drain, TypeInv, TypeOK, NotesOK, budgetVars
<1> QED BY <1>3, <1>4, <1>5, <1>6 DEF TypeInv, TypeOK

LEMMA EndsType ==
  ASSUME TypeInv, Abort \/ Crash
  PROVE  TypeInv'
<1>1. SetupOK' /\ WalkOK' /\ WalkInv' /\ leftOpen' = {} /\ reopened' = {}
  BY OverType DEF Abort, Crash
<1>2. FilesOK' /\ StoreOK'
  BY DEF Abort, Crash, TypeInv, TypeOK, FilesOK, StoreOK, fileVars, storeVars
<1>3. NotesOK'
  BY <1>1 DEF Abort, Crash, TypeInv, TypeOK, NotesOK, budgetVars
<1> QED BY <1>1, <1>2, <1>3 DEF TypeInv, TypeOK

(* The steps of the others leave the run alone.                             *)
LEMMA RunUnchanged ==
  ASSUME TypeInv, UNCHANGED runVars
  PROVE  SetupOK' /\ WalkOK' /\ WalkInv'
<1> USE DEF TypeInv, runVars, setupVars, walkVars
<1>1. SetupOK'
  BY DEF TypeOK, SetupOK
<1>2. WalkOK'
  BY DEF TypeOK, WalkOK
<1>3. WalkInv'
  BY DEF WalkInv, Walking, Acting, Rev
<1> QED BY <1>1, <1>2, <1>3

LEMMA EditsType ==
  ASSUME TypeInv, NEW p \in Paths, NEW f \in Locals \cup {Absent, Link},
         NEW text \in Texts \cup {Absent, Link}, Edits(p, f, text)
  PROVE  TypeInv'
<1> USE DEF Edits
<1>1. FilesOK' /\ StoreOK'
  BY DEF TypeInv, TypeOK, FilesOK, StoreOK, storeVars
<1>2. NotesOK'
  BY DEF TypeInv, TypeOK, NotesOK
<1> QED BY <1>1, <1>2, RunUnchanged DEF TypeInv, TypeOK

LEMMA OwnPushType ==
  ASSUME TypeInv, OwnPush
  PROVE  TypeInv'
<1> DEFINE here == {p \in Paths : disk[p] \notin {Absent, Link}}
           known == {p \in Paths : main[0].files[p] # Absent} \cup main[0].tombs
           F == [p \in Paths |-> IF p \in here THEN disk[p] ELSE Absent]
           new == [files |-> F, tombs |-> known \ here, ts |-> main[0].ts + 1]
<1>1. 0 \in Devices /\ main[0] \in Manifests
  BY PeersAssumption DEF TypeInv, TypeOK, StoreOK, Devices
<1>2. F \in [Paths -> Revs \cup Locals \cup {Absent}]
  BY DEF TypeInv, TypeOK, FilesOK
<1>3. known \ here \subseteq Paths /\ main[0].ts + 1 \in Nat
  BY <1>1 DEF Manifests
<1>4. main' = [main EXCEPT ![0] = new] /\ damaged' = damaged \ {0}
  BY DEF OwnPush
<1>5. UNCHANGED <<fileVars, spare, blobs, runVars, budgetVars, noteVars>>
  BY DEF OwnPush
<1>6. new \in Manifests
  <2> HIDE DEF F, known, here
  <2> QED BY <1>2, <1>3, EntriesAreManifests
<1> HIDE DEF new
<1>7. FilesOK' /\ NotesOK'
  BY <1>5 DEF TypeInv, TypeOK, FilesOK, fileVars, NotesOK, budgetVars, noteVars
<1>8. StoreOK'
  BY <1>4, <1>5, <1>6 DEF TypeInv, TypeOK, StoreOK
<1>9. SetupOK' /\ WalkOK' /\ WalkInv'
  BY <1>5, RunUnchanged
<1> QED BY <1>7, <1>8, <1>9 DEF TypeInv, TypeOK

LEMMA UserType ==
  ASSUME TypeInv, User
  PROVE  TypeInv'
<1>1. ASSUME NEW p \in Paths, UserRemoves(p) \/ UserLinks(p)
      PROVE  TypeInv'
  BY <1>1, EditsType DEF UserRemoves, UserLinks
<1>2. ASSUME NEW p \in Paths, NEW t \in Texts, NEW mt \in Mtimes, UserWrites(p, t, mt)
      PROVE  TypeInv'
  <2>1. mt \in Stamps
    BY TimesAssumption DEF Stamps
  <2>2. [text |-> t, mt |-> mt] \in Locals
    BY <2>1 DEF Locals
  <2> QED BY <1>2, <2>2, EditsType DEF UserWrites
<1>3. ASSUME NEW p \in Paths, NEW c \in copies[p], UserReviews(p, c)
      PROVE  TypeInv'
  <2>1. FilesOK' /\ StoreOK'
    BY <1>3 DEF UserReviews, TypeInv, TypeOK, FilesOK, StoreOK, storeVars
  <2>2. NotesOK'
    BY <1>3 DEF UserReviews, TypeInv, TypeOK, NotesOK
  <2>3. SetupOK' /\ WalkOK' /\ WalkInv'
    BY <1>3, RunUnchanged DEF UserReviews
  <2> QED BY <2>1, <2>2, <2>3 DEF TypeInv, TypeOK
<1> QED BY <1>1, <1>2, <1>3, OwnPushType DEF User

LEMMA PublishType ==
  ASSUME TypeInv, NEW q \in Peers, NEW f \in [Paths -> Revs \cup {Absent}],
         NEW T \in SUBSET Paths, Publish(q, f, T)
  PROVE  TypeInv'
<1> DEFINE new == [files |-> f, tombs |-> T, ts |-> NextTs(q)]
<1>1. q \in Devices
  BY DEF Peers, Devices
<1>2. NextTs(q) \in Nat
  <2>1. main[q].ts \in Nat /\ (spare[q] # NoManifest => spare[q].ts \in Nat)
    BY <1>1 DEF TypeInv, TypeOK, StoreOK, Manifests
  <2> QED BY <2>1 DEF NextTs, Upper
<1>3. new \in Manifests
  BY <1>2, EntriesAreManifests
<1>4. TextsOf(new) \subseteq Texts
  BY EntryType DEF TextsOf
<1>5. /\ \/ main' = [main EXCEPT ![q] = new] /\ UNCHANGED spare
         \/ main' = [main EXCEPT ![q] = new] /\ spare' = [spare EXCEPT ![q] = main[q]]
         \/ spare' = [spare EXCEPT ![q] = new] /\ UNCHANGED main
      /\ damaged' = damaged \ {q}
      /\ blobs' = blobs \/ blobs' = [blobs EXCEPT ![q] = @ \cup TextsOf(new)]
      /\ edits' = edits /\ pubs' = pubs + 1 /\ faults' = faults
      /\ UNCHANGED <<fileVars, runVars, noteVars>>
  BY DEF Publish
<1> HIDE DEF new
<1>6. FilesOK' /\ NotesOK'
  BY <1>5 DEF TypeInv, TypeOK, FilesOK, fileVars, NotesOK, noteVars
<1>7. StoreOK'
  <2>1. main' \in [Devices -> Manifests] /\ spare' \in [Devices -> Manifests \cup {NoManifest}]
    BY <1>1, <1>3, <1>5 DEF TypeInv, TypeOK, StoreOK
  <2>2. damaged' \subseteq Devices /\ blobs' \in [Peers -> SUBSET Texts]
    BY <1>4, <1>5 DEF TypeInv, TypeOK, StoreOK
  <2> QED BY <2>1, <2>2 DEF StoreOK
<1>8. SetupOK' /\ WalkOK' /\ WalkInv'
  BY <1>5, RunUnchanged
<1> QED BY <1>6, <1>7, <1>8 DEF TypeInv, TypeOK

LEMMA StorageType ==
  ASSUME TypeInv, Storage
  PROVE  TypeInv'
<1>1. ASSUME NEW q \in Peers, NEW t \in Texts, BlobArrives(q, t) \/ BlobGoes(q, t)
      PROVE  TypeInv'
  <2> USE <1>1 DEF BlobArrives, BlobGoes
  <2>1. FilesOK' /\ NotesOK'
    BY DEF TypeInv, TypeOK, FilesOK, fileVars, NotesOK, budgetVars, noteVars
  <2>2. StoreOK'
    BY DEF TypeInv, TypeOK, StoreOK
  <2> QED BY <2>1, <2>2, RunUnchanged DEF TypeInv, TypeOK
<1>2. ASSUME NEW d \in Devices, Damage(d) \/ Heal(d)
      PROVE  TypeInv'
  <2> USE <1>2 DEF Damage, Heal
  <2>1. FilesOK' /\ StoreOK'
    BY DEF TypeInv, TypeOK, FilesOK, fileVars, StoreOK
  <2>2. NotesOK'
    BY DEF TypeInv, TypeOK, NotesOK, budgetVars, noteVars
  <2> QED BY <2>1, <2>2, RunUnchanged DEF TypeInv, TypeOK
<1> QED BY <1>1, <1>2, PublishType DEF Storage

LEMMA TypeStutter ==
  ASSUME TypeInv, UNCHANGED vars
  PROVE  TypeInv'
<1> USE DEF vars
<1>1. FilesOK' /\ StoreOK'
  BY DEF TypeInv, TypeOK, FilesOK, fileVars, StoreOK, storeVars
<1>2. NotesOK'
  BY DEF TypeInv, TypeOK, NotesOK, budgetVars, noteVars
<1> QED BY <1>1, <1>2, RunUnchanged DEF TypeInv, TypeOK

LEMMA TypeStep == TypeInv /\ [Next]_vars => TypeInv'
<1> SUFFICES ASSUME TypeInv, [Next]_vars PROVE TypeInv'
  OBVIOUS
<1>1. CASE \E m \in Modes : Begin(m)
  BY <1>1, BeginType
<1>2. CASE Step
  BY <1>2, PreflightType, NextPeerType, WriteType, MergeType, SaveType, ReapType,
     EndPeerType, DrainType, FileType, LooksType DEF Step
<1>3. CASE Prompted \/ Crash
  BY <1>3, KeepLocalType, KeepTextType, KeepBothType, EndsType DEF Prompted
<1>4. CASE \E p \in Paths : Fails(p)
  BY <1>4, FileType
<1>5. CASE User
  BY <1>5, UserType
<1>6. CASE Storage
  BY <1>6, StorageType
<1>7. CASE UNCHANGED vars
  BY <1>7, TypeStutter
<1> QED BY <1>1, <1>2, <1>3, <1>4, <1>5, <1>6, <1>7 DEF Next

LEMMA TypeInvariant == Spec => []TypeInv
BY TypeInit, TypeStep, PTL DEF Spec

(* Every variable of the pull model keeps its kind of value: _pull_core and  *)
(* what it writes, for any peers, paths, clocks and bounds.                 *)
THEOREM TypeCorrect == Spec => []TypeOK
<1>1. TypeInv => TypeOK
  BY DEF TypeInv
<1> QED BY <1>1, TypeInvariant, PTL

-----------------------------------------------------------------------------
(* Bumps.  Each outcome that writes a file or leaves it open takes its bump  *)
(* away; only a later keep-local gives it one again.                        *)
LEMMA BumpFrame ==
  ASSUME LaterPeerVoidsBump, UNCHANGED <<pending, reopened>>
  PROVE  LaterPeerVoidsBump'
BY DEF LaterPeerVoidsBump

LEMMA BumpOver ==
  ASSUME Over
  PROVE  LaterPeerVoidsBump'
BY DEF LaterPeerVoidsBump, Over

LEMMA BumpVoids ==
  ASSUME TypeInv, LaterPeerVoidsBump, NEW p \in Paths, Voids(p)
  PROVE  LaterPeerVoidsBump'
BY DEF LaterPeerVoidsBump, Voids, TypeInv, TypeOK, WalkOK, NotesOK

LEMMA BumpStep == TypeInv /\ LaterPeerVoidsBump /\ [Next]_vars => LaterPeerVoidsBump'
<1> SUFFICES ASSUME TypeInv, LaterPeerVoidsBump, [Next]_vars
             PROVE  LaterPeerVoidsBump'
  OBVIOUS
<1>0. pc \in Acting => at.path \in Paths
  BY DEF TypeInv, TypeOK, WalkOK, WalkInv
<1>1. CASE Abort \/ Crash \/ Drain \/ (Preflight /\ WouldConflict)
  BY <1>1, BumpOver DEF Abort, Crash, Drain, Preflight
<1>2. CASE Write \/ KeepRemote \/ KeepMerged \/ Save
  <2>1. Voids(at.path) /\ pc \in Acting
    BY <1>2 DEF Write, KeepRemote, KeepMerged, Save, Puts, Acting
  <2> QED BY <1>0, <2>1, BumpVoids
<1>3. CASE Merge
  <2>1. pc \in Acting /\ (Voids(at.path) \/ UNCHANGED <<pending, reopened>>)
    BY <1>3 DEF Merge, Puts, Acting, noteVars
  <2> QED BY <1>0, <2>1, BumpVoids, BumpFrame
<1>4. CASE KeepLocal
  BY <1>4 DEF KeepLocal, LaterPeerVoidsBump, Highest, TypeInv, TypeOK, WalkOK, NotesOK
<1>5. CASE \/ \E m \in Modes : Begin(m)
           \/ Preflight /\ ~WouldConflict
           \/ NextPeer \/ Reap \/ EndPeer \/ KeepBoth
           \/ \E p \in Paths : Waits(p) \/ Leaves(p) \/ Looks(p) \/ Fails(p)
           \/ User \/ Storage \/ UNCHANGED vars
  <2>1. UNCHANGED <<pending, reopened>>
    BY <1>5 DEF Begin, Preflight, NextPeer, Reap, EndPeer, KeepBoth, Waits, Leaves, Looks,
       Fails, Passes, User, UserRemoves, UserLinks, UserWrites, UserReviews, Edits, OwnPush,
       Storage, Publish, BlobArrives, BlobGoes, Damage, Heal, vars, runVars, noteVars
  <2> QED BY <2>1, BumpFrame
<1> QED BY <1>1, <1>2, <1>3, <1>4, <1>5 DEF Next, Step, Prompted

(* No bump stands on a file that a later outcome of the same run wrote or    *)
(* left open (_invalidate_inline_bump), for any number of peers and answers. *)
THEOREM BumpsVoided == Spec => []LaterPeerVoidsBump
<1>1. Init => LaterPeerVoidsBump
  BY DEF Init, LaterPeerVoidsBump
<1> QED BY <1>1, BumpStep, TypeInvariant, PTL DEF Spec

-----------------------------------------------------------------------------
(* Conflict copies.  Between the publication of a copy and the removal of    *)
(* the peer's outdated ones, one that stays is there already.               *)
ConflictInv ==
    /\ UnreviewedConflictKept
    /\ pc = "stale" => /\ \A c \in at.stale : c.from = peer
                       /\ \E c \in From(peer, at.path) : c \notin at.stale

LEMMA ConflictFrame ==
  ASSUME ConflictInv, UNCHANGED <<copies, saved>>,
         pc' = "stale" => UNCHANGED <<pc, at, peer>>
  PROVE  ConflictInv'
BY DEF ConflictInv, UnreviewedConflictKept, From

LEMMA ConflictSave ==
  ASSUME TypeInv, ConflictInv, Save
  PROVE  ConflictInv'
<1> DEFINE new == [from |-> peer, text |-> Rev(at.path).text]
<1>1. at.path \in Paths
  BY DEF Save, Acting, TypeInv, TypeOK, WalkOK, WalkInv
<1>2. saved' = saved \cup {<<at.path, peer>>} /\ peer' = peer
  BY DEF Save
<1>3. CASE new \in copies[at.path]
  <2>1. copies' = copies /\ pc' = "apply"
    BY <1>3 DEF Save, Goes
  <2>2. new \in From(peer, at.path)
    BY <1>3 DEF From
  <2> HIDE DEF new
  <2> QED BY <1>2, <2>1, <2>2 DEF ConflictInv, UnreviewedConflictKept, From
<1>4. CASE new \notin copies[at.path]
  <2>1. /\ copies' = [copies EXCEPT ![at.path] = @ \cup {new}]
        /\ at' = [at EXCEPT !.stale = From(peer, at.path)]
    BY <1>4 DEF Save
  <2>2. at'.path = at.path /\ at'.stale = From(peer, at.path)
    BY <2>1 DEF TypeInv, TypeOK, WalkOK
  <2>3. new.from = peer
    OBVIOUS
  <2> HIDE DEF new
  <2>4. copies'[at.path] = copies[at.path] \cup {new}
    BY <1>1, <2>1 DEF TypeInv, TypeOK, FilesOK
  <2>5. \A p \in Paths : copies[p] \subseteq copies'[p]
    BY <1>1, <2>1 DEF TypeInv, TypeOK, FilesOK
  <2>6. UnreviewedConflictKept'
    <3> SUFFICES ASSUME NEW p \in Paths, NEW q \in Peers, <<p, q>> \in saved'
                 PROVE  \E c \in copies'[p] : c.from = q
      BY DEF UnreviewedConflictKept, From
    <3>1. CASE <<p, q>> \in saved
      BY <2>5, <3>1 DEF ConflictInv, UnreviewedConflictKept, From
    <3>2. CASE p = at.path /\ q = peer
      BY <2>3, <2>4, <3>2
    <3> QED BY <1>2, <3>1, <3>2
  <2>7. new \in From(peer, at.path)' /\ new \notin at'.stale
    BY <1>2, <1>4, <2>2, <2>3, <2>4 DEF From
  <2>8. \A c \in at'.stale : c.from = peer
    BY <2>2 DEF From
  <2> QED BY <1>2, <2>2, <2>6, <2>7, <2>8 DEF ConflictInv
<1> QED BY <1>3, <1>4

LEMMA ConflictReap ==
  ASSUME TypeInv, ConflictInv, Reap
  PROVE  ConflictInv'
<1>1. at.path \in Paths /\ peer \in Peers
  BY DEF Reap, Walking, Acting, TypeInv, TypeOK, WalkOK, WalkInv
<1>2. PICK S \in SUBSET at.stale : copies' = [copies EXCEPT ![at.path] = @ \ S]
  BY DEF Reap
<1>3. saved' = saved /\ pc' = "apply"
  BY DEF Reap, Goes, noteVars
<1>4. PICK k \in From(peer, at.path) : k \notin at.stale
  BY DEF Reap, ConflictInv
<1>5. UnreviewedConflictKept'
  <2> SUFFICES ASSUME NEW p \in Paths, NEW q \in Peers, <<p, q>> \in saved
               PROVE  \E c \in copies'[p] : c.from = q
    BY <1>3 DEF UnreviewedConflictKept, From
  <2>1. PICK c \in copies[p] : c.from = q
    BY DEF ConflictInv, UnreviewedConflictKept, From
  <2>2. CASE p # at.path
    BY <1>2, <2>1, <2>2 DEF TypeInv, TypeOK, FilesOK
  <2>3. copies'[at.path] = copies[at.path] \ S
    BY <1>1, <1>2 DEF TypeInv, TypeOK, FilesOK
  <2>4. CASE p = at.path /\ q = peer
    BY <1>4, <2>3, <2>4 DEF From
  <2>5. CASE p = at.path /\ q # peer
    BY <2>1, <2>3, <2>5 DEF Reap, ConflictInv
  <2> QED BY <2>2, <2>4, <2>5
<1> QED BY <1>3, <1>5 DEF ConflictInv

LEMMA ConflictReview ==
  ASSUME TypeInv, ConflictInv, NEW p \in Paths, NEW c \in copies[p], UserReviews(p, c)
  PROVE  ConflictInv'
<1>1. /\ copies' = [copies EXCEPT ![p] = @ \ {c}]
      /\ saved' = saved \ {<<p, c.from>>} /\ pc' # "stale"
  BY DEF UserReviews, runVars
<1>2. UnreviewedConflictKept'
  <2> SUFFICES ASSUME NEW r \in Paths, NEW q \in Peers, <<r, q>> \in saved'
               PROVE  \E k \in copies'[r] : k.from = q
    BY DEF UnreviewedConflictKept, From
  <2>1. PICK k \in copies[r] : k.from = q
    BY <1>1 DEF ConflictInv, UnreviewedConflictKept, From
  <2>2. k # c \/ r # p
    BY <1>1, <2>1
  <2>3. k \in copies'[r]
    BY <1>1, <2>1, <2>2 DEF TypeInv, TypeOK, FilesOK
  <2> QED BY <2>1, <2>3
<1> QED BY <1>1, <1>2 DEF ConflictInv

LEMMA ConflictStep == TypeInv /\ ConflictInv /\ [Next]_vars => ConflictInv'
<1> SUFFICES ASSUME TypeInv, ConflictInv, [Next]_vars
             PROVE  ConflictInv'
  OBVIOUS
<1>1. CASE Save \/ Reap \/ \E p \in Paths : \E c \in copies[p] : UserReviews(p, c)
  BY <1>1, ConflictSave, ConflictReap, ConflictReview
<1>2. CASE Abort \/ Crash \/ Drain \/ Preflight \/ NextPeer \/ EndPeer
           \/ \E m \in Modes : Begin(m)
  BY <1>2, ConflictFrame DEF Abort, Crash, Drain, Preflight, NextPeer, EndPeer, Begin, Over,
     fileVars, noteVars
<1>3. CASE Write \/ Merge \/ KeepLocal \/ KeepRemote \/ KeepMerged \/ KeepBoth
  BY <1>3, ConflictFrame DEF Write, Merge, KeepLocal, KeepRemote, KeepMerged, KeepBoth, Puts,
     Goes, fileVars, noteVars
<1>4. CASE \E p \in Paths : Waits(p) \/ Leaves(p) \/ Looks(p) \/ Fails(p)
  BY <1>4, ConflictFrame DEF Waits, Leaves, Looks, Fails, Arrived, Passes, Doing, fileVars,
     noteVars
<1>5. CASE \/ \E p \in Paths : UserRemoves(p) \/ UserLinks(p)
           \/ \E p \in Paths, t \in Texts, mt \in Mtimes : UserWrites(p, t, mt)
           \/ OwnPush \/ Storage \/ UNCHANGED vars
  <2>1. UNCHANGED <<copies, saved, pc, at, peer>>
    BY <1>5 DEF UserRemoves, UserLinks, UserWrites, Edits, OwnPush, Storage, Publish,
       BlobArrives, BlobGoes, Damage, Heal, vars, runVars, walkVars, noteVars, fileVars
  <2> QED BY <2>1, ConflictFrame
<1> QED BY <1>1, <1>2, <1>3, <1>4, <1>5 DEF Next, Step, Prompted, User

(* A conflict the user has not reviewed always has a copy on disk, wherever  *)
(* a run dies: _apply_conflict publishes before it cleans up.               *)
THEOREM ConflictsKept == Spec => []UnreviewedConflictKept
<1>1. Init => ConflictInv
  BY DEF Init, ConflictInv, UnreviewedConflictKept
<1>2. ConflictInv => UnreviewedConflictKept
  BY DEF ConflictInv
<1> QED BY <1>1, <1>2, ConflictStep, TypeInvariant, PTL DEF Spec

-----------------------------------------------------------------------------
(* Local content.  From the look at a file to what is done about it, the     *)
(* file is what it was looked at.                                           *)
Safe(p) ==
    /\ mine[p] = Link => disk[p] = Link
    /\ mine[p] \in Texts =>
        /\ disk[p] \notin {Absent, Link}
        /\ IF p \in Mergeable THEN mine[p] \subseteq disk[p].text ELSE disk[p].text = mine[p]
LocalInv ==
    /\ \A p \in Paths : Safe(p)
    /\ pc \in {"write", "merge", "ask"} => disk[at.path] = at.local
    /\ pc = "write" => at.local = Absent
    /\ pc = "merge" => at.path \in Mergeable

LEMMA LocalFrame ==
  ASSUME LocalInv, UNCHANGED <<disk, mine>>,
         pc' \in {"write", "merge", "ask"} => UNCHANGED <<pc, at>>
  PROVE  LocalInv'
BY DEF LocalInv, Safe

LEMMA LocalLooks ==
  ASSUME LocalInv, NEW p \in Paths, Looks(p)
  PROVE  LocalInv'
BY DEF LocalInv, Safe, Looks, Doing, fileVars, noteVars

(* A replacement in a run, with what the user is taken to want afterwards.  *)
LEMMA LocalPuts ==
  ASSUME TypeInv, LocalInv, pc \in Acting, NEW text \in Texts, NEW mt \in Stamps,
         Puts(text, mt),
         mine' = mine \/ mine' = [mine EXCEPT ![at.path] = text],
         \/ mine'[at.path] \notin Texts \cup {Link}
         \/ mine'[at.path] = text
         \/ at.path \in Mergeable /\ mine'[at.path] \in Texts /\ mine'[at.path] \subseteq text
  PROVE  LocalInv'
<1> DEFINE new == [text |-> text, mt |-> mt]
<1>1. at.path \in Paths
  BY DEF TypeInv, TypeOK, WalkOK, WalkInv
<1>2. new \in Locals
  BY DEF Locals
<1>3. new \notin {Absent, Link}
  BY <1>2, MarksAssumption
<1>4. new.text = text
  OBVIOUS
<1>5. disk' = [disk EXCEPT ![at.path] = new] /\ pc' = "apply"
  BY DEF Puts, Goes
<1> HIDE DEF new
<1>6. disk'[at.path] = new
  BY <1>1, <1>5 DEF TypeInv, TypeOK, FilesOK
<1>7. ASSUME NEW p \in Paths, p = at.path
      PROVE  Safe(p)'
  BY <1>3, <1>4, <1>6, <1>7, MarksAssumption DEF Safe
<1>8. ASSUME NEW p \in Paths, p # at.path
      PROVE  Safe(p)'
  <2>1. disk'[p] = disk[p] /\ mine'[p] = mine[p]
    BY <1>5, <1>8 DEF TypeInv, TypeOK, FilesOK, NotesOK
  <2> QED BY <2>1 DEF LocalInv, Safe
<1> QED BY <1>5, <1>7, <1>8 DEF LocalInv

LEMMA LocalWrite ==
  ASSUME TypeInv, LocalInv, Write
  PROVE  LocalInv'
<1>1. pc \in Acting /\ pc \in Walking /\ at.path \in queue
  BY DEF Write, Acting, Walking, TypeInv, WalkInv
<1>2. /\ at.path \in Paths
      /\ Rev(at.path).text \in Texts /\ Restored(Rev(at.path).mt) \in Stamps
  BY <1>1, RevType
<1>3. disk[at.path] = Absent
  BY DEF Write, LocalInv
<1>4. mine[at.path] \notin Texts \cup {Link}
  BY <1>2, <1>3, MarksAssumption DEF LocalInv, Safe
<1>5. Puts(Rev(at.path).text, Restored(Rev(at.path).mt)) /\ mine' = mine
  BY DEF Write
<1> QED BY <1>1, <1>2, <1>4, <1>5, LocalPuts

LEMMA LocalMerge ==
  ASSUME TypeInv, LocalInv, Merge
  PROVE  LocalInv'
<1> DEFINE new == Union(at.local, Rev(at.path))
<1>1. pc \in Acting /\ pc \in {"merge", "ask"} /\ pc = "merge"
  BY DEF Merge, Acting
<1>2. at.path \in Paths /\ at.local \in Locals /\ at.path \in Mergeable
  BY <1>1 DEF TypeInv, TypeOK, WalkOK, WalkInv, LocalInv
<1>3. disk[at.path] = at.local /\ at.local.text \subseteq new
  BY <1>1 DEF LocalInv, Union
<1>4. \/ mine[at.path] \notin Texts \cup {Link}
      \/ mine[at.path] \in Texts /\ mine[at.path] \subseteq new
  BY <1>2, <1>3, MarksAssumption DEF LocalInv, Safe
<1>5. new \in Texts /\ Now \in Stamps
  BY <1>1, UnionType
<1>6. CASE new # at.local.text
  <2>1. Puts(new, Now) /\ mine' = mine
    BY <1>6 DEF Merge
  <2> HIDE DEF new
  <2> QED BY <1>1, <1>2, <1>4, <1>5, <2>1, LocalPuts
<1>7. CASE new = at.local.text
  <2>1. UNCHANGED <<disk, mine>> /\ pc' = "apply"
    BY <1>7 DEF Merge, Goes, fileVars, noteVars
  <2> QED BY <2>1, LocalFrame
<1> QED BY <1>6, <1>7

LEMMA LocalAnswer ==
  ASSUME TypeInv, LocalInv, KeepRemote \/ KeepMerged
  PROVE  LocalInv'
<1>1. pc \in Acting /\ pc \in Walking /\ pc \in {"merge", "ask"} /\ at.path \in queue
  BY DEF KeepRemote, KeepMerged, Acting, Walking, TypeInv, WalkInv
<1>2. at.path \in Paths /\ disk[at.path] = at.local
  BY <1>1 DEF TypeInv, TypeOK, WalkOK, LocalInv, KeepRemote, KeepMerged
<1>3. PICK text \in Texts, mt \in Stamps : Puts(text, mt) /\ Answered(text)
  <2>1. Rev(at.path).text \in Texts /\ Restored(Rev(at.path).mt) \in Stamps
    BY <1>1, RevType
  <2>2. Union(at.local, Rev(at.path)) \in Texts /\ Now \in Stamps
    BY <1>1, UnionType
  <2> QED BY <2>1, <2>2 DEF KeepRemote, KeepMerged
<1>4. mine' = [mine EXCEPT ![at.path] = text]
  BY <1>2, <1>3 DEF Answered
<1>5. mine'[at.path] = text
  BY <1>2, <1>4 DEF TypeInv, TypeOK, NotesOK
<1> QED BY <1>1, <1>3, <1>4, <1>5, LocalPuts

LEMMA LocalDrain ==
  ASSUME TypeInv, LocalInv, Drain
  PROVE  LocalInv'
<1>1. pc' = "idle" /\ mine' = mine
  BY DEF Drain, Over
<1>2. ASSUME NEW p \in Paths
      PROVE  Safe(p)'
  <2>1. \/ disk'[p] = disk[p]
        \/ /\ disk[p] \notin {Absent, Link}
           /\ disk'[p] = [disk[p] EXCEPT !.mt = BumpPast(pending[p])]
    BY DEF Drain
  <2>2. CASE disk'[p] = disk[p]
    BY <1>1, <2>2 DEF LocalInv, Safe
  <2>3. CASE disk[p] \notin {Absent, Link} /\ disk'[p] = [disk[p] EXCEPT !.mt = BumpPast(pending[p])]
    <3>1. disk[p] \in Locals
      BY <2>3 DEF TypeInv, TypeOK, FilesOK
    <3>2. disk'[p].text = disk[p].text
      BY <2>3, <3>1 DEF Locals
    <3>3. disk'[p] \in Locals \cup {Absent, Link}
      BY DrainType DEF TypeInv, TypeOK, FilesOK
    <3>4. disk'[p] \notin {Absent, Link}
      <4>1. pending[p] # NotKept \/ disk'[p] = disk[p]
        BY DEF Drain
      <4>2. CASE disk'[p] = disk[p]
        BY <2>3, <4>2
      <4>3. CASE pending[p] # NotKept
        <5>1. BumpPast(pending[p]) \in Stamps
          BY <4>3, StampOf DEF TypeInv, TypeOK, WalkOK
        <5>2. disk'[p] \in Locals
          BY <2>3, <3>1, <5>1 DEF Locals
        <5> QED BY <5>2, MarksAssumption
      <4> QED BY <4>1, <4>2, <4>3
    <3> QED BY <1>1, <2>3, <3>2, <3>4 DEF LocalInv, Safe
  <2> QED BY <2>1, <2>2, <2>3
<1> QED BY <1>1, <1>2 DEF LocalInv

LEMMA LocalEdits ==
  ASSUME "promptEdit" \notin Menu, TypeInv, LocalInv, NEW p \in Paths,
         NEW f \in Locals \cup {Absent, Link}, NEW text \in Texts \cup {Absent, Link},
         f \in {Absent, Link} => text = f,
         f \in Locals => f.text = text /\ text \in Texts,
         Edits(p, f, text)
  PROVE  LocalInv'
<1>1. disk' = [disk EXCEPT ![p] = f] /\ mine' = [mine EXCEPT ![p] = text]
  BY DEF Edits
<1>2. pc' = pc /\ at' = at
  BY DEF Edits, runVars, walkVars
<1>3. pc \in {"write", "merge", "ask"} => at.path # p
  BY DEF Edits, Editable
<1>4. disk'[p] = f /\ mine'[p] = text
  BY <1>1 DEF TypeInv, TypeOK, FilesOK, NotesOK
<1>5. Safe(p)'
  BY <1>4, MarksAssumption DEF Safe
<1>6. ASSUME NEW r \in Paths, r # p
      PROVE  Safe(r)'
  <2>1. disk'[r] = disk[r] /\ mine'[r] = mine[r]
    BY <1>1, <1>6 DEF TypeInv, TypeOK, FilesOK, NotesOK
  <2> QED BY <2>1 DEF LocalInv, Safe
<1>7. pc \in {"write", "merge", "ask"} => disk'[at.path] = disk[at.path]
  BY <1>1, <1>3 DEF Acting, TypeInv, TypeOK, FilesOK, WalkInv, WalkOK
<1> QED BY <1>2, <1>5, <1>6, <1>7 DEF LocalInv

LEMMA LocalUser ==
  ASSUME "promptEdit" \notin Menu, TypeInv, LocalInv, User
  PROVE  LocalInv'
<1>1. ASSUME NEW p \in Paths, UserRemoves(p) \/ UserLinks(p)
      PROVE  LocalInv'
  BY <1>1, LocalEdits, MarksAssumption DEF UserRemoves, UserLinks
<1>2. ASSUME NEW p \in Paths, NEW t \in Texts, NEW mt \in Mtimes, UserWrites(p, t, mt)
      PROVE  LocalInv'
  <2> DEFINE f == [text |-> t, mt |-> mt]
  <2>1. mt \in Stamps
    BY TimesAssumption DEF Stamps
  <2>2. f \in Locals /\ f.text = t
    BY <2>1 DEF Locals
  <2>3. Edits(p, f, t)
    BY <1>2 DEF UserWrites
  <2> HIDE DEF f
  <2>4. f \notin {Absent, Link}
    BY <2>2, MarksAssumption
  <2> QED BY <2>2, <2>3, <2>4, LocalEdits
<1>3. ASSUME OwnPush \/ \E p \in Paths : \E c \in copies[p] : UserReviews(p, c)
      PROVE  LocalInv'
  <2>1. UNCHANGED <<disk, mine, pc, at>>
    BY <1>3 DEF OwnPush, UserReviews, runVars, walkVars, fileVars, noteVars
  <2> QED BY <2>1, LocalFrame
<1> QED BY <1>1, <1>2, <1>3 DEF User

LEMMA LocalStep ==
  ASSUME "promptEdit" \notin Menu
  PROVE  TypeInv /\ LocalInv /\ [Next]_vars => LocalInv'
<1> SUFFICES ASSUME TypeInv, LocalInv, [Next]_vars
             PROVE  LocalInv'
  OBVIOUS
<1>1. CASE Write \/ Merge \/ KeepRemote \/ KeepMerged \/ Drain \/ User
  BY <1>1, LocalWrite, LocalMerge, LocalAnswer, LocalDrain, LocalUser
<1>2. CASE \E p \in Paths : Looks(p)
  BY <1>2, LocalLooks
<1>3. CASE Abort \/ Crash \/ Preflight \/ NextPeer \/ EndPeer \/ \E m \in Modes : Begin(m)
  BY <1>3, LocalFrame DEF Abort, Crash, Preflight, NextPeer, EndPeer, Begin, Over,
     fileVars, noteVars
<1>4. CASE KeepLocal \/ KeepBoth \/ Save \/ Reap
  BY <1>4, LocalFrame DEF KeepLocal, KeepBoth, Save, Reap, Goes, fileVars, noteVars
<1>5. CASE \E p \in Paths : Waits(p) \/ Leaves(p) \/ Fails(p)
  BY <1>5, LocalFrame DEF Waits, Leaves, Fails, Arrived, Passes, fileVars, noteVars
<1>6. CASE Storage \/ UNCHANGED vars
  <2>1. UNCHANGED <<disk, mine, pc, at>>
    BY <1>6 DEF Storage, Publish, BlobArrives, BlobGoes, Damage, Heal, vars, runVars, walkVars,
       noteVars, fileVars
  <2> QED BY <2>1, LocalFrame
<1> QED BY <1>1, <1>2, <1>3, <1>4, <1>5, <1>6 DEF Next, Step, Prompted

(* Pull destroys nothing the user put at a path: it stays alone, or inside a *)
(* merge, unless his own answer about that very content replaces it; for any *)
(* number of paths, peers, edits, late blobs, failures and crashes.         *)
THEOREM LocalNeverLost ==
  ASSUME "promptEdit" \notin Menu
  PROVE  Spec => []LocalKept
<1>1. Init => LocalInv
  BY MarksAssumption DEF Init, LocalInv, Safe
<1>2. LocalInv => LocalKept
  BY DEF LocalInv, LocalKept, Safe
<1>3. TypeInv /\ LocalInv /\ [Next]_vars => LocalInv'
  BY LocalStep
<1> QED BY <1>1, <1>2, <1>3, TypeInvariant, PTL DEF Spec

-----------------------------------------------------------------------------
(* Deletions.  What this Mac's readable manifest records as deleted is among *)
(* the tombstones of the run, and no file of the run is.                    *)
DeletionInv ==
    /\ spare[0] = NoManifest
    /\ pc # "idle" => cache[0] = NoManifest \/ main[0].tombs \subseteq tombs
    /\ pc \in Walking => queue \cap tombs = {}
NotRevived ==
    \A p \in Paths :
        Pulls /\ p \in main[0].tombs /\ disk[p] = Absent /\ disk'[p] # Absent
            => cache[0] = NoManifest

LEMMA DeletionBegin ==
  ASSUME TypeInv, DeletionInv, NEW m \in Modes, Begin(m)
  PROVE  DeletionInv'
<1>1. 0 \in Devices
  BY PeersAssumption DEF Devices
<1>2. cache'[0] = Fetch(0) /\ tombs' = CollectTombstones(cache')
  BY <1>1 DEF Begin
<1>3. ASSUME cache'[0] # NoManifest
      PROVE  main[0].tombs \subseteq tombs'
  <2>1. Versions(0) = {main[0]}
    BY <1>2, <1>3 DEF DeletionInv, Fetch, Versions
  <2>2. main[0].tombs \subseteq cache'[0].tombs
    BY <1>2, <2>1 DEF Fetch
  <2>3. 0 \in Readable(cache')
    BY <1>1, <1>3 DEF Readable
  <2>4. cache'[0].tombs \subseteq CollectTombstones(cache')
    BY <2>3 DEF CollectTombstones
  <2> QED BY <1>2, <2>2, <2>4
<1>4. UNCHANGED <<main, spare>> /\ pc' \notin Walking
  BY DEF Begin, storeVars, Walking, Acting
<1> QED BY <1>3, <1>4 DEF DeletionInv

LEMMA DeletionFrame ==
  ASSUME DeletionInv, spare'[0] = NoManifest, main'[0] = main[0],
         pc' # "idle" => pc # "idle" /\ UNCHANGED <<cache, tombs>>,
         pc' \in Walking => pc \in Walking /\ queue' \subseteq queue
  PROVE  DeletionInv'
BY DEF DeletionInv, Walking, Acting

LEMMA DeletionStep == TypeInv /\ DeletionInv /\ [Next]_vars => DeletionInv'
<1> SUFFICES ASSUME TypeInv, DeletionInv, [Next]_vars
             PROVE  DeletionInv'
  OBVIOUS
<1>0. spare[0] = NoManifest /\ 0 \notin Peers /\ 0 \in Devices
  BY PeersAssumption DEF DeletionInv, Peers, Devices
<1>1. CASE \E m \in Modes : Begin(m)
  BY <1>1, DeletionBegin
<1>2. CASE NextPeer
  <2>1. UNCHANGED <<main, spare, cache, tombs>>
    BY <1>2 DEF NextPeer, storeVars, setupVars
  <2>2. pc' \in Walking => queue' \cap tombs = {}
    BY <1>2 DEF NextPeer, Differs, Walking, Acting
  <2> QED BY <1>2, <2>1, <2>2 DEF DeletionInv, NextPeer
<1>3. CASE Abort \/ Crash \/ Drain \/ Preflight
  <2>1. main' = main /\ spare' = spare
    BY <1>3 DEF Abort, Crash, Drain, Preflight, storeVars
  <2>2. pc' = "idle" \/ (pc # "idle" /\ pc' = "peer" /\ UNCHANGED <<cache, tombs>>)
    BY <1>3 DEF Abort, Crash, Drain, Preflight, Over, setupVars
  <2> QED BY <1>0, <2>1, <2>2, DeletionFrame DEF Walking, Acting
<1>4. CASE EndPeer
  <2>1. peer \in Peers
    BY <1>4 DEF EndPeer, TypeInv, WalkInv, Walking
  <2>2. spare'[0] = NoManifest
    BY <1>0, <1>4, <2>1 DEF EndPeer, TypeInv, TypeOK, StoreOK
  <2>3. main' = main /\ UNCHANGED <<cache, tombs>> /\ pc = "apply" /\ pc' = "peer"
    BY <1>4 DEF EndPeer, setupVars
  <2> QED BY <2>2, <2>3, DeletionFrame DEF Walking, Acting
<1>5. CASE Write \/ Merge \/ KeepLocal \/ KeepRemote \/ KeepMerged \/ KeepBoth \/ Save \/ Reap
           \/ \E p \in Paths : Waits(p) \/ Leaves(p) \/ Looks(p) \/ Fails(p)
  <2>1. UNCHANGED <<main, spare, cache, tombs>>
    BY <1>5 DEF Write, Merge, KeepLocal, KeepRemote, KeepMerged, KeepBoth, Save, Reap, Puts,
       Waits, Leaves, Looks, Fails, Passes, storeVars, setupVars
  <2>2. pc \in Walking /\ queue' \subseteq queue
    BY <1>5 DEF Write, Merge, KeepLocal, KeepRemote, KeepMerged, KeepBoth, Save, Reap, Puts,
       Goes, Waits, Leaves, Looks, Fails, Arrived, Passes, walkVars, Walking, Acting
  <2>3. pc # "idle"
    BY <2>2 DEF Walking, Acting
  <2> QED BY <1>0, <2>1, <2>2, <2>3, DeletionFrame
<1>6. CASE OwnPush
  <2>1. pc = "idle" /\ pc' = pc /\ spare' = spare
    BY <1>6 DEF OwnPush, runVars
  <2> QED BY <1>0, <2>1 DEF DeletionInv, Walking, Acting
<1>7. ASSUME NEW q \in Peers, NEW f \in [Paths -> Revs \cup {Absent}], NEW T \in SUBSET Paths,
             Publish(q, f, T)
      PROVE  DeletionInv'
  <2> DEFINE new == [files |-> f, tombs |-> T, ts |-> NextTs(q)]
  <2>1. /\ main' = main \/ main' = [main EXCEPT ![q] = new]
        /\ \/ spare' = spare
           \/ spare' = [spare EXCEPT ![q] = new]
           \/ spare' = [spare EXCEPT ![q] = main[q]]
    BY <1>7 DEF Publish
  <2> HIDE DEF new
  <2>2. spare'[0] = spare[0] /\ main'[0] = main[0]
    BY <1>0, <2>1 DEF TypeInv, TypeOK, StoreOK
  <2>3. UNCHANGED <<pc, cache, tombs, queue>>
    BY <1>7 DEF Publish, runVars, setupVars, walkVars
  <2> QED BY <1>0, <2>2, <2>3, DeletionFrame
<1>8. CASE \/ \E p \in Paths : UserRemoves(p) \/ UserLinks(p)
           \/ \E p \in Paths, t \in Texts, mt \in Mtimes : UserWrites(p, t, mt)
           \/ \E p \in Paths : \E c \in copies[p] : UserReviews(p, c)
           \/ \E q \in Peers, t \in Texts : BlobArrives(q, t) \/ BlobGoes(q, t)
           \/ \E d \in Devices : Damage(d) \/ Heal(d)
           \/ UNCHANGED vars
  <2>1. UNCHANGED <<main, spare, pc, cache, tombs, queue>>
    BY <1>8 DEF UserRemoves, UserLinks, UserWrites, UserReviews, Edits, BlobArrives, BlobGoes,
       Damage, Heal, vars, storeVars, runVars, setupVars, walkVars
  <2> QED BY <1>0, <2>1, DeletionFrame
<1> QED BY <1>1, <1>2, <1>3, <1>4, <1>5, <1>6, <1>7, <1>8
        DEF Next, Step, Prompted, User, Storage

LEMMA StepRevivesNothing == TypeInv /\ DeletionInv /\ [Next]_vars => [NotRevived]_vars
<1> SUFFICES ASSUME TypeInv, DeletionInv, Next, NEW p \in Paths, Pulls,
                    p \in main[0].tombs, disk[p] = Absent, disk'[p] # Absent
             PROVE  cache[0] = NoManifest
  BY DEF NotRevived
<1>1. CASE Write \/ Merge \/ KeepRemote \/ KeepMerged
  <2>1. pc \in Acting /\ pc \in Walking /\ pc # "idle"
    BY <1>1 DEF Write, Merge, KeepRemote, KeepMerged, Acting, Walking
  <2>2. at.path \in queue
    BY <2>1 DEF TypeInv, WalkInv
  <2>3. p = at.path
    <3>1. disk' = disk \/ \E text, mt : disk' = [disk EXCEPT ![at.path] = [text |-> text, mt |-> mt]]
      BY <1>1 DEF Write, Merge, KeepRemote, KeepMerged, Puts, fileVars
    <3> QED BY <3>1 DEF TypeInv, TypeOK, FilesOK
  <2>4. p \notin tombs
    BY <2>1, <2>2, <2>3 DEF DeletionInv
  <2> QED BY <2>1, <2>4 DEF DeletionInv
<1>2. CASE Drain
  BY <1>2 DEF Drain
<1>3. CASE \/ \E m \in Modes : Begin(m)
           \/ Preflight \/ NextPeer \/ Save \/ Reap \/ EndPeer \/ KeepLocal \/ KeepBoth
           \/ Abort \/ Crash
           \/ \E q \in Paths : Waits(q) \/ Leaves(q) \/ Looks(q) \/ Fails(q)
  BY <1>3 DEF Begin, Preflight, NextPeer, Save, Reap, EndPeer, KeepLocal, KeepBoth, Abort,
     Crash, Waits, Leaves, Looks, Fails, Passes, fileVars
<1>4. CASE User \/ Storage
  BY <1>4 DEF User, UserRemoves, UserLinks, UserWrites, UserReviews, Edits, OwnPush, Storage,
     Publish, BlobArrives, BlobGoes, Damage, Heal, runVars, Pulls
<1> QED BY <1>1, <1>2, <1>3, <1>4 DEF Next, Step, Prompted

(* A file deleted here, and published as deleted, comes back from no peer's  *)
(* manifest, late blob or retry (collect_tombstones counts this Mac's own    *)
(* records), except in a run that could not read its own manifest.          *)
THEOREM DeletionsHonoured == Spec => DeletedStaysDeleted
<1>1. Init => DeletionInv
  BY PeersAssumption DEF Init, DeletionInv, NoOne, Devices, Walking, Acting
<1>2. DeletedStaysDeleted <=> [][NotRevived]_vars
  BY DEF DeletedStaysDeleted, NotRevived
<1> QED BY <1>1, <1>2, DeletionStep, StepRevivesNothing, TypeInvariant, PTL DEF Spec

-----------------------------------------------------------------------------
(* Keep-local decisions.  During the run a decision stands as a bump past    *)
(* every revision it was made against; a preflight has met none yet.         *)
SettleInv ==
    /\ pc # "idle" => \A k \in kept : k[2] <= pending[k[1]]
    /\ pc = "plan" => kept = {}
    /\ KeptIsSettled

LEMMA SettleFrame ==
  ASSUME SettleInv, UNCHANGED <<disk, pending>>, kept' \subseteq kept,
         pc' = pc \/ (pc # "idle" /\ pc' \notin {"idle", "plan"})
  PROVE  SettleInv'
BY DEF SettleInv, KeptIsSettled

(* The run goes on with a file written or left open: its decisions are void. *)
LEMMA SettleVoids ==
  ASSUME TypeInv, SettleInv, NEW p \in Paths, Voids(p), pc # "idle",
         pc' \notin {"idle", "plan"}
  PROVE  SettleInv'
<1>1. ASSUME NEW k \in kept' PROVE k[2] <= pending'[k[1]]
  <2>1. k \in kept /\ k[1] # p /\ k[1] \in Paths
    BY <1>1 DEF Voids, TypeInv, TypeOK, NotesOK
  <2>2. pending'[k[1]] = pending[k[1]]
    BY <2>1 DEF Voids, TypeInv, TypeOK, WalkOK
  <2> QED BY <2>1, <2>2 DEF SettleInv
<1> QED BY <1>1 DEF SettleInv, KeptIsSettled

LEMMA SettleKeepLocal ==
  ASSUME TypeInv, SettleInv, KeepLocal
  PROVE  SettleInv'
<1> DEFINE mt == Rev(at.path).mt
<1>0. pc \in Walking /\ at.path \in queue
  BY DEF KeepLocal, Walking, Acting, TypeInv, WalkInv
<1>1. at.path \in Paths /\ mt \in Nat
  BY <1>0, RevType
<1>2. /\ pending' = [pending EXCEPT ![at.path] = Upper(@, mt)]
      /\ kept' = kept \cup {<<at.path, mt>>} /\ pc' = "apply" /\ pc # "idle"
  BY DEF KeepLocal, Highest, Goes
<1> HIDE DEF mt
<1>3. pending \in [Paths -> {NotKept} \cup Nat] /\ kept \subseteq Paths \X Nat
  BY DEF TypeInv, TypeOK, WalkOK, NotesOK
<1>4. ASSUME NEW k \in kept' PROVE k[2] <= pending'[k[1]]
  <2>1. CASE k \in kept
    <3>1. k[1] \in Paths /\ k[2] \in Nat /\ k[2] <= pending[k[1]]
      BY <1>2, <1>3, <2>1 DEF SettleInv
    <3>2. CASE k[1] = at.path
      BY <1>1, <1>2, <1>3, <3>1, <3>2 DEF Upper, NotKept
    <3>3. CASE k[1] # at.path
      BY <1>2, <1>3, <3>1, <3>3
    <3> QED BY <3>2, <3>3
  <2>2. CASE k = <<at.path, mt>>
    BY <1>1, <1>2, <1>3, <2>2 DEF Upper, NotKept
  <2> QED BY <1>2, <2>1, <2>2
<1> QED BY <1>2, <1>4 DEF SettleInv, KeptIsSettled

LEMMA SettleDrain ==
  ASSUME TypeInv, SettleInv, Drain
  PROVE  SettleInv'
<1> SUFFICES ASSUME NEW k \in kept', disk'[k[1]] \notin {Absent, Link}, k[2] < Now + Skew
             PROVE  disk'[k[1]].mt > k[2]
  BY DEF Drain, Over, SettleInv, KeptIsSettled
<1>1. k[1] \in Paths /\ k[2] \in Nat /\ k[2] <= pending[k[1]]
  BY DEF Drain, SettleInv, TypeInv, TypeOK, NotesOK
<1>2. pending[k[1]] \in Nat
  BY <1>1 DEF TypeInv, TypeOK, WalkOK, NotKept
<1>3. disk[k[1]] \in Locals
  BY <1>1 DEF Drain, TypeInv, TypeOK, FilesOK
<1>4. disk'[k[1]].mt = BumpPast(pending[k[1]])
  BY <1>1, <1>2, <1>3, MarksAssumption DEF Drain, NotKept, Locals
<1> QED BY <1>1, <1>2, <1>4, TimesAssumption DEF BumpPast, Lower, Upper

LEMMA SettleEdits ==
  ASSUME TypeInv, SettleInv, NEW p \in Paths, NEW f, NEW text, Edits(p, f, text)
  PROVE  SettleInv'
<1>1. kept' = {k \in kept : k[1] # p} /\ UNCHANGED <<pc, pending>>
  BY DEF Edits, runVars
<1>2. ASSUME NEW k \in kept' PROVE disk'[k[1]] = disk[k[1]]
  BY <1>1 DEF Edits, TypeInv, TypeOK, FilesOK, NotesOK
<1> QED BY <1>1, <1>2 DEF SettleInv, KeptIsSettled

LEMMA SettleStep == TypeInv /\ SettleInv /\ [Next]_vars => SettleInv'
<1> SUFFICES ASSUME TypeInv, SettleInv, [Next]_vars PROVE SettleInv'
  OBVIOUS
<1>0. pc \in Acting => at.path \in Paths
  BY DEF TypeInv, TypeOK, WalkOK, WalkInv
<1>1. CASE Abort \/ Crash \/ (Preflight /\ WouldConflict) \/ \E m \in Modes : Begin(m)
  <2>1. kept' = {}
    BY <1>1 DEF Abort, Crash, Preflight, Begin, SettleInv
  <2> QED BY <2>1 DEF SettleInv, KeptIsSettled
<1>2. CASE Write \/ KeepRemote \/ KeepMerged \/ Save \/ (Merge /\ Voids(at.path))
  <2>1. Voids(at.path) /\ pc \in Acting /\ pc' \notin {"idle", "plan"}
    BY <1>2 DEF Write, KeepRemote, KeepMerged, Save, Merge, Puts, Goes, Acting
  <2> QED BY <1>0, <2>1, SettleVoids DEF Acting
<1>3. CASE KeepLocal
  BY <1>3, SettleKeepLocal
<1>4. CASE Drain
  BY <1>4, SettleDrain
<1>5. CASE \/ Preflight /\ ~WouldConflict
           \/ Merge /\ ~Voids(at.path)
           \/ NextPeer \/ Reap \/ EndPeer \/ KeepBoth
           \/ \E p \in Paths : Waits(p) \/ Leaves(p) \/ Fails(p)
  <2>1. /\ UNCHANGED <<disk, pending, kept>>
        /\ pc' = pc \/ (pc # "idle" /\ pc' \notin {"idle", "plan"})
    BY <1>5 DEF Preflight, Merge, Puts, Goes, NextPeer, Reap, EndPeer, KeepBoth, Waits, Leaves,
       Fails, Arrived, Passes, fileVars, noteVars
  <2> QED BY <2>1, SettleFrame
<1>6. CASE \E p \in Paths : Looks(p)
  <2>1. /\ UNCHANGED <<disk, pending, kept>> /\ pc # "idle"
        /\ pc' \notin {"idle", "plan"}
    BY <1>6 DEF Looks, Doing, Arrived, fileVars, noteVars
  <2> QED BY <2>1, SettleFrame
<1>7. CASE User
  <2>1. ASSUME NEW p \in Paths, UserRemoves(p) \/ UserLinks(p) PROVE SettleInv'
    BY <2>1, SettleEdits DEF UserRemoves, UserLinks
  <2>2. ASSUME NEW p \in Paths, NEW t \in Texts, NEW mt \in Mtimes, UserWrites(p, t, mt)
        PROVE  SettleInv'
    BY <2>2, SettleEdits DEF UserWrites
  <2>3. CASE OwnPush \/ \E p \in Paths : \E c \in copies[p] : UserReviews(p, c)
    <3>1. UNCHANGED <<disk, pending, kept, pc>>
      BY <2>3 DEF OwnPush, UserReviews, fileVars, runVars, noteVars
    <3> QED BY <3>1, SettleFrame
  <2> QED BY <1>7, <2>1, <2>2, <2>3 DEF User
<1>8. CASE Storage \/ UNCHANGED vars
  <2>1. UNCHANGED <<disk, pending, kept, pc>>
    BY <1>8 DEF Storage, Publish, BlobArrives, BlobGoes, Damage, Heal, vars, fileVars, runVars, noteVars
  <2> QED BY <2>1, SettleFrame
<1> QED BY <1>1, <1>2, <1>3, <1>4, <1>5, <1>6, <1>7, <1>8 DEF Next, Step, Prompted

(* A file kept local is newer, after the run, than every revision it was     *)
(* kept against (the drain of the pending bumps), for any number of peers,   *)
(* answers and edits: the same pull does not ask again.                      *)
THEOREM KeptStaysSettled == Spec => []KeptIsSettled
<1>1. Init => SettleInv
  BY DEF Init, SettleInv, KeptIsSettled
<1>2. SettleInv => KeptIsSettled
  BY DEF SettleInv
<1> QED BY <1>1, <1>2, SettleStep, TypeInvariant, PTL DEF Spec

-----------------------------------------------------------------------------
(* Undelivered blobs.  Where a peer's manifest is kept in two versions, what *)
(* the run read is what a read still returns, or the second version alone.   *)
SpareRead ==
    pc # "idle" => \A q \in Peers : spare[q] # NoManifest =>
        /\ cache[q] # NoManifest
        /\ \/ cache[q].files = spare[q].files
           \/ q \notin damaged /\ cache[q].files = Fetch(q).files

(* The second version of the manifest in hand lists what the run read of p;  *)
(* then the text stays until that version goes.                             *)
Spared(p) == /\ spare[peer] # NoManifest /\ cache[peer].files[p] # Absent
             /\ spare[peer].files[p] = cache[peer].files[p]
Delivered(p) == Spared(p) => cache[peer].files[p].text \in blobs[peer]
SameHere(p) == disk[p] \notin {Absent, Link} /\ disk[p].text = cache[peer].files[p].text

(* A file that left the queue without being found lacking was delivered, or  *)
(* was here already.                                                        *)
DeliverInv ==
    /\ SpareRead
    /\ pc \in Walking /\ ~lacking =>
        \A p \in Paths \ (tombs \cup queue) : Delivered(p) \/ SameHere(p)
    /\ pc \in Acting => Delivered(at.path)

NothingUndelivered ==
    \A q \in Peers :
        Pulls /\ spare[q] # NoManifest /\ spare'[q] = NoManifest =>
            \A p \in Paths \ tombs :
                LET r == Fetch(q).files[p] IN
                (r # Absent /\ spare[q].files[p] = r)
                    => r.text \in blobs[q]
                       \/ (disk[p] \notin {Absent, Link} /\ disk[p].text = r.text)

LEMMA FetchSame ==
  ASSUME NEW d, main'[d] = main[d], spare'[d] = spare[d], d \in damaged' <=> d \in damaged
  PROVE  Fetch(d)' = Fetch(d)
<1>1. Versions(d)' = Versions(d)
  BY DEF Versions
<1> QED BY <1>1 DEF Fetch, Newest

(* With the first version damaged, a read returns the second.               *)
LEMMA FetchSpare ==
  ASSUME StoreOK, NEW d \in Devices, d \in damaged, spare[d] # NoManifest
  PROVE  Fetch(d).files = spare[d].files
<1> DEFINE s == spare[d]
           F == [p \in Paths |->
                   LET having == {v \in Versions(d) : v.files[p] # Absent}
                   IN IF having = {} THEN Absent ELSE Newest(having).files[p]]
<1>1. s \in Manifests /\ Versions(d) = {s}
  BY DEF StoreOK, Versions
<1>2. Fetch(d).files = F
  BY <1>1 DEF Fetch
<1>3. ASSUME NEW p \in Paths PROVE F[p] = s.files[p]
  <2> DEFINE having == {v \in Versions(d) : v.files[p] # Absent}
  <2>1. CASE s.files[p] = Absent
    <3>1. having = {}
      BY <1>1, <2>1
    <3> QED BY <2>1, <3>1
  <2>2. CASE s.files[p] # Absent
    <3>1. having = {s, s}
      BY <1>1, <2>2
    <3> HIDE DEF s
    <3>2. Newest(having) = s
      BY <1>1, <3>1, NewestOfTwo
    <3>3. having # {}
      BY <3>1
    <3> QED BY <3>2, <3>3
  <2> QED BY <2>1, <2>2
<1>4. s.files = [p \in Paths |-> s.files[p]]
  BY <1>1 DEF Manifests
<1> QED BY <1>2, <1>3, <1>4

LEMMA SpareBegin ==
  ASSUME TypeInv, NEW m \in Modes, Begin(m)
  PROVE  SpareRead'
<1>1. cache' = [d \in Devices |-> Fetch(d)] /\ UNCHANGED <<main, spare, damaged>>
  BY DEF Begin, storeVars
<1>2. ASSUME NEW q \in Peers, spare[q] # NoManifest
      PROVE  /\ cache'[q] # NoManifest
             /\ \/ cache'[q].files = spare[q].files
                \/ q \notin damaged /\ cache'[q].files = Fetch(q)'.files
  <2>1. q \in Devices
    BY DEF Peers, Devices
  <2>2. cache'[q] = Fetch(q) /\ Fetch(q)' = Fetch(q)
    BY <1>1, <2>1, FetchSame
  <2>3. spare[q] \in Versions(q)
    BY <1>2 DEF Versions
  <2>4. Fetch(q) # NoManifest
    BY <2>1, <2>3, FetchSome, NoManifestAssumption DEF TypeInv, TypeOK
  <2>5. q \in damaged => Fetch(q).files = spare[q].files
    BY <1>2, <2>1, FetchSpare DEF TypeInv, TypeOK
  <2> QED BY <2>2, <2>4, <2>5
<1> QED BY <1>1, <1>2 DEF SpareRead

LEMMA SpareFrame ==
  ASSUME SpareRead,
         pc' # "idle" => /\ pc # "idle" /\ UNCHANGED <<cache, main>> /\ damaged' \subseteq damaged
                         /\ \A q \in Peers : spare'[q] \in {spare[q], NoManifest}
  PROVE  SpareRead'
<1> SUFFICES ASSUME pc' # "idle", NEW q \in Peers, spare'[q] # NoManifest
             PROVE  /\ cache'[q] # NoManifest
                    /\ \/ cache'[q].files = spare'[q].files
                       \/ q \notin damaged' /\ cache'[q].files = Fetch(q)'.files
  BY DEF SpareRead
<1>1. spare'[q] = spare[q] /\ UNCHANGED <<cache, main>> /\ damaged' \subseteq damaged
  OBVIOUS
<1>2. CASE cache[q].files = spare[q].files
  BY <1>1, <1>2 DEF SpareRead
<1>3. CASE q \notin damaged /\ cache[q].files = Fetch(q).files
  <2>1. Fetch(q)' = Fetch(q)
    BY <1>1, <1>3, FetchSame
  <2> QED BY <1>1, <1>3, <2>1 DEF SpareRead
<1> QED BY <1>1, <1>2, <1>3 DEF SpareRead

(* The walk goes on, at most one file leaving the queue.                    *)
LEMMA DeliverFrame ==
  ASSUME DeliverInv, UNCHANGED <<peer, cache, tombs, main, spare, damaged, blobs>>,
         pc \in Walking, pc' \in Walking,
         NEW x, queue' = queue \/ queue' = queue \ {x},
         ~lacking' => ~lacking /\ (queue' # queue => Delivered(x)),
         \A p \in Paths \ queue : disk'[p] = disk[p],
         pc' \in Acting => Delivered(at'.path)
  PROVE  DeliverInv'
<1>1. SpareRead'
  BY SpareFrame DEF DeliverInv, Walking, Acting
<1>2. \A p : Delivered(p)' <=> Delivered(p)
  BY DEF Delivered, Spared
<1>3. ASSUME ~lacking', NEW p \in Paths \ (tombs \cup queue')
      PROVE  Delivered(p)' \/ SameHere(p)'
  <2>1. CASE p \in queue
    <3>1. p = x /\ queue' # queue
      BY <1>3, <2>1
    <3> QED BY <1>2, <1>3, <3>1
  <2>2. CASE p \notin queue
    <3>1. Delivered(p) \/ SameHere(p)
      BY <1>3, <2>2 DEF DeliverInv
    <3>2. disk'[p] = disk[p]
      BY <2>2
    <3>3. SameHere(p) => SameHere(p)'
      BY <3>2 DEF SameHere
    <3> QED BY <1>2, <3>1, <3>3
  <2> QED BY <2>1, <2>2
<1>4. pc' \in Acting => Delivered(at.path)'
  BY <1>2 DEF Delivered, Spared
<1> QED BY <1>1, <1>3, <1>4 DEF DeliverInv

LEMMA DeliverNextPeer ==
  ASSUME TypeInv, DeliverInv, NextPeer
  PROVE  DeliverInv'
<1>1. UNCHANGED <<cache, tombs, main, spare, damaged, disk>>
  BY DEF NextPeer, storeVars, setupVars, fileVars
<1>2. SpareRead'
  BY <1>1, SpareFrame DEF DeliverInv, NextPeer
<1>3. pc' \notin Acting
  BY DEF NextPeer, Acting
<1>4. ASSUME pc' \in Walking, NEW p \in Paths \ (tombs \cup queue')
      PROVE  Delivered(p)' \/ SameHere(p)'
  <2>1. /\ peer' = peer
        /\ queue' = {x \in Paths : Differs(x, cache[peer].files[x])}
    BY <1>4 DEF NextPeer, Walking, Acting
  <2>2. ~Differs(p, cache[peer].files[p])
    BY <1>4, <2>1
  <2>3. cache[peer].files[p] = Absent \/ SameHere(p)
    BY <1>4, <2>2 DEF Differs, SameHere
  <2> QED BY <1>1, <2>1, <2>3 DEF Delivered, Spared, SameHere
<1> QED BY <1>1, <1>2, <1>3, <1>4 DEF DeliverInv

(* A file looked at, left, waiting or failing.                              *)
LEMMA DeliverFile ==
  ASSUME TypeInv, DeliverInv, NEW p \in Paths,
         Waits(p) \/ Leaves(p) \/ Looks(p) \/ Fails(p)
  PROVE  DeliverInv'
<1>1. /\ UNCHANGED <<peer, cache, tombs, main, spare, damaged, blobs, disk>>
      /\ pc = "apply" /\ (queue' = queue \/ queue' = queue \ {p})
  BY DEF Waits, Leaves, Looks, Fails, Arrived, Passes, storeVars, setupVars, fileVars
<1>2. pc' = "apply" \/ (pc' = Doing(p) /\ Looks(p))
  BY DEF Waits, Leaves, Looks, Fails, Arrived, Passes
<1>3. CASE Waits(p) \/ Fails(p)
  <2>1. lacking' /\ pc' = "apply"
    BY <1>3 DEF Waits, Fails, Arrived, Passes
  <2> QED BY <1>1, <2>1, DeliverFrame DEF Walking, Acting
<1>4. CASE Leaves(p) \/ Looks(p)
  <2>1. Rev(p).text \in blobs[peer] /\ lacking' = lacking
    BY <1>4 DEF Leaves, Looks, Arrived
  <2>2. Delivered(p)
    BY <2>1 DEF Delivered, Rev
  <2>3. CASE Leaves(p)
    <3>1. pc' = "apply"
      BY <2>3 DEF Leaves, Arrived, Passes
    <3> QED BY <1>1, <2>1, <2>2, <3>1, DeliverFrame DEF Walking, Acting
  <2>4. CASE Looks(p)
    <3>1. /\ pc' = Doing(p) /\ Doing(p) \notin {"skip", "unchanged"}
          /\ at' = [path |-> p, local |-> disk[p], stale |-> {}] /\ queue' = queue
      BY <2>4 DEF Looks
    <3>2. at'.path = p
      BY <3>1
    <3>3. pc' \in Walking
      BY <3>1 DEF Doing, Walking, Acting
    <3>4. pc \in Walking
      BY <1>1 DEF Walking
    <3> QED BY <1>1, <2>1, <2>2, <3>1, <3>2, <3>3, <3>4, DeliverFrame
  <2> QED BY <1>4, <2>3, <2>4
<1> QED BY <1>3, <1>4

(* The decision on the file in hand carried out.                            *)
LEMMA DeliverActs ==
  ASSUME TypeInv, DeliverInv,
         Write \/ Merge \/ KeepLocal \/ KeepRemote \/ KeepMerged \/ KeepBoth \/ Save \/ Reap
  PROVE  DeliverInv'
<1>1. /\ pc \in Acting /\ pc \in Walking
      /\ UNCHANGED <<peer, cache, tombs, main, spare, damaged, blobs, lacking>>
  BY DEF Write, Merge, KeepLocal, KeepRemote, KeepMerged, KeepBoth, Save, Reap, Puts, Walking,
     Acting, storeVars, setupVars, walkVars
<1>2. at.path \in queue /\ at.path \in Paths /\ Delivered(at.path)
  BY <1>1 DEF TypeInv, TypeOK, WalkOK, WalkInv, DeliverInv
<1>3. \/ pc' = "apply" /\ queue' = queue \ {at.path}
      \/ pc' = "conflict" /\ queue' = queue /\ at' = at
      \/ pc' = "stale" /\ queue' = queue /\ at' = [at EXCEPT !.stale = From(peer, at.path)]
  BY DEF Write, Merge, KeepLocal, KeepRemote, KeepMerged, KeepBoth, Save, Reap, Puts, Goes,
     walkVars
<1>4. pc' \in Acting => at'.path = at.path
  BY <1>3 DEF TypeInv, TypeOK, WalkOK, Acting
<1>5. \A p \in Paths \ queue : disk'[p] = disk[p]
  <2>1. disk' = disk \/ \E text, mt : disk' = [disk EXCEPT ![at.path] = [text |-> text, mt |-> mt]]
    BY DEF Write, Merge, KeepLocal, KeepRemote, KeepMerged, KeepBoth, Save, Reap, Puts, fileVars
  <2> QED BY <1>2, <2>1 DEF TypeInv, TypeOK, FilesOK
<1>6. pc' \in Walking
  BY <1>3 DEF Walking, Acting
<1>7. queue' = queue \/ queue' = queue \ {at.path}
  BY <1>3
<1> QED BY <1>1, <1>2, <1>4, <1>5, <1>6, <1>7, DeliverFrame

LEMMA DeliverEnds ==
  ASSUME TypeInv, DeliverInv, Abort \/ Crash \/ Drain \/ Preflight \/ EndPeer
  PROVE  DeliverInv'
<1>1. pc' \in {"idle", "peer"} /\ pc # "idle"
  BY DEF Abort, Crash, Drain, Preflight, EndPeer, Over
<1>2. pc' # "idle" => UNCHANGED <<cache, main, damaged>>
  BY DEF Abort, Crash, Drain, Preflight, EndPeer, Over, storeVars, setupVars
<1>3. ASSUME NEW q \in Peers PROVE spare'[q] \in {spare[q], NoManifest}
  <2>1. spare' = spare \/ spare' = [spare EXCEPT ![peer] = NoManifest]
    BY DEF Abort, Crash, Drain, Preflight, EndPeer, storeVars
  <2>2. q \in Devices /\ spare = [d \in Devices |-> spare[d]]
    BY DEF Peers, Devices, TypeInv, TypeOK, StoreOK
  <2> QED BY <2>1, <2>2
<1>4. SpareRead'
  BY <1>1, <1>2, <1>3, SpareFrame DEF DeliverInv
<1> QED BY <1>1, <1>4 DEF DeliverInv, Walking, Acting

(* Between runs nothing is remembered.                                      *)
LEMMA DeliverIdle ==
  ASSUME pc' = "idle"
  PROVE  DeliverInv'
BY DEF DeliverInv, SpareRead, Walking, Acting

LEMMA DeliverBlobs ==
  ASSUME TypeInv, DeliverInv, NEW q \in Peers, NEW t \in Texts,
         BlobArrives(q, t) \/ BlobGoes(q, t)
  PROVE  DeliverInv'
<1>1. UNCHANGED <<main, spare, damaged, pc, cache, tombs, peer, queue, at, lacking, disk>>
  BY DEF BlobArrives, BlobGoes, runVars, setupVars, walkVars, fileVars
<1>2. SpareRead'
  BY <1>1, SpareFrame DEF DeliverInv
<1>3. ASSUME NEW p \in Paths, pc \in Walking, Delivered(p)
      PROVE  Delivered(p)'
  <2> DEFINE r == cache[peer].files[p]
  <2>1. peer \in Peers
    BY <1>3 DEF TypeInv, WalkInv
  <2>2. SUFFICES ASSUME Spared(p), r.text \in blobs[peer]
                 PROVE  r.text \in blobs'[peer]
    BY <1>1, <1>3 DEF Delivered, Spared
  <2>3. CASE BlobArrives(q, t)
    BY <2>1, <2>2, <2>3 DEF BlobArrives, TypeInv, TypeOK, StoreOK
  <2>4. CASE BlobGoes(q, t)
    <3>1. r.text \in Referenced(peer)
      BY <1>3, <2>2 DEF Spared, Referenced, TextsOf
    <3>2. q = peer => r.text # t
      BY <2>4, <3>1 DEF BlobGoes
    <3> QED BY <2>1, <2>2, <2>4, <3>2 DEF BlobGoes, TypeInv, TypeOK, StoreOK
  <2> QED BY <2>3, <2>4
<1>4. pc' \in Acting => Delivered(at.path)'
  BY <1>1, <1>3 DEF DeliverInv, Walking, Acting, TypeInv, TypeOK, WalkInv, WalkOK
<1>5. ASSUME pc' \in Walking, ~lacking', NEW p \in Paths \ (tombs' \cup queue')
      PROVE  Delivered(p)' \/ SameHere(p)'
  <2>1. Delivered(p) \/ SameHere(p)
    BY <1>1, <1>5 DEF DeliverInv
  <2>2. SameHere(p) => SameHere(p)'
    BY <1>1 DEF SameHere
  <2> QED BY <1>1, <1>3, <1>5, <2>1, <2>2
<1> QED BY <1>2, <1>4, <1>5 DEF DeliverInv

LEMMA DeliverStutter ==
  ASSUME DeliverInv, UNCHANGED <<storeVars, disk, pc, cache, tombs, peer, queue, at, lacking>>
  PROVE  DeliverInv'
<1>1. SpareRead'
  BY SpareFrame DEF DeliverInv, storeVars
<1> QED BY <1>1 DEF DeliverInv, Delivered, Spared, SameHere, storeVars

LEMMA DeliverHeal ==
  ASSUME DeliverInv, NEW d \in Devices, Heal(d)
  PROVE  DeliverInv'
<1>1. /\ UNCHANGED <<main, spare, blobs, pc, cache, tombs, peer, queue, at, lacking, disk>>
      /\ damaged' \subseteq damaged
  BY DEF Heal, runVars, setupVars, walkVars, fileVars
<1>2. SpareRead'
  BY <1>1, SpareFrame DEF DeliverInv
<1> QED BY <1>1, <1>2 DEF DeliverInv, Delivered, Spared, SameHere

LEMMA DeliverStep ==
  ASSUME "midrun" \notin Menu
  PROVE  TypeInv /\ DeliverInv /\ [Next]_vars => DeliverInv'
<1> SUFFICES ASSUME TypeInv, DeliverInv, [Next]_vars
             PROVE  DeliverInv'
  OBVIOUS
<1>1. CASE \E m \in Modes : Begin(m)
  <2>1. pc' \notin Walking /\ pc' \notin Acting
    BY <1>1 DEF Begin, Walking, Acting
  <2> QED BY <1>1, <2>1, SpareBegin DEF DeliverInv
<1>2. CASE NextPeer \/ Abort \/ Crash \/ Drain \/ Preflight \/ EndPeer
  BY <1>2, DeliverNextPeer, DeliverEnds
<1>3. CASE Write \/ Merge \/ KeepLocal \/ KeepRemote \/ KeepMerged \/ KeepBoth \/ Save \/ Reap
  BY <1>3, DeliverActs
<1>4. CASE \E p \in Paths : Waits(p) \/ Leaves(p) \/ Looks(p) \/ Fails(p)
  BY <1>4, DeliverFile
<1>5. CASE User
  <2>1. pc' = "idle"
    BY <1>5 DEF User, UserRemoves, UserLinks, UserWrites, UserReviews, Edits, Editable, OwnPush,
       runVars
  <2> QED BY <2>1, DeliverIdle
<1>6. CASE \/ \E q \in Peers, f \in [Paths -> Revs \cup {Absent}], T \in SUBSET Paths : Publish(q, f, T)
           \/ \E d \in Devices : Damage(d)
  <2>1. pc' = "idle"
    BY <1>6 DEF Publish, Damage, runVars
  <2> QED BY <2>1, DeliverIdle
<1>7. CASE \/ \E q \in Peers, t \in Texts : BlobArrives(q, t) \/ BlobGoes(q, t)
           \/ \E d \in Devices : Heal(d)
  BY <1>7, DeliverBlobs, DeliverHeal
<1>8. CASE UNCHANGED vars
  BY <1>8, DeliverStutter DEF vars, fileVars, runVars, setupVars, walkVars
<1> QED BY <1>1, <1>2, <1>3, <1>4, <1>5, <1>6, <1>7, <1>8 DEF Next, Step, Prompted, Storage

LEMMA StepKeepsUndelivered ==
  TypeInv /\ DeliverInv /\ [Next]_vars => [NothingUndelivered]_vars
<1> SUFFICES ASSUME TypeInv, DeliverInv, Next, NEW q \in Peers,
                    Pulls, spare[q] # NoManifest, spare'[q] = NoManifest,
                    NEW p \in Paths \ tombs, Fetch(q).files[p] # Absent,
                    spare[q].files[p] = Fetch(q).files[p]
             PROVE  \/ Fetch(q).files[p].text \in blobs[q]
                    \/ disk[p] \notin {Absent, Link} /\ disk[p].text = Fetch(q).files[p].text
  BY DEF NothingUndelivered
<1>1. EndPeer
  <2>1. spare' # spare /\ pc' # pc
    BY DEF Pulls
  <2> QED BY <2>1 DEF Next, Step, Prompted, Begin, Preflight, NextPeer, Write, Merge, Save, Reap,
        Drain, KeepLocal, KeepRemote, KeepMerged, KeepBoth, Abort, Crash, Puts, Waits, Leaves,
        Looks, Fails, Passes, User, UserRemoves, UserLinks, UserWrites, UserReviews, Edits,
        OwnPush, Storage, Publish, BlobArrives, BlobGoes, Damage, Heal, storeVars, runVars
<1>2. pc = "apply" /\ queue = {} /\ spare' # spare
  BY <1>1 DEF EndPeer
<1>3. q = peer /\ ~lacking
  BY <1>1, <1>2 DEF EndPeer, Served, TypeInv, TypeOK, StoreOK
<1>4. cache[q].files[p] = Fetch(q).files[p]
  BY <1>2 DEF DeliverInv, SpareRead
<1>5. Spared(p)
  BY <1>3, <1>4 DEF Spared
<1>6. Delivered(p) \/ SameHere(p)
  BY <1>2, <1>3 DEF DeliverInv, Walking
<1> QED BY <1>3, <1>4, <1>5, <1>6 DEF Delivered, SameHere

(* The clean-up after a peer never deletes the only version of its manifest  *)
(* that lists a file whose blob has not arrived (_pull_from_device, then     *)
(* cleanup of the conflict copies), for any peers, files, failures, damage   *)
(* and collection of blobs, when neither the user edits nor a peer publishes *)
(* while a run is under way.                                                *)
THEOREM UndeliveredStays ==
  ASSUME "midrun" \notin Menu
  PROVE  Spec => UndeliveredKept
<1>1. Init => DeliverInv
  BY DEF Init, DeliverInv, SpareRead, Walking, Acting
<1>2. UndeliveredKept <=> [][NothingUndelivered]_vars
  BY DEF UndeliveredKept, NothingUndelivered
<1> QED BY <1>1, <1>2, DeliverStep, StepKeepsUndelivered, TypeInvariant, PTL DEF Spec

-----------------------------------------------------------------------------
(* The preflight of fail mode.  Induction over the peers, from the least     *)
(* number outside a set.                                                    *)
LEMMA UpFromZero ==
  ASSUME NEW S, 0 \in S, \A n \in Nat : n \in S => n + 1 \in S
  PROVE  \A n \in Nat : n \in S
<1> SUFFICES ASSUME NEW k \in Nat, k \notin S PROVE FALSE
  OBVIOUS
<1> DEFINE Out == {n \in Nat : n \notin S}
           F == {0 .. x : x \in Out}
<1>1. F \subseteq FiniteSubsetsOf(Nat) /\ F # {}
  <2>1. ASSUME NEW x \in Nat PROVE 0 .. x \subseteq Nat /\ IsFiniteSet(0 .. x)
    BY FS_Interval
  <2> QED BY <2>1 DEF FiniteSubsetsOf
<1>2. PICK U \in F : \A V \in F : ~(<<V, U>> \in StrictSubsetOrdering(Nat))
  <2>1. IsWellFoundedOn(StrictSubsetOrdering(Nat), FiniteSubsetsOf(Nat))
    BY FS_StrictSubsetOrderingWellFounded
  <2> HIDE DEF F
  <2> QED BY <1>1, <2>1, WFMin
<1>3. PICK x \in Out : U = 0 .. x
  OBVIOUS
<1>4. x - 1 \in Nat /\ x - 1 \in Out
  <2>1. x \in Nat /\ x # 0
    OBVIOUS
  <2>2. x - 1 \in Nat /\ (x - 1) + 1 = x
    BY <2>1
  <2> QED BY <2>2
<1>5. 0 .. (x - 1) \in F /\ 0 .. (x - 1) \subseteq 0 .. x /\ 0 .. (x - 1) # 0 .. x
  <2>1. x \in 0 .. x /\ x \notin 0 .. (x - 1)
    OBVIOUS
  <2> QED BY <1>4, <2>1
<1>6. <<0 .. (x - 1), 0 .. x>> \in StrictSubsetOrdering(Nat)
  BY <1>5 DEF StrictSubsetOrdering
<1> QED BY <1>2, <1>3, <1>5, <1>6

(* The planner's function over the peers exists: it is what it says.         *)
Plan(g, n) == /\ g[0] = disk
              /\ \A q \in 1 .. n : g[q] = [p \in Paths |-> After(q, g[q - 1][p], p)]

LEMMA PlansExist == \A n \in Nat : \E g : Plan(g, n)
<1> DEFINE S == {n \in Nat : \E g : Plan(g, n)}
<1>1. 0 \in S
  <2>1. Plan([q \in {0} |-> disk], 0)
    BY DEF Plan
  <2> QED BY <2>1
<1>2. ASSUME NEW n \in Nat, n \in S PROVE n + 1 \in S
  <2>1. PICK g : Plan(g, n)
    BY <1>2
  <2> DEFINE h == [q \in 0 .. n + 1 |-> IF q = n + 1 THEN [p \in Paths |-> After(n + 1, g[n][p], p)]
                                        ELSE g[q]]
  <2>2. h[0] = disk /\ h[n] = g[n]
    BY <2>1 DEF Plan
  <2>3. ASSUME NEW q \in 1 .. n + 1
        PROVE  h[q] = [p \in Paths |-> After(q, h[q - 1][p], p)]
    <3>1. CASE q = n + 1
      <4>1. h[q] = [p \in Paths |-> After(n + 1, g[n][p], p)]
        BY <3>1
      <4>2. q - 1 = n
        BY <3>1
      <4> HIDE DEF h
      <4> QED BY <2>2, <3>1, <4>1, <4>2
    <3>2. CASE q # n + 1
      <4>1. q \in 1 .. n /\ q - 1 \in 0 .. n + 1 /\ q - 1 # n + 1
        BY <3>2
      <4>2. h[q] = g[q] /\ h[q - 1] = g[q - 1]
        BY <3>2, <4>1
      <4> HIDE DEF h
      <4> QED BY <2>1, <4>1, <4>2 DEF Plan
    <3> QED BY <3>1, <3>2
  <2> HIDE DEF h
  <2>4. Plan(h, n + 1)
    BY <2>2, <2>3 DEF Plan
  <2> QED BY <2>4
<1> HIDE DEF S
<1>3. \A n \in Nat : n \in S
  BY <1>1, <1>2, UpFromZero
<1> QED BY <1>3 DEF S

LEMMA PlannedIsPlan == Plan(Planned, NPeers)
<1> DEFINE Body(g) == [q \in Devices |-> IF q = 0 THEN disk
                                         ELSE [p \in Paths |-> After(q, g[q - 1][p], p)]]
<1>1. \E g : g = Body(g)
  <2>1. PICK g : Plan(g, NPeers)
    BY PlansExist, PeersAssumption
  <2> DEFINE h == [q \in Devices |-> g[q]]
  <2>2. ASSUME NEW q \in Devices
        PROVE  h[q] = IF q = 0 THEN disk ELSE [p \in Paths |-> After(q, h[q - 1][p], p)]
    <3>1. CASE q = 0
      BY <2>1, <3>1 DEF Plan
    <3>2. CASE q # 0
      <4>1. q \in 1 .. NPeers /\ q - 1 \in Devices
        BY <3>2, PeersAssumption DEF Devices
      <4>2. h[q] = g[q] /\ h[q - 1] = g[q - 1]
        BY <4>1
      <4> HIDE DEF h
      <4> QED BY <2>1, <3>2, <4>1, <4>2 DEF Plan
    <3> QED BY <3>1, <3>2
  <2>3. h = [q \in Devices |-> h[q]]
    OBVIOUS
  <2> HIDE DEF h
  <2>4. h = Body(h)
    BY <2>2, <2>3
  <2> QED BY <2>4
<1>2. Planned = CHOOSE g : g = Body(g)
  BY DEF Planned
<1> HIDE DEF Body
<1>3. Planned = Body(Planned)
  BY <1>1, <1>2
<1> USE DEF Body
<1>4. 0 \in Devices /\ \A q \in 1 .. NPeers : q \in Devices /\ q # 0
  BY PeersAssumption DEF Devices
<1> QED BY <1>3, <1>4 DEF Plan

(* With neither late blobs nor their collection, every text a run read of a  *)
(* peer's manifest is here.                                                 *)
Stocked ==
    \A q \in Peers : /\ Referenced(q) \subseteq blobs[q]
                     /\ cache[q] # NoManifest => TextsOf(cache[q]) \subseteq blobs[q]

(* A prediction in which no peer meets a conflict, with which the files that *)
(* are not merged agree, up to the peer that was applied to each.            *)
Told(V) == \A q \in Peers, p \in Paths \ Mergeable :
              V[q][p] = After(q, V[q - 1][p], p) /\ Outcome(q, V[q - 1][p], p) # "conflict"
Reached(p) == IF pc # "peer" /\ p \notin queue THEN peer ELSE peer - 1
Follows(V) == \A p \in Paths \ Mergeable : disk[p] = V[Reached(p)][p]

ForeseenInv ==
    mode = "fail" =>
        /\ pc \in {"plan", "peer", "apply", "write", "merge"}
        /\ pc \in {"plan", "peer"} => peer >= 1
        /\ pc = "plan" => peer = 1
        /\ pc = "write" => disk[at.path] = Absent
        /\ pc = "merge" => at.path \in Mergeable
        /\ pc # "plan" => \E V : Told(V) /\ Follows(V)

LEMMA FetchTexts ==
  ASSUME StoreOK, NEW q \in Peers
  PROVE  Fetch(q) # NoManifest => TextsOf(Fetch(q)) \subseteq Referenced(q)
<1> SUFFICES ASSUME Fetch(q) # NoManifest, NEW p \in Paths, Fetch(q).files[p] # Absent
             PROVE  Fetch(q).files[p].text \in Referenced(q)
  BY DEF TextsOf
<1> DEFINE having == {m \in Versions(q) : m.files[p] # Absent}
<1>1. q \in Devices /\ main[q] \in Manifests
  BY DEF Peers, Devices, StoreOK
<1>2. Fetch(q).files[p] = IF having = {} THEN Absent ELSE Newest(having).files[p]
  BY DEF Fetch
<1>3. having # {} /\ Fetch(q).files[p] = Newest(having).files[p]
  BY <1>2
<1>4. Newest(having) \in having
  <2>1. CASE spare[q] = NoManifest
    <3>1. having \in SUBSET {main[q], main[q]}
      BY <2>1 DEF Versions
    <3> HIDE DEF having
    <3> QED BY <1>1, <1>3, <3>1, NewestOfFew
  <2>2. CASE spare[q] # NoManifest
    <3>1. having \in SUBSET {main[q], spare[q]} /\ spare[q] \in Manifests
      BY <1>1, <2>2 DEF Versions, StoreOK
    <3> HIDE DEF having
    <3> QED BY <1>1, <1>3, <3>1, NewestOfFew
  <2> QED BY <2>1, <2>2
<1>5. \/ Newest(having) = main[q]
      \/ Newest(having) = spare[q] /\ spare[q] # NoManifest
  BY <1>4 DEF Versions
<1>6. Newest(having).files[p] # Absent
  BY <1>3
<1> HIDE DEF having
<1> QED BY <1>3, <1>5, <1>6 DEF Referenced, TextsOf

LEMMA StockedFrame ==
  ASSUME Stocked, UNCHANGED <<main, blobs>>,
         \A q \in Peers : /\ spare'[q] \in {spare[q], NoManifest}
                          /\ cache'[q] \in {cache[q], NoManifest}
  PROVE  Stocked'
<1> SUFFICES ASSUME NEW q \in Peers
             PROVE  /\ Referenced(q)' \subseteq blobs[q]
                    /\ cache'[q] # NoManifest => TextsOf(cache'[q]) \subseteq blobs[q]
  BY DEF Stocked, TextsOf
<1>1. Referenced(q)' \subseteq Referenced(q)
  <2>1. spare'[q] = spare[q] \/ spare'[q] = NoManifest
    OBVIOUS
  <2> QED BY <2>1 DEF Referenced, TextsOf
<1> QED BY <1>1 DEF Stocked

LEMMA StockedPublish ==
  ASSUME "late" \notin Menu, TypeInv, Stocked, NEW q \in Peers,
         NEW f \in [Paths -> Revs \cup {Absent}], NEW T \in SUBSET Paths, Publish(q, f, T)
  PROVE  Stocked'
<1> DEFINE new == [files |-> f, tombs |-> T, ts |-> NextTs(q)]
<1>0. q \in Devices
  BY DEF Peers, Devices
<1>1. /\ \/ main' = [main EXCEPT ![q] = new] /\ UNCHANGED spare
         \/ main' = [main EXCEPT ![q] = new] /\ spare' = [spare EXCEPT ![q] = main[q]]
         \/ spare' = [spare EXCEPT ![q] = new] /\ UNCHANGED main
      /\ blobs' = [blobs EXCEPT ![q] = @ \cup TextsOf(new)]
      /\ cache' = cache
  BY DEF Publish, runVars, setupVars
<1> HIDE DEF new
<1>2. blobs'[q] = blobs[q] \cup TextsOf(new)
  BY <1>1 DEF TypeInv, TypeOK, StoreOK
<1>3. \A r \in Peers : blobs[r] \subseteq blobs'[r]
  BY <1>1, <1>2 DEF TypeInv, TypeOK, StoreOK
<1>4. ASSUME NEW r \in Peers PROVE Referenced(r)' \subseteq blobs'[r]
  <2>0. r \in Devices
    BY DEF Peers, Devices
  <2>1. CASE r # q
    <3>1. main'[r] = main[r] /\ spare'[r] = spare[r]
      BY <1>1, <2>0, <2>1 DEF TypeInv, TypeOK, StoreOK
    <3>2. Referenced(r)' = Referenced(r)
      BY <3>1 DEF Referenced, TextsOf
    <3> QED BY <1>3, <3>2 DEF Stocked
  <2>2. CASE r = q
    <3>1. /\ main'[q] = main[q] \/ main'[q] = new
          /\ spare'[q] = spare[q] \/ spare'[q] = main[q] \/ spare'[q] = new
      BY <1>0, <1>1 DEF TypeInv, TypeOK, StoreOK
    <3>2. \A m : TextsOf(m)' = TextsOf(m)
      BY DEF TextsOf
    <3>3. Referenced(q)' \subseteq TextsOf(main[q]) \cup TextsOf(new)
                                  \cup (IF spare[q] = NoManifest THEN {} ELSE TextsOf(spare[q]))
      <4>1. Referenced(q)' = TextsOf(main'[q]) \cup (IF spare'[q] = NoManifest THEN {}
                                                     ELSE TextsOf(spare'[q]))
        BY <3>2 DEF Referenced
      <4> QED BY <3>1, <4>1
    <3>4. TextsOf(main[q]) \subseteq blobs[q]
          /\ (spare[q] # NoManifest => TextsOf(spare[q]) \subseteq blobs[q])
      BY DEF Stocked, Referenced
    <3> QED BY <1>2, <2>2, <3>3, <3>4
  <2> QED BY <2>1, <2>2
<1> QED BY <1>1, <1>3, <1>4 DEF Stocked, TextsOf

LEMMA StockedStep ==
  ASSUME "late" \notin Menu, "gc" \notin Menu
  PROVE  TypeInv /\ Stocked /\ [Next]_vars => Stocked'
<1> SUFFICES ASSUME TypeInv, Stocked, [Next]_vars PROVE Stocked'
  OBVIOUS
<1>0. \A q \in Peers : q \in Devices /\ q # 0
  BY DEF Peers, Devices
<1>1. CASE \E m \in Modes : Begin(m)
  <2>1. /\ cache' = [d \in Devices |-> Fetch(d)] /\ UNCHANGED <<main, spare, blobs>>
    BY <1>1 DEF Begin, storeVars
  <2>2. ASSUME NEW q \in Peers
        PROVE  /\ Referenced(q)' \subseteq blobs[q]
               /\ cache'[q] # NoManifest => TextsOf(cache'[q]) \subseteq blobs[q]
    <3>1. Referenced(q)' = Referenced(q)
      BY <2>1 DEF Referenced, TextsOf
    <3>2. cache'[q] = Fetch(q)
      BY <1>0, <2>1
    <3>3. cache'[q] # NoManifest => TextsOf(cache'[q]) \subseteq Referenced(q)
      BY <3>2, FetchTexts DEF TypeInv, TypeOK
    <3> QED BY <3>1, <3>3 DEF Stocked
  <2> QED BY <2>1, <2>2 DEF Stocked, TextsOf
<1>2. CASE Abort \/ Crash \/ Drain \/ Preflight
  <2>1. UNCHANGED <<main, spare, blobs>> /\ (cache' = cache \/ cache' = NoOne)
    BY <1>2 DEF Abort, Crash, Drain, Preflight, Over, storeVars, setupVars
  <2>2. \A q \in Peers : cache'[q] \in {cache[q], NoManifest}
    BY <1>0, <2>1 DEF NoOne
  <2> QED BY <2>1, <2>2, StockedFrame
<1>3. CASE EndPeer
  <2>1. UNCHANGED <<main, blobs, cache>> /\ (spare' = spare \/ spare' = [spare EXCEPT ![peer] = NoManifest])
    BY <1>3 DEF EndPeer, setupVars
  <2>2. \A q \in Peers : spare'[q] \in {spare[q], NoManifest}
    BY <1>0, <2>1 DEF TypeInv, TypeOK, StoreOK
  <2> QED BY <2>1, <2>2, StockedFrame
<1>4. CASE \/ NextPeer \/ Write \/ Merge \/ KeepLocal \/ KeepRemote \/ KeepMerged \/ KeepBoth \/ Save \/ Reap
           \/ \E p \in Paths : Waits(p) \/ Leaves(p) \/ Looks(p) \/ Fails(p)
  <2>1. UNCHANGED <<main, spare, blobs, cache>>
    BY <1>4 DEF NextPeer, Write, Merge, KeepLocal, KeepRemote, KeepMerged, KeepBoth, Save, Reap, Puts,
       Waits, Leaves, Looks, Fails, Passes, storeVars, setupVars
  <2> QED BY <2>1, StockedFrame
<1>5. CASE OwnPush
  <2>1. UNCHANGED <<spare, blobs, cache>> /\ \A q \in Peers : main'[q] = main[q]
    BY <1>0, <1>5 DEF OwnPush, runVars, setupVars, TypeInv, TypeOK, StoreOK
  <2> QED BY <2>1 DEF Stocked, Referenced, TextsOf
<1>6. CASE \E q \in Peers, f \in [Paths -> Revs \cup {Absent}], T \in SUBSET Paths : Publish(q, f, T)
  BY <1>6, StockedPublish
<1>7. ASSUME NEW q \in Peers, NEW t \in Texts, BlobArrives(q, t)
      PROVE  Stocked'
  <2>1. UNCHANGED <<main, spare, cache>> /\ \A r \in Peers : blobs[r] \subseteq blobs'[r]
    BY <1>7 DEF BlobArrives, runVars, setupVars, TypeInv, TypeOK, StoreOK
  <2> QED BY <2>1 DEF Stocked, Referenced, TextsOf
<1>8. CASE \/ \E p \in Paths : UserRemoves(p) \/ UserLinks(p)
           \/ \E p \in Paths, t \in Texts, mt \in Mtimes : UserWrites(p, t, mt)
           \/ \E p \in Paths : \E c \in copies[p] : UserReviews(p, c)
           \/ \E d \in Devices : Damage(d) \/ Heal(d)
           \/ UNCHANGED vars
  <2>1. UNCHANGED <<main, spare, blobs, cache>>
    BY <1>8 DEF UserRemoves, UserLinks, UserWrites, UserReviews, Edits, Damage, Heal, vars,
       storeVars, runVars, setupVars
  <2> QED BY <2>1, StockedFrame
<1> QED BY <1>1, <1>2, <1>3, <1>4, <1>5, <1>6, <1>7, <1>8
        DEF Next, Step, Prompted, User, Storage, BlobGoes

(* Where the files follow a prediction, the file in hand does what was       *)
(* foretold for it.                                                         *)
LEMMA FollowsFile ==
  ASSUME TypeInv, DeletionInv, mode = "fail", pc \in Walking, NEW V, Told(V), Follows(V),
         NEW p \in queue, p \notin Mergeable
  PROVE  /\ Doing(p) \in {"skip", "write", "unchanged"}
         /\ Doing(p) # "write" => V[peer][p] = disk[p]
         /\ disk[p] = Absent =>
              V[peer][p] = [text |-> Rev(p).text, mt |-> Restored(Rev(p).mt)]
<1>1. p \in Paths \ Mergeable /\ peer \in Peers /\ cache[peer] # NoManifest
  BY DEF TypeInv, TypeOK, WalkOK, WalkInv
<1>2. Rev(p) # Absent /\ p \notin tombs
  BY DEF TypeInv, WalkInv, DeletionInv
<1>3. disk[p] = V[peer - 1][p]
  BY <1>1 DEF Follows, Reached, Walking, Acting
<1>4. V[peer][p] = After(peer, disk[p], p) /\ Outcome(peer, disk[p], p) # "conflict"
  BY <1>1, <1>3 DEF Told
<1>5. Outcome(peer, disk[p], p) = Predict(disk[p], Rev(p), p)
  BY <1>1 DEF Outcome, Rev
<1>6. Doing(p) \in {"skip", "write", "unchanged"} /\ Outcome(peer, disk[p], p) = Doing(p)
  BY <1>1, <1>2, <1>4, <1>5 DEF Predict, Doing
<1>7. Doing(p) # "write" => V[peer][p] = disk[p]
  BY <1>4, <1>6 DEF After
<1>8. disk[p] = Absent => Doing(p) = "write"
  BY MarksAssumption DEF Doing
<1>9. disk[p] = Absent => V[peer][p] = [text |-> Rev(p).text, mt |-> Restored(Rev(p).mt)]
  BY <1>4, <1>6, <1>8 DEF After, Rev
<1> QED BY <1>6, <1>7, <1>9

(* A step that leaves the run's reads and the files alone.                   *)
LEMMA ToldFrame ==
  ASSUME UNCHANGED <<cache, tombs>>, NEW V, Told(V)
  PROVE  Told(V)'
BY DEF Told, After, Outcome, Predict

LEMMA ForeseenFrame ==
  ASSUME ForeseenInv, UNCHANGED <<mode, pc, peer, queue, at, disk, cache, tombs>>
  PROVE  ForeseenInv'
<1> SUFFICES ASSUME mode = "fail", pc # "plan"
             PROVE  \E V : Told(V)' /\ Follows(V)'
  BY DEF ForeseenInv
<1>1. PICK V : Told(V) /\ Follows(V)
  BY DEF ForeseenInv
<1>2. Told(V)' /\ Follows(V)'
  BY <1>1, ToldFrame DEF Follows, Reached
<1> QED BY <1>2

LEMMA ForeseenOver ==
  ASSUME mode' # "fail"
  PROVE  ForeseenInv'
BY DEF ForeseenInv

LEMMA ForeseenPreflight ==
  ASSUME TypeInv, ForeseenInv, Preflight
  PROVE  ForeseenInv'
<1>1. CASE WouldConflict
  BY <1>1, ForeseenOver DEF Preflight, Over
<1>2. CASE ~WouldConflict /\ mode = "fail"
  <2>1. pc' = "peer" /\ UNCHANGED <<mode, cache, tombs, peer, disk>> /\ peer = 1
    BY <1>2 DEF Preflight, setupVars, walkVars, fileVars, ForeseenInv
  <2>2. Plan(Planned, NPeers)
    BY PlannedIsPlan
  <2>3. \A q \in Peers, p \in Paths : Outcome(q, Planned[q - 1][p], p) # "conflict"
    BY <1>2 DEF WouldConflict
  <2> DEFINE V == Planned
  <2>4. V[0] = disk /\ \A q \in Peers : V[q] = [p \in Paths |-> After(q, V[q - 1][p], p)]
    BY <2>2 DEF Plan, Peers
  <2> HIDE DEF V
  <2>5. \E W : W = V
    OBVIOUS
  <2>6. PICK W : W = V
    BY <2>5
  <2>7. Told(W)
    BY <2>3, <2>4, <2>6 DEF Told, V
  <2>8. Follows(W)'
    BY <2>1, <2>4, <2>6 DEF Follows, Reached
  <2>9. Told(W)'
    BY <2>1, <2>7, ToldFrame
  <2> QED BY <2>1, <2>8, <2>9 DEF ForeseenInv
<1>3. CASE ~WouldConflict /\ mode # "fail"
  BY <1>3, ForeseenOver DEF Preflight, setupVars
<1> QED BY <1>1, <1>2, <1>3

LEMMA ForeseenNextPeer ==
  ASSUME TypeInv, ForeseenInv, NextPeer
  PROVE  ForeseenInv'
<1>1. UNCHANGED <<mode, cache, tombs, disk>> /\ pc = "peer" /\ peer \in Peers
      /\ pc' \in {"peer", "apply"} /\ peer' \in {peer, peer + 1}
  BY DEF NextPeer, setupVars, fileVars
<1> SUFFICES ASSUME mode = "fail" PROVE ForeseenInv'
  BY <1>1, ForeseenOver
<1>2. PICK V : Told(V) /\ Follows(V)
  BY <1>1 DEF ForeseenInv
<1>3. Told(V)'
  BY <1>1, <1>2, ToldFrame
<1>4. ASSUME NEW p \in Paths \ Mergeable PROVE disk[p] = V[Reached(p)'][p]
  <2>1. disk[p] = V[peer - 1][p]
    BY <1>1, <1>2 DEF Follows, Reached
  <2>2. V[peer][p] = After(peer, disk[p], p)
    BY <1>1, <1>2, <2>1 DEF Told
  <2>3. CASE cache[peer] = NoManifest
    <3>1. pc' = "peer" /\ peer' = peer + 1
      BY <2>3 DEF NextPeer
    <3>2. Reached(p)' = peer
      BY <1>1, <3>1 DEF Reached, Peers
    <3>3. Outcome(peer, disk[p], p) = "none"
      BY <2>3 DEF Outcome
    <3> QED BY <2>2, <3>2, <3>3 DEF After
  <2>4. CASE cache[peer] # NoManifest
    <3>1. /\ pc' = "apply" /\ peer' = peer
          /\ queue' = {x \in Paths : Differs(x, cache[peer].files[x])}
      BY <2>4 DEF NextPeer
    <3>2. CASE p \in queue'
      BY <2>1, <3>1, <3>2 DEF Reached
    <3>3. CASE p \notin queue'
      <4>1. Reached(p)' = peer /\ ~Differs(p, cache[peer].files[p])
        BY <3>1, <3>3 DEF Reached
      <4>2. Outcome(peer, disk[p], p) \in {"none", "unchanged"}
        BY <2>4, <4>1 DEF Outcome, Predict, Differs
      <4> QED BY <2>2, <4>1, <4>2 DEF After
    <3> QED BY <3>2, <3>3
  <2> QED BY <2>3, <2>4
<1>5. Follows(V)'
  BY <1>1, <1>4 DEF Follows
<1>6. peer >= 1 /\ peer' >= 1
  BY <1>1, PeersAssumption DEF Peers
<1> QED BY <1>1, <1>3, <1>5, <1>6 DEF ForeseenInv

LEMMA ForeseenLeaves ==
  ASSUME TypeInv, DeletionInv, ForeseenInv, NEW p \in Paths, Leaves(p)
  PROVE  ForeseenInv'
<1>1. /\ UNCHANGED <<mode, cache, tombs, disk, pc, peer>> /\ pc = "apply" /\ p \in queue
      /\ queue' = queue \ {p} /\ Doing(p) \in {"skip", "unchanged"}
  BY DEF Leaves, Arrived, Passes, setupVars, fileVars
<1> SUFFICES ASSUME mode = "fail" PROVE ForeseenInv'
  BY <1>1, ForeseenOver
<1>2. PICK V : Told(V) /\ Follows(V)
  BY <1>1 DEF ForeseenInv
<1>3. Told(V)'
  BY <1>1, <1>2, ToldFrame
<1>4. ASSUME NEW r \in Paths \ Mergeable PROVE disk[r] = V[Reached(r)'][r]
  <2>1. CASE r = p
    <3>1. Reached(r)' = peer
      BY <1>1, <2>1 DEF Reached
    <3>2. V[peer][p] = disk[p]
      BY <1>1, <1>2, <2>1, FollowsFile DEF Walking
    <3> QED BY <2>1, <3>1, <3>2
  <2>2. CASE r # p
    <3>1. Reached(r)' = Reached(r)
      BY <1>1, <2>2 DEF Reached
    <3> QED BY <1>2, <3>1 DEF Follows
  <2> QED BY <2>1, <2>2
<1>5. Follows(V)'
  BY <1>1, <1>4 DEF Follows
<1> QED BY <1>1, <1>3, <1>5 DEF ForeseenInv

LEMMA ForeseenLooks ==
  ASSUME TypeInv, DeletionInv, ForeseenInv, NEW p \in Paths, Looks(p)
  PROVE  ForeseenInv'
<1>1. /\ UNCHANGED <<mode, cache, tombs, disk, peer, queue>> /\ pc = "apply" /\ p \in queue
      /\ pc' = Doing(p) /\ Doing(p) \notin {"skip", "unchanged"}
      /\ at' = [path |-> p, local |-> disk[p], stale |-> {}]
  BY DEF Looks, Arrived, setupVars, fileVars
<1>2. at'.path = p
  BY <1>1
<1> SUFFICES ASSUME mode = "fail" PROVE ForeseenInv'
  BY <1>1, ForeseenOver
<1>3. PICK V : Told(V) /\ Follows(V)
  BY <1>1 DEF ForeseenInv
<1>4. Told(V)'
  BY <1>1, <1>3, ToldFrame
<1>5. \/ pc' = "write" /\ disk[p] = Absent
      \/ pc' = "merge" /\ p \in Mergeable
  <2>1. CASE p \notin Mergeable
    <3>1. Doing(p) = "write"
      BY <1>1, <1>3, <2>1, FollowsFile DEF Walking
    <3> QED BY <1>1, <2>1, <3>1 DEF Doing
  <2>2. CASE p \in Mergeable
    BY <1>1, <2>2 DEF Doing
  <2> QED BY <2>1, <2>2
<1>6. Follows(V)'
  BY <1>1, <1>3, <1>5 DEF Follows, Reached
<1> QED BY <1>1, <1>2, <1>4, <1>5, <1>6 DEF ForeseenInv

(* The run writes what was foretold, or a merge.                            *)
LEMMA ForeseenWrites ==
  ASSUME TypeInv, DeletionInv, ForeseenInv, Write \/ Merge
  PROVE  ForeseenInv'
<1>1. /\ UNCHANGED <<mode, cache, tombs, peer>> /\ pc \in {"write", "merge"} /\ pc' = "apply"
      /\ queue' = queue \ {at.path}
  BY DEF Write, Merge, Puts, Goes, setupVars
<1> SUFFICES ASSUME mode = "fail" PROVE ForeseenInv'
  BY <1>1, ForeseenOver
<1>2. PICK V : Told(V) /\ Follows(V)
  BY <1>1 DEF ForeseenInv
<1>3. Told(V)'
  BY <1>1, <1>2, ToldFrame
<1>4. at.path \in queue /\ at.path \in Paths
  BY <1>1 DEF TypeInv, TypeOK, WalkOK, WalkInv, Acting
<1>5. \/ disk' = disk
      \/ \E text, mt : disk' = [disk EXCEPT ![at.path] = [text |-> text, mt |-> mt]]
  BY DEF Write, Merge, Puts, fileVars
<1>6. ASSUME NEW r \in Paths \ Mergeable, r # at.path PROVE disk'[r] = V[Reached(r)'][r]
  <2>1. Reached(r)' = Reached(r)
    BY <1>1, <1>6 DEF Reached
  <2>2. disk'[r] = disk[r]
    BY <1>5, <1>6 DEF TypeInv, TypeOK, FilesOK
  <2> QED BY <1>2, <2>1, <2>2 DEF Follows
<1>7. ASSUME NEW r \in Paths \ Mergeable, r = at.path PROVE disk'[r] = V[Reached(r)'][r]
  <2>1. pc = "write" /\ disk[r] = Absent
    BY <1>1, <1>7 DEF ForeseenInv
  <2>2. V[peer][r] = [text |-> Rev(r).text, mt |-> Restored(Rev(r).mt)]
    BY <1>1, <1>2, <1>4, <1>7, <2>1, FollowsFile DEF Walking, Acting
  <2>3. disk' = [disk EXCEPT ![r] = [text |-> Rev(r).text, mt |-> Restored(Rev(r).mt)]]
    BY <1>7, <2>1 DEF Write, Merge, Puts
  <2>4. disk'[r] = [text |-> Rev(r).text, mt |-> Restored(Rev(r).mt)]
    BY <2>3 DEF TypeInv, TypeOK, FilesOK
  <2>5. Reached(r)' = peer
    BY <1>1, <1>7 DEF Reached
  <2> QED BY <2>2, <2>4, <2>5
<1>8. Follows(V)'
  BY <1>6, <1>7 DEF Follows
<1> QED BY <1>1, <1>3, <1>8 DEF ForeseenInv

LEMMA ForeseenEndPeer ==
  ASSUME TypeInv, ForeseenInv, EndPeer
  PROVE  ForeseenInv'
<1>1. /\ UNCHANGED <<mode, cache, tombs, disk, queue>> /\ pc = "apply" /\ queue = {}
      /\ pc' = "peer" /\ peer' = peer + 1
  BY DEF EndPeer, setupVars, fileVars
<1> SUFFICES ASSUME mode = "fail" PROVE ForeseenInv'
  BY <1>1, ForeseenOver
<1>2. PICK V : Told(V) /\ Follows(V)
  BY <1>1 DEF ForeseenInv
<1>3. Told(V)'
  BY <1>1, <1>2, ToldFrame
<1>4. peer \in Peers /\ peer \in Nat /\ peer >= 1
  BY <1>1, PeersAssumption DEF TypeInv, WalkInv, Walking, Peers
<1>5. \A p : Reached(p)' = Reached(p)
  BY <1>1, <1>4 DEF Reached
<1>6. Follows(V)'
  BY <1>1, <1>2, <1>5 DEF Follows
<1> QED BY <1>1, <1>3, <1>4, <1>6 DEF ForeseenInv

LEMMA ForeseenStep ==
  ASSUME {"late", "gc", "fail"} \cap Menu = {}
  PROVE  TypeInv /\ DeletionInv /\ Stocked /\ ForeseenInv /\ [Next]_vars => ForeseenInv'
<1> SUFFICES ASSUME TypeInv, DeletionInv, Stocked, ForeseenInv, [Next]_vars
             PROVE  ForeseenInv'
  OBVIOUS
<1>1. CASE \E m \in Modes : Begin(m)
  BY <1>1 DEF Begin, ForeseenInv
<1>2. CASE Abort \/ Crash \/ Drain
  BY <1>2, ForeseenOver DEF Abort, Crash, Drain, Over
<1>3. CASE Preflight \/ NextPeer \/ EndPeer \/ Write \/ Merge
  BY <1>3, ForeseenPreflight, ForeseenNextPeer, ForeseenEndPeer, ForeseenWrites
<1>4. CASE \E p \in Paths : Leaves(p) \/ Looks(p)
  BY <1>4, ForeseenLeaves, ForeseenLooks
<1>5. CASE KeepLocal \/ KeepRemote \/ KeepMerged \/ KeepBoth \/ Save \/ Reap
  <2>1. pc \in {"ask", "conflict", "stale"} /\ mode' = mode
    BY <1>5 DEF KeepLocal, KeepRemote, KeepMerged, KeepBoth, Save, Reap, Puts, setupVars
  <2> QED BY <2>1, ForeseenOver DEF ForeseenInv
<1>6. ASSUME NEW p \in Paths, Waits(p) \/ Fails(p)
      PROVE  ForeseenInv'
  <2>1. pc \in Walking /\ p \in queue /\ Rev(p).text \notin blobs[peer]
    BY <1>6 DEF Waits, Fails, Walking
  <2>2. peer \in Peers /\ cache[peer] # NoManifest /\ Rev(p) # Absent /\ p \in Paths
    BY <2>1 DEF TypeInv, TypeOK, WalkOK, WalkInv
  <2>3. Rev(p).text \in blobs[peer]
    BY <2>2 DEF Stocked, TextsOf, Rev
  <2> QED BY <2>1, <2>3
<1>7. CASE User
  <2>1. CASE OwnPush \/ \E p \in Paths : \E c \in copies[p] : UserReviews(p, c)
    <3>1. UNCHANGED <<mode, pc, peer, queue, at, disk, cache, tombs>>
      BY <2>1 DEF OwnPush, UserReviews, runVars, setupVars, walkVars, fileVars
    <3> QED BY <3>1, ForeseenFrame
  <2>2. ASSUME NEW p \in Paths, NEW f, NEW text, Edits(p, f, text)
        PROVE  ForeseenInv'
    <3>1. mode' = mode /\ (pc = "idle" \/ mode # "fail")
      BY <2>2 DEF Edits, Editable, runVars, setupVars
    <3> QED BY <3>1, ForeseenOver DEF ForeseenInv
  <2> QED BY <1>7, <2>1, <2>2 DEF User, UserRemoves, UserLinks, UserWrites
<1>8. CASE Storage \/ UNCHANGED vars
  <2>1. UNCHANGED <<mode, pc, peer, queue, at, disk, cache, tombs>>
    BY <1>8 DEF Storage, Publish, BlobArrives, BlobGoes, Damage, Heal, vars, runVars, setupVars,
       walkVars, fileVars
  <2> QED BY <2>1, ForeseenFrame
<1> QED BY <1>1, <1>2, <1>3, <1>4, <1>5, <1>6, <1>7, <1>8 DEF Next, Step, Prompted

NoSurprise == mode = "fail" => pc' \notin {"ask", "conflict"}

(* A fail-mode pull that passed its preflight asks nothing and leaves no     *)
(* conflict (build_pull_plan against _apply_incoming_file), for any number   *)
(* of peers and paths, publications during the run, damage and crashes: as   *)
(* long as every listed blob is here and no file fails, which the planner    *)
(* does not look at.                                                        *)
THEOREM PreflightForesees ==
  ASSUME {"late", "gc", "fail"} \cap Menu = {}
  PROVE  Spec => NoSurpriseConflict
<1>1. Init => DeletionInv /\ Stocked /\ ForeseenInv
  <2> SUFFICES ASSUME Init PROVE DeletionInv /\ Stocked /\ ForeseenInv
    OBVIOUS
  <2>1. DeletionInv
    BY PeersAssumption DEF Init, DeletionInv, NoOne, Devices, Walking, Acting
  <2>2. Stocked
    BY DEF Init, Stocked, Referenced, TextsOf, NoOne, Empty, Peers, Devices
  <2> QED BY <2>1, <2>2 DEF Init, ForeseenInv
<1>2. TypeInv /\ ForeseenInv /\ ForeseenInv' /\ [Next]_vars => [NoSurprise]_vars
  <2> SUFFICES ASSUME TypeInv, ForeseenInv, ForeseenInv', Next, mode = "fail",
                      pc' \in {"ask", "conflict"}
               PROVE  FALSE
    BY DEF NoSurprise
  <2>1. mode' = mode \/ pc' = "idle"
    BY DEF Next, Step, Prompted, Begin, Preflight, NextPeer, Write, Merge, Save, Reap, EndPeer,
       Drain, KeepLocal, KeepRemote, KeepMerged, KeepBoth, Abort, Crash, Over, Puts, Waits,
       Leaves, Looks, Fails, Passes, User, UserRemoves, UserLinks, UserWrites, UserReviews,
       Edits, OwnPush, Storage, Publish, BlobArrives, BlobGoes, Damage, Heal, runVars,
       setupVars, ForeseenInv
  <2> QED BY <2>1 DEF ForeseenInv
<1>3. NoSurpriseConflict <=> [][NoSurprise]_vars
  BY DEF NoSurpriseConflict, NoSurprise
<1>4. TypeInv /\ DeletionInv /\ [Next]_vars => DeletionInv'
  BY DeletionStep
<1>5. TypeInv /\ Stocked /\ [Next]_vars => Stocked'
  BY StockedStep
<1>6. TypeInv /\ DeletionInv /\ Stocked /\ ForeseenInv /\ [Next]_vars => ForeseenInv'
  BY ForeseenStep
<1> QED BY <1>1, <1>2, <1>3, <1>4, <1>5, <1>6, TypeInvariant, PTL DEF Spec
=============================================================================
