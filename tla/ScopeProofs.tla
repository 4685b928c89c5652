----------------------------- MODULE ScopeProofs -----------------------------
(***************************************************************************)
(* What is proved of what a source holds (SourceScope), for every tree,    *)
(* source and number of changes by the user: what a walk finds is what the *)
(* source is meant to hold, pull writes what a walk finds, and only what   *)
(* was gone is recorded as deleted.  With what is proved of a push         *)
(* (PushProofs) and of what it says of itself (EvidenceProofs), what the   *)
(* run over MCDevice checks follows at once.                               *)
(***************************************************************************)
EXTENDS MCDevice, PushProofs, EvidenceProofs, SequenceTheorems, FiniteSetTheorems, WellFoundedInduction, TLAPS

LEMMA UpFromZero ==
  ASSUME NEW S, 0 \in S, \A n \in Nat : n \in S => n + 1 \in S
  PROVE  \A n \in Nat : n \in S
<1> SUFFICES ASSUME NEW k \in Nat, k \notin S PROVE FALSE
  OBVIOUS
<1> DEFINE Out == {n \in Nat : n \notin S}
           F == {0 .. x : x \in Out}
<1>1. F \subseteq FiniteSubsetsOf(Nat) /\ F # {}
  <2>1. ASSUME NEW x \in Nat PROVE 0 .. x \subseteq Nat /\ IsFiniteSet(0 .. x)
    BY FS_Interval
  <2> QED BY <2>1 DEF FiniteSubsetsOf
<1>2. PICK U \in F : \A V \in F : ~(<<V, U>> \in StrictSubsetOrdering(Nat))
  <2>1. IsWellFoundedOn(StrictSubsetOrdering(Nat), FiniteSubsetsOf(Nat))
    BY FS_StrictSubsetOrderingWellFounded
  <2> HIDE DEF F
  <2> QED BY <1>1, <2>1, WFMin
<1>3. PICK x \in Out : U = 0 .. x
  OBVIOUS
<1>4. x - 1 \in Nat /\ x - 1 \in Out
  <2>1. x \in Nat /\ x # 0
    OBVIOUS
  <2>2. x - 1 \in Nat /\ (x - 1) + 1 = x
    BY <2>1
  <2> QED BY <2>2
<1>5. 0 .. (x - 1) \in F /\ 0 .. (x - 1) \subseteq 0 .. x /\ 0 .. (x - 1) # 0 .. x
  <2>1. x \in 0 .. x /\ x \notin 0 .. (x - 1)
    OBVIOUS
  <2> QED BY <1>4, <2>1
<1>6. <<0 .. (x - 1), 0 .. x>> \in StrictSubsetOrdering(Nat)
  BY <1>5 DEF StrictSubsetOrdering
<1> QED BY <1>2, <1>3, <1>5, <1>6

(* Files that leave a source.  A tree, and what a push under way has seen    *)
(* gone: at least what is gone now.                                         *)
Kinds == {"dir", "file", "link", "dark", "absent"}
Marked == SUBSET (SCDirs \cup {<<>>})
Trees == [kind : [SCPaths -> Kinds], git : Marked, extend : Marked, profile : Marked, twins : BOOLEAN]
GoneNow == {f \in SCFiles : Gone(scTree, f)}

TreeInv == /\ scTree \in Trees /\ \A f \in SCFiles : scTree.kind[f] # "dark"
           /\ scSource \in SCSources /\ scFiles \subseteq SCFiles
RunInv == \/ scRun = Idle
          \/ \E w, g : /\ scRun = [pc |-> "scanned", walk |-> w, gone |-> g]
                       /\ w.files \subseteq SCFiles /\ GoneNow \subseteq g
GoneInv == TreeInv /\ RunInv

OnlyGone == scDead' \subseteq scDead \/ scDead' \ scDead \subseteq scRun.gone

(* A path lies on the way to itself.                                        *)
LEMMA OnItsWay ==
  ASSUME NEW f \in SCFiles
  PROVE  f \in Upto(f) /\ Above(f) \subseteq Upto(f)
<1>1. f \in Seq(ToSet(f)) /\ f # <<>> /\ f \in SCPaths
  BY SCPathsAssumption DEF SCPaths
<1>2. Len(f) \in Nat /\ Len(f) \in 1..Len(f)
  BY <1>1
<1>3. SubSeq(f, 1, Len(f)) = f
  BY <1>1
<1>4. Upto(f) = {SubSeq(f, 1, i) : i \in 1..Len(f)}
  BY <1>1 DEF Upto, PathsUpto
<1> QED BY <1>2, <1>3, <1>4 DEF Above

(* A walk yields files of the tree.                                         *)
LEMMA WalkedFiles ==
  ASSUME NEW t, NEW source \in SCSources
  PROVE  Walk(t, source).files \subseteq SCFiles
<1>1. source.files \subseteq SCFiles
  BY SCSourcesAssumption
<1>2. ASSUME NEW marks
      PROVE  WalkPast(t, source, marks).files \subseteq SCFiles
  BY <1>1 DEF WalkPast
<1> QED BY <1>2 DEF Walk

LEMMA WholeTree ==
  /\ FullTree \in Trees /\ \A f \in SCFiles : FullTree.kind[f] # "dark"
  /\ \A q \in SCPaths : FullTree.kind[q] \in {"dir", "file"}
BY DEF FullTree, Trees, Kinds, Marked, SCPaths

LEMMA GoneInit == SCInit => GoneInv
<1> SUFFICES ASSUME SCInit PROVE GoneInv
  OBVIOUS
<1>1. scFiles \subseteq SCFiles
  BY WalkedFiles DEF SCInit
<1> QED BY <1>1, WholeTree DEF SCInit, GoneInv, TreeInv, RunInv

(* The tree changes: what is gone now is remembered by a push under way.     *)
LEMMA GoneBecomes ==
  ASSUME GoneInv, NEW t \in Trees, \A f \in SCFiles : t.kind[f] # "dark", Becomes(t)
  PROVE  GoneInv' /\ UNCHANGED scDead
<1>1. scTree' = t /\ UNCHANGED <<scSource, scFiles, scDead>>
  BY DEF Becomes
<1>2. TreeInv'
  BY <1>1 DEF GoneInv, TreeInv
<1>3. CASE scRun = Idle
  <2>1. scRun' = Idle
    BY <1>3 DEF Becomes, Idle
  <2> QED BY <1>1, <1>2, <2>1 DEF GoneInv, RunInv
<1>4. CASE scRun # Idle
  <2>1. PICK w, g : /\ scRun = [pc |-> "scanned", walk |-> w, gone |-> g]
                    /\ w.files \subseteq SCFiles
    BY <1>4 DEF GoneInv, RunInv
  <2>2. scRun' = [scRun EXCEPT !.gone = @ \cup {f \in SCFiles : Gone(t, f)}]
    BY <2>1 DEF Becomes
  <2>3. scRun' = [pc |-> "scanned", walk |-> w, gone |-> g \cup {f \in SCFiles : Gone(t, f)}]
    BY <2>1, <2>2
  <2>4. GoneNow' = {f \in SCFiles : Gone(t, f)}
    BY <1>1 DEF GoneNow, Gone, BehindLink, Lstat
  <2>5. RunInv'
    BY <2>1, <2>3, <2>4 DEF RunInv
  <2> QED BY <1>1, <1>2, <2>5 DEF GoneInv
<1> QED BY <1>3, <1>4

LEMMA GonePutAt ==
  ASSUME GoneInv, NEW p \in SCPlaces, NEW kind \in {"absent", "link", "dark", "whole"},
         PutAt(p, kind)
  PROVE  GoneInv' /\ UNCHANGED scDead
<1> DEFINE below == {q \in SCPaths : IsPrefix(p, q)}
           K == [q \in SCPaths |-> IF q \notin below THEN scTree.kind[q]
                                   ELSE IF kind = "whole" THEN FullTree.kind[q]
                                   ELSE IF q = p THEN kind ELSE "absent"]
           t == [scTree EXCEPT !.kind = K, !.git = @ \ below, !.extend = @ \ below,
                               !.profile = @ \ below, !.twins = @ /\ Twins \cap below = {}]
<1>1. Becomes(t)
  BY DEF PutAt
<1>2. ASSUME NEW q \in SCPaths
      PROVE  K[q] \in Kinds /\ (q \in SCFiles => K[q] # "dark")
  <2>1. scTree.kind[q] \in Kinds /\ (q \in SCFiles => scTree.kind[q] # "dark")
    BY DEF GoneInv, TreeInv, Trees
  <2>2. FullTree.kind[q] \in {"dir", "file"}
    BY WholeTree
  <2>3. q = p /\ kind = "dark" => q \notin SCFiles
    BY SCPathsAssumption DEF PutAt
  <2> QED BY <2>1, <2>2, <2>3 DEF Kinds
<1>3. K \in [SCPaths -> Kinds] /\ \A f \in SCFiles : K[f] # "dark"
  BY <1>2 DEF SCPaths
<1> HIDE DEF K, below
<1>4. t \in Trees /\ t.kind = K
  <2>1. (scTree.twins /\ Twins \cap below = {}) \in BOOLEAN
    OBVIOUS
  <2> QED BY <1>3, <2>1 DEF GoneInv, TreeInv, Trees, Marked
<1> HIDE DEF t
<1> QED BY <1>1, <1>3, <1>4, GoneBecomes

LEMMA GoneMark ==
  ASSUME GoneInv, NEW d \in (SCPlaces \cap SCDirs) \cup {<<>>}, Mark(d) \/ LinkTwins
  PROVE  GoneInv' /\ UNCHANGED scDead
<1>1. PICK t : /\ Becomes(t)
               /\ \/ t = [scTree EXCEPT !.git = Toggle(@, d)]
                  \/ t = [scTree EXCEPT !.extend = Toggle(@, d)]
                  \/ t = [scTree EXCEPT !.profile = Toggle(@, d)]
                  \/ t = [scTree EXCEPT !.twins = ~@]
  BY DEF Mark, LinkTwins
<1>2. \A S \in Marked : Toggle(S, d) \in Marked
  BY DEF Toggle, Marked
<1>3. t \in Trees /\ t.kind = scTree.kind
  BY <1>1, <1>2 DEF GoneInv, TreeInv, Trees
<1> QED BY <1>1, <1>3, GoneBecomes DEF GoneInv, TreeInv

LEMMA GoneScan ==
  ASSUME GoneInv, ScanSource
  PROVE  GoneInv' /\ UNCHANGED scDead
<1> DEFINE W == Walk(scTree, scSource)
<1>1. /\ scRun' = [pc |-> "scanned", walk |-> W, gone |-> GoneNow]
      /\ UNCHANGED <<scTree, scSource, scFiles, scDead>>
  BY DEF ScanSource, GoneNow
<1>2. W.files \subseteq SCFiles
  BY WalkedFiles DEF GoneInv, TreeInv
<1> HIDE DEF W
<1>3. GoneNow' = GoneNow
  BY <1>1 DEF GoneNow, Gone, BehindLink, Lstat
<1> QED BY <1>1, <1>2, <1>3 DEF GoneInv, TreeInv, RunInv

(* What a push newly records as deleted is gone as it records it.            *)
LEMMA GonePublish ==
  ASSUME GoneInv, PublishScope
  PROVE  GoneInv' /\ scDead' \ scDead \subseteq scRun.gone
<1> DEFINE former == Prior(MarkerSkips(scTree, scSource).skip)
           files == scRun.walk.files \cup former.frozen
<1>1. PICK w, g : /\ scRun = [pc |-> "scanned", walk |-> w, gone |-> g]
                  /\ w.files \subseteq SCFiles /\ GoneNow \subseteq g
  BY DEF PublishScope, GoneInv, RunInv, Idle
<1>2. /\ scRun' = Idle /\ UNCHANGED <<scTree, scSource>>
      /\ scFiles' = files /\ scDead' = (former.dead \cup former.files) \ files
      /\ ~Unproven(former, files)
  BY DEF PublishScope, PublishFrom, Publish
<1>3. /\ former.frozen \subseteq scFiles /\ former.dead \subseteq scDead
      /\ former.files \subseteq scFiles
      /\ \A f \in former.files : f \in former.frozen \/ ~BehindLink(scTree, f)
  BY DEF Prior
<1> HIDE DEF former
<1>4. GoneInv'
  BY <1>1, <1>2, <1>3 DEF GoneInv, TreeInv, RunInv
<1>5. ASSUME NEW f \in scDead', f \notin scDead
      PROVE  f \in scRun.gone
  <2>1. f \in former.files \ files /\ ~BehindLink(scTree, f) /\ f \in SCFiles
    BY <1>2, <1>3, <1>5 DEF GoneInv, TreeInv
  <2>2. Lstat(scTree, f) \notin {"file", "error"}
    BY <1>2, <2>1 DEF Unproven
  <2>3. Lstat(scTree, f) = scTree.kind[f]
    BY <2>1, <2>2, OnItsWay DEF Lstat, BehindLink
  <2>4. scTree.kind[f] \in Kinds /\ scTree.kind[f] # "dark"
    BY <2>1 DEF GoneInv, TreeInv, Trees, SCPaths
  <2>5. scTree.kind[f] # "link"
    BY <2>1, OnItsWay DEF BehindLink
  <2>6. Gone(scTree, f)
    BY <2>1, <2>2, <2>3, <2>4, <2>5 DEF Gone, Kinds
  <2> QED BY <1>1, <2>1, <2>6 DEF GoneNow
<1> QED BY <1>4, <1>5

LEMMA GoneStep == GoneInv /\ [SCNext]_scVars => GoneInv' /\ [OnlyGone]_scVars
<1> SUFFICES ASSUME GoneInv, [SCNext]_scVars PROVE GoneInv' /\ OnlyGone
  OBVIOUS
<1>1. ASSUME UNCHANGED scDead PROVE OnlyGone
  BY <1>1 DEF OnlyGone
<1>2. CASE \E p \in SCPlaces, kind \in {"absent", "link", "dark", "whole"} : PutAt(p, kind)
  BY <1>1, <1>2, GonePutAt
<1>3. CASE LinkTwins \/ \E d \in (SCPlaces \cap SCDirs) \cup {<<>>} : Mark(d)
  BY <1>1, <1>3, GoneMark
<1>4. CASE ScanSource
  BY <1>1, <1>4, GoneScan
<1>5. CASE PublishScope
  BY <1>5, GonePublish DEF OnlyGone
<1>6. CASE GiveUpPush \/ UNCHANGED scVars
  <2>1. UNCHANGED <<scTree, scSource, scFiles, scDead>> /\ (scRun' = Idle \/ scRun' = scRun)
    BY <1>6 DEF GiveUpPush, scVars
  <2>2. GoneNow' = GoneNow
    BY <2>1 DEF GoneNow, Gone, BehindLink, Lstat
  <2> QED BY <1>1, <2>1, <2>2 DEF GoneInv, TreeInv, RunInv
<1> QED BY <1>2, <1>3, <1>4, <1>5, <1>6 DEF SCNext

(* A file that leaves the manifest is recorded as deleted only if at some    *)
(* moment of the push it was gone from where it was                         *)
(* (_prove_omitted_paths_absent), for any tree, source and number of changes *)
(* by the user between the walk and the publication: what became a link, a   *)
(* checkout, a marked or an unreadable directory records nothing.            *)
THEOREM DeadWasGone == SCSpec => OnlyGoneIsDead
<1>1. OnlyGoneIsDead <=> [][OnlyGone]_scVars
  BY DEF OnlyGoneIsDead, OnlyGone
<1> QED BY <1>1, GoneInit, GoneStep, PTL DEF SCSpec
-----------------------------------------------------------------------------
(* Paths.  A path of the tree, or the root.                                 *)
AnyPath == SCPaths \cup {<<>>}
NamesUsed == UNION {ToSet(p) : p \in SCPaths}

LEMMA PathsAre ==
  /\ SCPaths \subseteq AnyPath /\ SCDirs \subseteq SCPaths /\ SCFiles \subseteq SCPaths
  /\ AnyPath \subseteq Seq(NamesUsed) /\ <<>> \in AnyPath
  /\ \A p \in SCPaths : p # <<>>
<1>1. ASSUME NEW p \in SCPaths PROVE p \in Seq(NamesUsed) /\ p # <<>>
  <2>1. p \in Seq(ToSet(p)) /\ p # <<>>
    BY SCPathsAssumption DEF SCPaths
  <2>2. ToSet(p) \subseteq NamesUsed
    BY DEF NamesUsed
  <2> QED BY <2>1, <2>2
<1>2. <<>> \in Seq(NamesUsed)
  OBVIOUS
<1> QED BY <1>1, <1>2 DEF AnyPath, SCPaths

(* One path lies on the way to another: an order, and a chain below each.    *)
LEMMA OnTheWay ==
  ASSUME NEW p \in AnyPath, NEW q \in AnyPath, NEW r \in AnyPath
  PROVE  /\ IsPrefix(p, p) /\ IsPrefix(<<>>, p)
         /\ IsPrefix(p, q) /\ IsPrefix(q, r) => IsPrefix(p, r)
         /\ IsPrefix(p, q) /\ p # q => Len(p) < Len(q) /\ ~IsPrefix(q, p)
         /\ IsPrefix(p, r) /\ IsPrefix(q, r) /\ Len(p) <= Len(q) => IsPrefix(p, q)
         /\ Len(p) \in Nat
         /\ IsPrefix(p, <<>>) => p = <<>>
<1>0. p \in Seq(NamesUsed) /\ q \in Seq(NamesUsed) /\ r \in Seq(NamesUsed)
  BY PathsAre
<1> DEFINE Fits(s, t) == Len(s) <= Len(t) /\ \A i \in 1..Len(s) : s[i] = t[i]
<1>1. ASSUME NEW s \in Seq(NamesUsed), NEW t \in Seq(NamesUsed) PROVE IsPrefix(s, t) <=> Fits(s, t)
  <2>1. Len(s) \in Nat /\ Len(t) \in Nat
    OBVIOUS
  <2>2. CASE Len(s) <= Len(t)
    <3>1. SubSeq(s, 1, Len(s)) = s
      OBVIOUS
    <3>2. /\ SubSeq(t, 1, Len(s)) \in Seq(NamesUsed) /\ Len(SubSeq(t, 1, Len(s))) = Len(s)
          /\ \A i \in 1..Len(s) : SubSeq(t, 1, Len(s))[i] = t[i]
      BY <2>1, <2>2, SubSeqProperties
    <3> DEFINE u == SubSeq(t, 1, Len(s))
    <3>3. s = u <=> \A i \in 1..Len(s) : s[i] = u[i]
      <4> HIDE DEF u
      <4>1. u \in Seq(NamesUsed) /\ Len(u) = Len(s)
        BY <3>2 DEF u
      <4> QED BY <4>1, SeqEqual
    <3> QED BY <2>2, <3>1, <3>2, <3>3 DEF IsPrefix
  <2>3. CASE ~(Len(s) <= Len(t))
    BY <2>3 DEF IsPrefix
  <2> QED BY <2>2, <2>3
<1>2. <<>> \in Seq(NamesUsed) /\ Len(<<>>) = 0
  OBVIOUS
<1>3. Len(p) \in Nat /\ Len(q) \in Nat /\ Len(r) \in Nat
  BY <1>0
<1>4. Fits(p, p) /\ Fits(<<>>, p)
  BY <1>0
<1>5. Fits(p, q) /\ Fits(q, r) => Fits(p, r)
  BY <1>3
<1>6. Fits(p, q) /\ p # q => Len(p) < Len(q)
  <2> SUFFICES ASSUME Fits(p, q), Len(p) = Len(q) PROVE p = q
    BY <1>3
  <2> QED BY <1>0, SeqEqual
<1>7. Fits(p, r) /\ Fits(q, r) /\ Len(p) <= Len(q) => Fits(p, q)
  BY <1>3
<1>8. Fits(p, <<>>) => p = <<>>
  BY <1>0, <1>2, EmptySeq
<1>9. Len(p) < Len(q) => ~Fits(q, p)
  BY <1>3
<1> HIDE DEF Fits
<1> QED BY <1>0, <1>1, <1>2, <1>3, <1>4, <1>5, <1>6, <1>7, <1>8, <1>9

(* What is on the way to a path is a directory.                              *)
LEMMA WayIs ==
  ASSUME NEW p \in SCPaths, NEW i \in 1..(Len(p) - 1)
  PROVE  SubSeq(p, 1, i) \in SCDirs
BY SCPathsAssumption, Zenon DEF SCPaths

(* The paths on the way to p are those of the tree that begin it.            *)
LEMMA UptoIs ==
  ASSUME NEW p \in AnyPath
  PROVE  /\ Upto(p) \subseteq SCPaths
         /\ \A c \in AnyPath : c \in Upto(p) <=> c # <<>> /\ IsPrefix(c, p)
         /\ Above(p) \subseteq SCDirs
         /\ \A c \in AnyPath : c \in Above(p) <=> c # <<>> /\ IsPrefix(c, p) /\ c # p
         /\ p # <<>> => p \in Upto(p)
<1>0. p \in Seq(NamesUsed) /\ Len(p) \in Nat /\ SubSeq(p, 1, Len(p)) = p
  BY PathsAre
<1>1. Upto(p) = {SubSeq(p, 1, i) : i \in 1..Len(p)}
  BY DEF Upto, PathsUpto, AnyPath
<1>2. ASSUME NEW i \in 1..Len(p), i # Len(p) PROVE SubSeq(p, 1, i) \in SCDirs
  <2>1. p \in SCPaths
    BY <1>2 DEF AnyPath
  <2>0. Len(p) \in Nat
    BY <1>0
  <2>2. i \in 1..(Len(p) - 1)
    BY <1>2, <2>0
  <2> QED BY <2>1, <2>2, WayIs
<1>3. Above(p) \subseteq SCDirs
  BY <1>0, <1>1, <1>2 DEF Above
<1>4. p # <<>> => p \in Upto(p) /\ p \in SCPaths
  <2>1. p # <<>> => Len(p) \in 1..Len(p)
    BY <1>0, EmptySeq
  <2>2. Len(p) \in 1..Len(p) => p \in Upto(p)
    BY <1>0, <1>1
  <2> QED BY <2>1, <2>2 DEF AnyPath
<1>5. Upto(p) \subseteq SCPaths
  <2>1. p = <<>> => Upto(p) = {}
    BY <1>1
  <2> QED BY <1>3, <1>4, <2>1 DEF Above, SCPaths
<1>6. ASSUME NEW i \in 1..Len(p) PROVE IsPrefix(SubSeq(p, 1, i), p)
  <2>1. SubSeq(p, 1, i) \in Seq(NamesUsed) /\ Len(SubSeq(p, 1, i)) = i
    BY <1>0, SubSeqProperties
  <2> DEFINE u == SubSeq(p, 1, i)
  <2>2. SubSeq(u, 1, Len(u)) = u
    <3> HIDE DEF u
    <3> QED BY <2>1 DEF u
  <2>3. Len(u) <= Len(p)
    BY <1>0, <2>1
  <2>4. SubSeq(p, 1, Len(u)) = u
    BY <2>1
  <2> QED BY <2>2, <2>3, <2>4 DEF IsPrefix
<1>7. ASSUME NEW c \in AnyPath, c # <<>>, IsPrefix(c, p) PROVE c \in Upto(p)
  <2>1. c \in Seq(NamesUsed) /\ Len(c) \in Nat /\ SubSeq(c, 1, Len(c)) = c
    BY PathsAre
  <2>2. Len(c) \in 1..Len(p)
    BY <1>0, <1>7, <2>1, EmptySeq DEF IsPrefix
  <2>3. c = SubSeq(p, 1, Len(c))
    BY <1>7, <2>1 DEF IsPrefix
  <2> QED BY <1>1, <2>2, <2>3
<1>8. \A c \in Upto(p) : IsPrefix(c, p) /\ c # <<>>
  BY <1>1, <1>5, <1>6, PathsAre
<1>9. \A c \in AnyPath : c \in Upto(p) <=> c # <<>> /\ IsPrefix(c, p)
  BY <1>7, <1>8
<1> QED BY <1>3, <1>4, <1>5, <1>9 DEF Above

LEMMA DirIs ==
  ASSUME NEW f \in SCPaths
  PROVE  /\ Dir(f) \in SCDirs \cup {<<>>}
         /\ \A d \in AnyPath : IsPrefix(d, Dir(f)) <=> IsPrefix(d, f) /\ d # f
         /\ Upto(Dir(f)) = Above(f)
<1>0. f \in Seq(NamesUsed) /\ f # <<>> /\ Len(f) \in Nat /\ Len(f) # 0 /\ f \in AnyPath
  BY PathsAre, EmptySeq
<1>1. Dir(f) \in SCDirs \cup {<<>>}
  <2>1. CASE Len(f) = 1
    <3>1. Dir(f) = <<>>
      BY <1>0, <2>1 DEF Dir
    <3> QED BY <3>1
  <2>2. CASE Len(f) # 1
    <3>0. Len(f) \in Nat /\ Len(f) # 0
      BY <1>0
    <3>1. Len(f) - 1 \in 1..(Len(f) - 1)
      <4>1. \A n \in Nat : n # 0 /\ n # 1 => n - 1 \in 1..(n - 1)
        OBVIOUS
      <4> QED BY <2>2, <3>0, <4>1
    <3> QED BY <3>1, WayIs DEF Dir
  <2> QED BY <2>1, <2>2
<1>2. Dir(f) \in AnyPath
  BY <1>1, PathsAre
<1>3. Len(Dir(f)) = Len(f) - 1
  <2>1. PICK n \in Nat : n = Len(f) - 1 /\ Len(f) = n + 1
    <3>1. \A k \in Nat : k # 0 => k - 1 \in Nat /\ k = (k - 1) + 1
      OBVIOUS
    <3> QED BY <1>0, <3>1
  <2>2. \A i \in 1..n : f[i] \in NamesUsed
    <3>1. \A i \in 1..n : i \in 1..(n + 1)
      OBVIOUS
    <3> QED BY <1>0, <2>1, <3>1, ElementOfSeq
  <2>3. Len(SubSeq(f, 1, n)) = IF 1 <= n THEN n - 1 + 1 ELSE 0
    BY <2>2, SubSeqProperties
  <2>4. Len(SubSeq(f, 1, n)) = n
    BY <2>3
  <2> QED BY <2>1, <2>4 DEF Dir
<1>4. IsPrefix(Dir(f), f)
  <2>1. Dir(f) \in Seq(NamesUsed) /\ SubSeq(Dir(f), 1, Len(Dir(f))) = Dir(f)
    BY <1>2, PathsAre
  <2>2. Len(Dir(f)) <= Len(f) /\ SubSeq(f, 1, Len(Dir(f))) = Dir(f)
    BY <1>0, <1>3 DEF Dir
  <2> QED BY <2>1, <2>2 DEF IsPrefix
<1>5. \A d \in AnyPath : IsPrefix(d, Dir(f)) => IsPrefix(d, f) /\ d # f
  BY <1>0, <1>2, <1>3, <1>4, OnTheWay
<1>6. ASSUME NEW d \in AnyPath, IsPrefix(d, f), d # f PROVE IsPrefix(d, Dir(f))
  <2>1. Len(d) < Len(f) /\ Len(d) \in Nat
    BY <1>0, <1>6, OnTheWay
  <2>2. Len(d) <= Len(Dir(f))
    BY <1>0, <1>3, <2>1
  <2> QED BY <1>0, <1>2, <1>4, <1>6, <2>2, OnTheWay
<1>7. Upto(Dir(f)) = Above(f)
  <2>1. Upto(Dir(f)) \subseteq AnyPath /\ Above(f) \subseteq AnyPath
    BY <1>0, <1>2, UptoIs, PathsAre
  <2>2. \A c \in AnyPath : c \in Upto(Dir(f)) <=> c \in Above(f)
    BY <1>0, <1>2, <1>5, <1>6, UptoIs
  <2> QED BY <2>1, <2>2
<1> QED BY <1>1, <1>5, <1>6, <1>7

(* A path in an excluded directory is excluded.                             *)
LEMMA PolicySpreads ==
  ASSUME NEW c \in AnyPath, NEW p \in AnyPath, IsPrefix(c, p), Policy(c)
  PROVE  Policy(p)
<1>0. p \in Seq(NamesUsed) /\ c \in Seq(NamesUsed)
  BY PathsAre
<1>1. Len(c) <= Len(p) /\ Len(c) \in Nat /\ Len(p) \in Nat /\ c = SubSeq(p, 1, Len(c))
  BY <1>0 DEF IsPrefix
<1>2. \A i \in 1..Len(c) : c[i] = p[i]
  BY <1>0, <1>1, SubSeqProperties
<1>3. ToSet(c) \subseteq ToSet(p)
  BY <1>0, <1>1, <1>2 DEF ToSet
<1> QED BY <1>3 DEF Policy

(* Of some paths, one is the least deep.                                    *)
LEMMA SomeShallowest ==
  ASSUME NEW S, S \subseteq AnyPath, S # {}
  PROVE  Shallowest(S) # {}
<1>1. \A p \in S : Len(p) \in Nat
  BY PathsAre
<1> SUFFICES ASSUME \A p \in S : \E q \in S : Len(q) < Len(p) PROVE FALSE
  BY <1>1 DEF Shallowest
<1> DEFINE D == {n \in Nat : \A p \in S : n <= Len(p)}
<1>2. 0 \in D
  BY <1>1
<1>3. ASSUME NEW n \in Nat, n \in D PROVE n + 1 \in D
  <2>1. ASSUME NEW p \in S PROVE n + 1 <= Len(p)
    <3>1. PICK q \in S : Len(q) < Len(p)
      OBVIOUS
    <3> QED BY <1>1, <1>3, <3>1
  <2> QED BY <2>1
<1> HIDE DEF D
<1>4. \A n \in Nat : n \in D
  BY <1>2, <1>3, UpFromZero
<1>5. PICK p \in S : TRUE
  OBVIOUS
<1>6. Len(p) + 1 \in D
  BY <1>1, <1>4
<1> QED BY <1>1, <1>6 DEF D

(* A tree: what is not a directory has nothing below it, and a mark is on a  *)
(* directory.                                                               *)
TreeIs(t) ==
  /\ t \in Trees
  /\ \A f \in SCFiles : t.kind[f] # "dark"
  /\ \A p \in SCPaths : \A c \in Above(p) : t.kind[c] # "dir" => t.kind[p] = "absent"
  /\ \A d \in t.git \cup t.extend \cup t.profile : d = <<>> \/ t.kind[d] = "dir"
  /\ <<>> \notin t.git \cup t.extend

LEMMA MarksAreOnDirs ==
  ASSUME NEW t, TreeIs(t)
  PROVE  /\ \A d \in t.git \cup t.extend : d \in SCDirs /\ t.kind[d] = "dir"
         /\ \A d \in t.profile : d = <<>> \/ (d \in SCDirs /\ t.kind[d] = "dir")
         /\ \A p \in SCPaths : t.kind[p] \in Kinds
         /\ \A p \in SCPaths : t.kind[p] = "dark" => p \in SCDirs
<1>1. t.git \in Marked /\ t.extend \in Marked /\ t.profile \in Marked /\ t.kind \in [SCPaths -> Kinds]
  BY DEF TreeIs, Trees
<1>2. \A d \in t.git \cup t.extend \cup t.profile : d \in SCDirs \cup {<<>>}
  BY <1>1 DEF Marked
<1> QED BY <1>1, <1>2 DEF TreeIs, SCPaths

(* What is there has directories on its way, and so has a marked directory.  *)
LEMMA WayIsDirs ==
  ASSUME NEW t, TreeIs(t), NEW p \in AnyPath, p = <<>> \/ t.kind[p] # "absent"
  PROVE  /\ \A c \in Above(p) : t.kind[c] = "dir"
         /\ p = <<>> \/ t.kind[p] = "dir" => ~BehindLink(t, p)
<1>1. \A c \in Above(p) : t.kind[c] = "dir"
  <2>1. CASE p = <<>>
    <3>1. Above(p) = {}
      BY <2>1, UptoIs, OnTheWay, PathsAre
    <3> QED BY <3>1
  <2>2. CASE p # <<>>
    BY <2>2 DEF TreeIs, AnyPath
  <2> QED BY <2>1, <2>2
<1>2. p = <<>> => p \notin Upto(p)
  BY UptoIs
<1> QED BY <1>1, <1>2 DEF BehindLink, Above

(* What stops the way to a path.                                            *)
LEMMA StopsAre ==
  ASSUME NEW t, TreeIs(t), NEW p \in AnyPath
  PROVE  /\ Stops(t, p) \subseteq Upto(p)
         /\ Stops(t, p) = {} <=> \A c \in Upto(p) : t.kind[c] = "dir" /\ c \notin t.git
         /\ Checkout(t, p) \subseteq Upto(p) \cap t.git
         /\ Checkout(t, p) = {} <=> Upto(p) \cap t.git = {}
         /\ Dark(t, p) \subseteq {c \in Upto(p) : t.kind[c] = "dark"}
         /\ \A d \in Upto(p) : t.kind[d] = "dark" /\ Upto(p) \cap t.git = {} => d \in Dark(t, p)
<1> DEFINE B == {c \in Upto(p) : t.kind[c] # "dir" \/ c \in t.git}
<1>1. Stops(t, p) = Shallowest(B)
  BY DEF Stops
<1>2. B \subseteq AnyPath /\ Upto(p) \subseteq SCPaths
  BY UptoIs, PathsAre
<1>3. Shallowest(B) \subseteq B
  BY DEF Shallowest
<1>4. B # {} => Shallowest(B) # {}
  BY <1>2, SomeShallowest
<1>5. Checkout(t, p) \subseteq Upto(p) \cap t.git /\ Dark(t, p) \subseteq {c \in Upto(p) : t.kind[c] = "dark"}
  BY <1>1, <1>3 DEF Checkout, Dark
<1>6. ASSUME NEW g \in Upto(p), g \in t.git PROVE Checkout(t, p) # {}
  <2>1. g \in B /\ g \in AnyPath /\ t.kind[g] = "dir"
    BY <1>2, <1>6, MarksAreOnDirs
  <2>2. PICK c \in Shallowest(B) : TRUE
    BY <1>4, <2>1
  <2>3. c \in B /\ c \in AnyPath /\ Len(c) <= Len(g)
    BY <1>2, <2>1, <2>2 DEF Shallowest
  <2>4. IsPrefix(c, g)
    BY <1>6, <2>1, <2>3, OnTheWay, UptoIs
  <2>5. t.kind[c] = "dir"
    <3>1. CASE c = g
      BY <2>1, <3>1
    <3>2. CASE c # g
      <4>1. c \in Above(g)
        BY <1>2, <2>1, <2>3, <2>4, <3>2, UptoIs
      <4> QED BY <2>1, <4>1, WayIsDirs
    <3> QED BY <3>1, <3>2
  <2> QED BY <1>1, <2>2, <2>5 DEF Checkout
<1>7. ASSUME NEW d \in Upto(p), t.kind[d] = "dark", Upto(p) \cap t.git = {} PROVE d \in Dark(t, p)
  <2>1. d \in B /\ d \in AnyPath /\ t.kind[d] # "absent"
    BY <1>2, <1>7
  <2>2. ASSUME NEW c \in B PROVE Len(d) <= Len(c)
    <3>1. c \in AnyPath /\ c \in Upto(p) /\ t.kind[c] # "dir" /\ c # <<>>
      BY <1>2, <1>7, UptoIs
    <3>2. Len(c) \in Nat /\ Len(d) \in Nat
      BY <2>1, <3>1, PathsAre
    <3> SUFFICES ASSUME Len(c) < Len(d) PROVE FALSE
      BY <3>2
    <3>3. IsPrefix(c, d)
      BY <2>1, <3>1, <3>2, OnTheWay, UptoIs
    <3>4. c \in Above(d)
      BY <2>1, <3>1, <3>2, <3>3, UptoIs
    <3> QED BY <2>1, <3>1, <3>4, WayIsDirs
  <2> QED BY <1>1, <1>7, <2>1, <2>2 DEF Dark, Shallowest
<1> QED BY <1>1, <1>3, <1>4, <1>5, <1>6, <1>7

(* What a mark takes out of a source.                                       *)
Marks(t, source, d) == d \in t.profile \/ (d \in t.extend /\ Below(Dir(d), source.dirs))

Sound(t, source, m) ==
  /\ m.skip \subseteq SCDirs \cup {<<>>} /\ \A d \in m.skip : Marks(t, source, d)
  /\ m.dark \subseteq {d \in SCDirs : t.kind[d] = "dark"}

(* A path has been looked at: it is skipped, or its marks are.               *)
Passed(t, way, m, p) ==
  \/ Below(p, m.skip)
  \/ way = "above" /\ ProfileAbove(t, p) \subseteq m.skip
  \/ way = "below" /\ \/ Stops(t, p) # {}
                      \/ Markers(t, p) \subseteq m.skip

LEMMA SourcesAre ==
  ASSUME NEW s \in SCSources
  PROVE  /\ s.dirs \subseteq SCDirs /\ s.files \subseteq SCFiles
         /\ s.type # "generic" => s.files = {}
         /\ SCOrder[s].all \in Seq(s.dirs \cup s.files) /\ ToSet(SCOrder[s].all) = s.dirs \cup s.files
         /\ SCOrder[s].dirs \in Seq(s.dirs) /\ ToSet(SCOrder[s].dirs) = s.dirs
<1>1. s.dirs \subseteq SCDirs /\ s.files \subseteq SCFiles /\ (s.type # "generic" => s.files = {})
  BY SCSourcesAssumption
<1>2. ByDepth(SCOrder[s].all, s.dirs \cup s.files) /\ ByDepth(SCOrder[s].dirs, s.dirs)
  BY SCOrderAssumption
<1> QED BY <1>1, <1>2 DEF ByDepth

LEMMA MarkersMark ==
  ASSUME NEW t, TreeIs(t), NEW source \in SCSources, NEW i \in source.dirs
  PROVE  Markers(t, i) \subseteq SCDirs /\ \A d \in Markers(t, i) : Marks(t, source, d)
<1>1. Markers(t, i) \subseteq SCDirs /\ i \in SCDirs
  BY SourcesAre DEF Markers, ComesTo
<1>2. ASSUME NEW d \in Markers(t, i), d \notin t.profile PROVE Marks(t, source, d)
  <2>1. d \in t.extend /\ d # i /\ IsPrefix(i, d) /\ d \in SCPaths
    BY <1>1, <1>2, PathsAre DEF Markers, ComesTo
  <2>2. IsPrefix(i, Dir(d))
    BY <1>1, <2>1, DirIs, PathsAre
  <2> QED BY <2>1, <2>2 DEF Marks, Below
<1> QED BY <1>1, <1>2 DEF Marks

(* One look adds only marks, and dark directories it comes to.               *)
LEMMA LookIs ==
  ASSUME NEW t, TreeIs(t), NEW source \in SCSources, NEW m, Sound(t, source, m),
         NEW way \in {"above", "below"}, NEW p,
         p \in (IF way = "above" THEN source.dirs \cup source.files ELSE source.dirs)
  PROVE  /\ Sound(t, source, LookAt(t, way, m, p))
         /\ m.skip \subseteq LookAt(t, way, m, p).skip
         /\ Passed(t, way, LookAt(t, way, m, p), p)
<1>1. p \in SCPaths /\ p \in AnyPath /\ (way = "below" => p \in SCDirs /\ p \in source.dirs)
  BY SourcesAre, PathsAre
<1>2. Upto(p) \subseteq SCPaths /\ Above(p) \subseteq SCDirs /\ Above(p) \subseteq Upto(p)
  BY <1>1, UptoIs DEF Above
<1> DEFINE n == LookAt(t, way, m, p)
<1>3. CASE Below(p, m.skip)
  <2>1. n = m
    BY <1>3 DEF LookAt, LookAbove, LookBelow
  <2> QED BY <1>3, <2>1 DEF Passed
<1>4. CASE way = "above" /\ ~Below(p, m.skip)
  <2>1. n.skip = m.skip \cup ProfileAbove(t, p) /\ n.dark \ m.dark \subseteq {d \in Above(p) : t.kind[d] = "dark"}
    BY <1>4 DEF LookAt, LookAbove
  <2>2. ProfileAbove(t, p) \subseteq (SCDirs \cup {<<>>}) \cap t.profile
    BY <1>2 DEF ProfileAbove
  <2> HIDE DEF n
  <2>3. Sound(t, source, n)
    BY <1>2, <2>1, <2>2 DEF Sound, Marks
  <2>4. Passed(t, way, n, p)
    BY <1>4, <2>1 DEF Passed
  <2> QED BY <2>1, <2>3, <2>4 DEF n
<1>5. CASE way = "below" /\ ~Below(p, m.skip)
  <2>0. p \in SCDirs /\ p \in source.dirs /\ LookBelow(t, m, p) = n
    BY <1>1, <1>5 DEF LookAt
  <2>1. CASE Checkout(t, p) # {}
    <3>1. n = m
      BY <2>0, <2>1 DEF LookBelow
    <3>2. Stops(t, p) # {}
      BY <2>1 DEF Checkout
    <3> QED BY <1>5, <3>1, <3>2 DEF Passed
  <2>2. CASE Checkout(t, p) = {} /\ Dark(t, p) # {}
    <3>1. n.skip = m.skip /\ n.dark = m.dark \cup Dark(t, p)
      BY <1>5, <2>0, <2>2 DEF LookBelow
    <3>2. Dark(t, p) \subseteq {d \in SCDirs : t.kind[d] = "dark"}
      BY <1>1, <1>2, StopsAre, MarksAreOnDirs
    <3>3. Stops(t, p) # {}
      BY <2>2 DEF Dark
    <3> HIDE DEF n
    <3>4. Sound(t, source, n)
      BY <3>1, <3>2 DEF Sound
    <3> QED BY <1>5, <3>1, <3>3, <3>4 DEF Passed, n
  <2>3. CASE Checkout(t, p) = {} /\ Dark(t, p) = {} /\ (BehindLink(t, p) \/ t.kind[p] # "dir")
    <3>1. n = m
      BY <2>0, <2>3 DEF LookBelow
    <3>2. \E c \in Upto(p) : t.kind[c] # "dir"
      <4>1. p \in Upto(p)
        BY <1>1, UptoIs, PathsAre
      <4> QED BY <2>3, <4>1 DEF BehindLink
    <3>3. Stops(t, p) # {}
      BY <1>1, <3>2, StopsAre
    <3> QED BY <1>5, <3>1, <3>3 DEF Passed
  <2>4. CASE Checkout(t, p) = {} /\ Dark(t, p) = {} /\ ~(BehindLink(t, p) \/ t.kind[p] # "dir")
    <3>1. /\ n.skip = m.skip \cup Markers(t, p)
          /\ n.dark = m.dark \cup {d \in ComesTo(t, p) : t.kind[d] = "dark"}
      BY <1>5, <2>0, <2>4 DEF LookBelow
    <3>2. ComesTo(t, p) \subseteq SCDirs
      BY DEF ComesTo
    <3>3. Markers(t, p) \subseteq SCDirs /\ \A d \in Markers(t, p) : Marks(t, source, d)
      BY <2>0, MarkersMark
    <3> HIDE DEF n
    <3>4. Sound(t, source, n)
      BY <3>1, <3>2, <3>3 DEF Sound
    <3> QED BY <1>5, <3>1, <3>4 DEF Passed, n
  <2> QED BY <2>1, <2>2, <2>3, <2>4
<1> QED BY <1>3, <1>4, <1>5

LEMMA StaysPassed ==
  ASSUME NEW t, NEW way, NEW m, NEW n, m.skip \subseteq n.skip, NEW p, Passed(t, way, m, p)
  PROVE  Passed(t, way, n, p)
BY DEF Passed, Below

(* Looking at one path after the other.                                     *)
LookRun(g, t, way, order, from, n) == g[0] = from /\ \A k \in 1..n : g[k] = LookAt(t, way, g[k - 1], order[k])

LEMMA LooksExist ==
  ASSUME NEW t, NEW way, NEW order, NEW from
  PROVE  \A n \in Nat : \E g : LookRun(g, t, way, order, from, n)
<1> DEFINE S == {n \in Nat : \E g : LookRun(g, t, way, order, from, n)}
           Step(c, k) == LookAt(t, way, c, order[k])
<1>1. 0 \in S
  <2>1. LookRun([k \in {0} |-> from], t, way, order, from, 0)
    BY DEF LookRun
  <2> QED BY <2>1
<1>2. ASSUME NEW n \in Nat, n \in S PROVE n + 1 \in S
  <2>1. PICK g : LookRun(g, t, way, order, from, n)
    BY <1>2
  <2> DEFINE h == [k \in 0..n + 1 |-> IF k = n + 1 THEN Step(g[n], n + 1) ELSE g[k]]
  <2>2. h[0] = from /\ h[n] = g[n]
    BY <2>1 DEF LookRun
  <2>3. ASSUME NEW k \in 1..n + 1 PROVE h[k] = Step(h[k - 1], k)
    <3>1. CASE k = n + 1
      <4>1. h[k] = Step(g[n], n + 1) /\ k - 1 = n
        BY <3>1
      <4> HIDE DEF h, Step
      <4> QED BY <2>2, <3>1, <4>1
    <3>2. CASE k # n + 1
      <4>1. k \in 1..n /\ k - 1 \in 0..n + 1 /\ k - 1 # n + 1
        BY <3>2
      <4>2. h[k] = g[k] /\ h[k - 1] = g[k - 1]
        BY <3>2, <4>1
      <4>3. g[k] = Step(g[k - 1], k)
        BY <2>1, <4>1 DEF LookRun
      <4> HIDE DEF h, Step
      <4> QED BY <4>2, <4>3
    <3> QED BY <3>1, <3>2
  <2> HIDE DEF h
  <2>4. LookRun(h, t, way, order, from, n + 1)
    BY <2>2, <2>3 DEF LookRun
  <2> QED BY <2>4
<1> HIDE DEF S
<1>3. \A n \in Nat : n \in S
  BY <1>1, <1>2, UpFromZero
<1> QED BY <1>3 DEF S

LEMMA LookedRuns ==
  ASSUME NEW t, NEW way, NEW order, NEW from, Len(order) \in Nat
  PROVE  \E g : /\ LookRun(g, t, way, order, from, Len(order))
                /\ Looked(t, way, order, from) = g[Len(order)]
<1> DEFINE rest == Len(order)
           Body(g) == [k \in 0..rest |-> IF k = 0 THEN from ELSE LookAt(t, way, g[k - 1], order[k])]
           marks == CHOOSE g : g = Body(g)
<1>1. \E g : g = Body(g)
  <2>1. PICK g : LookRun(g, t, way, order, from, rest)
    BY LooksExist
  <2> DEFINE h == [k \in 0..rest |-> g[k]]
  <2>2. ASSUME NEW k \in 0..rest
        PROVE  h[k] = IF k = 0 THEN from ELSE LookAt(t, way, h[k - 1], order[k])
    <3>1. CASE k = 0
      BY <2>1, <3>1 DEF LookRun
    <3>2. CASE k # 0
      <4>1. k \in 1..rest /\ k - 1 \in 0..rest
        BY <3>2
      <4>2. h[k] = g[k] /\ h[k - 1] = g[k - 1]
        BY <4>1
      <4> HIDE DEF h
      <4> QED BY <2>1, <3>2, <4>1, <4>2 DEF LookRun
    <3> QED BY <3>1, <3>2
  <2>3. h = [k \in 0..rest |-> h[k]]
    OBVIOUS
  <2> HIDE DEF h
  <2>4. h = Body(h)
    BY <2>2, <2>3
  <2> QED BY <2>4
<1>2. Looked(t, way, order, from) = marks[rest]
  BY DEF Looked
<1> HIDE DEF Body
<1>3. marks = Body(marks)
  BY <1>1
<1> USE DEF Body
<1>4. 0 \in 0..rest /\ \A k \in 1..rest : k \in 0..rest /\ k # 0
  OBVIOUS
<1> HIDE DEF rest, marks
<1>5. LookRun(marks, t, way, order, from, rest)
  BY <1>3, <1>4 DEF LookRun
<1> QED BY <1>2, <1>5 DEF rest

LEMMA LookedIs ==
  ASSUME NEW t, TreeIs(t), NEW source \in SCSources, NEW from, Sound(t, source, from),
         NEW way \in {"above", "below"}, NEW order, NEW D,
         D = (IF way = "above" THEN source.dirs \cup source.files ELSE source.dirs),
         order \in Seq(D), ToSet(order) = D
  PROVE  /\ Sound(t, source, Looked(t, way, order, from))
         /\ from.skip \subseteq Looked(t, way, order, from).skip
         /\ \A p \in D : Passed(t, way, Looked(t, way, order, from), p)
<1>1. Len(order) \in Nat /\ (\A k \in 1..Len(order) : order[k] \in D)
  OBVIOUS
<1>2. \A p \in D : \E k \in 1..Len(order) : p = order[k]
  BY DEF ToSet
<1> DEFINE rest == Len(order)
<1>3. PICK g : LookRun(g, t, way, order, from, rest) /\ Looked(t, way, order, from) = g[rest]
  BY <1>1, LookedRuns
<1> HIDE DEF rest
<1> DEFINE Upon(n) == /\ Sound(t, source, g[n]) /\ from.skip \subseteq g[n].skip
                      /\ \A k \in 1..n : Passed(t, way, g[n], order[k])
           S == {n \in Nat : n <= rest => Upon(n)}
<1>4. 0 \in S
  BY <1>3 DEF LookRun
<1>5. ASSUME NEW n \in Nat, n \in S PROVE n + 1 \in S
  <2> SUFFICES ASSUME n + 1 <= rest PROVE Upon(n + 1)
    OBVIOUS
  <2>1. n + 1 \in 1..rest /\ (n + 1) - 1 = n /\ n <= rest
    BY <1>1 DEF rest
  <2>2. Upon(n)
    BY <1>5, <2>1
  <2>3. g[n + 1] = LookAt(t, way, g[n], order[n + 1]) /\ order[n + 1] \in D
    BY <1>1, <1>3, <2>1 DEF LookRun, rest
  <2> DEFINE m == g[n]
             q == g[n + 1]
             p == order[n + 1]
  <2> HIDE DEF m, q, p
  <2>4. q = LookAt(t, way, m, p) /\ p \in D /\ Sound(t, source, m)
    BY <2>2, <2>3 DEF m, q, p
  <2>5. Sound(t, source, q) /\ m.skip \subseteq q.skip /\ Passed(t, way, q, p)
    BY <2>4, LookIs
  <2>6. ASSUME NEW k \in 1..(n + 1) PROVE Passed(t, way, q, order[k])
    <3>1. CASE k = n + 1
      BY <2>5, <3>1 DEF p
    <3>2. CASE k # n + 1
      <4>1. k \in 1..n
        BY <3>2
      <4>2. Passed(t, way, m, order[k])
        BY <2>2, <4>1 DEF m
      <4> QED BY <2>5, <4>2, StaysPassed
    <3> QED BY <3>1, <3>2
  <2> QED BY <2>2, <2>5, <2>6 DEF q, m
<1> HIDE DEF S
<1>6. rest \in S
  BY <1>1, <1>4, <1>5, UpFromZero DEF rest
<1>7. Upon(rest)
  BY <1>1, <1>6 DEF S, rest
<1> QED BY <1>2, <1>3, <1>7 DEF rest

(* The marks of a generic source.                                           *)
LEMMA SkipsAre ==
  ASSUME NEW t, TreeIs(t), NEW source \in SCSources
  PROVE  LET m == MarkerSkips(t, source)
         IN  /\ Sound(t, source, m)
             /\ source.type # "generic" => m.skip = {}
             /\ source.type = "generic" =>
                  /\ \A p \in source.dirs \cup source.files : Passed(t, "above", m, p)
                  /\ <<>> \in m.skip \/ \A i \in source.dirs : Passed(t, "below", m, i)
<1>1. Sound(t, source, NoMarks) /\ NoMarks.skip = {}
  BY DEF Sound, NoMarks
<1>2. CASE source.type # "generic"
  BY <1>1, <1>2 DEF MarkerSkips
<1>3. CASE source.type = "generic"
  <2> DEFINE above == MarksAbove(t, source)
             m == MarksBelow(t, source, above)
  <2>1. /\ SCOrder[source].all \in Seq(source.dirs \cup source.files)
        /\ ToSet(SCOrder[source].all) = source.dirs \cup source.files
        /\ SCOrder[source].dirs \in Seq(source.dirs) /\ ToSet(SCOrder[source].dirs) = source.dirs
    BY SourcesAre
  <2>2. Sound(t, source, above) /\ \A p \in source.dirs \cup source.files : Passed(t, "above", above, p)
    BY <1>1, <2>1, LookedIs DEF MarksAbove
  <2> HIDE DEF above
  <2>3. CASE <<>> \in above.skip
    <3>1. m = above
      BY <2>3 DEF MarksBelow
    <3> QED BY <1>3, <2>2, <2>3, <3>1 DEF MarkerSkips, above
  <2>4. CASE <<>> \notin above.skip
    <3>1. m = Looked(t, "below", SCOrder[source].dirs, above)
      BY <2>4 DEF MarksBelow
    <3>2. Sound(t, source, m) /\ above.skip \subseteq m.skip /\ \A i \in source.dirs : Passed(t, "below", m, i)
      BY <2>1, <2>2, <3>1, LookedIs
    <3> HIDE DEF m
    <3>3. \A p \in source.dirs \cup source.files : Passed(t, "above", m, p)
      BY <2>2, <3>2, StaysPassed
    <3> QED BY <1>3, <3>2, <3>3 DEF MarkerSkips, above, m
  <2> QED BY <2>3, <2>4
<1> QED BY <1>2, <1>3

(* A mark above a file of a generic source, in a directory that is neither   *)
(* excluded nor in a checkout, is found: the file is skipped.                *)
LEMMA MarkBelowFound ==
  ASSUME NEW t, TreeIs(t), NEW source \in SCSources, source.type = "generic",
         NEW f \in SCFiles, Above(f) \cap t.git = {}, ~Policy(f),
         NEW i \in source.dirs, NEW d \in Above(f), IsPrefix(i, d),
         d \in t.profile \/ (d \in t.extend /\ d # i)
  PROVE  Below(f, MarkerSkips(t, source).skip)
<1> DEFINE m == MarkerSkips(t, source)
<1>0. /\ f \in AnyPath /\ d \in AnyPath /\ d \in SCDirs /\ d # <<>> /\ IsPrefix(d, f) /\ d # f
      /\ i \in SCDirs /\ i \in AnyPath /\ i # <<>>
  BY UptoIs, SourcesAre, PathsAre
<1>1. /\ m.skip \subseteq SCDirs \cup {<<>>}
      /\ <<>> \in m.skip \/ Passed(t, "below", m, i)
  BY SkipsAre DEF Sound
<1> HIDE DEF m
<1>2. ASSUME NEW s \in m.skip, IsPrefix(s, d) PROVE Below(f, m.skip)
  <2>1. s \in AnyPath
    BY <1>1, <1>2, PathsAre
  <2>2. IsPrefix(s, f)
    BY <1>0, <1>2, <2>1, OnTheWay
  <2> QED BY <1>2, <2>2 DEF Below
<1>3. IsPrefix(<<>>, d)
  BY <1>0, OnTheWay
<1>4. t.kind[d] = "dir" /\ \A c \in Upto(d) : t.kind[c] = "dir"
  <2>1. t.kind[d] = "dir"
    BY <1>0, MarksAreOnDirs
  <2>2. \A c \in Above(d) : t.kind[c] = "dir"
    BY <1>0, <2>1, WayIsDirs
  <2> QED BY <2>1, <2>2 DEF Above
<1>5. ASSUME NEW c \in Upto(d)
      PROVE  c \in AnyPath /\ c \in SCDirs /\ c # <<>> /\ IsPrefix(c, d) /\ t.kind[c] = "dir" /\ c \notin t.git /\ ~Policy(c)
  <2>1. c \in AnyPath /\ c # <<>> /\ IsPrefix(c, d)
    BY <1>0, <1>5, UptoIs, PathsAre
  <2>2. IsPrefix(c, f) /\ c # f
    BY <1>0, <2>1, OnTheWay
  <2>3. c \in Above(f) /\ c \in SCDirs
    BY <1>0, <2>1, <2>2, UptoIs
  <2>4. ~Policy(c)
    BY <1>0, <2>1, <2>2, PolicySpreads
  <2> QED BY <1>4, <1>5, <2>1, <2>3, <2>4
<1>6. Stops(t, i) = {}
  <2>1. ASSUME NEW c \in Upto(i) PROVE c \in Upto(d)
    <3>1. c \in AnyPath /\ c # <<>> /\ IsPrefix(c, i)
      BY <1>0, UptoIs, PathsAre
    <3>2. IsPrefix(c, d)
      BY <1>0, <3>1, OnTheWay
    <3> QED BY <1>0, <3>1, <3>2, UptoIs
  <2> QED BY <1>0, <1>5, <2>1, StopsAre
<1>7. CASE \E s \in m.skip : IsPrefix(s, d)
  BY <1>2, <1>7 DEF m
<1>8. CASE ~\E s \in m.skip : IsPrefix(s, d)
  <2>1. ~Below(i, m.skip)
    <3> SUFFICES ASSUME NEW s \in m.skip, IsPrefix(s, i) PROVE FALSE
      BY DEF Below
    <3>1. s \in AnyPath
      BY <1>1, PathsAre
    <3>2. IsPrefix(s, d)
      BY <1>0, <3>1, OnTheWay
    <3> QED BY <1>8, <3>2
  <2>2. Markers(t, i) \subseteq m.skip
    BY <1>1, <1>3, <1>6, <1>8, <2>1 DEF Passed
  <2> DEFINE X == {e \in Upto(d) : IsPrefix(i, e) /\ (e \in t.profile \/ (e \in t.extend /\ e # i))}
  <2>3. X \subseteq AnyPath /\ d \in X
    BY <1>0, <1>5, UptoIs
  <2>4. PICK e \in Shallowest(X) : TRUE
    BY <2>3, SomeShallowest
  <2>5. e \in X /\ e \in Upto(d) /\ IsPrefix(i, e) /\ (e \in t.profile \/ (e \in t.extend /\ e # i))
    BY <2>4 DEF Shallowest
  <2>6. \A x \in X : Len(e) <= Len(x)
    BY <2>4 DEF Shallowest
  <2> HIDE DEF X
  <2>7. ASSUME NEW c \in Upto(e), IsPrefix(i, c)
        PROVE  ~Policy(c) /\ c \notin t.git /\ (c # e => c \notin t.profile /\ (c = i \/ c \notin t.extend))
    <3>1. c \in AnyPath /\ c # <<>> /\ IsPrefix(c, e) /\ e \in AnyPath
      BY <1>5, <2>5, <2>7, UptoIs, PathsAre
    <3>2. IsPrefix(c, d)
      BY <1>0, <1>5, <2>5, <3>1, OnTheWay
    <3>3. c \in Upto(d)
      BY <1>0, <3>1, <3>2, UptoIs
    <3>4. c # e => c \notin X
      <4>1. c # e => Len(c) < Len(e)
        BY <3>1, OnTheWay
      <4>2. Len(c) \in Nat /\ Len(e) \in Nat
        BY <3>1, PathsAre
      <4> QED BY <2>6, <4>1, <4>2
    <3> QED BY <1>5, <2>7, <3>3, <3>4 DEF X
  <2>8. e \in ComesTo(t, i)
    <3>1. e \in SCDirs /\ t.kind[e] = "dir"
      BY <1>5, <2>5
    <3> QED BY <2>5, <2>7, <3>1 DEF ComesTo
  <2>9. e \in Markers(t, i)
    BY <2>5, <2>8 DEF Markers
  <2> QED BY <1>5, <1>8, <2>2, <2>5, <2>9
<1> QED BY <1>7, <1>8

LEMMA ProfileAboveFound ==
  ASSUME NEW t, TreeIs(t), NEW source \in SCSources, source.type = "generic",
         NEW p \in source.dirs \cup source.files, Above(p) \cap t.git = {},
         NEW d \in t.profile, d \in Above(p) \cup {<<>>}
  PROVE  Below(p, MarkerSkips(t, source).skip)
<1> DEFINE m == MarkerSkips(t, source)
<1>0. p \in AnyPath /\ p \in SCPaths /\ Above(p) \subseteq SCDirs
  BY SourcesAre, PathsAre, UptoIs
<1>1. Passed(t, "above", m, p)
  BY SkipsAre
<1> HIDE DEF m
<1> DEFINE able == {e \in Above(p) \cup {<<>>} : e \in t.profile /\ ~BehindLink(t, e) /\ Checkout(t, e) \subseteq {e}}
<1>2. ProfileAbove(t, p) = {e \in able : \A x \in able : Len(x) <= Len(e)}
  BY DEF ProfileAbove
<1>3. able \subseteq AnyPath /\ \A e \in able : IsPrefix(e, p) /\ Len(e) \in Nat /\ Len(e) <= Len(p)
  <2>1. ASSUME NEW e \in Above(p) \cup {<<>>}
        PROVE e \in AnyPath /\ IsPrefix(e, p)
    BY <1>0, UptoIs, OnTheWay, PathsAre
  <2>2. ASSUME NEW e \in AnyPath, IsPrefix(e, p) PROVE Len(e) \in Nat /\ Len(e) <= Len(p)
    BY <2>2, PathsAre DEF IsPrefix
  <2> QED BY <2>1, <2>2
<1>4. d \in able
  <2>0. d \in AnyPath /\ d \notin t.git /\ (d = <<>> \/ (t.kind[d] = "dir" /\ IsPrefix(d, p) /\ d # p))
    BY <1>0, MarksAreOnDirs, UptoIs, PathsAre DEF TreeIs
  <2>1. ~BehindLink(t, d)
    <3>1. d = <<>> \/ t.kind[d] # "absent"
      BY <2>0
    <3> QED BY <2>0, <3>1, WayIsDirs
  <2>2. Upto(d) \cap t.git = {}
    <3> SUFFICES ASSUME NEW c \in Upto(d), c \in t.git PROVE FALSE
      OBVIOUS
    <3>1. c \in AnyPath /\ c # <<>> /\ IsPrefix(c, d)
      BY <2>0, UptoIs, PathsAre
    <3>2. d # <<>>
      BY <2>0, <3>1, OnTheWay
    <3>3. IsPrefix(c, p) /\ c # p
      BY <1>0, <2>0, <3>1, <3>2, OnTheWay
    <3> QED BY <1>0, <3>1, <3>3, UptoIs
  <2>3. Checkout(t, d) = {}
    BY <2>0, <2>2, StopsAre
  <2> QED BY <2>1, <2>3
<1>5. ProfileAbove(t, p) # {}
  <2>1. Len(p) \in Nat
    BY <1>0, PathsAre
  <2> SUFFICES ASSUME ProfileAbove(t, p) = {} PROVE FALSE
    OBVIOUS
  <2>0. ASSUME NEW e \in able PROVE \E x \in able : Len(e) < Len(x)
    <3>1. PICK x \in able : ~(Len(x) <= Len(e))
      BY <1>2, <2>0
    <3> HIDE DEF able
    <3>2. Len(x) \in Nat /\ Len(e) \in Nat
      BY <1>3, <2>0
    <3> QED BY <3>1, <3>2
  <2> DEFINE D == {n \in Nat : \E e \in able : n <= Len(e)}
  <2>2. 0 \in D
    BY <1>3, <1>4
  <2>3. ASSUME NEW n \in Nat, n \in D PROVE n + 1 \in D
    <3>1. PICK e \in able : n <= Len(e)
      BY <2>3
    <3>2. PICK x \in able : Len(e) < Len(x)
      BY <2>0
    <3>3. n + 1 <= Len(x)
      BY <1>3, <3>1, <3>2
    <3> QED BY <3>3
  <2> HIDE DEF D
  <2>4. \A n \in Nat : n \in D
    BY <2>2, <2>3, UpFromZero
  <2>5. Len(p) + 1 \in D
    BY <2>1, <2>4
  <2> QED BY <1>3, <2>1, <2>5 DEF D
<1>6. PICK e \in ProfileAbove(t, p) : e \in able
  BY <1>2, <1>5
<1>7. IsPrefix(e, p)
  BY <1>3, <1>6
<1>8. ProfileAbove(t, p) \subseteq m.skip => Below(p, m.skip)
  BY <1>6, <1>7 DEF Below
<1> QED BY <1>1, <1>8 DEF Passed, m

(* So what a mark takes out of a generic source is skipped.                  *)
LEMMA MarkedIsSkipped ==
  ASSUME NEW t, TreeIs(t), NEW source \in SCSources, source.type = "generic",
         NEW f \in SCFiles, Above(f) \cap t.git = {}, ~Policy(f),
         Named(source, f), NEW d \in Above(f) \cup {<<>>}, Marks(t, source, d)
  PROVE  Below(f, MarkerSkips(t, source).skip)
<1> DEFINE m == MarkerSkips(t, source)
<1>0. f \in SCPaths /\ f \in AnyPath
  BY PathsAre
<1>1. d \in AnyPath /\ (d # <<>> => IsPrefix(d, f) /\ d \in SCPaths /\ d \in Above(f)) /\ (d = <<>> => d \notin t.extend)
  BY <1>0, UptoIs, PathsAre DEF TreeIs
<1>2. source.dirs \subseteq SCDirs /\ SCDirs \cap SCFiles = {}
  BY SourcesAre, SCPathsAssumption
<1>3. CASE d \notin t.profile
  <2>1. d \in t.extend /\ Below(Dir(d), source.dirs) /\ d # <<>>
    BY <1>1, <1>3 DEF Marks
  <2>2. PICK i \in source.dirs : IsPrefix(i, Dir(d))
    BY <2>1 DEF Below
  <2>3. i \in AnyPath /\ IsPrefix(i, d) /\ i # d
    BY <1>1, <1>2, <2>1, <2>2, DirIs, PathsAre
  <2> QED BY <1>1, <2>1, <2>3, MarkBelowFound
<1>4. CASE d \in t.profile /\ f \in source.files
  BY <1>4, ProfileAboveFound
<1>5. CASE d \in t.profile /\ f \notin source.files
  <2>1. PICK i \in source.dirs : IsPrefix(i, f)
    BY <1>5 DEF Named, Below, Starts
  <2>2. i \in AnyPath /\ i # <<>> /\ i # f /\ i \in Above(f)
    BY <1>0, <1>2, <2>1, UptoIs, PathsAre
  <2>3. CASE IsPrefix(i, d)
    <3>1. d # <<>>
      BY <1>1, <2>2, <2>3, OnTheWay
    <3> QED BY <1>1, <1>5, <2>3, <3>1, MarkBelowFound
  <2>4. CASE ~IsPrefix(i, d)
    <3>1. IsPrefix(d, f) /\ IsPrefix(<<>>, i)
      BY <1>0, <1>1, <2>2, OnTheWay
    <3>2. Len(d) <= Len(i)
      <4>1. Len(d) \in Nat /\ Len(i) \in Nat
        BY <1>1, <2>2, PathsAre
      <4>2. Len(i) <= Len(d) => IsPrefix(i, d)
        BY <1>0, <1>1, <2>1, <2>2, <3>1, OnTheWay
      <4> QED BY <2>4, <4>1, <4>2
    <3>3. IsPrefix(d, i)
      BY <1>0, <1>1, <2>1, <2>2, <3>1, <3>2, OnTheWay
    <3>4. d # i
      BY <1>1, <2>4, OnTheWay
    <3>5. d \in Above(i) \cup {<<>>}
      BY <1>1, <2>2, <3>3, <3>4, UptoIs
    <3>6. Above(i) \cap t.git = {}
      <4> SUFFICES ASSUME NEW c \in Above(i), c \in t.git PROVE FALSE
        OBVIOUS
      <4>1. c \in AnyPath /\ c # <<>> /\ IsPrefix(c, i) /\ c # i
        BY <2>2, UptoIs, PathsAre
      <4>2. IsPrefix(c, f) /\ c # f
        BY <1>0, <2>1, <2>2, <4>1, OnTheWay
      <4> QED BY <1>0, <4>1, <4>2, UptoIs
    <3>7. Below(i, m.skip)
      BY <1>5, <3>5, <3>6, ProfileAboveFound
    <3>8. PICK s \in m.skip : IsPrefix(s, i)
      BY <3>7 DEF Below
    <3> HIDE DEF m
    <3>9. s \in AnyPath
      BY SkipsAre, PathsAre DEF Sound, m
    <3>10. IsPrefix(s, f)
      BY <1>0, <2>1, <2>2, <3>8, <3>9, OnTheWay
    <3> QED BY <3>8, <3>10 DEF Below, m
  <2> QED BY <2>3, <2>4
<1> QED BY <1>3, <1>4, <1>5

(* And only what a mark takes out is.                                       *)
LEMMA SkippedIsMarked ==
  ASSUME NEW t, TreeIs(t), NEW source \in SCSources,
         NEW f \in SCFiles, Below(f, MarkerSkips(t, source).skip)
  PROVE  source.type = "generic" /\ \E d \in Above(f) \cup {<<>>} : Marks(t, source, d)
<1> DEFINE m == MarkerSkips(t, source)
<1>1. PICK d \in m.skip : IsPrefix(d, f)
  BY DEF Below
<1> HIDE DEF m
<1>2. Sound(t, source, m) /\ (source.type # "generic" => m.skip = {})
  BY SkipsAre DEF m
<1>3. d \in SCDirs \cup {<<>>} /\ Marks(t, source, d)
  BY <1>2 DEF Sound
<1>4. d \in AnyPath /\ d # f /\ f \in AnyPath
  BY <1>3, PathsAre, SCPathsAssumption
<1>5. d \in Above(f) \cup {<<>>}
  BY <1>1, <1>4, UptoIs
<1> QED BY <1>2, <1>3, <1>5

(* What a walk comes to, and what it finds there.                            *)
StartsLeft(source, m) == {i \in Starts(source) : ~Below(i, m.skip)}
FilesLeft(source, m) == {f \in source.files : ~Below(f, m.skip)}
Ways(source, m) == StartsLeft(source, m) \cup {Dir(f) : f \in FilesLeft(source, m)}
DirsOf(t, source, m) == UNION {Walked(t, i, m.skip) : i \in {j \in StartsLeft(source, m) : Stops(t, j) = {}}}
Listed(t, source, m, f) ==
  \/ Dir(f) \in DirsOf(t, source, m) \ t.git
  \/ f \in FilesLeft(source, m) /\ Checkout(t, Dir(f)) = {} /\ Lstat(t, f) = "file"
Found(t, source, m) ==
  {f \in SCFiles : /\ Listed(t, source, m, f)
                   /\ t.kind[f] = "file" /\ ~BehindLink(t, f) /\ ~Policy(f) /\ f \notin source.excluded}
Refuses(t, source, m) ==
  \/ m.dark # {} \/ \E d \in Ways(source, m) : Dark(t, d) # {}
  \/ \E d \in DirsOf(t, source, m) : t.kind[d] = "dark"

LEMMA WalkIs ==
  ASSUME NEW t, NEW source \in SCSources, NEW m, <<>> \notin m.skip
  PROVE  /\ WalkPast(t, source, m).files = Found(t, source, m) \ Hidden(t, source, Found(t, source, m))
         /\ WalkPast(t, source, m).refused <=> Refuses(t, source, m)
<1>0. source.files \subseteq SCFiles
  BY SourcesAre
<1> DEFINE starts == {i \in Starts(source) : ~Below(i, m.skip)}
           named == {f \in source.files : ~Below(f, m.skip)}
           way == starts \cup {Dir(f) : f \in named}
           open == {i \in starts : Stops(t, i) = {}}
           dirs == UNION {Walked(t, i, m.skip) : i \in open}
           onList == {f \in SCFiles : Dir(f) \in dirs \ t.git}
                       \cup {f \in named : Checkout(t, Dir(f)) = {} /\ Lstat(t, f) = "file"}
           found == {f \in onList : t.kind[f] = "file" /\ ~BehindLink(t, f)
                                      /\ ~Policy(f) /\ f \notin source.excluded}
<1>1. starts = StartsLeft(source, m) /\ named = FilesLeft(source, m) /\ way = Ways(source, m)
  BY DEF StartsLeft, FilesLeft, Ways
<1>2. dirs = DirsOf(t, source, m)
  BY DEF DirsOf, StartsLeft
<1>3. WalkPast(t, source, m).files = found \ Hidden(t, source, found)
  BY DEF WalkPast
<1>4. WalkPast(t, source, m).refused <=>
        \/ m.dark # {} \/ \E d \in way : Dark(t, d) # {}
        \/ \E d \in dirs : t.kind[d] = "dark"
  BY DEF WalkPast
<1> HIDE DEF starts, named, way, open, dirs
<1>5. named \subseteq SCFiles
  BY <1>0 DEF named
<1>6. found = Found(t, source, m)
  BY <1>1, <1>2, <1>5 DEF Found, Listed
<1> HIDE DEF found
<1> QED BY <1>1, <1>2, <1>3, <1>4, <1>6 DEF Refuses

LEMMA StartsAre ==
  ASSUME NEW source \in SCSources
  PROVE  Starts(source) \subseteq SCDirs /\ (source.type = "generic" => Starts(source) = source.dirs)
BY SourcesAre DEF Starts

LEMMA BelowSpreads ==
  ASSUME NEW S, S \subseteq AnyPath, NEW e \in AnyPath, NEW f \in AnyPath, IsPrefix(e, f), Below(e, S)
  PROVE  Below(f, S)
<1>1. PICK s \in S : IsPrefix(s, e)
  BY DEF Below
<1>2. IsPrefix(s, f)
  BY <1>1, OnTheWay
<1> QED BY <1>1, <1>2 DEF Below

LEMMA SkipsArePaths ==
  ASSUME NEW t, TreeIs(t), NEW source \in SCSources
  PROVE  MarkerSkips(t, source).skip \subseteq SCDirs \cup {<<>>} /\ MarkerSkips(t, source).skip \subseteq AnyPath
BY SkipsAre, PathsAre DEF Sound

(* Everything found is wanted.                                              *)
LEMMA FoundIsWanted ==
  ASSUME NEW t, TreeIs(t), NEW source \in SCSources, NEW f \in Found(t, source, MarkerSkips(t, source))
  PROVE  f \in Wanted(t, source)
<1> DEFINE m == MarkerSkips(t, source)
<1>0. m.skip \subseteq SCDirs \cup {<<>>} /\ m.skip \subseteq AnyPath
  BY SkipsArePaths
<1> HIDE DEF m
<1>1. /\ f \in SCFiles /\ f \in SCPaths /\ f \in AnyPath /\ t.kind[f] = "file"
      /\ ~Policy(f) /\ f \notin source.excluded /\ Listed(t, source, m, f)
  BY PathsAre DEF Found, m
<1>2. Above(f) \cap t.git = {} /\ Named(source, f) /\ ~Below(f, m.skip)
  <2>1. CASE Dir(f) \in DirsOf(t, source, m) \ t.git
    <3>1. PICK i \in Starts(source) : Stops(t, i) = {} /\ Dir(f) \in Walked(t, i, m.skip)
      BY <2>1 DEF DirsOf, StartsLeft
    <3>2. /\ IsPrefix(i, Dir(f)) /\ Dir(f) \in SCDirs
          /\ \A e \in Upto(Dir(f)) : IsPrefix(i, e) =>
               ~Below(e, m.skip) /\ ~Policy(e) /\ (e # Dir(f) => e \notin t.git)
      BY <3>1, UptoIs, PathsAre DEF Walked
    <3>3. i \in AnyPath /\ i # <<>> /\ Dir(f) \in AnyPath /\ Dir(f) # <<>> /\ Dir(f) \in Upto(Dir(f))
      BY <3>2, StartsAre, PathsAre, UptoIs
    <3>4. IsPrefix(i, f) /\ IsPrefix(Dir(f), f)
      BY <1>1, <3>2, <3>3, DirIs, OnTheWay
    <3>5. ASSUME NEW c \in Above(f) PROVE c \notin t.git
      <4>1. c \in AnyPath /\ c # <<>> /\ c \in Upto(Dir(f)) /\ IsPrefix(c, Dir(f))
        BY <1>1, <3>3, <3>5, DirIs, UptoIs, PathsAre
      <4>2. CASE IsPrefix(i, c)
        BY <2>1, <3>2, <4>1, <4>2
      <4>3. CASE ~IsPrefix(i, c)
        <5>1. Len(c) \in Nat /\ Len(i) \in Nat
          BY <3>3, <4>1, PathsAre
        <5>2. Len(i) <= Len(c) => IsPrefix(i, c)
          BY <3>2, <3>3, <4>1, OnTheWay
        <5>3. Len(c) <= Len(i)
          BY <4>3, <5>1, <5>2
        <5>4. IsPrefix(c, i)
          BY <3>2, <3>3, <4>1, <5>3, OnTheWay
        <5>5. c \in Upto(i)
          BY <3>3, <4>1, <5>4, UptoIs
        <5> QED BY <3>1, <3>3, <5>5, StopsAre
      <4> QED BY <4>2, <4>3
    <3>6. ~Below(f, m.skip)
      <4> SUFFICES ASSUME NEW s \in m.skip, IsPrefix(s, f) PROVE FALSE
        BY DEF Below
      <4>1. s \in AnyPath /\ s # f
        BY <1>0, <1>1, PathsAre, SCPathsAssumption
      <4>2. IsPrefix(s, Dir(f))
        BY <1>1, <4>1, DirIs
      <4>3. Below(Dir(f), m.skip)
        BY <4>2 DEF Below
      <4> QED BY <3>2, <3>3, <4>3
    <3> QED BY <3>4, <3>5, <3>6 DEF Named, Below
  <2>2. CASE f \in FilesLeft(source, m) /\ Checkout(t, Dir(f)) = {}
    <3>1. f \in source.files /\ ~Below(f, m.skip)
      BY <2>2 DEF FilesLeft
    <3>2. source.type = "generic"
      BY <3>1, SourcesAre
    <3>3. Upto(Dir(f)) = Above(f) /\ Dir(f) \in AnyPath
      BY <1>1, DirIs, PathsAre
    <3>4. Above(f) \cap t.git = {}
      BY <2>2, <3>3, StopsAre
    <3> QED BY <3>1, <3>2, <3>4 DEF Named
  <2> QED BY <1>1, <2>1, <2>2 DEF Listed
<1>3. ASSUME source.type = "generic", NEW d \in Above(f) \cup {<<>>}, Marks(t, source, d) PROVE FALSE
  BY <1>1, <1>2, <1>3, MarkedIsSkipped DEF m
<1>4. ~TakenOut(t, source, f)
  BY <1>1, <1>2, <1>3 DEF TakenOut, Marks
<1> QED BY <1>1, <1>2, <1>4 DEF Wanted

(* What is wanted has a clear way, and is not skipped.                       *)
LEMMA WantedIsClear ==
  ASSUME NEW t, TreeIs(t), NEW source \in SCSources, NEW f \in Wanted(t, source)
  PROVE  /\ f \in SCFiles /\ t.kind[f] = "file" /\ ~Policy(f) /\ f \notin source.excluded
         /\ Above(f) \cap t.git = {} /\ ~Below(f, MarkerSkips(t, source).skip)
         /\ \A c \in Above(f) : t.kind[c] = "dir"
         /\ ~BehindLink(t, f) /\ Lstat(t, f) = "file" /\ Checkout(t, Dir(f)) = {}
<1>1. /\ f \in SCFiles /\ f \in SCPaths /\ f \in AnyPath /\ t.kind[f] = "file" /\ ~Policy(f)
      /\ f \notin source.excluded /\ Above(f) \cap t.git = {} /\ ~TakenOut(t, source, f)
  BY PathsAre DEF Wanted, TakenOut
<1>2. ~Below(f, MarkerSkips(t, source).skip)
  BY <1>1, SkippedIsMarked DEF TakenOut, Marks
<1>3. \A c \in Above(f) : t.kind[c] = "dir"
  BY <1>1, WayIsDirs
<1>4. ~BehindLink(t, f) /\ Lstat(t, f) = "file"
  BY <1>1, <1>3 DEF BehindLink, Lstat, Above
<1>5. Checkout(t, Dir(f)) = {}
  <2>1. Upto(Dir(f)) = Above(f) /\ Dir(f) \in AnyPath
    BY <1>1, DirIs, PathsAre
  <2> QED BY <1>1, <2>1, StopsAre
<1> QED BY <1>1, <1>2, <1>3, <1>4, <1>5

(* A walk from a start above a wanted file comes to every directory between. *)
LEMMA WalkedBetween ==
  ASSUME NEW t, TreeIs(t), NEW source \in SCSources, NEW f \in SCFiles, ~Policy(f),
         Above(f) \cap t.git = {}, ~Below(f, MarkerSkips(t, source).skip),
         NEW i \in Starts(source), NEW d \in Above(f), IsPrefix(i, d), t.kind[d] \in {"dir", "dark"},
         \A c \in Above(d) : t.kind[c] = "dir"
  PROVE  /\ i \in StartsLeft(source, MarkerSkips(t, source))
         /\ i # d \/ t.kind[d] = "dir" => /\ Stops(t, i) = {}
                                         /\ d \in DirsOf(t, source, MarkerSkips(t, source))
         /\ i = d /\ t.kind[d] = "dark" => Dark(t, i) # {}
<1> DEFINE m == MarkerSkips(t, source)
<1>0. m.skip \subseteq AnyPath
  BY SkipsArePaths
<1> HIDE DEF m
<1>1. /\ f \in AnyPath /\ d \in AnyPath /\ d \in SCDirs /\ d # <<>> /\ IsPrefix(d, f)
      /\ i \in AnyPath /\ i \in SCDirs /\ i # <<>>
  BY StartsAre, UptoIs, PathsAre
<1>2. ASSUME NEW c \in Upto(d)
      PROVE  c \in AnyPath /\ c # <<>> /\ IsPrefix(c, d) /\ IsPrefix(c, f) /\ c \in Above(f)
             /\ c \notin t.git /\ ~Policy(c) /\ ~Below(c, m.skip)
  <2>1. c \in AnyPath /\ c # <<>> /\ IsPrefix(c, d)
    BY <1>1, <1>2, UptoIs, PathsAre
  <2>2. IsPrefix(c, f)
    BY <1>1, <2>1, OnTheWay
  <2>3. d # f
    BY <1>1, SCPathsAssumption
  <2>4. c # f
    BY <1>1, <2>1, <2>3, OnTheWay
  <2>5. c \in Above(f)
    BY <1>1, <2>1, <2>2, <2>4, UptoIs
  <2>6. ~Policy(c)
    BY <1>1, <2>1, <2>2, PolicySpreads
  <2>7. ~Below(c, m.skip)
    BY <1>0, <1>1, <2>1, <2>2, BelowSpreads DEF m
  <2> QED BY <2>1, <2>2, <2>5, <2>6, <2>7
<1>3. Upto(i) \subseteq Upto(d) /\ i \in Upto(d) /\ d \in Upto(d)
  <2>1. ASSUME NEW c \in Upto(i) PROVE c \in Upto(d)
    <3>1. c \in AnyPath /\ c # <<>> /\ IsPrefix(c, i)
      BY <1>1, <2>1, UptoIs, PathsAre
    <3>2. IsPrefix(c, d)
      BY <1>1, <3>1, OnTheWay
    <3> QED BY <1>1, <3>1, <3>2, UptoIs
  <2> QED BY <1>1, <2>1, UptoIs
<1>4. i \in StartsLeft(source, m)
  BY <1>2, <1>3 DEF StartsLeft
<1>5. ASSUME i # d \/ t.kind[d] = "dir" PROVE Stops(t, i) = {} /\ d \in DirsOf(t, source, m)
  <2>1. ASSUME NEW c \in Upto(i) PROVE t.kind[c] = "dir" /\ c \notin t.git
    <3>1. c \in Upto(d) /\ c \in AnyPath /\ c # <<>> /\ IsPrefix(c, i)
      BY <1>1, <1>3, <2>1, UptoIs, PathsAre
    <3>2. c = d => i = d
      BY <1>1, <3>1, OnTheWay
    <3>3. c # d => t.kind[c] = "dir"
      BY <3>1 DEF Above
    <3> QED BY <1>2, <1>5, <3>1, <3>2, <3>3
  <2>2. Stops(t, i) = {}
    BY <1>1, <2>1, StopsAre
  <2>3. d \in Walked(t, i, m.skip)
    BY <1>1, <1>2 DEF Walked
  <2> QED BY <1>4, <2>2, <2>3 DEF DirsOf
<1>6. ASSUME i = d, t.kind[d] = "dark" PROVE Dark(t, i) # {}
  <2>1. Upto(d) \cap t.git = {}
    BY <1>2
  <2> QED BY <1>1, <1>3, <1>6, <2>1, StopsAre
<1> QED BY <1>4, <1>5, <1>6 DEF m

LEMMA WantedIsFound ==
  ASSUME NEW t, TreeIs(t), NEW source \in SCSources, NEW f \in Wanted(t, source)
  PROVE  f \in Found(t, source, MarkerSkips(t, source))
<1> DEFINE m == MarkerSkips(t, source)
<1>1. /\ f \in SCFiles /\ t.kind[f] = "file" /\ ~Policy(f) /\ f \notin source.excluded
      /\ Above(f) \cap t.git = {} /\ ~Below(f, m.skip)
      /\ \A c \in Above(f) : t.kind[c] = "dir"
      /\ ~BehindLink(t, f) /\ Lstat(t, f) = "file" /\ Checkout(t, Dir(f)) = {}
  BY WantedIsClear
<1>2. Listed(t, source, m, f)
  <2>1. CASE f \in source.files
    BY <1>1, <2>1 DEF Listed, FilesLeft
  <2>2. CASE f \notin source.files
    <3>1. PICK i \in Starts(source) : IsPrefix(i, f)
      BY <2>2 DEF Wanted, Named, Below
    <3>2. /\ f \in SCPaths /\ f \in AnyPath /\ i \in AnyPath /\ i # <<>> /\ i # f /\ Dir(f) \in AnyPath
          /\ Dir(f) \in SCDirs \cup {<<>>}
      BY <1>1, StartsAre, PathsAre, DirIs, SCPathsAssumption
    <3>3. IsPrefix(i, Dir(f))
      BY <3>1, <3>2, DirIs
    <3>4. Dir(f) # <<>>
      BY <3>2, <3>3, OnTheWay
    <3>5. Dir(f) \in Above(f) /\ \A c \in Above(Dir(f)) : c \in Above(f)
      <4>1. Dir(f) \in Upto(Dir(f)) /\ Upto(Dir(f)) = Above(f)
        BY <3>2, <3>4, UptoIs, DirIs
      <4> QED BY <4>1 DEF Above
    <3> HIDE DEF m
    <3>6. Dir(f) \in DirsOf(t, source, m)
      BY <1>1, <3>3, <3>5, WalkedBetween DEF m
    <3> QED BY <1>1, <3>5, <3>6 DEF Listed
  <2> QED BY <2>1, <2>2
<1> HIDE DEF m
<1> QED BY <1>1, <1>2 DEF Found, m

(* What is hidden is a second link, and a generic or a Claude source keeps   *)
(* one of the links it found.                                               *)
LEMMA HiddenIs ==
  ASSUME NEW t, NEW source, NEW found, found \subseteq SCFiles
  PROVE  /\ Hidden(t, source, found) \subseteq Twins
         /\ ~t.twins => Hidden(t, source, found) = {}
         /\ source.type # "muse" => \A f \in found \cap Twins : (found \ Hidden(t, source, found)) \cap Twins # {}
<1> DEFINE twins == {f \in Twins : t.twins /\ t.kind[f] = "file"}
           q == <<"projects", "q", "memory", "f">>
           H == Hidden(t, source, found)
<1>1. H = IF Cardinality(twins) < 2 THEN {}
          ELSE CASE source.type = "muse" -> twins
                 [] source.type = "generic" /\ twins \subseteq found -> {q}
                 [] OTHER -> {}
  BY DEF Hidden
<1>2. Twins \subseteq SCFiles /\ \A x \in Twins : x = <<"memory", "g">> \/ x = q
  BY DEF Twins
<1>3. Cardinality({}) = 0 /\ Cardinality({q}) = 1
  BY FS_EmptySet, FS_Singleton
<1>4. twins \subseteq Twins /\ (~t.twins => twins = {})
  OBVIOUS
<1> HIDE DEF twins, q
<1>5. twins \subseteq {q} => ~(Cardinality(twins) >= 2) /\ Cardinality(twins) < 2
  <2>1. twins \subseteq {q} => twins = {} \/ twins = {q}
    OBVIOUS
  <2> QED BY <1>3, <2>1
<1>6. H = {} \/ ~(twins \subseteq {q})
  BY <1>1, <1>5
<1>7. H \subseteq {q} \/ source.type = "muse"
  BY <1>1
<1>8. q \in H /\ source.type # "muse" => twins \subseteq found /\ ~(twins \subseteq {q})
  BY <1>1, <1>5
<1>9. H \subseteq Twins
  <2>1. CASE source.type = "muse"
    BY <1>1, <1>4, <2>1
  <2>2. CASE source.type # "muse" /\ q \in H
    <3>1. PICK x \in twins : x # q
      BY <1>8, <2>2
    <3>2. q \in found
      <4>1. CASE q \in twins
        BY <1>8, <2>2, <4>1
      <4>2. CASE q \notin twins
        <5>1. twins \subseteq {<<"memory", "g">>}
          BY <1>2, <1>4, <4>2
        <5>2. Cardinality({<<"memory", "g">>}) = 1
          BY FS_Singleton
        <5>3. twins = {} \/ twins = {<<"memory", "g">>}
          BY <5>1
        <5>4. Cardinality(twins) < 2
          BY <1>3, <5>2, <5>3
        <5> QED BY <1>1, <2>2, <5>4
      <4> QED BY <4>1, <4>2
    <3>3. q \in Twins
      BY <3>2 DEF Twins, q
    <3> QED BY <1>7, <2>2, <3>3
  <2>3. CASE source.type # "muse" /\ q \notin H
    BY <1>7, <2>3
  <2> QED BY <2>1, <2>2, <2>3
<1>10. ~t.twins => H = {}
  BY <1>1, <1>3, <1>4
<1>11. ASSUME source.type # "muse", NEW f \in found \cap Twins PROVE (found \ H) \cap Twins # {}
  <2>1. CASE q \in H
    <3>1. PICK x \in twins : x # q
      BY <1>8, <1>11, <2>1
    <3>2. x \in found /\ x \notin H /\ x \in Twins
      BY <1>4, <1>7, <1>8, <1>11, <2>1, <3>1
    <3> QED BY <3>2
  <2>2. CASE q \notin H
    BY <1>7, <1>11, <2>2
  <2> QED BY <2>1, <2>2
<1> QED BY <1>9, <1>10, <1>11

LEMMA WaysArePaths ==
  ASSUME NEW source \in SCSources, NEW m
  PROVE  Ways(source, m) \subseteq SCDirs \cup {<<>>} /\ Ways(source, m) \subseteq AnyPath
<1>1. Starts(source) \subseteq SCDirs /\ source.files \subseteq SCPaths
  BY StartsAre, SourcesAre, PathsAre
<1>2. \A f \in source.files : Dir(f) \in SCDirs \cup {<<>>}
  BY <1>1, DirIs
<1> QED BY <1>1, <1>2, PathsAre DEF Ways, StartsLeft, FilesLeft

(* A walk refuses only where it could not look.                              *)
LEMMA RefusedIsDark ==
  ASSUME NEW t, TreeIs(t), NEW source \in SCSources, Walk(t, source).refused
  PROVE  \E d \in SCDirs : t.kind[d] = "dark"
<1> DEFINE m == MarkerSkips(t, source)
<1>1. m.dark \subseteq {d \in SCDirs : t.kind[d] = "dark"}
  BY SkipsAre DEF Sound
<1>2. Walk(t, source) = WalkPast(t, source, m)
  BY DEF Walk
<1> HIDE DEF m
<1>3. CASE <<>> \in m.skip
  <2>0. WalkPast(t, source, m) = [files |-> {}, roots |-> {}, refused |-> m.dark # {}]
    BY <1>3 DEF WalkPast
  <2>1. m.dark # {}
    <3> DEFINE r == (m.dark # {})
    <3>1. WalkPast(t, source, m).refused = r
      BY <2>0
    <3>2. WalkPast(t, source, m).refused
      BY <1>2
    <3> HIDE DEF r
    <3>3. r
      BY <3>1, <3>2
    <3> QED BY <3>3 DEF r
  <2> QED BY <1>1, <2>1
<1>4. CASE <<>> \notin m.skip
  <2>1. Refuses(t, source, m)
    BY <1>2, <1>4, WalkIs
  <2>2. ASSUME NEW w \in Ways(source, m), Dark(t, w) # {} PROVE \E d \in SCDirs : t.kind[d] = "dark"
    <3>1. w \in AnyPath
      BY WaysArePaths
    <3>2. PICK d \in Upto(w) : t.kind[d] = "dark"
      BY <2>2, <3>1, StopsAre
    <3>3. d \in SCPaths
      BY <3>1, UptoIs
    <3> QED BY <3>2, <3>3, MarksAreOnDirs
  <2>3. DirsOf(t, source, m) \subseteq SCDirs
    BY DEF DirsOf, Walked
  <2> QED BY <1>1, <2>1, <2>2, <2>3 DEF Refuses
<1> QED BY <1>3, <1>4

(* And it refuses where it passes over a directory that may hold a file of   *)
(* the source.                                                              *)
LEMMA DarkIsRefused ==
  ASSUME NEW t, TreeIs(t), NEW source \in SCSources, NEW d \in SCDirs, t.kind[d] = "dark",
         NEW f \in Wanted(Readable(t, d), source), IsPrefix(d, f)
  PROVE  Walk(t, source).refused
<1> DEFINE m == MarkerSkips(t, source)
<1>0. Readable(t, d).git = t.git /\ Readable(t, d).profile = t.profile /\ Readable(t, d).extend = t.extend
  BY DEF Readable, TreeIs, Trees
<1>1. f \in SCFiles /\ Named(source, f) /\ ~TakenOut(Readable(t, d), source, f)
  BY DEF Wanted
<1>2. /\ ~Policy(f) /\ Above(f) \cap t.git = {}
      /\ ~(source.type = "generic" /\ \E e \in Above(f) \cup {<<>>} : Marks(t, source, e))
  BY <1>0, <1>1 DEF TakenOut, Marks
<1>3. ~Below(f, m.skip) /\ m.skip \subseteq AnyPath
  BY <1>1, <1>2, SkippedIsMarked, SkipsArePaths
<1>4. Walk(t, source) = WalkPast(t, source, m)
  BY DEF Walk
<1>5. /\ f \in SCPaths /\ f \in AnyPath /\ d \in AnyPath /\ d \in SCPaths /\ d # <<>> /\ d # f
      /\ d \in Above(f) /\ t.kind[d] # "absent"
  BY <1>1, UptoIs, PathsAre, SCPathsAssumption
<1>6. \A c \in Above(d) : t.kind[c] = "dir"
  BY <1>5, WayIsDirs
<1>7. <<>> \notin m.skip
  <2>1. IsPrefix(<<>>, f)
    BY <1>5, OnTheWay
  <2> QED BY <1>3, <2>1 DEF Below
<1> HIDE DEF m
<1>8. CASE f \in source.files
  <2>1. Dir(f) \in Ways(source, m)
    BY <1>3, <1>8 DEF Ways, FilesLeft
  <2>2. Dir(f) \in AnyPath /\ Upto(Dir(f)) = Above(f)
    BY <1>5, DirIs, PathsAre
  <2>3. d \in Dark(t, Dir(f))
    BY <1>2, <1>5, <2>2, StopsAre
  <2> QED BY <1>4, <1>7, <2>1, <2>3, WalkIs DEF Refuses
<1>9. CASE f \notin source.files
  <2>1. PICK i \in Starts(source) : IsPrefix(i, f)
    BY <1>1, <1>9 DEF Named, Below
  <2>2. i \in AnyPath /\ i # <<>> /\ i \in SCDirs
    BY StartsAre, PathsAre
  <2>3. CASE IsPrefix(i, d)
    <3>1. /\ i \in StartsLeft(source, m)
          /\ i # d => d \in DirsOf(t, source, m)
          /\ i = d => Dark(t, i) # {}
      BY <1>1, <1>2, <1>3, <1>5, <1>6, <2>3, WalkedBetween DEF m
    <3>2. Refuses(t, source, m)
      BY <3>1 DEF Refuses, Ways
    <3>3. WalkPast(t, source, m).refused
      BY <1>7, <3>2, WalkIs
    <3> QED BY <1>4, <3>3
  <2>4. CASE ~IsPrefix(i, d)
    <3>1. Len(d) <= Len(i)
      <4>1. Len(d) \in Nat /\ Len(i) \in Nat
        BY <1>5, <2>2, PathsAre
      <4>2. Len(i) <= Len(d) => IsPrefix(i, d)
        BY <1>5, <2>1, <2>2, OnTheWay
      <4> QED BY <2>4, <4>1, <4>2
    <3>2. IsPrefix(d, i)
      BY <1>5, <2>1, <2>2, <3>1, OnTheWay
    <3>3. d \in Upto(i)
      BY <1>5, <2>2, <3>2, UptoIs
    <3>4. Upto(i) \cap t.git = {}
      <4> SUFFICES ASSUME NEW c \in Upto(i), c \in t.git PROVE FALSE
        OBVIOUS
      <4>1. c \in AnyPath /\ c # <<>> /\ IsPrefix(c, i) /\ c \in SCDirs
        BY <2>2, UptoIs, PathsAre, MarksAreOnDirs
      <4>2. IsPrefix(c, f) /\ c # f
        BY <1>1, <1>5, <2>1, <2>2, <4>1, OnTheWay, SCPathsAssumption
      <4> QED BY <1>2, <1>5, <4>1, <4>2, UptoIs
    <3>5. d \in Dark(t, i)
      BY <2>2, <3>3, <3>4, StopsAre
    <3>6. ~Below(i, m.skip)
      BY <1>3, <1>5, <2>1, <2>2, BelowSpreads
    <3>7. i \in Ways(source, m)
      BY <3>6 DEF Ways, StartsLeft
    <3>8. Refuses(t, source, m)
      BY <3>5, <3>7 DEF Refuses
    <3>9. WalkPast(t, source, m).refused
      BY <1>7, <3>8, WalkIs
    <3> QED BY <1>4, <3>9
  <2> QED BY <2>3, <2>4
<1> QED BY <1>8, <1>9

LEMMA WalkFinds ==
  ASSUME TreeIs(scTree), scSource \in SCSources
  PROVE  WalkIsExact
<1> DEFINE m == MarkerSkips(scTree, scSource)
           walk == Walk(scTree, scSource)
           wanted == Wanted(scTree, scSource)
           found == Found(scTree, scSource, m)
           hidden == Hidden(scTree, scSource, found)
           twins == IF scTree.twins THEN wanted \cap Twins ELSE {}
<1>1. found \subseteq wanted /\ wanted \subseteq found /\ found \subseteq SCFiles
  BY FoundIsWanted, WantedIsFound DEF Found
<1>2. hidden \subseteq Twins /\ (~scTree.twins => hidden = {})
      /\ (scSource.type # "muse" => \A f \in found \cap Twins : (found \ hidden) \cap Twins # {})
  BY <1>1, HiddenIs
<1>3. walk.refused => \E d \in SCDirs : scTree.kind[d] = "dark"
  BY RefusedIsDark
<1>4. \A d \in SCDirs : scTree.kind[d] = "dark" =>
        \A f \in Wanted(Readable(scTree, d), scSource) : IsPrefix(d, f) => walk.refused
  BY DarkIsRefused
<1>5. walk.files = IF <<>> \in m.skip THEN {} ELSE found \ hidden
  <2>1. <<>> \in m.skip => WalkPast(scTree, scSource, m).files = {}
    BY DEF WalkPast
  <2>2. <<>> \notin m.skip => WalkPast(scTree, scSource, m).files = found \ hidden
    BY WalkIs
  <2> QED BY <2>1, <2>2 DEF Walk
<1>6. <<>> \in m.skip => wanted = {}
  <2> SUFFICES ASSUME <<>> \in m.skip, NEW f \in wanted PROVE FALSE
    OBVIOUS
  <2>1. f \in SCFiles /\ ~Below(f, m.skip)
    BY WantedIsClear
  <2>2. IsPrefix(<<>>, f)
    BY <2>1, OnTheWay, PathsAre
  <2> QED BY <2>1, <2>2 DEF Below
<1> HIDE DEF m, walk, wanted, found, hidden
<1>7. walk.files \subseteq wanted /\ wanted \ walk.files \subseteq twins
  BY <1>1, <1>2, <1>5, <1>6
<1>8. scSource.type # "muse" /\ twins # {} => twins \cap walk.files # {}
  <2> SUFFICES ASSUME scSource.type # "muse", NEW f \in twins PROVE twins \cap walk.files # {}
    OBVIOUS
  <2>1. scTree.twins /\ twins = wanted \cap Twins /\ f \in wanted \cap Twins
    OBVIOUS
  <2>2. f \in found \cap Twins /\ <<>> \notin m.skip
    BY <1>1, <1>6, <2>1
  <2>3. (found \ hidden) \cap Twins # {}
    BY <1>2, <2>2
  <2> QED BY <1>1, <1>5, <2>1, <2>2, <2>3
<1> QED BY <1>3, <1>4, <1>7, <1>8 DEF WalkIsExact, walk, wanted

LEMMA PullFinds ==
  ASSUME TreeIs(scTree), scSource \in SCSources
  PROVE  PullAgrees
<1> DEFINE m == MarkerSkips(scTree, scSource)
           taken == Taken(scTree, scSource, m.skip)
<1>1. ASSUME NEW f \in SCFiles, f \in taken, Named(scSource, f), ~Policy(f)
      PROVE  f \in Wanted(Written(scTree, f), scSource)
  <2>1. ~Below(f, m.skip) /\ Checkout(scTree, Dir(f)) = {} /\ f \notin scSource.excluded
    BY <1>1 DEF Taken, TakesIn
  <2> HIDE DEF m
  <2>2. /\ Written(scTree, f).git = scTree.git /\ Written(scTree, f).profile = scTree.profile
        /\ Written(scTree, f).extend = scTree.extend
    BY DEF Written, TreeIs, Trees
  <2>3. f \in SCPaths /\ f \in AnyPath /\ f \notin SCDirs
    BY PathsAre, SCPathsAssumption
  <2>4. Written(scTree, f).kind[f] = "file"
    <3>1. IsPrefix(f, f)
      BY <2>3, OnTheWay
    <3> QED BY <2>3, <3>1 DEF Written, TreeIs, Trees, FullTree
  <2>5. Above(f) \cap scTree.git = {}
    <3>1. Upto(Dir(f)) = Above(f) /\ Dir(f) \in AnyPath
      BY <2>3, DirIs, PathsAre
    <3> QED BY <2>1, <3>1, StopsAre
  <2>6. ~(scSource.type = "generic" /\ \E d \in Above(f) \cup {<<>>} : Marks(scTree, scSource, d))
    BY <1>1, <2>1, <2>5, MarkedIsSkipped DEF m
  <2>7. ~TakenOut(Written(scTree, f), scSource, f)
    BY <1>1, <2>1, <2>2, <2>5, <2>6 DEF TakenOut, Marks
  <2> QED BY <1>1, <2>4, <2>7 DEF Wanted
<1>2. ASSUME NEW f \in Wanted(scTree, scSource) PROVE f \in taken
  <2>1. /\ f \in SCFiles /\ f \notin scSource.excluded /\ ~Below(f, m.skip)
        /\ ~BehindLink(scTree, f) /\ Lstat(scTree, f) = "file" /\ Checkout(scTree, Dir(f)) = {}
    BY <1>2, WantedIsClear
  <2> QED BY <2>1 DEF Taken, TakesIn
<1> HIDE DEF taken
<1>3. PullAgreesOn(taken)
  BY <1>1, <1>2 DEF PullAgreesOn
<1> QED BY <1>3 DEF PullAgrees, taken

(* --------------------- what a source holds is exact --------------------- *)
(* The tree keeps its shape, and the manifest names files of it, each as     *)
(* published or as deleted.                                                 *)
ScopeInv ==
  /\ GoneInv /\ TreeIs(scTree)
  /\ scDead \subseteq SCFiles /\ scFiles \cap scDead = {}

LEMMA FullIsTree == TreeIs(FullTree)
<1>1. ASSUME NEW p \in SCPaths, NEW c \in Above(p) PROVE FullTree.kind[c] = "dir"
  <2>1. c \in SCDirs /\ c \in SCPaths
    BY UptoIs, PathsAre
  <2> QED BY <2>1 DEF FullTree
<1>2. \A f \in SCFiles : FullTree.kind[f] = "file"
  BY SCPathsAssumption DEF FullTree, SCPaths
<1>3. FullTree.git = {} /\ FullTree.extend = {} /\ FullTree.profile = {}
  BY DEF FullTree
<1> QED BY <1>1, <1>2, <1>3, WholeTree DEF TreeIs

LEMMA PutKeepsTree ==
  ASSUME TreeIs(scTree), NEW p \in SCPaths, NEW kind \in {"absent", "link", "dark", "whole"},
         PutAt(p, kind)
  PROVE  TreeIs(scTree')
<1> DEFINE below == {q \in SCPaths : IsPrefix(p, q)}
           K == [q \in SCPaths |-> IF q \notin below THEN scTree.kind[q]
                                   ELSE IF kind = "whole" THEN FullTree.kind[q]
                                   ELSE IF q = p THEN kind ELSE "absent"]
           t == [scTree EXCEPT !.kind = K, !.git = @ \ below, !.extend = @ \ below,
                               !.profile = @ \ below, !.twins = @ /\ Twins \cap below = {}]
<1>1. scTree' = t /\ (\A c \in Above(p) : scTree.kind[c] = "dir") /\ (kind = "dark" => p \in SCDirs)
  BY DEF PutAt, Becomes
<1>2. scTree \in Trees /\ p \in AnyPath /\ p # <<>>
  BY PathsAre DEF TreeIs
<1>3. /\ t.kind = K /\ t.git = scTree.git \ below /\ t.extend = scTree.extend \ below
      /\ t.profile = scTree.profile \ below
  <2> HIDE DEF K, below
  <2> QED BY <1>2 DEF Trees
<1>4. \A q \in SCPaths : K[q] \in Kinds
  BY <1>2, WholeTree DEF Kinds, Trees
<1>5. \A f \in SCFiles : K[f] # "dark"
  BY <1>1, WholeTree, PathsAre, SCPathsAssumption DEF TreeIs
<1>6. ASSUME NEW q \in SCPaths, NEW c \in Above(q), K[c] # "dir" PROVE K[q] = "absent"
  <2>1. /\ q \in AnyPath /\ c \in SCDirs /\ c \in SCPaths /\ c \in AnyPath /\ c # <<>>
        /\ IsPrefix(c, q) /\ c # q
    BY <1>6, UptoIs, PathsAre
  <2>2. CASE q \notin below
    <3>1. c \notin below
      BY <1>2, <2>1, <2>2, OnTheWay
    <3> QED BY <1>6, <2>1, <2>2, <3>1 DEF TreeIs
  <2>3. CASE q \in below /\ c \notin below
    <3>1. ~IsPrefix(p, c) /\ IsPrefix(p, q)
      BY <2>1, <2>3
    <3>2. Len(c) <= Len(p)
      <4>1. Len(c) \in Nat /\ Len(p) \in Nat
        BY <1>2, <2>1, PathsAre
      <4>2. Len(p) <= Len(c) => IsPrefix(p, c)
        BY <1>2, <2>1, <3>1, OnTheWay
      <4> QED BY <3>1, <4>1, <4>2
    <3>3. IsPrefix(c, p) /\ c # p
      BY <1>2, <2>1, <3>1, <3>2, OnTheWay
    <3>4. c \in Above(p)
      BY <1>2, <2>1, <3>3, UptoIs
    <3> QED BY <1>1, <1>6, <2>1, <2>3, <3>4
  <2>4. CASE q \in below /\ c \in below
    <3>1. q # p
      BY <1>2, <2>1, <2>4, OnTheWay
    <3>2. FullTree.kind[c] = "dir"
      BY <2>1 DEF FullTree
    <3> QED BY <1>6, <2>1, <2>4, <3>1, <3>2
  <2> QED BY <2>2, <2>3, <2>4
<1>7. ASSUME NEW d \in (scTree.git \cup scTree.extend \cup scTree.profile) \ below
      PROVE  d = <<>> \/ K[d] = "dir"
  <2>1. d = <<>> \/ (d \in SCPaths /\ scTree.kind[d] = "dir")
    BY MarksAreOnDirs, PathsAre
  <2> QED BY <2>1
<1>8. K \in [SCPaths -> Kinds]
  BY <1>4
<1>9. scTree.git \in Marked /\ scTree.extend \in Marked /\ scTree.profile \in Marked
      /\ <<>> \notin scTree.git \cup scTree.extend
  BY <1>2 DEF Trees, TreeIs
<1> HIDE DEF K, below
<1>10. t \in Trees
  <2>1. (scTree.twins /\ Twins \cap below = {}) \in BOOLEAN
    OBVIOUS
  <2> QED BY <1>2, <1>8, <2>1 DEF Trees, Marked
<1> HIDE DEF t
<1>11. TreeIs(t)
  BY <1>3, <1>5, <1>6, <1>7, <1>9, <1>10 DEF TreeIs
<1> QED BY <1>1, <1>11

LEMMA MarkKeepsTree ==
  ASSUME TreeIs(scTree), NEW d \in SCDirs \cup {<<>>}, Mark(d) \/ LinkTwins
  PROVE  TreeIs(scTree')
<1>1. PICK t : /\ scTree' = t
               /\ \/ t = [scTree EXCEPT !.twins = ~@]
                  \/ /\ d = <<>> \/ scTree.kind[d] = "dir"
                     /\ \/ d # <<>> /\ t = [scTree EXCEPT !.git = Toggle(@, d)]
                        \/ d # <<>> /\ t = [scTree EXCEPT !.extend = Toggle(@, d)]
                        \/ t = [scTree EXCEPT !.profile = Toggle(@, d)]
  BY DEF Mark, LinkTwins, Becomes
<1>2. \A S : Toggle(S, d) \subseteq S \cup {d}
  BY DEF Toggle
<1>3. scTree \in Trees /\ \A S \in Marked : Toggle(S, d) \in Marked
  BY <1>2 DEF TreeIs, Marked
<1>4. CASE t = [scTree EXCEPT !.twins = ~@]
  <2>1. /\ t \in Trees /\ t.kind = scTree.kind /\ t.git = scTree.git
        /\ t.extend = scTree.extend /\ t.profile = scTree.profile
    BY <1>3, <1>4 DEF Trees
  <2> QED BY <1>1, <2>1 DEF TreeIs
<1>5. CASE (d = <<>> \/ scTree.kind[d] = "dir") /\ d # <<>> /\ t = [scTree EXCEPT !.git = Toggle(@, d)]
  <2>1. /\ t \in Trees /\ t.kind = scTree.kind /\ t.git = Toggle(scTree.git, d)
        /\ t.extend = scTree.extend /\ t.profile = scTree.profile
    BY <1>3, <1>5 DEF Trees
  <2> QED BY <1>1, <1>2, <1>5, <2>1 DEF TreeIs
<1>6. CASE (d = <<>> \/ scTree.kind[d] = "dir") /\ d # <<>> /\ t = [scTree EXCEPT !.extend = Toggle(@, d)]
  <2>1. /\ t \in Trees /\ t.kind = scTree.kind /\ t.git = scTree.git
        /\ t.extend = Toggle(scTree.extend, d) /\ t.profile = scTree.profile
    BY <1>3, <1>6 DEF Trees
  <2> QED BY <1>1, <1>2, <1>6, <2>1 DEF TreeIs
<1>7. CASE (d = <<>> \/ scTree.kind[d] = "dir") /\ t = [scTree EXCEPT !.profile = Toggle(@, d)]
  <2>1. /\ t \in Trees /\ t.kind = scTree.kind /\ t.git = scTree.git
        /\ t.extend = scTree.extend /\ t.profile = Toggle(scTree.profile, d)
    BY <1>3, <1>7 DEF Trees
  <2> QED BY <1>1, <1>2, <1>7, <2>1 DEF TreeIs
<1> QED BY <1>1, <1>4, <1>5, <1>6, <1>7

LEMMA ScopeInit == SCInit => ScopeInv
<1> SUFFICES ASSUME SCInit PROVE ScopeInv
  OBVIOUS
<1> QED BY GoneInit, FullIsTree DEF SCInit, ScopeInv

LEMMA ScopeStep == ScopeInv /\ [SCNext]_scVars => ScopeInv'
<1> SUFFICES ASSUME ScopeInv, [SCNext]_scVars PROVE ScopeInv'
  OBVIOUS
<1>1. GoneInv' /\ GoneInv
  BY GoneStep DEF ScopeInv
<1>2. ASSUME TreeIs(scTree'), UNCHANGED <<scFiles, scDead>> PROVE ScopeInv'
  BY <1>1, <1>2 DEF ScopeInv
<1>3. CASE \E p \in SCPlaces, kind \in {"absent", "link", "dark", "whole"} : PutAt(p, kind)
  <2>1. UNCHANGED <<scFiles, scDead>>
    BY <1>3 DEF PutAt, Becomes
  <2>2. TreeIs(scTree')
    BY <1>3, PutKeepsTree, SCPathsAssumption DEF ScopeInv, SCPaths
  <2> QED BY <1>2, <2>1, <2>2
<1>4. CASE LinkTwins \/ \E d \in (SCPlaces \cap SCDirs) \cup {<<>>} : Mark(d)
  <2>1. UNCHANGED <<scFiles, scDead>>
    BY <1>4 DEF Mark, LinkTwins, Becomes
  <2>2. TreeIs(scTree')
    BY <1>4, MarkKeepsTree DEF ScopeInv
  <2> QED BY <1>2, <2>1, <2>2
<1>5. CASE ScanSource \/ GiveUpPush \/ UNCHANGED scVars
  <2>1. UNCHANGED <<scTree, scFiles, scDead>>
    BY <1>5 DEF ScanSource, GiveUpPush, scVars
  <2> QED BY <1>2, <2>1 DEF ScopeInv
<1>6. CASE PublishScope
  <2> DEFINE former == Prior(MarkerSkips(scTree, scSource).skip)
             files == scRun.walk.files \cup former.frozen
  <2>1. scFiles' = files /\ scDead' = (former.dead \cup former.files) \ files /\ scTree' = scTree
    BY <1>6 DEF PublishScope, PublishFrom, Publish
  <2>2. former.dead \subseteq scDead /\ former.files \subseteq scFiles
    BY DEF Prior
  <2> HIDE DEF former, files
  <2>3. scDead' \subseteq SCFiles /\ scFiles' \cap scDead' = {}
    BY <1>1, <2>1, <2>2 DEF ScopeInv, GoneInv, TreeInv
  <2>4. TreeIs(scTree')
    BY <2>1 DEF ScopeInv
  <2> QED BY <1>1, <2>3, <2>4 DEF ScopeInv
<1> QED BY <1>3, <1>4, <1>5, <1>6 DEF SCNext

LEMMA ScopeHolds == ScopeInv => SCTypeOK /\ WalkIsExact /\ PullAgrees
<1> SUFFICES ASSUME ScopeInv PROVE SCTypeOK /\ WalkIsExact /\ PullAgrees
  OBVIOUS
<1>1. TreeIs(scTree) /\ scSource \in SCSources
  BY DEF ScopeInv, GoneInv, TreeInv
<1>2. SCTypeOK
  BY <1>1 DEF SCTypeOK, TreeIs, ScopeInv, GoneInv, TreeInv
<1> QED BY <1>1, <1>2, WalkFinds, PullFinds

(* ------------------------------ the theorems --------------------------- *)

(* A tree keeps its shape; what a walk of a generic, a Claude or a Muse      *)
(* source finds is what the source is meant to hold, and it refuses where it *)
(* could not look; and what pull may write is what the next walk finds. For  *)
(* every tree, source and order its configuration may list its paths in.     *)
THEOREM WalksAreExact == SCSpec => [](SCTypeOK /\ WalkIsExact /\ PullAgrees)
<1> QED BY ScopeInit, ScopeStep, ScopeHolds, PTL DEF SCSpec

(* MCDevice checks the components of a device side by side.  A behaviour of  *)
(* it is, for each component, a behaviour of that component.                 *)
THEOREM DeviceIsComponents == DeviceSpec => Spec /\ SCSpec /\ URSpec /\ HDSpec
<1>1. DeviceInit => Init /\ SCInit /\ URInit /\ HDInit
  BY DEF DeviceInit
<1>2. [DeviceNext]_allVars => [Next]_vars
  BY DEF DeviceNext, allVars, SelectionScene, ScopeScene, UsageScene, HistoryScene
<1>3. [DeviceNext]_allVars => [SCNext]_scVars
  BY DEF DeviceNext, allVars, SelectionScene, ScopeScene, UsageScene, HistoryScene
<1>4. [DeviceNext]_allVars => [URNext]_urVars
  BY DEF DeviceNext, allVars, SelectionScene, ScopeScene, UsageScene, HistoryScene
<1>5. [DeviceNext]_allVars => [HDNext]_hdVars
  BY DEF DeviceNext, allVars, SelectionScene, ScopeScene, UsageScene, HistoryScene
<1> QED BY <1>1, <1>2, <1>3, <1>4, <1>5, PTL DEF DeviceSpec, Spec, SCSpec, URSpec, HDSpec

(* What a source holds is exact on a device, whatever else it does.          *)
THEOREM ScopeExact == DeviceSpec => []ScopeIsExact
<1>1. SCTypeOK /\ WalkIsExact /\ PullAgrees => ScopeIsExact
  BY DEF ScopeIsExact
<1> QED BY <1>1, DeviceIsComponents, WalksAreExact, PTL

(* So what is proved of each component is true of them side by side: every   *)
(* property the run over MCDevice checks, for any constants and any menu     *)
(* without conflict copies, flapping roots and links beside oversize files.  *)
THEOREM DeviceIsRight ==
  ASSUME "copy" \notin Menu, "late" \notin Menu, "flap" \notin Menu, TameLinks
  PROVE  DeviceSpec => []ScopeIsExact /\ OnlyGoneIsDead /\ EvidenceIsTrue /\ SelectionIsSafe
<1>1. DeviceSpec => OnlyGoneIsDead
  BY DeviceIsComponents, DeadWasGone, PTL
<1>2. DeviceSpec => EvidenceIsTrue
  BY DeviceIsComponents, EvidenceTrue, PTL
<1>3. Spec => SelectionIsSafe
  BY SelectionSafe
<1>4. DeviceSpec => SelectionIsSafe
  BY <1>3, DeviceIsComponents, PTL
<1> QED BY <1>1, <1>2, <1>4, ScopeExact, PTL
=============================================================================
