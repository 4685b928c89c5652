----------------------------- MODULE ReaderProofs ----------------------------
(***************************************************************************)
(* What is proved of the readers of usage: the token cache (TokenCache),   *)
(* for any number of lines, ids, days and writes; the passes over the      *)
(* Codex rollouts (CodexScan), for any number of rollouts, days, moves and *)
(* failures; and, with RetroProofs, what follows of the components side by *)
(* side, as the run over MCRetro checks them.                              *)
(***************************************************************************)
EXTENDS MCRetro, RetroProofs, FiniteSetTheorems, SequenceTheorems, TLAPS

(* Counting.  The places of a finite set of numbers are ranked from below   *)
(* and from above without a gap.                                            *)
RanksTo(K, i) == {j \in K : j <= i}
LEMMA RankedFromBelow ==
  ASSUME NEW N \in Nat, NEW K, K \subseteq 1 .. N
  PROVE  /\ IsFiniteSet(K) /\ Cardinality(K) \in Nat
         /\ \A i \in K : Cardinality(RanksTo(K, i)) \in 1 .. Cardinality(K)
         /\ \A i, j \in K : i < j => Cardinality(RanksTo(K, i)) < Cardinality(RanksTo(K, j))
         /\ \A k \in 1 .. Cardinality(K) : \E i \in K : Cardinality(RanksTo(K, i)) = k
<1>1. IsFiniteSet(K)
  <2>1. IsFiniteSet(1 .. N)
    BY FS_Interval
  <2> QED BY <2>1, FS_Subset
<1>2. Cardinality(K) \in Nat
  BY <1>1, FS_CardinalityType
<1>3. ASSUME NEW i \in K PROVE Cardinality(RanksTo(K, i)) \in 1 .. Cardinality(K)
  <2>1. RanksTo(K, i) \in SUBSET K /\ i \in RanksTo(K, i)
    BY DEF RanksTo
  <2>2. IsFiniteSet(RanksTo(K, i)) /\ Cardinality(RanksTo(K, i)) <= Cardinality(K)
    BY <1>1, <2>1, FS_Subset
  <2>3. Cardinality(RanksTo(K, i)) \in Nat /\ Cardinality(RanksTo(K, i)) # 0
    BY <2>1, <2>2, FS_CardinalityType, FS_EmptySet
  <2> QED BY <1>2, <2>2, <2>3
<1>4. ASSUME NEW i \in K, NEW j \in K, i < j PROVE Cardinality(RanksTo(K, i)) < Cardinality(RanksTo(K, j))
  <2>1. RanksTo(K, i) \in SUBSET RanksTo(K, j) /\ j \in RanksTo(K, j) /\ j \notin RanksTo(K, i) /\ RanksTo(K, j) \in SUBSET K
    <3>1. i \in Int /\ j \in Int /\ \A x \in K : x \in Int
      OBVIOUS
    <3>2. \A x \in RanksTo(K, i) : x \in RanksTo(K, j)
      <4>1. \A x \in K : x <= i => x <= j
        BY <1>4, <3>1
      <4> QED BY <4>1 DEF RanksTo
    <3>3. j \in RanksTo(K, j) /\ j \notin RanksTo(K, i)
      BY <1>4, <3>1 DEF RanksTo
    <3> QED BY <3>2, <3>3 DEF RanksTo
  <2>2. IsFiniteSet(RanksTo(K, j))
    BY <1>1, <2>1, FS_Subset
  <2>3. /\ Cardinality(RanksTo(K, i)) <= Cardinality(RanksTo(K, j))
        /\ Cardinality(RanksTo(K, j)) # Cardinality(RanksTo(K, i))
    BY <2>1, <2>2, FS_Subset
  <2>4. Cardinality(RanksTo(K, i)) \in Nat /\ Cardinality(RanksTo(K, j)) \in Nat
    BY <1>3
  <2> QED BY <2>3, <2>4
<1>5. ASSUME NEW k \in 1 .. Cardinality(K) PROVE \E i \in K : Cardinality(RanksTo(K, i)) = k
  <2> DEFINE f == [i \in K |-> Cardinality(RanksTo(K, i))]
             T == 1 .. Cardinality(K)
  <2>1. f \in [K -> T]
    BY <1>3
  <2>2. ASSUME NEW i \in K, NEW j \in K, f[i] = f[j] PROVE i = j
    <3>1. i \in Int /\ j \in Int /\ f[i] \in Int
      BY <1>3
    <3>2. ~(i < j) /\ ~(j < i)
      BY <1>4, <2>2, <3>1
    <3> QED BY <3>1, <3>2
  <2>3. f \in Injection(K, T)
    BY <2>1, <2>2 DEF Injection, IsInjective
  <2>4. IsFiniteSet(T) /\ Cardinality(T) = Cardinality(K)
    <3>1. Cardinality(K) \in Int /\ 1 \in Int
      BY <1>2
    <3>2. IsFiniteSet(T) /\ Cardinality(T) = IF 1 > Cardinality(K) THEN 0 ELSE Cardinality(K) - 1 + 1
      BY <3>1, FS_Interval
    <3> QED BY <1>2, <3>2
  <2> HIDE DEF f, T
  <2>5. f \in Surjection(K, T)
    BY <2>3, <2>4, FS_Injection
  <2>6. \A t \in T : \E i \in K : f[i] = t
    BY <2>5 DEF Surjection
  <2> QED BY <2>6 DEF f, T
<1> QED BY <1>1, <1>2, <1>3, <1>4, <1>5

(* A sequence without doubles has as many values as places.                  *)
ValuesAt(s, I) == {s[i] : i \in I}
LEMMA Images ==
  ASSUME NEW I, IsFiniteSet(I), NEW s, \A i, j \in I : s[i] = s[j] => i = j
  PROVE  IsFiniteSet(ValuesAt(s, I)) /\ Cardinality(ValuesAt(s, I)) = Cardinality(I)
<1> DEFINE T == ValuesAt(s, I)
           f == [i \in I |-> s[i]]
<1>1. f \in [I -> T] /\ \A t \in T : \E i \in I : f[i] = t
  BY DEF ValuesAt
<1>2. \A i, j \in I : f[i] = f[j] => i = j
  OBVIOUS
<1>3. f \in Bijection(I, T)
  BY <1>1, <1>2 DEF Bijection, Injection, IsInjective, Surjection
<1> HIDE DEF f, T
<1>4. ExistsBijection(I, T)
  BY <1>3 DEF ExistsBijection
<1>5. IsFiniteSet(T) /\ Cardinality(T) = Cardinality(I)
  BY <1>4, FS_Bijection
<1> QED BY <1>5 DEF T

LEMMA FewerFinite ==
  ASSUME NEW T, IsFiniteSet(T), NEW S, S \subseteq T
  PROVE  IsFiniteSet(S) /\ Cardinality(S) \in Nat /\ Cardinality(T) \in Nat /\ Cardinality(S) <= Cardinality(T)
<1>1. S \in SUBSET T
  OBVIOUS
<1>2. IsFiniteSet(S) /\ Cardinality(S) <= Cardinality(T)
  BY <1>1, FS_Subset
<1> QED BY <1>2, FS_CardinalityType

(* ------------------------------ token cache ---------------------------- *)

(* Trimming.  The newest days of a join are those of a join with the newest *)
(* days only.                                                               *)
AtLeast(A, d) == {e \in A : e >= d}
Newest(A) == {d \in A : Cardinality(AtLeast(A, d)) <= TCMaxDays}

LEMMA TrimmedTo ==
  ASSUME NEW days
  PROVE  Trimmed(days) = [d \in Newest(DOMAIN days) |-> days[d]]
BY DEF Trimmed, Newest, AtLeast

LEMMA DaysFinite ==
  ASSUME NEW A, A \subseteq 1..TCDays
  PROVE  IsFiniteSet(A) /\ A \subseteq Nat
<1>1. TCDays \in Int /\ 1 \in Int
  BY TCAssumption
<1>2. IsFiniteSet(1..TCDays)
  BY <1>1, FS_Interval
<1>3. A \subseteq Nat
  OBVIOUS
<1>4. IsFiniteSet(A)
  BY <1>2, FewerFinite
<1> QED BY <1>3, <1>4

LEMMA NewestFew ==
  ASSUME NEW A, A \subseteq 1..TCDays
  PROVE  IsFiniteSet(Newest(A)) /\ Cardinality(Newest(A)) <= TCMaxDays
<1> DEFINE K == Newest(A)
<1>1. IsFiniteSet(A) /\ A \subseteq Nat /\ K \subseteq A
  BY DaysFinite DEF Newest
<1>2. IsFiniteSet(K)
  BY <1>1, FewerFinite
<1>3. CASE K = {}
  BY <1>2, <1>3, FS_EmptySet, TCAssumption
<1>4. CASE K # {}
  <2>1. K \subseteq Nat
    BY <1>1
  <2> DEFINE x == Min(K)
  <2>2. x \in K /\ \A y \in K : x <= y
    BY <1>4, <2>1, MinIsMember
  <2> HIDE DEF x
  <2>3. K \subseteq AtLeast(A, x) /\ AtLeast(A, x) \subseteq A
    <3>1. \A y \in K : y >= x
      BY <2>1, <2>2
    <3> QED BY <1>1, <3>1 DEF AtLeast
  <2>4. Cardinality(AtLeast(A, x)) <= TCMaxDays
    BY <2>2 DEF Newest
  <2>5. IsFiniteSet(AtLeast(A, x))
    BY <1>1, <2>3, FewerFinite
  <2>6. Cardinality(K) \in Nat /\ Cardinality(AtLeast(A, x)) \in Nat /\ Cardinality(K) <= Cardinality(AtLeast(A, x))
    BY <2>3, <2>5, FewerFinite
  <2> QED BY <1>2, <2>4, <2>6, TCAssumption
<1> QED BY <1>3, <1>4

(* Where something was trimmed the newest days are as many as are kept.     *)
LEMMA NewestMany ==
  ASSUME NEW A, A \subseteq 1..TCDays, NEW e \in A, e \notin Newest(A)
  PROVE  /\ Cardinality(Newest(A)) >= TCMaxDays
         /\ \A x \in Newest(A) : x > e
<1> DEFINE K == Newest(A)
           S == A \ K
<1>1. IsFiniteSet(A) /\ A \subseteq Nat /\ K \subseteq A
  BY DaysFinite DEF Newest
<1>2. S \subseteq 0..TCDays /\ S # {}
  <2>1. \A x \in A : x \in 0..TCDays
    BY TCAssumption
  <2> QED BY <2>1
<1> DEFINE m == Max(S)
<1>3. m \in S /\ \A y \in S : y <= m
  BY <1>2, MaxIsMember, TCAssumption
<1> HIDE DEF m
<1>4. ASSUME NEW x \in K, NEW y \in A, y >= x PROVE y \in K
  <2>1. AtLeast(A, y) \subseteq AtLeast(A, x) /\ AtLeast(A, x) \subseteq A
    <3>1. x \in Nat /\ y \in Nat /\ \A z \in A : z \in Nat
      BY <1>1
    <3>2. \A z \in A : z >= y => z >= x
      BY <1>4, <3>1
    <3> QED BY <3>2 DEF AtLeast
  <2>2. IsFiniteSet(AtLeast(A, x))
    BY <1>1, <2>1, FewerFinite
  <2>3. /\ Cardinality(AtLeast(A, y)) \in Nat /\ Cardinality(AtLeast(A, x)) \in Nat
        /\ Cardinality(AtLeast(A, y)) <= Cardinality(AtLeast(A, x))
    BY <2>1, <2>2, FewerFinite
  <2>4. Cardinality(AtLeast(A, x)) <= TCMaxDays
    BY DEF Newest
  <2>5. Cardinality(AtLeast(A, y)) <= TCMaxDays
    BY <2>3, <2>4, TCAssumption
  <2> QED BY <2>5 DEF Newest
<1>5. \A x \in K, y \in S : x > y
  <2> SUFFICES ASSUME NEW x \in K, NEW y \in S PROVE x > y
    OBVIOUS
  <2>1. x \in Nat /\ y \in Nat /\ y \in A /\ y \notin K
    BY <1>1
  <2>2. ~(y >= x)
    BY <1>4, <2>1
  <2> QED BY <2>1, <2>2
<1>6. AtLeast(A, m) = K \cup {m}
  <2> HIDE DEF K
  <2>1. \A z \in A : z \in Nat
    BY <1>1
  <2>2. m \in A /\ m \notin K /\ m \in Nat
    BY <1>3, <2>1
  <2>3. \A z \in A : z >= m => z \in K \cup {m}
    <3> SUFFICES ASSUME NEW z \in A, z >= m, z \notin K PROVE z = m
      OBVIOUS
    <3>1. z <= m
      BY <1>3
    <3> QED BY <2>1, <2>2, <3>1
  <2>4. \A z \in K : z \in A /\ z >= m
    <3> SUFFICES ASSUME NEW z \in K PROVE z \in A /\ z >= m
      OBVIOUS
    <3>1. z \in A /\ z \in Nat
      BY <1>1, <2>1
    <3>2. z > m
      BY <1>3, <1>5
    <3> QED BY <2>2, <3>1, <3>2
  <2>5. m >= m
    BY <2>2
  <2>6. \A z : z \in AtLeast(A, m) <=> z \in A /\ z >= m
    BY DEF AtLeast
  <2>7. \A z : z \in AtLeast(A, m) <=> z \in K \cup {m}
    BY <2>2, <2>3, <2>4, <2>5, <2>6
  <2> QED BY <2>7
<1>7. m \notin K /\ m \in A
  BY <1>3
<1>8. ~(Cardinality(AtLeast(A, m)) <= TCMaxDays)
  BY <1>7 DEF Newest
<1>9. IsFiniteSet(K)
  BY <1>1, FewerFinite
<1>10. Cardinality(K \cup {m}) = Cardinality(K) + 1 /\ Cardinality(K) \in Nat
  BY <1>7, <1>9, FS_AddElement, FS_CardinalityType
<1>11. Cardinality(K) >= TCMaxDays
  BY <1>6, <1>8, <1>10, TCAssumption
<1> QED BY <1>5, <1>11

LEMMA NewestJoin ==
  ASSUME NEW A, A \subseteq 1..TCDays, NEW B, B \subseteq 1..TCDays
  PROVE  /\ Newest(Newest(A) \cup B) = Newest(A \cup B)
         /\ \A d \in Newest(A \cup B) : d \in A => d \in Newest(A)
<1> DEFINE C == Newest(A) \cup B
           D == A \cup B
<1>1. Newest(A) \subseteq A /\ C \subseteq D /\ D \subseteq 1..TCDays /\ A \subseteq D
  BY DEF Newest
<1>2. IsFiniteSet(D) /\ D \subseteq Nat /\ IsFiniteSet(A)
  BY <1>1, DaysFinite
<1>3. \A E, F, d : E \subseteq F /\ F \subseteq D =>
         /\ Cardinality(AtLeast(E, d)) \in Nat /\ Cardinality(AtLeast(F, d)) \in Nat
         /\ Cardinality(AtLeast(E, d)) <= Cardinality(AtLeast(F, d))
         /\ IsFiniteSet(AtLeast(E, d))
  <2> SUFFICES ASSUME NEW E, NEW F, NEW d, E \subseteq F /\ F \subseteq D
               PROVE /\ Cardinality(AtLeast(E, d)) \in Nat /\ Cardinality(AtLeast(F, d)) \in Nat
                     /\ Cardinality(AtLeast(E, d)) <= Cardinality(AtLeast(F, d))
                     /\ IsFiniteSet(AtLeast(E, d))
    OBVIOUS
  <2>1. AtLeast(E, d) \subseteq AtLeast(F, d) /\ AtLeast(F, d) \subseteq D
    BY DEF AtLeast
  <2>2. IsFiniteSet(AtLeast(F, d))
    BY <1>2, <2>1, FewerFinite
  <2> QED BY <2>1, <2>2, FewerFinite
<1>4. ASSUME NEW d \in Newest(D), d \in A PROVE d \in Newest(A)
  <2>1. Cardinality(AtLeast(D, d)) <= TCMaxDays
    BY DEF Newest
  <2> HIDE DEF D
  <2>2. /\ Cardinality(AtLeast(A, d)) \in Nat /\ Cardinality(AtLeast(D, d)) \in Nat
        /\ Cardinality(AtLeast(A, d)) <= Cardinality(AtLeast(D, d))
    BY <1>1, <1>3
  <2>3. Cardinality(AtLeast(A, d)) <= TCMaxDays
    BY <2>1, <2>2, TCAssumption
  <2> QED BY <1>4, <2>3 DEF Newest
<1>5. ASSUME NEW d \in Newest(D) PROVE d \in Newest(C)
  <2>1. Cardinality(AtLeast(D, d)) <= TCMaxDays /\ d \in D
    BY DEF Newest
  <2>2. d \in C
    BY <1>4, <2>1
  <2> HIDE DEF D, C
  <2>3. /\ Cardinality(AtLeast(C, d)) \in Nat /\ Cardinality(AtLeast(D, d)) \in Nat
        /\ Cardinality(AtLeast(C, d)) <= Cardinality(AtLeast(D, d))
    BY <1>1, <1>3
  <2>4. Cardinality(AtLeast(C, d)) <= TCMaxDays
    BY <2>1, <2>3, TCAssumption
  <2> QED BY <2>2, <2>4 DEF Newest
<1>6. ASSUME NEW d \in Newest(C), d \notin Newest(D) PROVE FALSE
  <2>1. Cardinality(AtLeast(C, d)) <= TCMaxDays /\ d \in C /\ d \in D
    BY <1>1 DEF Newest
  <2>2. ~(Cardinality(AtLeast(D, d)) <= TCMaxDays)
    BY <1>6, <2>1 DEF Newest
  <2>3. AtLeast(C, d) # AtLeast(D, d)
    BY <2>1, <2>2
  <2>4. PICK e \in A : e >= d /\ e \notin Newest(A)
    <3>1. AtLeast(C, d) \subseteq AtLeast(D, d)
      BY <1>1 DEF AtLeast
    <3>2. PICK e : e \in AtLeast(D, d) /\ e \notin AtLeast(C, d)
      BY <2>3, <3>1
    <3>3. e \in D /\ e >= d /\ e \notin C
      BY <3>2 DEF AtLeast
    <3> QED BY <3>3
  <2>5. Cardinality(Newest(A)) >= TCMaxDays /\ \A x \in Newest(A) : x > e
    BY <2>4, NewestMany
  <2> DEFINE K == Newest(A)
  <2>6. K \subseteq A /\ IsFiniteSet(K) /\ Cardinality(K) \in Nat
    BY <1>1, <1>2, FewerFinite
  <2>7. d \in Nat /\ e \in Nat /\ \A x \in K : x \in Nat
    BY <1>1, <1>2, <2>1, <2>6
  <2>8. d \notin K /\ \A x \in K : x >= d
    BY <2>4, <2>5, <2>7
  <2>9. K \cup {d} \subseteq AtLeast(C, d)
    <3>1. \A x \in K \cup {d} : x \in C /\ x >= d
      <4>1. K \subseteq C /\ d \in C /\ d >= d
        BY <2>1, <2>7
      <4> HIDE DEF K, C
      <4> QED BY <2>8, <4>1
    <3> HIDE DEF K, C
    <3> QED BY <3>1 DEF AtLeast
  <2>10. Cardinality(K \cup {d}) = Cardinality(K) + 1
    BY <2>6, <2>8, FS_AddElement
  <2>11. IsFiniteSet(AtLeast(C, d)) /\ Cardinality(AtLeast(C, d)) \in Nat
    <3> HIDE DEF C, D
    <3> QED BY <1>1, <1>3
  <2>12. Cardinality(K \cup {d}) <= Cardinality(AtLeast(C, d))
    BY <2>9, <2>11, FewerFinite
  <2> QED BY <2>1, <2>5, <2>6, <2>10, <2>11, <2>12, TCAssumption
<1> QED BY <1>4, <1>5, <1>6

LEMMA TrimMerged ==
  ASSUME NEW a, DOMAIN a \subseteq 1..TCDays, NEW b, DOMAIN b \subseteq 1..TCDays
  PROVE  Trimmed(Merged(Trimmed(a), b)) = Trimmed(Merged(a, b))
<1> DEFINE A == DOMAIN a
           B == DOMAIN b
           t == Trimmed(a)
           N == Newest(A \cup B)
<1>1. t = [d \in Newest(A) |-> a[d]]
  BY TrimmedTo
<1>2. DOMAIN t = Newest(A)
  BY <1>1
<1> HIDE DEF t
<1>3. DOMAIN Merged(t, b) = Newest(A) \cup B /\ DOMAIN Merged(a, b) = A \cup B
  BY <1>2 DEF Merged
<1>4. Newest(Newest(A) \cup B) = N /\ \A d \in N : d \in A => d \in Newest(A)
  BY NewestJoin
<1>5. N \subseteq A \cup B /\ Newest(A) \subseteq A
  BY DEF Newest
<1>6. Trimmed(Merged(t, b)) = [d \in N |-> Merged(t, b)[d]] /\ Trimmed(Merged(a, b)) = [d \in N |-> Merged(a, b)[d]]
  BY <1>3, <1>4, TrimmedTo
<1>7. ASSUME NEW d \in N PROVE Merged(t, b)[d] = Merged(a, b)[d]
  <2>1. d \in A \cup B /\ d \in Newest(A) \cup B /\ (d \in A <=> d \in Newest(A))
    BY <1>4, <1>5
  <2>2. Merged(t, b)[d] = (IF d \in Newest(A) THEN t[d] ELSE 0) + (IF d \in B THEN b[d] ELSE 0)
    BY <1>2, <2>1 DEF Merged
  <2>3. Merged(a, b)[d] = (IF d \in A THEN a[d] ELSE 0) + (IF d \in B THEN b[d] ELSE 0)
    BY <2>1 DEF Merged
  <2>4. d \in Newest(A) => t[d] = a[d]
    BY <1>1
  <2> HIDE DEF A, B, N
  <2> QED BY <2>1, <2>2, <2>3, <2>4
<1> HIDE DEF N
<1> QED BY <1>6, <1>7 DEF t

(* What some lines count, day by day, and which lines begin a message.      *)
IdAt(L, I) == {L[i].id : i \in I}
FirstAt(L, i) == \A j \in 1..i - 1 : L[j].id # L[i].id
Firsts(L, o, k) == {i \in o + 1..k : FirstAt(L, i)}
DaysOf(L, S) == {L[i].day : i \in S}
OnDay(L, S, d) == {i \in S : L[i].day = d}
Tally(L, S) == [d \in DaysOf(L, S) |-> Cardinality(OnDay(L, S, d))]

LEMMA TallyNone == \A L : Tally(L, {}) = [d \in {} |-> 0]
<1> SUFFICES ASSUME NEW L PROVE Tally(L, {}) = [d \in {} |-> 0]
  OBVIOUS
<1>1. DaysOf(L, {}) = {}
  BY DEF DaysOf
<1> QED BY <1>1 DEF Tally

LEMMA OnDayCounts ==
  ASSUME NEW L, NEW S, IsFiniteSet(S), NEW d
  PROVE  /\ IsFiniteSet(OnDay(L, S, d)) /\ Cardinality(OnDay(L, S, d)) \in Nat
         /\ d \notin DaysOf(L, S) => Cardinality(OnDay(L, S, d)) = 0
<1>1. OnDay(L, S, d) \subseteq S
  BY DEF OnDay
<1>2. d \notin DaysOf(L, S) => OnDay(L, S, d) = {}
  BY DEF OnDay, DaysOf
<1> QED BY <1>1, <1>2, FewerFinite, FS_EmptySet

LEMMA TallyAdded ==
  ASSUME NEW L, NEW S, IsFiniteSet(S), NEW i, i \notin S
  PROVE  Tally(L, S \cup {i}) = Added(Tally(L, S), L[i].day)
<1> DEFINE day == L[i].day
           T == S \cup {i}
<1>1. DaysOf(L, T) = DaysOf(L, S) \cup {day}
  BY DEF DaysOf
<1>2. \A d : OnDay(L, T, d) = IF d = day THEN OnDay(L, S, d) \cup {i} ELSE OnDay(L, S, d)
  BY DEF OnDay
<1>3. \A d : i \notin OnDay(L, S, d)
  BY DEF OnDay
<1>4. ASSUME NEW d
      PROVE  Cardinality(OnDay(L, T, d)) = (IF d \in DaysOf(L, S) THEN Cardinality(OnDay(L, S, d)) ELSE 0)
                                             + (IF d = day THEN 1 ELSE 0)
  <2>1. /\ IsFiniteSet(OnDay(L, S, d)) /\ Cardinality(OnDay(L, S, d)) \in Nat
        /\ d \notin DaysOf(L, S) => Cardinality(OnDay(L, S, d)) = 0
    BY OnDayCounts
  <2>2. Cardinality(OnDay(L, S, d) \cup {i}) = Cardinality(OnDay(L, S, d)) + 1
    BY <1>3, <2>1, FS_AddElement
  <2> DEFINE P == OnDay(L, S, d)
  <2>3. OnDay(L, T, d) = IF d = day THEN P \cup {i} ELSE P
    BY <1>2
  <2> HIDE DEF day, T, P
  <2>4. Cardinality(OnDay(L, T, d)) = Cardinality(P) + (IF d = day THEN 1 ELSE 0)
    <3>1. Cardinality(P) \in Nat /\ Cardinality(P \cup {i}) = Cardinality(P) + 1
      BY <2>1, <2>2 DEF P
    <3> QED BY <2>3, <3>1
  <2> USE DEF P
  <2> QED BY <2>1, <2>4
<1> DEFINE a == Tally(L, S)
           D == DaysOf(L, S)
<1>5. DOMAIN a = D /\ \A d \in D : a[d] = Cardinality(OnDay(L, S, d))
  BY DEF Tally
<1> HIDE DEF day, T, a, D
<1>6. Added(a, day) = [d \in D \cup {day} |-> (IF d \in D THEN a[d] ELSE 0) + (IF d = day THEN 1 ELSE 0)]
  BY <1>5 DEF Added
<1>7. Tally(L, T) = [d \in D \cup {day} |-> Cardinality(OnDay(L, T, d))]
  BY <1>1 DEF Tally, D
<1>8. \A d \in D \cup {day} : Cardinality(OnDay(L, T, d)) = (IF d \in D THEN a[d] ELSE 0) + (IF d = day THEN 1 ELSE 0)
  BY <1>4, <1>5 DEF D
<1>9. Tally(L, T) = Added(a, day)
  BY <1>6, <1>7, <1>8
<1> QED BY <1>9 DEF T, a, day

LEMMA TallyMerged ==
  ASSUME NEW L, NEW S, IsFiniteSet(S), NEW T, IsFiniteSet(T), S \cap T = {}
  PROVE  Tally(L, S \cup T) = Merged(Tally(L, S), Tally(L, T))
<1> DEFINE U == S \cup T
           D == DaysOf(L, S)
           E == DaysOf(L, T)
           a == Tally(L, S)
           b == Tally(L, T)
<1>1. DaysOf(L, U) = D \cup E
  BY DEF DaysOf
<1>2. ASSUME NEW d
      PROVE  Cardinality(OnDay(L, U, d)) = (IF d \in D THEN Cardinality(OnDay(L, S, d)) ELSE 0)
                                             + (IF d \in E THEN Cardinality(OnDay(L, T, d)) ELSE 0)
  <2> DEFINE P == OnDay(L, S, d)
             Q == OnDay(L, T, d)
  <2>1. IsFiniteSet(P) /\ Cardinality(P) \in Nat /\ (d \notin D => Cardinality(P) = 0)
    BY OnDayCounts
  <2>2. IsFiniteSet(Q) /\ Cardinality(Q) \in Nat /\ (d \notin E => Cardinality(Q) = 0)
    BY OnDayCounts
  <2>3. OnDay(L, U, d) = P \cup Q /\ P \cap Q = {}
    BY DEF OnDay
  <2> HIDE DEF P, Q
  <2>4. Cardinality(P \cup Q) = Cardinality(P) + Cardinality(Q) - Cardinality(P \cap Q)
    BY <2>1, <2>2, FS_Union
  <2>5. Cardinality(P \cap Q) = 0
    BY <2>3, FS_EmptySet
  <2>6. Cardinality(OnDay(L, U, d)) = Cardinality(P) + Cardinality(Q)
    <3>1. Cardinality(P) \in Nat /\ Cardinality(Q) \in Nat
      BY <2>1, <2>2
    <3>2. OnDay(L, U, d) = P \cup Q
      BY <2>3
    <3> HIDE DEF U
    <3> QED BY <2>4, <2>5, <3>1, <3>2
  <2> HIDE DEF D, E, U
  <2>7. Cardinality(OnDay(L, U, d)) = (IF d \in D THEN Cardinality(P) ELSE 0) + (IF d \in E THEN Cardinality(Q) ELSE 0)
    BY <2>1, <2>2, <2>6
  <2> QED BY <2>7 DEF P, Q
<1>3. DOMAIN a = D /\ \A d \in D : a[d] = Cardinality(OnDay(L, S, d))
  BY DEF Tally
<1>4. DOMAIN b = E /\ \A d \in E : b[d] = Cardinality(OnDay(L, T, d))
  BY DEF Tally
<1>5. Tally(L, U) = [d \in DaysOf(L, U) |-> Cardinality(OnDay(L, U, d))]
  BY DEF Tally
<1> HIDE DEF U, D, E, a, b
<1>6. Merged(a, b) = [d \in D \cup E |-> (IF d \in D THEN a[d] ELSE 0) + (IF d \in E THEN b[d] ELSE 0)]
  BY <1>3, <1>4 DEF Merged
<1>7. \A d \in D \cup E : Cardinality(OnDay(L, U, d)) = (IF d \in D THEN a[d] ELSE 0) + (IF d \in E THEN b[d] ELSE 0)
  BY <1>2, <1>3, <1>4
<1>8. Tally(L, U) = Merged(a, b)
  BY <1>1, <1>5, <1>6, <1>7
<1> QED BY <1>8 DEF U, a, b

(* The lines of a log: an iteration of a message comes while few others     *)
(* have begun since the first.                                              *)
FileLines(L) ==
  /\ L \in Seq(Line)
  /\ \A j, i \in 1..Len(L) : j < i /\ FirstAt(L, j) /\ L[j].id = L[i].id
                               => Cardinality(IdAt(L, j..i - 1)) <= TCLookback

LEMMA LinesAre ==
  ASSUME NEW L, FileLines(L)
  PROVE  /\ Len(L) \in Nat /\ DOMAIN L = 1..Len(L)
         /\ \A i \in 1..Len(L) : L[i] \in Line /\ L[i].id \in 1..TCIds /\ L[i].day \in 1..TCDays
<1>1. L \in Seq(Line)
  BY DEF FileLines
<1>2. Len(L) \in Nat /\ DOMAIN L = 1..Len(L) /\ \A i \in 1..Len(L) : L[i] \in Line
  BY <1>1
<1> QED BY <1>2 DEF Line

LEMMA FirstsAre ==
  ASSUME NEW L, FileLines(L), NEW o \in Nat, NEW k \in 0..Len(L)
  PROVE  /\ IsFiniteSet(Firsts(L, o, k)) /\ Firsts(L, o, k) \subseteq 1..Len(L)
         /\ DOMAIN Tally(L, Firsts(L, o, k)) \subseteq 1..TCDays
<1>0. Len(L) \in Nat /\ k \in Int /\ o + 1 \in Int
  BY LinesAre
<1>1. Firsts(L, o, k) \subseteq o + 1..k /\ o + 1..k \subseteq 1..Len(L)
  BY <1>0 DEF Firsts
<1>2. IsFiniteSet(o + 1..k)
  BY <1>0, FS_Interval
<1>3. IsFiniteSet(Firsts(L, o, k))
  BY <1>1, <1>2, FewerFinite
<1>4. \A i \in Firsts(L, o, k) : L[i].day \in 1..TCDays
  BY <1>1, LinesAre
<1>5. DOMAIN Tally(L, Firsts(L, o, k)) \subseteq 1..TCDays
  BY <1>4 DEF Tally, DaysOf
<1> QED BY <1>1, <1>3, <1>5

(* Every message has a first line.                                          *)
LEMMA FirstExists ==
  ASSUME NEW L, NEW i \in Nat, i >= 1
  PROVE  \E j \in 1..i : FirstAt(L, j) /\ L[j].id = L[i].id
<1> DEFINE S == {j \in 1..i : L[j].id = L[i].id}
<1>1. S \subseteq Nat /\ i \in S
  OBVIOUS
<1> DEFINE m == Min(S)
<1>2. m \in S /\ \A y \in S : m <= y
  BY <1>1, MinIsMember
<1> HIDE DEF m
<1>3. \A j \in 1..m - 1 : L[j].id # L[m].id
  <2> SUFFICES ASSUME NEW j \in 1..m - 1, L[j].id = L[m].id PROVE FALSE
    OBVIOUS
  <2>1. m \in 1..i /\ L[m].id = L[i].id
    BY <1>2
  <2>2. j \in 1..i /\ j < m
    BY <2>1
  <2>3. j \in S
    BY <2>1, <2>2
  <2> QED BY <1>2, <2>1, <2>2, <2>3
<1> QED BY <1>2, <1>3 DEF FirstAt

LEMMA FirstIsOne ==
  ASSUME NEW L, NEW i \in Nat, NEW j \in Nat, i >= 1, j >= 1, FirstAt(L, i), FirstAt(L, j), L[i].id = L[j].id
  PROVE  i = j
<1>1. ~(i < j)
  <2> SUFFICES ASSUME i < j PROVE FALSE
    OBVIOUS
  <2>1. i \in 1..j - 1
    OBVIOUS
  <2> QED BY <2>1 DEF FirstAt
<1>2. ~(j < i)
  <2> SUFFICES ASSUME j < i PROVE FALSE
    OBVIOUS
  <2>1. j \in 1..i - 1
    OBVIOUS
  <2> QED BY <2>1 DEF FirstAt
<1> QED BY <1>1, <1>2

(* What a cached tail says of the first o lines.                            *)
Distinct(s) == \A p, q \in DOMAIN s : s[p] = s[q] => p = q
InTurn(s, L, k) ==
  \A p, q \in DOMAIN s : p < q => \E i, j \in 1..k : i < j /\ L[i].id = s[p] /\ L[j].id = s[q]
Recalls(s, L, k) ==
  \A i \in 1..k : FirstAt(L, i) /\ Cardinality(IdAt(L, i..k)) <= TCLookback => L[i].id \in ToSet(s)
TailOK(s, L, k) ==
  /\ s \in Seq(1..TCIds) /\ Distinct(s) /\ ToSet(s) \subseteq IdAt(L, 1..k)
  /\ InTurn(s, L, k) /\ Recalls(s, L, k)

(* All of that depends on the lines so far only.                            *)
LEMMA SameBelow ==
  ASSUME NEW L, NEW K, NEW k \in Nat, \A i \in 1..k : L[i] = K[i]
  PROVE  /\ \A i \in 1..k : FirstAt(L, i) <=> FirstAt(K, i)
         /\ \A I : I \subseteq 1..k => IdAt(L, I) = IdAt(K, I)
         /\ \A o \in Nat : Firsts(L, o, k) = Firsts(K, o, k)
         /\ \A o \in Nat : Tally(L, Firsts(L, o, k)) = Tally(K, Firsts(K, o, k))
         /\ \A s : TailOK(s, L, k) => TailOK(s, K, k)
<1>1. ASSUME NEW i \in 1..k PROVE FirstAt(L, i) <=> FirstAt(K, i)
  <2>1. \A j \in 1..i - 1 : j \in 1..k
    OBVIOUS
  <2>2. \A j \in 1..i - 1 : L[j] = K[j]
    BY <2>1
  <2> QED BY <2>2 DEF FirstAt
<1>2. ASSUME NEW I, I \subseteq 1..k PROVE IdAt(L, I) = IdAt(K, I)
  BY <1>2 DEF IdAt
<1>3. ASSUME NEW o \in Nat PROVE Firsts(L, o, k) = Firsts(K, o, k) /\ Firsts(K, o, k) \subseteq 1..k
  <2>1. o + 1..k \subseteq 1..k
    OBVIOUS
  <2> QED BY <1>1, <2>1 DEF Firsts
<1>4. ASSUME NEW o \in Nat PROVE Tally(L, Firsts(L, o, k)) = Tally(K, Firsts(K, o, k))
  <2> DEFINE S == Firsts(K, o, k)
  <2>1. S \subseteq 1..k /\ Firsts(L, o, k) = S
    BY <1>3
  <2> HIDE DEF S
  <2>2. \A i \in S : L[i] = K[i]
    BY <2>1
  <2>3. DaysOf(L, S) = DaysOf(K, S) /\ \A d : OnDay(L, S, d) = OnDay(K, S, d)
    BY <2>2 DEF DaysOf, OnDay
  <2>4. Tally(L, S) = Tally(K, S)
    BY <2>3 DEF Tally
  <2> QED BY <2>1, <2>4 DEF S
<1>5. ASSUME NEW s, TailOK(s, L, k) PROVE TailOK(s, K, k)
  <2>1. s \in Seq(1..TCIds) /\ Distinct(s) /\ ToSet(s) \subseteq IdAt(L, 1..k) /\ InTurn(s, L, k) /\ Recalls(s, L, k)
    BY <1>5 DEF TailOK
  <2>2. IdAt(L, 1..k) = IdAt(K, 1..k)
    BY <1>2
  <2>3. InTurn(s, K, k)
    <3> SUFFICES ASSUME NEW p \in DOMAIN s, NEW q \in DOMAIN s, p < q
                 PROVE  \E i, j \in 1..k : i < j /\ K[i].id = s[p] /\ K[j].id = s[q]
      BY DEF InTurn
    <3>1. PICK i \in 1..k, j \in 1..k : i < j /\ L[i].id = s[p] /\ L[j].id = s[q]
      BY <2>1 DEF InTurn
    <3> QED BY <3>1
  <2>4. Recalls(s, K, k)
    <3> SUFFICES ASSUME NEW i \in 1..k, FirstAt(K, i), Cardinality(IdAt(K, i..k)) <= TCLookback
                 PROVE  K[i].id \in ToSet(s)
      BY DEF Recalls
    <3>1. i..k \subseteq 1..k
      OBVIOUS
    <3>2. IdAt(L, i..k) = IdAt(K, i..k) /\ FirstAt(L, i) /\ L[i] = K[i]
      BY <1>1, <1>2, <3>1
    <3> QED BY <2>1, <3>2 DEF Recalls
  <2> QED BY <2>1, <2>2, <2>3, <2>4 DEF TailOK
<1> QED BY <1>1, <1>2, <1>3, <1>4, <1>5

LEMMA IdsFinite ==
  ASSUME NEW L, NEW j \in Nat, NEW k \in Nat
  PROVE  IsFiniteSet(IdAt(L, j..k))
<1> DEFINE I == j..k
           f == [i \in I |-> L[i].id]
<1>1. IsFiniteSet(I)
  BY FS_Interval
<1>2. f \in Surjection(I, IdAt(L, I))
  BY DEF IdAt, Surjection
<1> HIDE DEF f, I
<1>3. IsFiniteSet(IdAt(L, I))
  BY <1>1, <1>2, FS_Surjection
<1> QED BY <1>3 DEF I

(* A segment walked from line o + 1 to line k, over a seed good at o.       *)
SegOK(seg, L, o, k) ==
  /\ seg = [days |-> Tally(L, Firsts(L, o, k)), offset |-> k, seed |-> seg.seed, ids |-> seg.ids]
  /\ k \in 0..Len(L) /\ o \in 0..k
  /\ TailOK(seg.seed, L, o)
  /\ seg.ids \in Seq(1..TCIds) /\ ToSet(seg.ids) = IdAt(L, o + 1..k)
  /\ Distinct(seg.ids) /\ InTurn(seg.ids, L, k)

LEMMA NoTail == \A L : TailOK(<<>>, L, 0)
<1> SUFFICES ASSUME NEW L PROVE TailOK(<<>>, L, 0)
  OBVIOUS
<1>1. <<>> \in Seq(1..TCIds) /\ DOMAIN <<>> = {}
  OBVIOUS
<1>2. 1..0 = {}
  OBVIOUS
<1> QED BY <1>1, <1>2 DEF TailOK, Distinct, InTurn, Recalls, ToSet

LEMMA SegStarts ==
  ASSUME NEW L, FileLines(L), NEW o \in 0..Len(L), NEW s, TailOK(s, L, o)
  PROVE  SegOK([Fresh(s) EXCEPT !.offset = o], L, o, o)
<1> DEFINE seg == [Fresh(s) EXCEPT !.offset = o]
<1>1. seg = [days |-> [d \in {} |-> 0], offset |-> o, seed |-> s, ids |-> <<>>]
  BY DEF Fresh
<1> HIDE DEF seg
<1>2. seg.seed = s /\ seg.ids = <<>>
  BY <1>1
<1>3. Len(L) \in Nat /\ o \in Nat
  BY LinesAre
<1>4. o + 1..o = {}
  BY <1>3
<1>5. Firsts(L, o, o) = {} /\ IdAt(L, o + 1..o) = {}
  BY <1>4 DEF Firsts, IdAt
<1>6. Tally(L, Firsts(L, o, o)) = [d \in {} |-> 0]
  BY <1>5, TallyNone
<1>7. <<>> \in Seq(1..TCIds) /\ ToSet(<<>>) = {} /\ Distinct(<<>>) /\ InTurn(<<>>, L, o)
  BY DEF ToSet, Distinct, InTurn
<1>8. seg = [days |-> Tally(L, Firsts(L, o, o)), offset |-> o, seed |-> seg.seed, ids |-> seg.ids]
  BY <1>1, <1>2, <1>6
<1>10. o \in 0..Len(L) /\ o \in 0..o
  BY <1>3
<1>11. TailOK(seg.seed, L, o) /\ seg.ids \in Seq(1..TCIds) /\ ToSet(seg.ids) = IdAt(L, o + 1..o)
  BY <1>2, <1>5, <1>7
<1>12. Distinct(seg.ids) /\ InTurn(seg.ids, L, o)
  BY <1>2, <1>7
<1>9. SegOK(seg, L, o, o)
  BY <1>8, <1>10, <1>11, <1>12 DEF SegOK
<1> QED BY <1>9 DEF seg

(* The next line is counted exactly when it begins a message.               *)
LEMMA SeenIsBegun ==
  ASSUME NEW L, FileLines(L), NEW k \in Nat, k < Len(L), NEW o \in 0..k, NEW s, TailOK(s, L, o)
  PROVE  L[k + 1].id \in ToSet(s) \cup IdAt(L, o + 1..k) <=> ~FirstAt(L, k + 1)
<1> DEFINE x == L[k + 1].id
           i == k + 1
<1>0. Len(L) \in Nat /\ i \in 1..Len(L) /\ i \in Nat /\ i >= 1 /\ i - 1 = k
  BY LinesAre
<1>1. ASSUME x \in ToSet(s) \cup IdAt(L, o + 1..k) PROVE ~FirstAt(L, i)
  <2>1. ToSet(s) \subseteq IdAt(L, 1..o)
    BY DEF TailOK
  <2>2. 1..o \subseteq 1..k /\ o + 1..k \subseteq 1..k
    OBVIOUS
  <2>3. x \in IdAt(L, 1..k)
    BY <1>1, <2>1, <2>2 DEF IdAt
  <2>4. PICK j \in 1..k : L[j].id = x
    BY <2>3 DEF IdAt
  <2> QED BY <1>0, <2>4 DEF FirstAt
<1>2. ASSUME ~FirstAt(L, i) PROVE x \in ToSet(s) \cup IdAt(L, o + 1..k)
  <2>1. PICK j \in 1..i : FirstAt(L, j) /\ L[j].id = x
    BY <1>0, FirstExists
  <2>2. j # i
    BY <1>2, <2>1
  <2>3. j \in 1..k /\ j < i /\ j \in 1..Len(L)
    BY <1>0, <2>1, <2>2
  <2>4. Cardinality(IdAt(L, j..k)) <= TCLookback
    <3>1. Cardinality(IdAt(L, j..i - 1)) <= TCLookback
      <4> HIDE DEF i
      <4> QED BY <1>0, <2>1, <2>3 DEF FileLines, i
    <3> QED BY <1>0, <3>1
  <2>5. CASE j > o
    <3>1. j \in o + 1..k
      BY <2>3, <2>5
    <3> QED BY <2>1, <3>1 DEF IdAt
  <2>6. CASE ~(j > o)
    <3>1. j \in 1..o /\ j..o \subseteq j..k
      BY <2>3, <2>6
    <3>2. IdAt(L, j..o) \subseteq IdAt(L, j..k)
      BY <3>1 DEF IdAt
    <3>3. IsFiniteSet(IdAt(L, j..k))
      <4>1. \A n \in j..k : L[n].id \in 1..TCIds
        BY <1>0, <2>3, LinesAre
      <4> QED BY <1>0, <2>3, IdsFinite
    <3>4. Cardinality(IdAt(L, j..o)) <= Cardinality(IdAt(L, j..k)) /\ Cardinality(IdAt(L, j..o)) \in Nat
          /\ Cardinality(IdAt(L, j..k)) \in Nat
      BY <3>2, <3>3, FewerFinite
    <3>5. Cardinality(IdAt(L, j..o)) <= TCLookback
      BY <2>4, <3>4, TCAssumption
    <3>6. L[j].id \in ToSet(s)
      BY <2>1, <3>1, <3>5 DEF TailOK, Recalls
    <3> QED BY <2>1, <3>6
  <2> QED BY <2>5, <2>6
<1> QED BY <1>1, <1>2

LEMMA WalkedIs ==
  ASSUME NEW d, NEW k, NEW s, NEW i, NEW line
  PROVE  Walked([days |-> d, offset |-> k, seed |-> s, ids |-> i], line)
           = [days |-> IF line.id \in ToSet(s) \cup ToSet(i) THEN d ELSE Added(d, line.day), offset |-> k + 1,
              seed |-> s, ids |-> IF line.id \in ToSet(i) THEN i ELSE Append(i, line.id)]
<1> DEFINE t == [days |-> d, offset |-> k, seed |-> s, ids |-> i]
<1>1. t.days = d /\ t.offset = k /\ t.seed = s /\ t.ids = i
  OBVIOUS
<1>2. \A x, y, z : [t EXCEPT !.days = x, !.offset = y, !.ids = z] = [days |-> x, offset |-> y, seed |-> s, ids |-> z]
  <2> SUFFICES ASSUME NEW x, NEW y, NEW z
               PROVE  [t EXCEPT !.days = x, !.offset = y, !.ids = z] = [days |-> x, offset |-> y, seed |-> s, ids |-> z]
    OBVIOUS
  <2>1. PICK u : u = [t EXCEPT !.days = x]
    OBVIOUS
  <2>2. u = [days |-> x, offset |-> k, seed |-> s, ids |-> i]
    BY <2>1
  <2>3. PICK v : v = [u EXCEPT !.offset = y]
    OBVIOUS
  <2>4. v = [days |-> x, offset |-> y, seed |-> s, ids |-> i]
    BY <2>2, <2>3
  <2>5. [v EXCEPT !.ids = z] = [days |-> x, offset |-> y, seed |-> s, ids |-> z]
    BY <2>4
  <2> HIDE DEF t
  <2>6. [t EXCEPT !.days = x, !.offset = y, !.ids = z] = [v EXCEPT !.ids = z]
    BY <2>1, <2>3
  <2> QED BY <2>5, <2>6
<1>3. Walked(t, line) = [t EXCEPT !.days = IF line.id \in ToSet(t.seed) \cup ToSet(t.ids) THEN t.days ELSE Added(t.days, line.day),
                                  !.offset = t.offset + 1,
                                  !.ids = IF line.id \in ToSet(t.ids) THEN t.ids ELSE Append(t.ids, line.id)]
  BY DEF Walked
<1> HIDE DEF t
<1>4. Walked(t, line) = [t EXCEPT !.days = IF line.id \in ToSet(s) \cup ToSet(i) THEN d ELSE Added(d, line.day),
                                  !.offset = k + 1,
                                  !.ids = IF line.id \in ToSet(i) THEN i ELSE Append(i, line.id)]
  BY <1>1, <1>3
<1> QED BY <1>2, <1>4 DEF t

LEMMA SegWalks ==
  ASSUME NEW L, FileLines(L), NEW k \in Nat, k < Len(L), NEW o, NEW seg, SegOK(seg, L, o, k)
  PROVE  SegOK(Walked(seg, L[k + 1]), L, o, k + 1)
<1> DEFINE x == L[k + 1].id
           day == L[k + 1].day
           w == Walked(seg, L[k + 1])
           a == Tally(L, Firsts(L, o, k))
           seen == ToSet(seg.seed) \cup ToSet(seg.ids)
           ids == IF x \in ToSet(seg.ids) THEN seg.ids ELSE Append(seg.ids, x)
<1>1. /\ seg = [days |-> a, offset |-> k, seed |-> seg.seed, ids |-> seg.ids]
      /\ o \in 0..k
      /\ TailOK(seg.seed, L, o)
      /\ seg.ids \in Seq(1..TCIds) /\ ToSet(seg.ids) = IdAt(L, o + 1..k)
      /\ Distinct(seg.ids) /\ InTurn(seg.ids, L, k)
  BY DEF SegOK
<1>2. w = [days |-> IF x \in seen THEN a ELSE Added(a, day), offset |-> k + 1, seed |-> seg.seed, ids |-> ids]
  <2> HIDE DEF a
  <2>1. Walked([days |-> a, offset |-> k, seed |-> seg.seed, ids |-> seg.ids], L[k + 1])
          = [days |-> IF x \in seen THEN a ELSE Added(a, day), offset |-> k + 1, seed |-> seg.seed, ids |-> ids]
    BY WalkedIs
  <2> QED BY <1>1, <2>1
<1>3. Len(L) \in Nat /\ k + 1 \in 1..Len(L) /\ x \in 1..TCIds
  BY LinesAre
<1>4. x \in seen <=> ~FirstAt(L, k + 1)
  BY <1>1, SeenIsBegun
<1>5. IsFiniteSet(Firsts(L, o, k)) /\ k + 1 \notin Firsts(L, o, k)
  <2>1. o \in Nat /\ k \in 0..Len(L)
    BY <1>1, <1>3
  <2>2. k + 1 \notin o + 1..k
    BY <1>1
  <2> QED BY <2>1, <2>2, FirstsAre DEF Firsts
<1>6. o + 1..k + 1 = (o + 1..k) \cup {k + 1}
  BY <1>1
<1>7. Tally(L, Firsts(L, o, k + 1)) = IF x \in seen THEN a ELSE Added(a, day)
  <2>1. CASE x \in seen
    <3>1. Firsts(L, o, k + 1) = Firsts(L, o, k)
      BY <1>4, <1>6, <2>1 DEF Firsts
    <3> QED BY <2>1, <3>1
  <2>2. CASE x \notin seen
    <3>1. Firsts(L, o, k + 1) = Firsts(L, o, k) \cup {k + 1}
      BY <1>4, <1>6, <2>2 DEF Firsts
    <3>2. Tally(L, Firsts(L, o, k) \cup {k + 1}) = Added(a, day)
      BY <1>5, TallyAdded
    <3> QED BY <2>2, <3>1, <3>2
  <2> QED BY <2>1, <2>2
<1>8. IdAt(L, o + 1..k + 1) = IdAt(L, o + 1..k) \cup {x}
  BY <1>6 DEF IdAt
<1>9. /\ ids \in Seq(1..TCIds) /\ ToSet(ids) = IdAt(L, o + 1..k + 1)
      /\ Distinct(ids) /\ InTurn(ids, L, k + 1)
  <2>0. \A p, q \in DOMAIN seg.ids : p < q => \E i, j \in 1..k + 1 : i < j /\ L[i].id = seg.ids[p] /\ L[j].id = seg.ids[q]
    <3>1. \A i \in 1..k : i \in 1..k + 1
      OBVIOUS
    <3> QED BY <1>1, <3>1 DEF InTurn
  <2>1. CASE x \in ToSet(seg.ids)
    <3>1. ids = seg.ids /\ IdAt(L, o + 1..k + 1) = IdAt(L, o + 1..k)
      BY <1>1, <1>8, <2>1
    <3> QED BY <1>1, <2>0, <3>1 DEF InTurn
  <2>2. CASE x \notin ToSet(seg.ids)
    <3> DEFINE s == seg.ids
               n == Len(s)
    <3>1. n \in Nat /\ DOMAIN s = 1..n /\ ids = Append(s, x)
      BY <1>1, <2>2
    <3>2. /\ ids \in Seq(1..TCIds) /\ DOMAIN ids = 1..n + 1 /\ ids[n + 1] = x
          /\ \A p \in 1..n : ids[p] = s[p]
      <4> HIDE DEF ids
      <4> QED BY <1>1, <1>3, <3>1
    <3>3. \A p \in 1..n + 1 : p # n + 1 => p \in 1..n
      BY <3>1
    <3>4. \A p \in 1..n : p \in 1..n + 1
      BY <3>1
    <3>5. n + 1 \in 1..n + 1
      BY <3>1
    <3>6. \A p \in 1..n : s[p] # x
      BY <2>2, <3>1 DEF ToSet
    <3> HIDE DEF ids, n
    <3>7. ToSet(ids) = ToSet(s) \cup {x}
      BY <3>1, <3>2, <3>3, <3>4, <3>5 DEF ToSet
    <3>8. Distinct(ids)
      BY <1>1, <3>1, <3>2, <3>3, <3>6 DEF Distinct
    <3>9. InTurn(ids, L, k + 1)
      <4> SUFFICES ASSUME NEW p \in 1..n + 1, NEW q \in 1..n + 1, p < q
                   PROVE  \E i, j \in 1..k + 1 : i < j /\ L[i].id = ids[p] /\ L[j].id = ids[q]
        BY <3>2 DEF InTurn
      <4>1. p \in 1..n
        BY <3>1
      <4>2. CASE q \in 1..n
        <5>1. ids[p] = s[p] /\ ids[q] = s[q] /\ p \in DOMAIN s /\ q \in DOMAIN s
          BY <3>1, <3>2, <4>1, <4>2
        <5> QED BY <2>0, <5>1
      <4>3. CASE q = n + 1
        <5>1. s[p] \in IdAt(L, o + 1..k)
          BY <1>1, <3>1, <4>1 DEF ToSet
        <5>2. PICK i \in o + 1..k : L[i].id = s[p]
          BY <5>1 DEF IdAt
        <5>3. i \in 1..k + 1 /\ k + 1 \in 1..k + 1 /\ i < k + 1
          BY <1>1, <5>2
        <5>4. L[i].id = ids[p] /\ L[k + 1].id = ids[q]
          BY <3>2, <4>1, <4>3, <5>2
        <5> QED BY <5>3, <5>4
      <4> QED BY <3>3, <4>2, <4>3
    <3> QED BY <1>1, <1>8, <3>2, <3>7, <3>8, <3>9
  <2> QED BY <2>1, <2>2
<1> HIDE DEF w, a, seen, ids
<1>10. w = [days |-> Tally(L, Firsts(L, o, k + 1)), offset |-> k + 1, seed |-> seg.seed, ids |-> ids]
  BY <1>2, <1>7
<1>11. w.seed = seg.seed /\ w.ids = ids
  BY <1>10
<1>12. w = [days |-> Tally(L, Firsts(L, o, k + 1)), offset |-> k + 1, seed |-> w.seed, ids |-> w.ids]
  BY <1>10, <1>11
<1>13. k + 1 \in 0..Len(L) /\ o \in 0..k + 1
  BY <1>1, <1>3
<1>14. SegOK(w, L, o, k + 1)
  BY <1>1, <1>9, <1>11, <1>12, <1>13 DEF SegOK
<1> QED BY <1>14 DEF w

(* Walking on to the end of the log.                                        *)
WalkRun(g, seg, L, n) == g[0] = seg /\ \A i \in 1..n : g[i] = Walked(g[i - 1], L[seg.offset + i])

LEMMA WalksExist ==
  ASSUME NEW L, NEW seg
  PROVE  \A n \in Nat : \E g : WalkRun(g, seg, L, n)
<1> DEFINE S == {n \in Nat : \E g : WalkRun(g, seg, L, n)}
           Step(c, i) == Walked(c, L[seg.offset + i])
<1>1. 0 \in S
  <2>1. WalkRun([i \in {0} |-> seg], seg, L, 0)
    BY DEF WalkRun
  <2> QED BY <2>1
<1>2. ASSUME NEW n \in Nat, n \in S PROVE n + 1 \in S
  <2>1. PICK g : WalkRun(g, seg, L, n)
    BY <1>2
  <2> DEFINE h == [i \in 0..n + 1 |-> IF i = n + 1 THEN Step(g[n], n + 1) ELSE g[i]]
  <2>2. h[0] = seg /\ h[n] = g[n]
    BY <2>1 DEF WalkRun
  <2>3. ASSUME NEW i \in 1..n + 1 PROVE h[i] = Step(h[i - 1], i)
    <3>1. CASE i = n + 1
      <4>1. h[i] = Step(g[n], n + 1) /\ i - 1 = n
        BY <3>1
      <4> HIDE DEF h, Step
      <4> QED BY <2>2, <3>1, <4>1
    <3>2. CASE i # n + 1
      <4>1. i \in 1..n /\ i - 1 \in 0..n + 1 /\ i - 1 # n + 1
        BY <3>2
      <4>2. h[i] = g[i] /\ h[i - 1] = g[i - 1]
        BY <3>2, <4>1
      <4>3. g[i] = Step(g[i - 1], i)
        BY <2>1, <4>1 DEF WalkRun
      <4> HIDE DEF h, Step
      <4> QED BY <4>2, <4>3
    <3> QED BY <3>1, <3>2
  <2> HIDE DEF h
  <2>4. WalkRun(h, seg, L, n + 1)
    BY <2>2, <2>3 DEF WalkRun
  <2> QED BY <2>4
<1> HIDE DEF S
<1>3. \A n \in Nat : n \in S
  BY <1>1, <1>2, UpFromZero
<1> QED BY <1>3 DEF S

LEMMA WalkedOnRuns ==
  ASSUME NEW L, NEW seg, Len(L) - seg.offset \in Nat
  PROVE  \E g : WalkRun(g, seg, L, Len(L) - seg.offset) /\ WalkedOn(seg, L) = g[Len(L) - seg.offset]
<1> DEFINE rest == Len(L) - seg.offset
           Body(g) == [i \in 0..rest |-> IF i = 0 THEN seg ELSE Walked(g[i - 1], L[seg.offset + i])]
           walk == CHOOSE g : g = Body(g)
<1>1. \E g : g = Body(g)
  <2>1. PICK g : WalkRun(g, seg, L, rest)
    BY WalksExist
  <2> DEFINE h == [i \in 0..rest |-> g[i]]
  <2>2. ASSUME NEW i \in 0..rest
        PROVE  h[i] = IF i = 0 THEN seg ELSE Walked(h[i - 1], L[seg.offset + i])
    <3>1. CASE i = 0
      BY <2>1, <3>1 DEF WalkRun
    <3>2. CASE i # 0
      <4>1. i \in 1..rest /\ i - 1 \in 0..rest
        BY <3>2
      <4>2. h[i] = g[i] /\ h[i - 1] = g[i - 1]
        BY <4>1
      <4> HIDE DEF h
      <4> QED BY <2>1, <3>2, <4>1, <4>2 DEF WalkRun
    <3> QED BY <3>1, <3>2
  <2>3. h = [i \in 0..rest |-> h[i]]
    OBVIOUS
  <2> HIDE DEF h
  <2>4. h = Body(h)
    BY <2>2, <2>3
  <2> QED BY <2>4
<1>2. WalkedOn(seg, L) = walk[rest]
  BY DEF WalkedOn
<1> HIDE DEF Body
<1>3. walk = Body(walk)
  BY <1>1
<1> USE DEF Body
<1>4. 0 \in 0..rest /\ \A i \in 1..rest : i \in 0..rest /\ i # 0
  OBVIOUS
<1> HIDE DEF rest, walk
<1>5. WalkRun(walk, seg, L, rest)
  BY <1>3, <1>4 DEF WalkRun
<1> QED BY <1>2, <1>5 DEF rest

LEMMA WalkEnds ==
  ASSUME NEW L, FileLines(L), NEW o, NEW k, NEW seg, SegOK(seg, L, o, k)
  PROVE  SegOK(WalkedOn(seg, L), L, o, Len(L))
<1>1. k \in 0..Len(L) /\ seg.offset = k /\ Len(L) \in Nat
  BY LinesAre DEF SegOK
<1> DEFINE rest == Len(L) - k
<1>2. rest \in Nat /\ k + rest = Len(L)
  BY <1>1
<1>3. PICK g : WalkRun(g, seg, L, rest) /\ WalkedOn(seg, L) = g[rest]
  BY <1>1, <1>2, WalkedOnRuns
<1> DEFINE S == {n \in Nat : n <= rest => SegOK(g[n], L, o, k + n)}
<1> HIDE DEF rest
<1>4. 0 \in S
  <2>1. g[0] = seg /\ k + 0 = k
    BY <1>1, <1>3 DEF WalkRun
  <2> QED BY <2>1
<1>5. ASSUME NEW n \in Nat, n \in S PROVE n + 1 \in S
  <2> SUFFICES ASSUME n + 1 <= rest PROVE SegOK(g[n + 1], L, o, k + (n + 1))
    OBVIOUS
  <2>1. SegOK(g[n], L, o, k + n)
    BY <1>2, <1>5
  <2>2. n + 1 \in 1..rest /\ (n + 1) - 1 = n /\ k + (n + 1) = (k + n) + 1 /\ k + n \in Nat /\ k + n < Len(L)
    BY <1>1, <1>2
  <2>3. g[n + 1] = Walked(g[n], L[(k + n) + 1])
    BY <1>1, <1>3, <2>2 DEF WalkRun
  <2>4. SegOK(Walked(g[n], L[(k + n) + 1]), L, o, (k + n) + 1)
    BY <2>1, <2>2, SegWalks
  <2> QED BY <2>2, <2>3, <2>4
<1> HIDE DEF S
<1>6. rest \in S
  BY <1>2, <1>4, <1>5, UpFromZero
<1>7. SegOK(g[rest], L, o, k + rest)
  BY <1>2, <1>6 DEF S
<1> QED BY <1>2, <1>3, <1>7

(* What is counted up to a resume point and from there is what a read of    *)
(* all counts.                                                              *)
LEMMA FirstsSplit ==
  ASSUME NEW L, FileLines(L), NEW k \in 0..Len(L), NEW o \in 0..k
  PROVE  Trimmed(Merged(Trimmed(Tally(L, Firsts(L, 0, o))), Tally(L, Firsts(L, o, k))))
           = Trimmed(Tally(L, Firsts(L, 0, k)))
<1> DEFINE S == Firsts(L, 0, o)
           T == Firsts(L, o, k)
<1>1. Len(L) \in Nat /\ o \in 0..Len(L) /\ o \in Nat
  BY LinesAre
<1>2. /\ IsFiniteSet(S) /\ DOMAIN Tally(L, S) \subseteq 1..TCDays
      /\ IsFiniteSet(T) /\ DOMAIN Tally(L, T) \subseteq 1..TCDays
  BY <1>1, FirstsAre
<1>3. S \cap T = {}
  BY <1>1 DEF Firsts
<1>4. Firsts(L, 0, k) = S \cup T
  <2>1. 0 + 1..k = (0 + 1..o) \cup (o + 1..k)
    BY <1>1
  <2> QED BY <2>1 DEF Firsts
<1> HIDE DEF S, T
<1>5. Tally(L, S \cup T) = Merged(Tally(L, S), Tally(L, T))
  BY <1>2, <1>3, TallyMerged
<1>6. Trimmed(Merged(Trimmed(Tally(L, S)), Tally(L, T))) = Trimmed(Tally(L, S \cup T))
  BY <1>2, <1>5, TrimMerged
<1> QED BY <1>4, <1>6 DEF S, T

LEMMA FullWalkIs ==
  ASSUME NEW f, FileLines(f.lines)
  PROVE  FullWalk(f).days = Tally(f.lines, Firsts(f.lines, 0, Len(f.lines)))
<1> DEFINE L == f.lines
<1>1. Len(L) \in Nat
  BY LinesAre
<1>2. Fresh(<<>>) = [Fresh(<<>>) EXCEPT !.offset = 0]
  BY DEF Fresh
<1>3. SegOK([Fresh(<<>>) EXCEPT !.offset = 0], L, 0, 0)
  <2> HIDE DEF L
  <2>1. 0 \in 0..Len(L) /\ FileLines(L)
    BY <1>1 DEF L
  <2> QED BY <2>1, NoTail, SegStarts
<1>4. SegOK(WalkedOn(Fresh(<<>>), L), L, 0, Len(L))
  BY <1>2, <1>3, WalkEnds
<1>5. FullWalk(f) = WalkedOn(Fresh(<<>>), L)
  BY DEF FullWalk
<1> HIDE DEF L
<1>6. SegOK(FullWalk(f), L, 0, Len(L))
  BY <1>4, <1>5
<1>7. FullWalk(f).days = Tally(L, Firsts(L, 0, Len(L)))
  BY <1>6 DEF SegOK
<1> QED BY <1>7 DEF L

(* The elements of a sequence at some places, in order.                     *)
LEMMA PickedIs ==
  ASSUME NEW R, NEW s \in Seq(R), NEW K, K \subseteq DOMAIN s
  PROVE  LET m == Cardinality(K)
         IN  /\ m \in Nat /\ Picked(s, K) \in Seq(R) /\ DOMAIN Picked(s, K) = 1..m
             /\ \A k \in 1..m : Nth(K, k) \in K /\ Picked(s, K)[k] = s[Nth(K, k)]
             /\ \A k, l \in 1..m : k < l => Nth(K, k) < Nth(K, l)
             /\ \A i \in K : \E k \in 1..m : Nth(K, k) = i
<1> DEFINE N == Len(s)
           m == Cardinality(K)
<1>1. N \in Nat /\ DOMAIN s = 1..N
  OBVIOUS
<1>2. K \subseteq 1..N
  BY <1>1
<1>3. Picked(s, K) = [k \in 1..m |-> s[Nth(K, k)]]
  BY DEF Picked
<1> HIDE DEF N
<1>4. /\ m \in Nat
      /\ \A i \in K : Cardinality(RanksTo(K, i)) \in 1..m
      /\ \A i, j \in K : i < j => Cardinality(RanksTo(K, i)) < Cardinality(RanksTo(K, j))
      /\ \A k \in 1..m : \E i \in K : Cardinality(RanksTo(K, i)) = k
  BY <1>1, <1>2, RankedFromBelow
<1>5. \A k \in 1..m : Nth(K, k) \in K /\ Cardinality(RanksTo(K, Nth(K, k))) = k
  <2>1. \A k : Nth(K, k) = CHOOSE i \in K : Cardinality(RanksTo(K, i)) = k
    BY DEF Nth, RanksTo
  <2> HIDE DEF m
  <2> QED BY <1>4, <2>1
<1> HIDE DEF m
<1>6. ASSUME NEW k \in 1..m
      PROVE  Nth(K, k) \in K /\ Picked(s, K)[k] = s[Nth(K, k)] /\ s[Nth(K, k)] \in R
  <2>1. PICK i \in K : i = Nth(K, k)
    BY <1>5
  <2>2. s[i] \in R
    BY <1>1, <1>2
  <2> QED BY <1>3, <2>1, <2>2
<1>7. Picked(s, K) \in Seq(R) /\ DOMAIN Picked(s, K) = 1..m
  <2>1. Picked(s, K) \in [1..m -> R]
    BY <1>3, <1>6
  <2> QED BY <1>3, <1>4, <2>1
<1>8. ASSUME NEW k \in 1..m, NEW l \in 1..m, k < l PROVE Nth(K, k) < Nth(K, l)
  <2>1. PICK i \in K, j \in K : i = Nth(K, k) /\ j = Nth(K, l)
    BY <1>5
  <2>2. Cardinality(RanksTo(K, i)) = k /\ Cardinality(RanksTo(K, j)) = l
    BY <1>5, <2>1
  <2>3. i \in Int /\ j \in Int /\ k \in Int /\ l \in Int
    BY <1>1, <1>2
  <2>4. i # j
    BY <1>8, <2>2, <2>3
  <2>5. j < i => Cardinality(RanksTo(K, j)) < Cardinality(RanksTo(K, i))
    BY <1>4
  <2>6. ~(j < i)
    BY <1>8, <2>2, <2>3, <2>5
  <2> QED BY <2>1, <2>3, <2>4, <2>6
<1>9. ASSUME NEW i \in K PROVE \E k \in 1..m : Nth(K, k) = i
  <2>1. PICK k \in 1..m : Cardinality(RanksTo(K, i)) = k
    BY <1>4
  <2>2. Cardinality(RanksTo(K, Nth(K, k))) = k /\ Nth(K, k) \in K
    BY <1>5
  <2>3. PICK j \in K : j = Nth(K, k)
    BY <2>2
  <2>4. i \in Int /\ j \in Int
    BY <1>1, <1>2
  <2>5. ~(i < j) /\ ~(j < i)
    <3>1. Cardinality(RanksTo(K, i)) \in Int
      BY <1>4
    <3> QED BY <1>4, <2>1, <2>2, <2>3, <3>1
  <2> QED BY <2>3, <2>4, <2>5
<1> QED BY <1>4, <1>6, <1>7, <1>8, <1>9 DEF m

(* All the ids a segment knows, oldest first.                               *)
AllIds(seg) == Picked(seg.seed, Unseen(seg)) \o seg.ids

LEMMA AllIdsAre ==
  ASSUME NEW L, FileLines(L), NEW o, NEW k, NEW seg, SegOK(seg, L, o, k)
  PROVE  /\ AllIds(seg) \in Seq(1..TCIds) /\ Distinct(AllIds(seg))
         /\ ToSet(AllIds(seg)) = ToSet(seg.seed) \cup ToSet(seg.ids)
         /\ ToSet(AllIds(seg)) \subseteq IdAt(L, 1..k)
         /\ InTurn(AllIds(seg), L, k)
<1> DEFINE s == seg.seed
           ids == seg.ids
           K == Unseen(seg)
           old == Picked(s, K)
           all == AllIds(seg)
           m == Cardinality(K)
           n == Len(ids)
<1>1. /\ k \in 0..Len(L) /\ o \in 0..k /\ Len(L) \in Nat
      /\ s \in Seq(1..TCIds) /\ Distinct(s) /\ ToSet(s) \subseteq IdAt(L, 1..o) /\ InTurn(s, L, o)
      /\ ids \in Seq(1..TCIds) /\ ToSet(ids) = IdAt(L, o + 1..k) /\ Distinct(ids) /\ InTurn(ids, L, k)
  BY LinesAre DEF SegOK, TailOK
<1>2. K \subseteq DOMAIN s /\ \A i \in DOMAIN s : i \in K <=> s[i] \notin ToSet(ids)
  BY DEF Unseen
<1>3. all = old \o ids
  BY DEF AllIds
<1> HIDE DEF s, ids, K, all
<1>4. /\ m \in Nat /\ old \in Seq(1..TCIds) /\ DOMAIN old = 1..m
      /\ \A p \in 1..m : Nth(K, p) \in K /\ old[p] = s[Nth(K, p)]
      /\ \A p, q \in 1..m : p < q => Nth(K, p) < Nth(K, q)
      /\ \A i \in K : \E p \in 1..m : Nth(K, p) = i
  BY <1>1, <1>2, PickedIs
<1> HIDE DEF old, m
<1>5. Len(old) = m /\ n \in Nat /\ DOMAIN ids = 1..n
  BY <1>1, <1>4
<1>6. /\ all \in Seq(1..TCIds) /\ DOMAIN all = 1..m + n
      /\ \A p \in 1..m : all[p] = old[p]
      /\ \A p \in m + 1..m + n : all[p] = ids[p - m]
  <2>1. /\ all \in Seq(1..TCIds) /\ Len(all) = m + n
        /\ \A p \in 1..m + n : all[p] = IF p <= m THEN old[p] ELSE ids[p - m]
    <3>1. /\ old \o ids \in Seq(1..TCIds)
          /\ Len(old \o ids) = Len(old) + Len(ids)
          /\ \A p \in 1..Len(old) + Len(ids) : (old \o ids)[p] = IF p <= Len(old) THEN old[p] ELSE ids[p - Len(old)]
      BY <1>1, <1>4, ConcatProperties
    <3> QED BY <1>3, <1>5, <3>1
  <2> HIDE DEF n
  <2>2. DOMAIN all = 1..m + n
    BY <2>1
  <2>3. \A p \in 1..m : p \in 1..m + n /\ p <= m
    BY <1>4, <1>5
  <2>4. \A p \in m + 1..m + n : p \in 1..m + n /\ ~(p <= m)
    BY <1>4, <1>5
  <2> QED BY <2>1, <2>2, <2>3, <2>4
<1> HIDE DEF n
<1>7. \A p \in 1..m + n : (p \in 1..m \/ (p \in m + 1..m + n /\ p - m \in 1..n)) /\ p \in Int
  BY <1>4, <1>5
<1>8. \A p \in 1..m : old[p] \in ToSet(s) /\ old[p] \notin ToSet(ids)
  BY <1>2, <1>4 DEF ToSet
<1>9. \A p \in 1..n : ids[p] \in ToSet(ids)
  BY <1>5 DEF ToSet
<1>10. Distinct(all)
  <2> SUFFICES ASSUME NEW p \in 1..m + n, NEW q \in 1..m + n, all[p] = all[q] PROVE p = q
    BY <1>6 DEF Distinct
  <2>1. CASE p \in 1..m /\ q \in 1..m
    <3>1. s[Nth(K, p)] = s[Nth(K, q)] /\ Nth(K, p) \in K /\ Nth(K, q) \in K
      BY <1>4, <1>6, <2>1
    <3>2. Nth(K, p) = Nth(K, q)
      BY <1>1, <1>2, <3>1 DEF Distinct
    <3>3. Nth(K, p) \in Int
      <4>1. \A i \in DOMAIN s : i \in Int
        BY <1>1
      <4> QED BY <1>2, <3>1, <4>1
    <3>4. ~(p < q) /\ ~(q < p)
      <4>1. ~(Nth(K, p) < Nth(K, q)) /\ ~(Nth(K, q) < Nth(K, p))
        BY <3>2, <3>3
      <4> QED BY <1>4, <2>1, <4>1
    <3> QED BY <1>7, <3>4
  <2>2. CASE p \in m + 1..m + n /\ q \in m + 1..m + n
    <3>1. ids[p - m] = ids[q - m] /\ p - m \in 1..n /\ q - m \in 1..n
      BY <1>4, <1>5, <1>6, <2>2
    <3>2. p - m = q - m
      BY <1>1, <1>5, <3>1 DEF Distinct
    <3> QED BY <1>4, <1>7, <3>2
  <2>3. CASE p \in 1..m /\ q \in m + 1..m + n
    <3>1. all[p] \notin ToSet(ids) /\ all[q] \in ToSet(ids)
      BY <1>6, <1>7, <1>8, <1>9, <2>3, <1>4, <1>5
    <3> QED BY <3>1
  <2>4. CASE q \in 1..m /\ p \in m + 1..m + n
    <3>1. all[q] \notin ToSet(ids) /\ all[p] \in ToSet(ids)
      BY <1>6, <1>7, <1>8, <1>9, <2>4, <1>4, <1>5
    <3> QED BY <3>1
  <2> QED BY <1>7, <2>1, <2>2, <2>3, <2>4
<1>11. ToSet(all) = ToSet(s) \cup ToSet(ids)
  <2>1. ASSUME NEW x \in ToSet(all) PROVE x \in ToSet(s) \cup ToSet(ids)
    <3>1. PICK p \in 1..m + n : x = all[p]
      BY <1>6 DEF ToSet
    <3>2. CASE p \in 1..m
      BY <1>6, <1>8, <3>1, <3>2
    <3>3. CASE p \in m + 1..m + n /\ p - m \in 1..n
      BY <1>6, <1>9, <3>1, <3>3
    <3> QED BY <1>7, <3>2, <3>3
  <2>2. ASSUME NEW x \in ToSet(ids) PROVE x \in ToSet(all)
    <3>1. PICK p \in 1..n : x = ids[p]
      BY <1>5 DEF ToSet
    <3>2. m + p \in m + 1..m + n /\ m + p \in 1..m + n /\ (m + p) - m = p
      BY <1>4, <1>5
    <3>3. all[m + p] = x
      BY <1>6, <3>1, <3>2
    <3> QED BY <1>6, <3>2, <3>3 DEF ToSet
  <2>3. ASSUME NEW x \in ToSet(s), x \notin ToSet(ids) PROVE x \in ToSet(all)
    <3>1. PICK i \in DOMAIN s : x = s[i]
      BY DEF ToSet
    <3>2. PICK p \in 1..m : Nth(K, p) = i
      BY <1>2, <1>4, <2>3, <3>1
    <3>3. all[p] = x /\ p \in 1..m + n
      BY <1>4, <1>5, <1>6, <3>1, <3>2
    <3> QED BY <1>6, <3>3 DEF ToSet
  <2> QED BY <2>1, <2>2, <2>3
<1>12. ToSet(all) \subseteq IdAt(L, 1..k)
  <2>1. 1..o \subseteq 1..k /\ o + 1..k \subseteq 1..k
    BY <1>1
  <2>2. IdAt(L, 1..o) \subseteq IdAt(L, 1..k) /\ IdAt(L, o + 1..k) \subseteq IdAt(L, 1..k)
    BY <2>1 DEF IdAt
  <2> QED BY <1>1, <1>11, <2>2
<1>13. InTurn(all, L, k)
  <2> SUFFICES ASSUME NEW p \in 1..m + n, NEW q \in 1..m + n, p < q
               PROVE  \E i, j \in 1..k : i < j /\ L[i].id = all[p] /\ L[j].id = all[q]
    BY <1>6 DEF InTurn
  <2>1. CASE p \in 1..m /\ q \in 1..m
    <3>1. all[p] = s[Nth(K, p)] /\ all[q] = s[Nth(K, q)] /\ Nth(K, p) \in DOMAIN s /\ Nth(K, q) \in DOMAIN s
          /\ Nth(K, p) < Nth(K, q)
      BY <1>2, <1>4, <1>6, <2>1
    <3>2. PICK i \in 1..o, j \in 1..o : i < j /\ L[i].id = s[Nth(K, p)] /\ L[j].id = s[Nth(K, q)]
      BY <1>1, <3>1 DEF InTurn
    <3>3. i \in 1..k /\ j \in 1..k
      BY <1>1
    <3> QED BY <3>1, <3>2, <3>3
  <2>2. CASE p \in m + 1..m + n /\ q \in m + 1..m + n
    <3> DEFINE a == p - m
               b == q - m
    <3>4. all[p] = ids[a] /\ all[q] = ids[b] /\ a \in 1..n /\ b \in 1..n /\ a < b
      BY <1>4, <1>5, <1>6, <2>2
    <3> HIDE DEF a, b
    <3>5. \E i, j \in 1..k : i < j /\ L[i].id = ids[a] /\ L[j].id = ids[b]
      <4>1. InTurn(ids, L, k)
        BY <1>1
      <4> QED BY <1>5, <3>4, <4>1 DEF InTurn
    <3> QED BY <3>4, <3>5
  <2>3. CASE p \in 1..m /\ q \in m + 1..m + n
    <3>1. all[p] \in ToSet(s) /\ all[q] \in ToSet(ids)
      BY <1>6, <1>7, <1>8, <1>9, <2>3, <1>4, <1>5
    <3>2. all[p] \in IdAt(L, 1..o) /\ all[q] \in IdAt(L, o + 1..k)
      BY <1>1, <3>1
    <3>3. PICK i \in 1..o : L[i].id = all[p]
      BY <3>2 DEF IdAt
    <3>4. PICK j \in o + 1..k : L[j].id = all[q]
      BY <3>2 DEF IdAt
    <3>5. i \in 1..k /\ j \in 1..k /\ i < j
      BY <1>1
    <3> QED BY <3>3, <3>4, <3>5
  <2>4. CASE q \in 1..m /\ p \in m + 1..m + n
    <3>1. FALSE
      BY <1>4, <1>5, <2>4
    <3> QED BY <3>1
  <2> QED BY <1>7, <2>1, <2>2, <2>3, <2>4
<1> QED BY <1>6, <1>10, <1>11, <1>12, <1>13 DEF s, ids, all

(* A message still being streamed is among the last ids known.              *)
LEMMA StillKnown ==
  ASSUME NEW L, FileLines(L), NEW o, NEW k, NEW seg, SegOK(seg, L, o, k),
         NEW i \in 1..k, FirstAt(L, i), Cardinality(IdAt(L, i..k)) <= TCLookback
  PROVE  \E p \in DOMAIN AllIds(seg) : AllIds(seg)[p] = L[i].id /\ Len(AllIds(seg)) - p < TCLookback
<1> DEFINE all == AllIds(seg)
           x == L[i].id
           n == Len(all)
<1>1. /\ all \in Seq(1..TCIds) /\ Distinct(all)
      /\ ToSet(all) = ToSet(seg.seed) \cup ToSet(seg.ids) /\ InTurn(all, L, k)
  BY AllIdsAre
<1>2. /\ k \in 0..Len(L) /\ o \in 0..k /\ Len(L) \in Nat /\ TailOK(seg.seed, L, o)
      /\ ToSet(seg.ids) = IdAt(L, o + 1..k)
  BY LinesAre DEF SegOK
<1> HIDE DEF all
<1>3. n \in Nat /\ DOMAIN all = 1..n
  BY <1>1
<1>4. IsFiniteSet(IdAt(L, i..k))
  BY <1>2, IdsFinite
<1>5. x \in ToSet(all)
  <2>1. CASE i > o
    <3>1. i \in o + 1..k
      BY <1>2, <2>1
    <3> QED BY <1>1, <1>2, <3>1 DEF IdAt
  <2>2. CASE ~(i > o)
    <3>1. i \in 1..o /\ i..o \subseteq i..k
      BY <1>2, <2>2
    <3>2. IdAt(L, i..o) \subseteq IdAt(L, i..k)
      BY <3>1 DEF IdAt
    <3>3. Cardinality(IdAt(L, i..o)) <= Cardinality(IdAt(L, i..k)) /\ Cardinality(IdAt(L, i..o)) \in Nat
          /\ Cardinality(IdAt(L, i..k)) \in Nat
      BY <1>4, <3>2, FewerFinite
    <3>4. Cardinality(IdAt(L, i..o)) <= TCLookback
      BY <3>3, TCAssumption
    <3>5. x \in ToSet(seg.seed)
      BY <1>2, <3>1, <3>4 DEF TailOK, Recalls
    <3> QED BY <1>1, <3>5
  <2> QED BY <2>1, <2>2
<1>6. PICK p \in 1..n : all[p] = x
  BY <1>3, <1>5 DEF ToSet
<1> DEFINE I == p..n
<1>7. ValuesAt(all, I) \subseteq IdAt(L, i..k)
  <2> SUFFICES ASSUME NEW q \in I PROVE all[q] \in IdAt(L, i..k)
    BY DEF ValuesAt
  <2>1. q \in 1..n /\ (q = p \/ p < q)
    BY <1>3
  <2>2. CASE q = p
    <3>1. i \in i..k
      BY <1>2
    <3> QED BY <1>6, <2>2, <3>1 DEF IdAt
  <2>3. CASE p < q
    <3>1. PICK a \in 1..k, b \in 1..k : a < b /\ L[a].id = x /\ L[b].id = all[q]
      <4>1. p \in DOMAIN all /\ q \in DOMAIN all
        BY <1>3, <2>1
      <4> HIDE DEF n, x
      <4>2. \E a, b \in 1..k : a < b /\ L[a].id = all[p] /\ L[b].id = all[q]
        BY <1>1, <2>3, <4>1 DEF InTurn
      <4> QED BY <1>6, <4>2
    <3>2. ~(a < i)
      <4> SUFFICES ASSUME a < i PROVE FALSE
        OBVIOUS
      <4>1. a \in 1..i - 1
        BY <1>2
      <4> QED BY <3>1, <4>1 DEF FirstAt
    <3>3. b \in i..k
      BY <1>2, <3>1, <3>2
    <3> QED BY <3>1, <3>3 DEF IdAt
  <2> QED BY <2>1, <2>2, <2>3
<1>8. IsFiniteSet(I) /\ Cardinality(I) = n - p + 1
  <2>1. p \in Int /\ n \in Int /\ ~(p > n)
    BY <1>3
  <2> QED BY <2>1, FS_Interval
<1>9. \A a, b \in I : all[a] = all[b] => a = b
  <2>1. I \subseteq 1..n
    BY <1>3
  <2> QED BY <1>1, <1>3, <2>1 DEF Distinct
<1> HIDE DEF I
<1>10. Cardinality(ValuesAt(all, I)) = n - p + 1
  BY <1>8, <1>9, Images
<1>11. n - p + 1 <= Cardinality(IdAt(L, i..k)) /\ Cardinality(IdAt(L, i..k)) \in Nat
  BY <1>4, <1>7, <1>10, FewerFinite
<1>12. n - p < TCLookback
  BY <1>3, <1>11, TCAssumption
<1>13. \E r \in DOMAIN all : all[r] = x /\ Len(all) - r < TCLookback
  BY <1>3, <1>6, <1>12
<1> QED BY <1>13 DEF all

LEMMA CarriedOK ==
  ASSUME NEW L, FileLines(L), NEW o, NEW k, NEW seg, SegOK(seg, L, o, k)
  PROVE  TailOK(CarriedIds(seg), L, k) /\ Len(CarriedIds(seg)) <= TCLookback
<1> DEFINE all == AllIds(seg)
           n == Len(all)
           from == IF n > TCLookback THEN n - TCLookback + 1 ELSE 1
           s == CarriedIds(seg)
           m == n - from + 1
<1>1. /\ all \in Seq(1..TCIds) /\ Distinct(all) /\ ToSet(all) \subseteq IdAt(L, 1..k) /\ InTurn(all, L, k)
  BY AllIdsAre
<1>2. s = SubSeq(all, from, n)
  BY DEF CarriedIds, AllIds
<1>3. \A i \in 1..k : FirstAt(L, i) /\ Cardinality(IdAt(L, i..k)) <= TCLookback =>
         \E p \in DOMAIN all : all[p] = L[i].id /\ n - p < TCLookback
  BY StillKnown
<1> HIDE DEF all, s
<1>4. n \in Nat /\ DOMAIN all = 1..n /\ \A i \in 1..n : all[i] \in 1..TCIds
  <2>1. n \in Nat /\ DOMAIN all = 1..n
    BY <1>1
  <2>2. \A i \in 1..n : all[i] \in 1..TCIds
    BY <1>1, ElementOfSeq
  <2> QED BY <2>1, <2>2
<1> HIDE DEF n
<1>5. from \in Nat /\ from >= 1 /\ from <= n + 1 /\ m \in Nat /\ m <= TCLookback
  BY <1>4, TCAssumption
<1>6. \A i \in from..n : i \in 1..n
  BY <1>4, <1>5
<1>7. \A p \in DOMAIN all : n - p < TCLookback => p \in from..n
  BY <1>4, TCAssumption
<1> HIDE DEF from
<1>8. /\ s \in Seq(1..TCIds) /\ Len(s) = m
      /\ \A i \in 1..m : s[i] = all[from + i - 1]
  <2>1. \A i \in from..n : all[i] \in 1..TCIds
    BY <1>4, <1>6
  <2>2. /\ s \in Seq(1..TCIds) /\ Len(s) = (IF from <= n THEN n - from + 1 ELSE 0)
        /\ \A i \in 1..n - from + 1 : s[i] = all[from + i - 1]
    BY <1>2, <1>4, <1>5, <2>1, SubSeqProperties
  <2> QED BY <1>4, <1>5, <2>2
<1>9. DOMAIN s = 1..m
  BY <1>8
<1>10. \A p \in 1..m : from + p - 1 \in 1..n
  BY <1>4, <1>5
<1> DEFINE at(p) == from + p - 1
<1>11. \A p \in 1..m : at(p) \in DOMAIN all /\ s[p] = all[at(p)]
  BY <1>4, <1>8, <1>10
<1>12. Distinct(s)
  <2> SUFFICES ASSUME NEW p \in 1..m, NEW q \in 1..m, s[p] = s[q] PROVE p = q
    BY <1>9 DEF Distinct
  <2>1. at(p) = at(q)
    BY <1>1, <1>11 DEF Distinct
  <2> QED BY <1>5, <2>1
<1>13. ToSet(s) \subseteq IdAt(L, 1..k)
  <2>1. \A p \in 1..m : s[p] \in ToSet(all)
    BY <1>11 DEF ToSet
  <2> QED BY <1>1, <1>9, <2>1 DEF ToSet
<1>14. InTurn(s, L, k)
  <2> SUFFICES ASSUME NEW p \in 1..m, NEW q \in 1..m, p < q
               PROVE  \E i, j \in 1..k : i < j /\ L[i].id = s[p] /\ L[j].id = s[q]
    BY <1>9 DEF InTurn
  <2>1. at(p) < at(q)
    BY <1>5
  <2> HIDE DEF at
  <2> QED BY <1>1, <1>11, <2>1 DEF InTurn
<1>15. Recalls(s, L, k)
  <2> SUFFICES ASSUME NEW i \in 1..k, FirstAt(L, i), Cardinality(IdAt(L, i..k)) <= TCLookback
               PROVE  L[i].id \in ToSet(s)
    BY DEF Recalls
  <2>1. PICK p \in DOMAIN all : all[p] = L[i].id /\ n - p < TCLookback
    BY <1>3
  <2>2. p \in from..n
    BY <1>7, <2>1
  <2> DEFINE q == p - from + 1
  <2>3. q \in 1..m /\ from + q - 1 = p
    BY <1>4, <1>5, <2>2
  <2>4. s[q] = L[i].id
    BY <1>8, <2>1, <2>3
  <2> QED BY <1>9, <2>3, <2>4 DEF ToSet
<1>16. TailOK(s, L, k)
  BY <1>8, <1>12, <1>13, <1>14, <1>15 DEF TailOK
<1>17. Len(s) <= TCLookback
  BY <1>5, <1>8
<1> QED BY <1>16, <1>17 DEF s

(* The log.  Changes of it are told apart by mtime, and replacements by      *)
(* where they begin.                                                        *)
LogInv ==
  /\ tcWrites \in Nat
  /\ tcFile = TCNone \/ (/\ tcFile \in File /\ FileLines(tcFile.lines)
                         /\ Len(tcFile.lines) <= TCMaxLines
                         /\ tcFile.head < tcWrites /\ tcFile.mtime <= tcWrites)

(* What the first k lines count, trimmed.                                   *)
CountTo(L, k) == Trimmed(Tally(L, Firsts(L, 0, k)))

(* An entry counts a beginning of the log it was made of, and all of a log  *)
(* that has not changed since.                                              *)
EntryFits(e, f) ==
  /\ e.head # TCNone /\ e.head = f.head =>
       e.offset <= Len(f.lines) /\ TailOK(e.tail, f.lines, e.offset) /\ e.days = CountTo(f.lines, e.offset)
  /\ e.stat = Stat(f) => e.days = CountTo(f.lines, Len(f.lines))
EntryShape(e, writes) ==
  /\ e.offset \in Nat /\ e.stat \in Nat \X Nat /\ e.stat[2] <= writes
  /\ 2 * e.offset <= e.stat[1]
  /\ DOMAIN e.days \subseteq 1..TCDays /\ Cardinality(DOMAIN e.days) <= TCMaxDays
  /\ Len(e.tail) <= TCLookback
  /\ e.head # TCNone => e.head \in Nat /\ e.head < writes
EntryInv ==
  tcEntry # TCNone => EntryShape(tcEntry, tcWrites) /\ (tcFile # TCNone => EntryFits(tcEntry, tcFile))

(* A read of a log that did not change since its first stat is right so far. *)
Halfway(f, seg, base) ==
  seg.offset \in Nat /\ \E o \in Nat : SegOK(seg, f.lines, o, seg.offset) /\ base = CountTo(f.lines, o)
Steady(f, pre) == f # TCNone /\ Stat(f) = pre
AtPlan(run, pre) == run = [pc |-> "plan", pre |-> pre]
AtRead(run, pc, pre, base, seg) == run = [pc |-> pc, pre |-> pre, base |-> base, seg |-> seg]
AtStat(run, pre, base, seg, head) ==
  run = [pc |-> "stat", pre |-> pre, base |-> base, seg |-> seg, head |-> head]
InRead(run, f, pre, base, seg) ==
  /\ \/ AtRead(run, "walk", pre, base, seg)
     \/ AtRead(run, "probe", pre, base, seg) /\ (Steady(f, pre) => seg.offset = Len(f.lines))
     \/ \E head : AtStat(run, pre, base, seg, head)
                  /\ (Steady(f, pre) => seg.offset = Len(f.lines) /\ head = HeadOf(f, seg.offset))
  /\ Steady(f, pre) => Halfway(f, seg, base)
RunOK(run, f, writes) ==
  \/ run = TCIdle
  \/ \E pre \in Nat \X Nat : pre[2] <= writes /\ (AtPlan(run, pre) \/ \E base, seg : InRead(run, f, pre, base, seg))

CacheInv == LogInv /\ EntryInv /\ RunOK(tcRun, tcFile, tcWrites)

LEMMA CountedTyped ==
  ASSUME NEW L, FileLines(L), NEW k \in 0..Len(L)
  PROVE  DOMAIN CountTo(L, k) \subseteq 1..TCDays /\ Cardinality(DOMAIN CountTo(L, k)) <= TCMaxDays
<1> DEFINE D == DOMAIN Tally(L, Firsts(L, 0, k))
<1>1. D \subseteq 1..TCDays
  BY FirstsAre
<1>2. DOMAIN CountTo(L, k) = Newest(D)
  BY TrimmedTo DEF CountTo
<1> HIDE DEF D
<1>3. Newest(D) \subseteq D
  BY DEF Newest
<1> QED BY <1>1, <1>2, <1>3, NewestFew

LEMMA CountedNone == \A L : CountTo(L, 0) = [d \in {} |-> 0]
<1> SUFFICES ASSUME NEW L PROVE CountTo(L, 0) = [d \in {} |-> 0]
  OBVIOUS
<1>1. Firsts(L, 0, 0) = {}
  BY DEF Firsts
<1> DEFINE e == [d \in {} |-> 0]
<1>2. CountTo(L, 0) = Trimmed(e)
  BY <1>1, TallyNone DEF CountTo
<1>3. Newest(DOMAIN e) = {}
  BY DEF Newest
<1>4. Trimmed(e) = [d \in {} |-> e[d]]
  BY <1>3, TrimmedTo
<1> QED BY <1>2, <1>4

LEMMA CountedSame ==
  ASSUME NEW L, NEW K, NEW k \in Nat, \A i \in 1..k : L[i] = K[i]
  PROVE  CountTo(L, k) = CountTo(K, k)
BY SameBelow DEF CountTo

LEMMA StatIs ==
  ASSUME NEW f \in File
  PROVE  /\ Stat(f) \in Nat \X Nat /\ Stat(f)[2] = f.mtime /\ Stat(f)[1] = Size(f)
         /\ Size(f) \in Nat /\ 2 * Len(f.lines) <= Size(f)
<1>1. f.lines \in Seq(Line) /\ f.mtime \in Nat /\ f.part \in BOOLEAN
  BY DEF File
<1>2. Len(f.lines) \in Nat
  BY <1>1
<1>3. Size(f) \in Nat /\ 2 * Len(f.lines) <= Size(f)
  <2>1. PICK b \in {0, 1} : b = IF f.part THEN 1 ELSE 0
    OBVIOUS
  <2>2. Size(f) = 2 * Len(f.lines) + b
    BY <2>1 DEF Size
  <2> QED BY <1>2, <2>2
<1> QED BY <1>1, <1>3 DEF Stat

(* ----- the log changes -----                                              *)
(* A read of a log that has changed since its first stat is not Steady.     *)
LEMMA ReadsOutlive ==
  ASSUME NEW run, NEW f, NEW w \in Nat, RunOK(run, f, w), NEW g, g = TCNone \/ Stat(g)[2] = w + 1
  PROVE  RunOK(run, g, w + 1)
<1>1. CASE run = TCIdle
  BY <1>1 DEF RunOK
<1>2. CASE \E pre \in Nat \X Nat : pre[2] <= w /\ (AtPlan(run, pre) \/ \E base, seg : InRead(run, f, pre, base, seg))
  <2>1. PICK pre \in Nat \X Nat : pre[2] <= w /\ (AtPlan(run, pre) \/ \E base, seg : InRead(run, f, pre, base, seg))
    BY <1>2
  <2>2. pre[2] <= w + 1 /\ pre[2] # w + 1
    BY <2>1
  <2>3. ~Steady(g, pre)
    BY <2>2 DEF Steady
  <2>4. CASE AtPlan(run, pre)
    BY <2>2, <2>4 DEF RunOK
  <2>5. CASE \E base, seg : InRead(run, f, pre, base, seg)
    <3>1. PICK base, seg : InRead(run, f, pre, base, seg)
      BY <2>5
    <3>2. InRead(run, g, pre, base, seg)
      BY <2>3, <3>1 DEF InRead
    <3> QED BY <2>2, <3>2 DEF RunOK
  <2> QED BY <2>1, <2>4, <2>5
<1> QED BY <1>1, <1>2 DEF RunOK

LEMMA FileChangesKeep ==
  ASSUME CacheInv, NEW f, Touch(f), f \in File, FileLines(f.lines), Len(f.lines) <= TCMaxLines,
         \/ f.head = tcWrites
         \/ /\ tcFile # TCNone /\ f.head = tcFile.head
            /\ \A i \in 1..Len(tcFile.lines) : f.lines[i] = tcFile.lines[i]
            /\ Len(tcFile.lines) <= Len(f.lines)
  PROVE  CacheInv'
<1> PICK g : g = tcFile'
  OBVIOUS
<1> PICK w : w = tcWrites'
  OBVIOUS
<1>1. tcWrites \in Nat /\ w = tcWrites + 1 /\ g = [f EXCEPT !.mtime = w] /\ UNCHANGED <<tcEntry, tcRun>>
  BY DEF Touch, CacheInv, LogInv
<1>2. g \in File /\ g.lines = f.lines /\ g.head = f.head /\ g.mtime = w
  BY <1>1 DEF File
<1>3. f.head \in Nat /\ f.head < w
  <2>1. f.head \in Nat
    BY DEF File
  <2>2. tcFile # TCNone => tcFile.head < tcWrites /\ tcFile.head \in Nat
    BY DEF CacheInv, LogInv, File
  <2> QED BY <1>1, <2>1, <2>2
<1>4. LogInv'
  <2>1. w \in Nat /\ g \in File /\ FileLines(g.lines) /\ Len(g.lines) <= TCMaxLines /\ g.head < w /\ g.mtime <= w
    BY <1>1, <1>2, <1>3
  <2> QED BY <2>1 DEF LogInv
<1>5. Stat(g) \in Nat \X Nat /\ Stat(g)[2] = w
  BY <1>2, StatIs
<1>6. EntryInv'
  <2> SUFFICES ASSUME tcEntry # TCNone
               PROVE  EntryShape(tcEntry, w) /\ (g # TCNone => EntryFits(tcEntry, g))
    BY <1>1 DEF EntryInv
  <2> PICK e : e = tcEntry
    OBVIOUS
  <2>1. EntryShape(e, tcWrites) /\ (tcFile # TCNone => EntryFits(e, tcFile))
    BY DEF CacheInv, EntryInv
  <2>2. EntryShape(e, w)
    BY <1>1, <2>1 DEF EntryShape
  <2>3. e.stat # Stat(g)
    <3>1. e.stat[2] <= tcWrites /\ e.stat[2] \in Nat
      BY <2>1 DEF EntryShape
    <3> QED BY <1>1, <1>5, <3>1
  <2>4. ASSUME e.head # TCNone, e.head = g.head
        PROVE  e.offset <= Len(g.lines) /\ TailOK(e.tail, g.lines, e.offset) /\ e.days = CountTo(g.lines, e.offset)
    <3>1. e.head \in Nat /\ e.head < tcWrites /\ e.offset \in Nat
      BY <2>1, <2>4 DEF EntryShape
    <3>2. f.head # tcWrites
      BY <1>1, <1>2, <2>4, <3>1
    <3>3. /\ tcFile # TCNone /\ f.head = tcFile.head
          /\ \A i \in 1..Len(tcFile.lines) : f.lines[i] = tcFile.lines[i]
          /\ Len(tcFile.lines) <= Len(f.lines)
      BY <3>2
    <3> DEFINE L == tcFile.lines
    <3>4. e.offset <= Len(L) /\ TailOK(e.tail, L, e.offset) /\ e.days = CountTo(L, e.offset)
      BY <1>2, <2>1, <2>4, <3>3 DEF EntryFits
    <3>5. Len(L) \in Nat
      BY <3>3, LinesAre DEF CacheInv, LogInv
    <3>6. Len(g.lines) \in Nat
      BY <1>2, LinesAre
    <3>7. \A i \in 1..e.offset : L[i] = g.lines[i]
      BY <1>2, <3>1, <3>3, <3>4, <3>5
    <3>8. Len(L) <= Len(g.lines)
      BY <1>2, <3>3
    <3> HIDE DEF L
    <3>9. e.offset <= Len(g.lines)
      BY <3>1, <3>4, <3>5, <3>6, <3>8
    <3>10. TailOK(e.tail, g.lines, e.offset)
      BY <3>1, <3>4, <3>7, SameBelow
    <3>11. CountTo(L, e.offset) = CountTo(g.lines, e.offset)
      BY <3>1, <3>7, CountedSame
    <3> QED BY <3>4, <3>9, <3>10, <3>11
  <2>5. EntryFits(e, g)
    BY <2>3, <2>4 DEF EntryFits
  <2> QED BY <2>2, <2>5
<1>7. RunOK(tcRun, tcFile, tcWrites)'
  BY <1>1, <1>5, ReadsOutlive DEF CacheInv
<1> QED BY <1>4, <1>6, <1>7 DEF CacheInv

LEMMA AppendedLines ==
  ASSUME NEW f \in File, FileLines(f.lines), NEW id \in NextIds(f), NEW day \in 1..TCDays
  PROVE  FileLines(Append(f.lines, [id |-> id, day |-> day]))
<1> DEFINE L == f.lines
           n == Len(L)
           line == [id |-> id, day |-> day]
           K == Append(L, line)
<1>1. n \in Nat /\ DOMAIN L = 1..n /\ L \in Seq(Line)
  BY LinesAre DEF FileLines
<1>2. id \in 1..TCIds /\ line \in Line
  BY DEF NextIds, Line
<1>3. id \in Begun(f) => Streaming(f, id)
  BY DEF NextIds
<1>4. K \in Seq(Line) /\ Len(K) = n + 1 /\ K[n + 1] = line /\ \A i \in 1..n : K[i] = L[i]
  <2> HIDE DEF line, L
  <2> QED BY <1>1, <1>2, AppendProperties
<1>5. line.id = id
  OBVIOUS
<1> HIDE DEF K, line
<1>6. ASSUME NEW j \in 1..n + 1, NEW i \in 1..n + 1, j < i, FirstAt(K, j), K[j].id = K[i].id
      PROVE  Cardinality(IdAt(K, j..i - 1)) <= TCLookback
  <2>1. j \in 1..n /\ j..i - 1 \subseteq 1..n
    BY <1>1, <1>6
  <2>2. FirstAt(L, j) /\ L[j] = K[j] /\ IdAt(L, j..i - 1) = IdAt(K, j..i - 1)
    <3>1. \A m \in 1..n : L[m] = K[m]
      BY <1>4
    <3> HIDE DEF L, n
    <3>2. /\ \A m \in 1..n : FirstAt(L, m) <=> FirstAt(K, m)
          /\ \A I : I \subseteq 1..n => IdAt(L, I) = IdAt(K, I)
      BY <1>1, <3>1, SameBelow
    <3>3. IdAt(L, j..i - 1) = IdAt(K, j..i - 1)
      BY <2>1, <3>2
    <3> QED BY <1>6, <2>1, <3>1, <3>2, <3>3
  <2>3. CASE i \in 1..n
    BY <1>4, <1>6, <2>1, <2>2, <2>3 DEF FileLines
  <2>4. CASE i = n + 1
    <3>1. L[j].id = id /\ i - 1 = n
      BY <1>1, <1>4, <1>5, <1>6, <2>2, <2>4
    <3>2. id \in Begun(f)
      BY <2>1, <3>1 DEF Begun
    <3> DEFINE S == {m \in DOMAIN L : L[m].id = id}
               first == Min(S)
    <3>3. S \subseteq Nat /\ S # {} /\ S \subseteq 1..n
      BY <1>1, <2>1, <3>1
    <3>4. first \in S /\ \A m \in S : first <= m
      BY <3>3, MinIsMember
    <3>5. first = FirstLine(f, id)
      BY DEF FirstLine
    <3> HIDE DEF first
    <3>6. first \in 1..n /\ L[first].id = id
      BY <3>3, <3>4
    <3>7. FirstAt(L, first)
      <4> SUFFICES ASSUME NEW m \in 1..first - 1, L[m].id = L[first].id PROVE FALSE
        BY DEF FirstAt
      <4>1. m \in 1..n /\ m < first
        BY <1>1, <3>6
      <4>2. m \in S
        BY <1>1, <3>6, <4>1
      <4> QED BY <3>4, <3>6, <4>1, <4>2
    <3>8. first = j
      <4>1. first \in Nat /\ first >= 1 /\ j \in Nat /\ j >= 1
        BY <1>1, <2>1, <3>6
      <4> HIDE DEF L
      <4> QED BY <2>2, <3>1, <3>6, <3>7, <4>1, FirstIsOne
    <3>9. Cardinality({L[m].id : m \in first..n}) <= TCLookback
      BY <1>3, <3>2, <3>5 DEF Streaming
    <3>10. Cardinality(IdAt(L, j..n)) <= TCLookback
      BY <3>8, <3>9 DEF IdAt
    <3> QED BY <2>2, <3>1, <3>10
  <2> QED BY <1>1, <2>3, <2>4
<1>7. FileLines(K)
  BY <1>4, <1>6 DEF FileLines
<1> QED BY <1>7 DEF K, line

LEMMA CutLines ==
  ASSUME NEW L, FileLines(L), NEW n \in 0..Len(L)
  PROVE  FileLines(SubSeq(L, 1, n)) /\ Len(SubSeq(L, 1, n)) = n
<1> DEFINE K == SubSeq(L, 1, n)
<1>1. Len(L) \in Nat /\ n \in Nat /\ \A i \in 1..Len(L) : L[i] \in Line
  BY LinesAre
<1>2. K \in Seq(Line) /\ Len(K) = n /\ \A i \in 1..n : K[i] = L[i]
  <2>1. \A i \in 1..n : L[i] \in Line
    BY <1>1
  <2>2. /\ K \in Seq(Line) /\ Len(K) = (IF 1 <= n THEN n - 1 + 1 ELSE 0)
        /\ \A i \in 1..n - 1 + 1 : K[i] = L[1 + i - 1]
    BY <1>1, <2>1, SubSeqProperties
  <2>3. Len(K) = n
    BY <1>1, <2>2
  <2>4. \A i \in 1..n : i \in 1..n - 1 + 1 /\ 1 + i - 1 = i
    BY <1>1
  <2> QED BY <2>2, <2>3, <2>4
<1> HIDE DEF K
<1>3. ASSUME NEW j \in 1..n, NEW i \in 1..n, j < i, FirstAt(K, j), K[j].id = K[i].id
      PROVE  Cardinality(IdAt(K, j..i - 1)) <= TCLookback
  <2>1. \A m \in 1..n : L[m] = K[m]
    BY <1>2
  <2>2. j..i - 1 \subseteq 1..n /\ j \in 1..Len(L) /\ i \in 1..Len(L)
    BY <1>1
  <2>3. FirstAt(L, j) /\ L[j] = K[j] /\ L[i] = K[i] /\ IdAt(L, j..i - 1) = IdAt(K, j..i - 1)
    <3>2. /\ \A m \in 1..n : FirstAt(L, m) <=> FirstAt(K, m)
          /\ \A I : I \subseteq 1..n => IdAt(L, I) = IdAt(K, I)
      BY <1>1, <2>1, SameBelow
    <3>3. IdAt(L, j..i - 1) = IdAt(K, j..i - 1)
      BY <2>2, <3>2
    <3> QED BY <1>3, <2>1, <3>2, <3>3
  <2> QED BY <1>3, <2>2, <2>3 DEF FileLines
<1>4. FileLines(K)
  BY <1>2, <1>3 DEF FileLines
<1> QED BY <1>2, <1>4 DEF K

LEMMA LogKeeps == CacheInv /\ (CreateLog \/ BeginLine \/ EndLine \/ ReplaceLog \/ RemoveLog) => CacheInv'
<1> SUFFICES ASSUME CacheInv, CreateLog \/ BeginLine \/ EndLine \/ ReplaceLog \/ RemoveLog PROVE CacheInv'
  OBVIOUS
<1>0. tcFile # TCNone => /\ tcFile \in File /\ FileLines(tcFile.lines) /\ Len(tcFile.lines) <= TCMaxLines
                         /\ Len(tcFile.lines) \in Nat
  BY LinesAre DEF CacheInv, LogInv
<1>00. tcWrites \in Nat
  BY DEF CacheInv, LogInv
<1>1. CASE CreateLog
  <2> DEFINE f == [head |-> tcWrites, lines |-> <<>>, part |-> FALSE, mtime |-> 0]
  <2>1. Touch(f)
    BY <1>1 DEF CreateLog
  <2>2. f \in File /\ f.head = tcWrites /\ f.lines = <<>>
    BY <1>00 DEF File
  <2>3. FileLines(<<>>) /\ Len(<<>>) = 0
    BY DEF FileLines
  <2> HIDE DEF f
  <2> QED BY <2>1, <2>2, <2>3, TCAssumption, FileChangesKeep
<1>2. CASE BeginLine
  <2> PICK f : f = [tcFile EXCEPT !.part = TRUE]
    OBVIOUS
  <2>1. Touch(f) /\ tcFile # TCNone
    BY <1>2 DEF BeginLine
  <2>2. f \in File /\ f.head = tcFile.head /\ f.lines = tcFile.lines
    BY <1>0, <2>1 DEF File
  <2>3. FileLines(f.lines) /\ Len(f.lines) <= TCMaxLines /\ Len(tcFile.lines) <= Len(f.lines)
    BY <1>0, <2>1, <2>2
  <2> QED BY <2>1, <2>2, <2>3, FileChangesKeep
<1>3. CASE EndLine
  <2>1. PICK id \in NextIds(tcFile), day \in 1..TCDays :
          Touch([tcFile EXCEPT !.lines = Append(@, [id |-> id, day |-> day]), !.part = FALSE])
    BY <1>3 DEF EndLine
  <2>2. tcFile # TCNone /\ Len(tcFile.lines) < TCMaxLines
    BY <1>3 DEF EndLine
  <2> DEFINE L == tcFile.lines
             K == Append(L, [id |-> id, day |-> day])
  <2> PICK f : f = [tcFile EXCEPT !.lines = Append(@, [id |-> id, day |-> day]), !.part = FALSE]
    OBVIOUS
  <2>3. FileLines(K)
    BY <1>0, <2>2, AppendedLines
  <2>4. K \in Seq(Line) /\ L \in Seq(Line)
    BY <1>0, <2>2, <2>3 DEF FileLines
  <2>5. [id |-> id, day |-> day] \in Line
    BY DEF NextIds, Line
  <2>6. Len(K) = Len(L) + 1 /\ \A i \in 1..Len(L) : K[i] = L[i]
    <3> HIDE DEF L
    <3> QED BY <2>4, <2>5, AppendProperties
  <2>7. f \in File /\ f.head = tcFile.head /\ f.lines = K
    <3> HIDE DEF K
    <3>1. f = [tcFile EXCEPT !.lines = K, !.part = FALSE]
      BY DEF K
    <3> QED BY <1>0, <2>2, <2>4, <3>1 DEF File
  <2>8. Len(K) <= TCMaxLines /\ Len(L) <= Len(K)
    BY <1>0, <2>2, <2>6, TCAssumption
  <2>9. Touch(f)
    BY <2>1
  <2> HIDE DEF K
  <2> QED BY <2>2, <2>3, <2>6, <2>7, <2>8, <2>9, FileChangesKeep
<1>4. CASE ReplaceLog
  <2>1. PICK n \in 0..Len(tcFile.lines) :
          Touch([tcFile EXCEPT !.head = tcWrites, !.lines = SubSeq(@, 1, n), !.part = FALSE])
    BY <1>4 DEF ReplaceLog
  <2>2. tcFile # TCNone
    BY <1>4 DEF ReplaceLog
  <2> DEFINE K == SubSeq(tcFile.lines, 1, n)
  <2> PICK f : f = [tcFile EXCEPT !.head = tcWrites, !.lines = SubSeq(@, 1, n), !.part = FALSE]
    OBVIOUS
  <2>3. FileLines(K) /\ Len(K) = n
    BY <1>0, <2>2, CutLines
  <2>4. K \in Seq(Line)
    BY <2>3 DEF FileLines
  <2>5. f = [tcFile EXCEPT !.head = tcWrites, !.lines = K, !.part = FALSE]
    OBVIOUS
  <2>6. Touch(f)
    BY <2>1
  <2> HIDE DEF K
  <2>7. f \in File /\ f.head = tcWrites /\ f.lines = K
    BY <1>0, <1>00, <2>2, <2>4, <2>5 DEF File
  <2>8. Len(K) <= TCMaxLines
    BY <1>0, <2>2, <2>3, TCAssumption
  <2> QED BY <2>3, <2>6, <2>7, <2>8, FileChangesKeep
<1>5. CASE RemoveLog
  <2>1. tcFile' = TCNone /\ tcWrites' = tcWrites + 1 /\ UNCHANGED <<tcEntry, tcRun>>
    BY <1>5 DEF RemoveLog
  <2>2. LogInv'
    BY <1>00, <2>1 DEF LogInv
  <2>3. EntryInv'
    <3> SUFFICES ASSUME tcEntry # TCNone PROVE EntryShape(tcEntry, tcWrites + 1)
      BY <2>1 DEF EntryInv
    <3>1. EntryShape(tcEntry, tcWrites)
      BY DEF CacheInv, EntryInv
    <3> QED BY <1>00, <3>1 DEF EntryShape
  <2>4. RunOK(tcRun, tcFile, tcWrites)'
    <3>1. RunOK(tcRun, TCNone, tcWrites + 1)
      BY <1>00, ReadsOutlive DEF CacheInv
    <3> QED BY <2>1, <3>1
  <2> QED BY <2>2, <2>3, <2>4 DEF CacheInv
<1> QED BY <1>1, <1>2, <1>3, <1>4, <1>5

(* ----- the reader -----                                                   *)
LEMMA InPlan ==
  ASSUME CacheInv, tcRun.pc = "plan"
  PROVE  \E pre \in Nat \X Nat : pre[2] <= tcWrites /\ AtPlan(tcRun, pre)
BY DEF CacheInv, RunOK, InRead, AtPlan, AtRead, AtStat, TCIdle

Walking(pre, base, seg) ==
  /\ AtRead(tcRun, "walk", pre, base, seg)
  /\ Steady(tcFile, pre) => Halfway(tcFile, seg, base)
LEMMA InWalk ==
  ASSUME CacheInv, tcRun.pc = "walk"
  PROVE  \E pre \in Nat \X Nat : pre[2] <= tcWrites /\ \E base, seg : Walking(pre, base, seg)
BY DEF CacheInv, RunOK, InRead, AtPlan, AtRead, AtStat, TCIdle, Walking

Probing(pre, base, seg) ==
  /\ AtRead(tcRun, "probe", pre, base, seg)
  /\ Steady(tcFile, pre) => Halfway(tcFile, seg, base) /\ seg.offset = Len(tcFile.lines)
LEMMA InProbe ==
  ASSUME CacheInv, tcRun.pc = "probe"
  PROVE  \E pre \in Nat \X Nat : pre[2] <= tcWrites /\ \E base, seg : Probing(pre, base, seg)
BY DEF CacheInv, RunOK, InRead, AtPlan, AtRead, AtStat, TCIdle, Probing

Statting(pre, base, seg, head) ==
  /\ AtStat(tcRun, pre, base, seg, head)
  /\ Steady(tcFile, pre) => /\ Halfway(tcFile, seg, base) /\ seg.offset = Len(tcFile.lines)
                            /\ head = HeadOf(tcFile, seg.offset)
LEMMA InStat ==
  ASSUME CacheInv, tcRun.pc = "stat"
  PROVE  \E pre \in Nat \X Nat : pre[2] <= tcWrites /\ \E base, seg, head : Statting(pre, base, seg, head)
BY DEF CacheInv, RunOK, InRead, AtPlan, AtRead, AtStat, TCIdle, Statting

(* A step of the reader leaves the log, and mostly the entry, alone.        *)
LEMMA OnlyRead ==
  ASSUME CacheInv, UNCHANGED <<tcFile, tcEntry, tcWrites>>, RunOK(tcRun', tcFile, tcWrites)
  PROVE  CacheInv'
<1>1. LogInv'
  BY DEF CacheInv, LogInv
<1>2. EntryInv'
  BY DEF CacheInv, EntryInv
<1>3. RunOK(tcRun, tcFile, tcWrites)'
  OBVIOUS
<1> QED BY <1>1, <1>2, <1>3 DEF CacheInv

LEMMA LogIs ==
  ASSUME CacheInv, tcFile # TCNone
  PROVE  /\ tcFile \in File /\ FileLines(tcFile.lines) /\ Len(tcFile.lines) \in Nat
         /\ Len(tcFile.lines) <= TCMaxLines /\ tcFile.mtime <= tcWrites
BY LinesAre DEF CacheInv, LogInv

LEMMA StatLogKeeps == CacheInv /\ StatLog => CacheInv'
<1> SUFFICES ASSUME CacheInv, StatLog PROVE CacheInv'
  OBVIOUS
<1>1. tcFile # TCNone /\ tcRun' = [pc |-> "plan", pre |-> Stat(tcFile)] /\ UNCHANGED <<tcFile, tcEntry, tcWrites>>
  BY DEF StatLog
<1>2. Stat(tcFile) \in Nat \X Nat /\ Stat(tcFile)[2] <= tcWrites
  BY <1>1, LogIs, StatIs
<1>3. RunOK(tcRun', tcFile, tcWrites)
  BY <1>1, <1>2 DEF RunOK, AtPlan
<1> QED BY <1>1, <1>3, OnlyRead

(* A resume point that the log still reaches.                               *)
LEMMA ResumeFits ==
  ASSUME CacheInv, NEW size, Resumable(tcFile, size, tcEntry)
  PROVE  LET e == tcEntry
             L == tcFile.lines
         IN  /\ tcFile # TCNone /\ e # TCNone /\ e.offset \in 0..Len(L)
             /\ e.days = CountTo(L, e.offset) /\ SegOK(Resumed(e), L, e.offset, e.offset)
             /\ Resumed(e).offset = e.offset
<1> PICK e : e = tcEntry
  OBVIOUS
<1>1. tcFile # TCNone /\ e # TCNone /\ e.head # TCNone /\ HeadOf(tcFile, e.offset) = e.head
  BY DEF Resumable
<1>2. e.head = tcFile.head
  BY <1>1 DEF HeadOf
<1>3. EntryShape(e, tcWrites) /\ EntryFits(e, tcFile)
  BY <1>1 DEF CacheInv, EntryInv
<1> DEFINE L == tcFile.lines
<1>4. FileLines(L) /\ Len(L) \in Nat
  BY <1>1, LogIs
<1>5. e.offset \in Nat /\ e.offset <= Len(L) /\ TailOK(e.tail, L, e.offset) /\ e.days = CountTo(L, e.offset)
  BY <1>1, <1>2, <1>3 DEF EntryFits, EntryShape
<1> HIDE DEF L
<1>6. e.offset \in 0..Len(L)
  BY <1>4, <1>5
<1>7. SegOK([Fresh(e.tail) EXCEPT !.offset = e.offset], L, e.offset, e.offset)
  BY <1>4, <1>5, <1>6, SegStarts
<1>8. Resumed(e) = [Fresh(e.tail) EXCEPT !.offset = e.offset]
  BY DEF Resumed
<1>9. Resumed(e).offset = e.offset
  BY DEF Resumed, Fresh
<1> QED BY <1>1, <1>5, <1>6, <1>7, <1>8, <1>9 DEF L

LEMMA PlanKeeps == CacheInv /\ Plan => CacheInv'
<1> SUFFICES ASSUME CacheInv, Plan PROVE CacheInv'
  OBVIOUS
<1>0. tcRun.pc = "plan" /\ UNCHANGED <<tcFile, tcEntry, tcWrites>>
  BY DEF Plan
<1>1. PICK pre \in Nat \X Nat : pre[2] <= tcWrites /\ AtPlan(tcRun, pre)
  BY <1>0, InPlan
<1>2. tcRun.pre = pre
  BY <1>1 DEF AtPlan
<1> DEFINE resume == Resumable(tcFile, tcRun.pre[1], tcEntry)
<1> PICK base : base = IF resume THEN tcEntry.days ELSE [d \in {} |-> 0]
  OBVIOUS
<1> PICK seg : seg = IF resume THEN Resumed(tcEntry) ELSE Fresh(<<>>)
  OBVIOUS
<1>3. AtRead(tcRun', "walk", pre, base, seg)
  BY <1>2 DEF Plan, AtRead
<1>4. ASSUME tcFile # TCNone PROVE Halfway(tcFile, seg, base)
  <2>1. CASE resume
    <3>1. /\ tcEntry.offset \in 0..Len(tcFile.lines)
          /\ tcEntry.days = CountTo(tcFile.lines, tcEntry.offset)
          /\ SegOK(Resumed(tcEntry), tcFile.lines, tcEntry.offset, tcEntry.offset)
          /\ Resumed(tcEntry).offset = tcEntry.offset
      BY <2>1, ResumeFits
    <3>2. base = tcEntry.days /\ seg = Resumed(tcEntry)
      BY <2>1
    <3> HIDE DEF resume
    <3>3. tcEntry.offset \in Nat
      BY <3>1
    <3> QED BY <3>1, <3>2, <3>3 DEF Halfway
  <2>2. CASE ~resume
    <3>1. base = [d \in {} |-> 0] /\ seg = Fresh(<<>>)
      BY <2>2
    <3> HIDE DEF resume
    <3>2. Fresh(<<>>) = [Fresh(<<>>) EXCEPT !.offset = 0] /\ Fresh(<<>>).offset = 0
      BY DEF Fresh
    <3>3. FileLines(tcFile.lines) /\ 0 \in 0..Len(tcFile.lines)
      BY <1>4, LogIs
    <3>4. SegOK([Fresh(<<>>) EXCEPT !.offset = 0], tcFile.lines, 0, 0)
      BY <3>3, NoTail, SegStarts
    <3>5. base = CountTo(tcFile.lines, 0)
      BY <3>1, CountedNone
    <3>6. SegOK(seg, tcFile.lines, 0, seg.offset) /\ seg.offset = 0
      BY <3>1, <3>2, <3>4
    <3> QED BY <3>5, <3>6 DEF Halfway
  <2> QED BY <2>1, <2>2
<1> HIDE DEF resume
<1>5. InRead(tcRun', tcFile, pre, base, seg)
  BY <1>3, <1>4 DEF InRead, Steady
<1>6. RunOK(tcRun', tcFile, tcWrites)
  BY <1>1, <1>5 DEF RunOK
<1> QED BY <1>0, <1>6, OnlyRead

LEMMA ReadLineKeeps == CacheInv /\ ReadLine => CacheInv'
<1> SUFFICES ASSUME CacheInv, ReadLine PROVE CacheInv'
  OBVIOUS
<1>0. tcRun.pc = "walk" /\ tcFile # TCNone /\ UNCHANGED <<tcFile, tcEntry, tcWrites>>
  BY DEF ReadLine
<1>1. PICK pre \in Nat \X Nat : pre[2] <= tcWrites /\ \E base, seg : Walking(pre, base, seg)
  BY <1>0, InWalk
<1>2. PICK base, seg : Walking(pre, base, seg)
  BY <1>1
<1>3. tcRun = [pc |-> "walk", pre |-> pre, base |-> base, seg |-> seg]
  BY <1>2 DEF Walking, AtRead
<1> DEFINE L == tcFile.lines
           next == Walked(seg, L[seg.offset + 1])
<1>4. seg.offset < Len(L) /\ AtRead(tcRun', "walk", pre, base, next)
  <2>1. tcRun.seg = seg
    BY <1>3
  <2>2. seg.offset < Len(L) /\ tcRun' = [tcRun EXCEPT !.seg = next]
    BY <2>1 DEF ReadLine
  <2> HIDE DEF next, L
  <2> QED BY <1>3, <2>2 DEF AtRead
<1>5. ASSUME Steady(tcFile, pre) PROVE Halfway(tcFile, next, base)
  <2>1. Halfway(tcFile, seg, base)
    BY <1>2, <1>5 DEF Walking
  <2>2. PICK o \in Nat : SegOK(seg, L, o, seg.offset) /\ base = CountTo(L, o)
    BY <2>1 DEF Halfway
  <2>3. FileLines(L) /\ seg.offset \in Nat
    BY <1>0, <2>1, LogIs DEF Halfway
  <2>4. SegOK(next, L, o, seg.offset + 1)
    <3> HIDE DEF L
    <3> QED BY <1>4, <2>2, <2>3, SegWalks
  <2> HIDE DEF next
  <2>5. next.offset = seg.offset + 1
    BY <2>4 DEF SegOK
  <2> QED BY <2>2, <2>3, <2>4, <2>5 DEF Halfway
<1> HIDE DEF next, L
<1>6. InRead(tcRun', tcFile, pre, base, next)
  BY <1>4, <1>5 DEF InRead
<1>7. RunOK(tcRun', tcFile, tcWrites)
  BY <1>1, <1>6 DEF RunOK
<1> QED BY <1>0, <1>7, OnlyRead

LEMMA EndOfLogKeeps == CacheInv /\ EndOfLog => CacheInv'
<1> SUFFICES ASSUME CacheInv, EndOfLog PROVE CacheInv'
  OBVIOUS
<1>0. tcRun.pc = "walk" /\ UNCHANGED <<tcFile, tcEntry, tcWrites>>
  BY DEF EndOfLog
<1>1. PICK pre \in Nat \X Nat : pre[2] <= tcWrites /\ \E base, seg : Walking(pre, base, seg)
  BY <1>0, InWalk
<1>2. PICK base, seg : Walking(pre, base, seg)
  BY <1>1
<1>3. tcRun = [pc |-> "walk", pre |-> pre, base |-> base, seg |-> seg]
  BY <1>2 DEF Walking, AtRead
<1>4. AtRead(tcRun', "probe", pre, base, seg) /\ (tcFile # TCNone => seg.offset >= Len(tcFile.lines))
  BY <1>3 DEF EndOfLog, AtRead
<1>5. ASSUME Steady(tcFile, pre) PROVE Halfway(tcFile, seg, base) /\ seg.offset = Len(tcFile.lines)
  <2>1. Halfway(tcFile, seg, base) /\ tcFile # TCNone
    BY <1>2, <1>5 DEF Walking, Steady
  <2>2. seg.offset \in 0..Len(tcFile.lines)
    BY <2>1 DEF Halfway, SegOK
  <2>3. Len(tcFile.lines) \in Nat
    BY <2>1, LogIs
  <2> QED BY <1>4, <2>1, <2>2, <2>3
<1>6. InRead(tcRun', tcFile, pre, base, seg)
  BY <1>4, <1>5 DEF InRead
<1>7. RunOK(tcRun', tcFile, tcWrites)
  BY <1>1, <1>6 DEF RunOK
<1> QED BY <1>0, <1>7, OnlyRead

LEMMA ProbeHeadKeeps == CacheInv /\ ProbeHead => CacheInv'
<1> SUFFICES ASSUME CacheInv, ProbeHead PROVE CacheInv'
  OBVIOUS
<1>0. tcRun.pc = "probe" /\ UNCHANGED <<tcFile, tcEntry, tcWrites>>
  BY DEF ProbeHead
<1>1. PICK pre \in Nat \X Nat : pre[2] <= tcWrites /\ \E base, seg : Probing(pre, base, seg)
  BY <1>0, InProbe
<1>2. PICK base, seg : Probing(pre, base, seg)
  BY <1>1
<1>3. tcRun = [pc |-> "probe", pre |-> pre, base |-> base, seg |-> seg]
  BY <1>2 DEF Probing, AtRead
<1> PICK head : head = HeadOf(tcFile, seg.offset)
  OBVIOUS
<1>4. AtStat(tcRun', pre, base, seg, head)
  BY <1>3 DEF ProbeHead, AtStat
<1>5. Steady(tcFile, pre) => Halfway(tcFile, seg, base) /\ seg.offset = Len(tcFile.lines)
  BY <1>2 DEF Probing
<1>6. InRead(tcRun', tcFile, pre, base, seg)
  BY <1>4, <1>5 DEF InRead
<1>7. RunOK(tcRun', tcFile, tcWrites)
  BY <1>1, <1>6 DEF RunOK
<1> QED BY <1>0, <1>7, OnlyRead

(* What Settle persists counts all of the log it stands for.                *)
LEMMA SettleKeeps == CacheInv /\ Settle => CacheInv'
<1> SUFFICES ASSUME CacheInv, Settle PROVE CacheInv'
  OBVIOUS
<1>0. tcRun.pc = "stat" /\ tcRun' = TCIdle /\ UNCHANGED <<tcFile, tcWrites>>
  BY DEF Settle
<1>1. PICK pre \in Nat \X Nat : pre[2] <= tcWrites /\ \E base, seg, head : Statting(pre, base, seg, head)
  BY <1>0, InStat
<1>2. PICK base, seg, head : Statting(pre, base, seg, head)
  BY <1>1
<1>3. tcRun = [pc |-> "stat", pre |-> pre, base |-> base, seg |-> seg, head |-> head]
  BY <1>2 DEF Statting, AtStat
<1>4. RunOK(tcRun', tcFile, tcWrites)
  BY <1>0 DEF RunOK
<1>5. LogInv'
  BY <1>0 DEF CacheInv, LogInv
<1> DEFINE e == [stat |-> pre, days |-> Trimmed(Merged(base, seg.days)),
                 offset |-> seg.offset, head |-> head, tail |-> CarriedIds(seg)]
<1>6. tcEntry' = IF Steady(tcFile, pre) THEN e ELSE tcEntry
  <2>1. tcRun.pre = pre /\ tcRun.base = base /\ tcRun.seg = seg /\ tcRun.head = head
    BY <1>3
  <2> QED BY <2>1 DEF Settle, Steady
<1>7. EntryInv'
  <2>1. CASE ~Steady(tcFile, pre)
    BY <1>0, <1>6, <2>1 DEF CacheInv, EntryInv
  <2>2. CASE Steady(tcFile, pre)
    <3> DEFINE L == tcFile.lines
               k == Len(L)
    <3>1. tcFile # TCNone /\ Stat(tcFile) = pre
      BY <2>2 DEF Steady
    <3>2. Halfway(tcFile, seg, base) /\ seg.offset = k /\ head = HeadOf(tcFile, seg.offset)
      BY <1>2, <2>2 DEF Statting
    <3>3. tcFile \in File /\ FileLines(L) /\ k \in Nat
      BY <3>1, LogIs
    <3>4. PICK o \in Nat : SegOK(seg, L, o, k) /\ base = CountTo(L, o)
      BY <3>2 DEF Halfway
    <3> HIDE DEF L
    <3>5. o \in 0..k /\ k \in 0..k /\ seg.days = Tally(L, Firsts(L, o, k))
      BY <3>3, <3>4 DEF SegOK
    <3>6. Trimmed(Merged(base, seg.days)) = CountTo(L, k)
      BY <3>3, <3>4, <3>5, FirstsSplit DEF CountTo
    <3>7. TailOK(CarriedIds(seg), L, k) /\ Len(CarriedIds(seg)) <= TCLookback
      BY <3>3, <3>4, CarriedOK
    <3>8. DOMAIN CountTo(L, k) \subseteq 1..TCDays /\ Cardinality(DOMAIN CountTo(L, k)) <= TCMaxDays
      BY <3>3, <3>5, CountedTyped
    <3>9. 2 * k <= pre[1]
      BY <3>1, <3>3, StatIs DEF L
    <3>10. head # TCNone => head \in Nat /\ head < tcWrites
      <4>1. tcFile.head \in Nat /\ tcFile.head < tcWrites
        BY <3>1, <3>3 DEF CacheInv, LogInv, File
      <4> QED BY <3>2, <4>1 DEF HeadOf
    <3>11. /\ e.stat = pre /\ e.days = CountTo(L, k) /\ e.offset = k /\ e.head = head
           /\ e.tail = CarriedIds(seg)
      BY <3>2, <3>6
    <3> HIDE DEF e
    <3>12. EntryShape(e, tcWrites)
      BY <1>1, <3>3, <3>7, <3>8, <3>9, <3>10, <3>11 DEF EntryShape
    <3>13. EntryFits(e, tcFile)
      BY <3>3, <3>7, <3>11 DEF EntryFits, L
    <3> QED BY <1>0, <1>6, <2>2, <3>12, <3>13 DEF EntryInv
  <2> QED BY <2>1, <2>2
<1> QED BY <1>4, <1>5, <1>7, <1>0 DEF CacheInv

LEMMA CacheInitInv == TCInit => CacheInv
<1> SUFFICES ASSUME TCInit PROVE CacheInv
  OBVIOUS
<1>1. tcFile = TCNone /\ tcEntry = TCNone /\ tcRun = TCIdle /\ tcWrites = 0
  BY DEF TCInit
<1> QED BY <1>1 DEF CacheInv, LogInv, EntryInv, RunOK

LEMMA CacheNextInv == CacheInv /\ [TCNext]_tcVars => CacheInv'
<1> SUFFICES ASSUME CacheInv, [TCNext]_tcVars PROVE CacheInv'
  OBVIOUS
<1>1. CASE CreateLog \/ BeginLine \/ EndLine \/ ReplaceLog \/ RemoveLog
  BY <1>1, LogKeeps
<1>2. CASE StatLog \/ Plan \/ ReadLine \/ EndOfLog \/ ProbeHead \/ Settle
  BY <1>2, StatLogKeeps, PlanKeeps, ReadLineKeeps, EndOfLogKeeps, ProbeHeadKeeps, SettleKeeps
<1>3. CASE ReadFails
  <2>1. RunOK(tcRun', tcFile, tcWrites) /\ UNCHANGED <<tcFile, tcEntry, tcWrites>>
    BY <1>3 DEF ReadFails, RunOK
  <2> QED BY <2>1, OnlyRead
<1>4. CASE ReapEntry \/ CacheLost
  <2>1. tcEntry' = TCNone /\ (tcRun' = tcRun \/ tcRun' = TCIdle) /\ UNCHANGED <<tcFile, tcWrites>>
    BY <1>4 DEF ReapEntry, CacheLost
  <2>2. LogInv'
    BY <2>1 DEF CacheInv, LogInv
  <2>3. EntryInv'
    BY <2>1 DEF EntryInv
  <2>4. RunOK(tcRun, tcFile, tcWrites) /\ RunOK(TCIdle, tcFile, tcWrites)
    BY DEF CacheInv, RunOK
  <2>5. RunOK(tcRun, tcFile, tcWrites)'
    BY <2>1, <2>4
  <2> QED BY <2>2, <2>3, <2>5 DEF CacheInv
<1>5. CASE UNCHANGED tcVars
  <2>1. UNCHANGED <<tcFile, tcEntry, tcRun, tcWrites>>
    BY <1>5 DEF tcVars
  <2>2. RunOK(tcRun', tcFile, tcWrites)
    BY <2>1 DEF CacheInv
  <2> QED BY <2>1, <2>2, OnlyRead
<1> QED BY <1>1, <1>2, <1>3, <1>4, <1>5 DEF TCNext

LEMMA CacheInvSays == CacheInv => CacheIsExact /\ TCTypeOK
<1> SUFFICES ASSUME CacheInv PROVE CacheIsExact /\ TCTypeOK
  OBVIOUS
<1>1. HitIsFullCount
  <2> SUFFICES ASSUME tcFile # TCNone, tcEntry # TCNone, tcEntry.stat = Stat(tcFile)
               PROVE  tcEntry.days = Trimmed(FullWalk(tcFile).days)
    BY DEF HitIsFullCount
  <2>1. EntryFits(tcEntry, tcFile)
    BY DEF CacheInv, EntryInv
  <2>2. FullWalk(tcFile).days = Tally(tcFile.lines, Firsts(tcFile.lines, 0, Len(tcFile.lines)))
    BY LogIs, FullWalkIs
  <2> QED BY <2>1, <2>2 DEF EntryFits, CountTo
<1>2. ResumeIsFullCount
  <2> SUFFICES ASSUME Resumable(tcFile, Size(tcFile), tcEntry)
               PROVE  Trimmed(Merged(tcEntry.days, WalkedOn(Resumed(tcEntry), tcFile.lines).days))
                        = Trimmed(FullWalk(tcFile).days)
    BY DEF ResumeIsFullCount
  <2> DEFINE L == tcFile.lines
             k == Len(L)
             o == tcEntry.offset
             w == WalkedOn(Resumed(tcEntry), L)
  <2>1. /\ tcFile # TCNone /\ o \in 0..k /\ tcEntry.days = CountTo(L, o)
        /\ SegOK(Resumed(tcEntry), L, o, o)
    BY ResumeFits
  <2>2. FileLines(L) /\ k \in Nat
    BY <2>1, LogIs
  <2>3. FullWalk(tcFile).days = Tally(L, Firsts(L, 0, k))
    BY <2>2, FullWalkIs
  <2> HIDE DEF L, o
  <2>4. SegOK(w, L, o, k)
    BY <2>1, <2>2, WalkEnds
  <2> HIDE DEF w
  <2>5. w.days = Tally(L, Firsts(L, o, k))
    BY <2>4 DEF SegOK
  <2>6. k \in 0..k
    BY <2>2
  <2>7. Trimmed(Merged(tcEntry.days, w.days)) = Trimmed(FullWalk(tcFile).days)
    BY <2>1, <2>2, <2>3, <2>5, <2>6, FirstsSplit DEF CountTo
  <2> QED BY <2>7 DEF w, L
<1>3. TCTypeOK
  <2>1. tcFile = TCNone \/ (tcFile.head \in Nat /\ Len(tcFile.lines) <= TCMaxLines /\ tcFile.part \in BOOLEAN)
    BY DEF CacheInv, LogInv, File
  <2>2. tcEntry = TCNone \/ (/\ DOMAIN tcEntry.days \subseteq 1..TCDays
                             /\ Cardinality(DOMAIN tcEntry.days) <= TCMaxDays
                             /\ 2 * tcEntry.offset <= tcEntry.stat[1]
                             /\ Len(tcEntry.tail) <= TCLookback)
    BY DEF CacheInv, EntryInv, EntryShape
  <2>3. tcRun.pc \in {"idle", "plan", "walk", "probe", "stat"}
    BY DEF CacheInv, RunOK, InRead, AtPlan, AtRead, AtStat, TCIdle
  <2> QED BY <2>1, <2>2, <2>3 DEF TCTypeOK
<1> QED BY <1>1, <1>2, <1>3 DEF CacheIsExact

(* A hit of the token cache, and a resumed walk of a log that grew, give     *)
(* what a read of the whole log gives, whatever was appended, replaced or    *)
(* cut while a read was under way, and however the cache was lost.           *)
THEOREM TokenCacheExact == TCSpec => [](CacheIsExact /\ TCTypeOK)
<1> QED BY CacheInitInv, CacheNextInv, CacheInvSays, PTL DEF TCSpec

(* ------------------------------ Codex scan ----------------------------- *)
(* A pass has the fields of one, and the cache those of a cache.            *)
ShapedPass(r) ==
  r = [pc |-> r.pc, live |-> r.live, archived |-> r.archived, todo |-> r.todo, carried |-> r.carried,
       staged |-> r.staged, learned |-> r.learned, queue |-> r.queue, moves |-> r.moves, from |-> r.from]
ShapedCache(c) == c = [files |-> c.files, settled |-> c.settled, records |-> c.records, why |-> c.why]

RolloutFiles == [at : {"live", "archive", "gone"}, ver : Nat, wrote : Nat]
FilesOK == cxFile \in [CXFiles -> RolloutFiles] /\ cxNow \in Nat

(* No settled day has a rollout with a turn without an id.                  *)
Settled(c) == \A d \in DOMAIN c.records : \A f \in DOMAIN c.records[d] : "" \notin CXTurns[f]

(* Versions only grow, so what was on disk when the pass began bounds what  *)
(* any later reading finds.                                                 *)
PassBegun(r, file) ==
  /\ r.live \subseteq CXFiles /\ r.archived \subseteq CXFiles /\ r.moves \in [CXFiles -> Nat]
  /\ DOMAIN r.from \subseteq CXFiles
  /\ \A f \in DOMAIN r.from : r.from[f] \in Nat /\ r.from[f] <= file[f].ver

(* What a listing says of a rollout that has not moved since; and who is in *)
(* neither listing came out of the archive between the two.                 *)
StillThere(r, file, f) == f \in DOMAIN r.from /\ file[f].at # "gone" /\ r.moves[f] <= 1
Whereabouts(r, file) ==
  \A f \in CXFiles :
    /\ r.pc = "archive" =>
         /\ f \in r.live /\ file[f].at # "live" => r.moves[f] >= 1
         /\ f \in DOMAIN r.from /\ f \notin r.live /\ file[f].at = "live" => r.moves[f] >= 1
    /\ r.pc \notin {"live", "archive"} =>
         /\ f \in r.live \cap r.archived => r.moves[f] >= 1 /\ (file[f].at = "live" => r.moves[f] >= 2)
         /\ StillThere(r, file, f) /\ f \notin r.live \cup r.archived
              => r.pc = "check" /\ file[f].at = "live" /\ r.moves[f] = 1

(* Every path listed is to be read, was read as it is now or was before, or *)
(* is taken on trust; a live path may be left to its archived one.          *)
AsFresh(r, p) == p \in DOMAIN r.staged /\ r.staged[p].ver \in Nat /\ r.staged[p].ver >= r.from[p[1]]
Accounted(r) ==
  \A f \in DOMAIN r.from :
    /\ f \in r.archived => <<f, "archive">> \in r.todo \/ AsFresh(r, <<f, "archive">>)
    /\ f \in r.live => IF CXDay[f] \in r.carried THEN <<f, "live">> \in DOMAIN r.staged
                       ELSE <<f, "live">> \in r.todo \/ AsFresh(r, <<f, "live">>) \/ f \in r.archived

(* The live paths are read before the archived ones, so who was read at     *)
(* both places has moved in between.                                        *)
Listed(r) == (r.live \X {"live"}) \cup (r.archived \X {"archive"})
ReadTwice(r, file) ==
  /\ r.todo \subseteq Listed(r) /\ DOMAIN r.staged \subseteq Listed(r)
  /\ \A f \in r.live : CXDay[f] \in r.carried => "" \notin CXTurns[f] /\ <<f, "live">> \notin r.todo
  /\ \A f, g \in CXFiles : <<f, "archive">> \in DOMAIN r.staged => <<g, "live">> \notin r.todo
  /\ \A f \in r.live \cap r.archived :
       CXDay[f] \notin r.carried /\ <<f, "live">> \in DOMAIN r.staged =>
         /\ r.moves[f] >= 2
         /\ file[f].at # "live" => r.moves[f] >= 3
         /\ <<f, "archive">> \in DOMAIN r.staged => r.moves[f] >= 3

PassFits(r, file, c) ==
  \/ r = CXIdle
  \/ /\ ShapedPass(r) /\ r.pc \in {"live", "archive", "check", "read", "done"}
     /\ PassBegun(r, file) /\ Whereabouts(r, file)
     /\ r.pc \in {"read", "done"} => Accounted(r) /\ ReadTwice(r, file)
     /\ r.pc = "read" => r.carried \subseteq DOMAIN c.records
     /\ r.pc = "done" => r.todo = {}

ScanInv == FilesOK /\ ShapedCache(cxCache) /\ Settled(cxCache) /\ PassFits(cxRun, cxFile, cxCache)

(* ----------------------------------------------------------------------- *)
(* What changes on disk moves one rollout, and a pass under way keeps count. *)
Moved(file, f, new, r, file2, r2) ==
  /\ file \in [CXFiles -> RolloutFiles] /\ new \in RolloutFiles /\ file[f].at # "gone" /\ new.ver >= file[f].ver
  /\ file2 = [file EXCEPT ![f] = new]
  /\ \E moves : /\ moves = [r.moves EXCEPT ![f] = IF new.at = file[f].at THEN @ ELSE @ + 1]
                /\ r2 = [r EXCEPT !.moves = moves]
LEMMA MovesCount ==
  ASSUME NEW f \in CXFiles, NEW file, NEW new, NEW r, NEW file2, NEW r2, NEW c,
         Moved(file, f, new, r, file2, r2), PassFits(r, file, c), r # CXIdle
  PROVE  PassFits(r2, file2, c)
<1>0. PICK moves : /\ moves = [r.moves EXCEPT ![f] = IF new.at = file[f].at THEN @ ELSE @ + 1]
                   /\ r2 = [r EXCEPT !.moves = moves]
  BY DEF Moved
<1>p. /\ file \in [CXFiles -> RolloutFiles] /\ new \in RolloutFiles /\ file[f].at # "gone" /\ new.ver >= file[f].ver
      /\ file2 = [file EXCEPT ![f] = new]
  BY DEF Moved
<1>1. /\ ShapedPass(r) /\ r.pc \in {"live", "archive", "check", "read", "done"}
      /\ PassBegun(r, file) /\ Whereabouts(r, file)
      /\ r.pc \in {"read", "done"} => Accounted(r) /\ ReadTwice(r, file)
      /\ r.pc = "read" => r.carried \subseteq DOMAIN c.records
      /\ r.pc = "done" => r.todo = {}
  BY DEF PassFits
<1>2. /\ r2.pc = r.pc /\ r2.live = r.live /\ r2.archived = r.archived /\ r2.todo = r.todo
      /\ r2.carried = r.carried /\ r2.staged = r.staged /\ r2.from = r.from /\ r2.moves = moves
      /\ ShapedPass(r2)
  BY <1>0, <1>1 DEF ShapedPass
<1>3. /\ moves \in [CXFiles -> Nat]
      /\ \A g \in CXFiles : moves[g] >= r.moves[g]
      /\ \A g \in CXFiles : file2[g].at # file[g].at => moves[g] = r.moves[g] + 1
      /\ \A g \in CXFiles : file2[g].at = file[g].at => moves[g] = r.moves[g]
  <2>1. r.moves \in [CXFiles -> Nat]
    BY <1>1 DEF PassBegun
  <2>2. ASSUME NEW g \in CXFiles
        PROVE  /\ moves[g] \in Nat /\ moves[g] >= r.moves[g]
               /\ file2[g].at # file[g].at => moves[g] = r.moves[g] + 1
               /\ file2[g].at = file[g].at => moves[g] = r.moves[g]
    <3>1. CASE g = f
      BY <1>0, <1>p, <2>1, <3>1
    <3>2. CASE g # f
      BY <1>0, <1>p, <2>1, <3>2
    <3> QED BY <3>1, <3>2
  <2>3. moves \in [CXFiles -> Nat]
    BY <1>0, <2>1, <2>2
  <2> QED BY <2>2, <2>3
<1>4. /\ \A g \in CXFiles : file2[g].ver \in Nat /\ file[g].ver \in Nat /\ file2[g].ver >= file[g].ver
      /\ \A g \in CXFiles : file2[g].at \in {"live", "archive", "gone"} /\ file[g].at \in {"live", "archive", "gone"}
  BY <1>p DEF RolloutFiles
<1>m. \A g \in CXFiles : r.moves[g] \in Nat /\ moves[g] \in Nat
  BY <1>1, <1>3 DEF PassBegun
<1>5. PassBegun(r2, file2)
  BY <1>1, <1>2, <1>3, <1>4 DEF PassBegun
<1>6. Whereabouts(r2, file2)
  <2> SUFFICES ASSUME NEW g \in CXFiles
               PROVE  /\ r.pc = "archive" =>
                           /\ g \in r.live /\ file2[g].at # "live" => moves[g] >= 1
                           /\ g \in DOMAIN r.from /\ g \notin r.live /\ file2[g].at = "live" => moves[g] >= 1
                      /\ r.pc \notin {"live", "archive"} =>
                           /\ g \in r.live \cap r.archived => moves[g] >= 1 /\ (file2[g].at = "live" => moves[g] >= 2)
                           /\ g \in DOMAIN r.from /\ file2[g].at # "gone" /\ moves[g] <= 1 /\ g \notin r.live \cup r.archived
                                => r.pc = "check" /\ file2[g].at = "live" /\ moves[g] = 1
    BY <1>2 DEF Whereabouts, StillThere
  <2>1. CASE file2[g].at = file[g].at
    BY <1>1, <1>3, <2>1 DEF Whereabouts, StillThere
  <2>2. CASE file2[g].at # file[g].at
    <3>1. moves[g] = r.moves[g] + 1
      BY <1>3, <2>2
    <3>2. r.moves[g] \in Nat /\ file[g].at \in {"live", "archive", "gone"} /\ file2[g].at \in {"live", "archive", "gone"}
      BY <1>m, <1>4
    <3>3. file[g].at # "gone"
      BY <1>p, <2>2
    <3>4. r.pc \notin {"live", "archive"} =>
            /\ g \in r.live \cap r.archived => r.moves[g] >= 1 /\ (file[g].at = "live" => r.moves[g] >= 2)
            /\ g \in DOMAIN r.from /\ r.moves[g] <= 1 /\ g \notin r.live \cup r.archived
                 => r.moves[g] = 1
      BY <1>1, <3>3 DEF Whereabouts, StillThere
    <3>5. r.pc \notin {"live", "archive"} =>
            /\ g \in r.live \cap r.archived => moves[g] >= 1 /\ (file2[g].at = "live" => moves[g] >= 2)
            /\ ~(g \in DOMAIN r.from /\ moves[g] <= 1 /\ g \notin r.live \cup r.archived)
      BY <3>1, <3>2, <3>4
    <3>6. moves[g] >= 1
      BY <3>1, <3>2
    <3> QED BY <3>5, <3>6
  <2> QED BY <2>1, <2>2
<1>7. Accounted(r) => Accounted(r2)
  BY <1>2 DEF Accounted, AsFresh
<1>8. ReadTwice(r, file) => ReadTwice(r2, file2)
  <2> SUFFICES ASSUME ReadTwice(r, file) PROVE ReadTwice(r2, file2)
    OBVIOUS
  <2>1. ASSUME NEW g \in r.live \cap r.archived, CXDay[g] \notin r.carried, <<g, "live">> \in DOMAIN r.staged
        PROVE  /\ moves[g] >= 2
               /\ file2[g].at # "live" => moves[g] >= 3
               /\ <<g, "archive">> \in DOMAIN r.staged => moves[g] >= 3
    <3>1. g \in CXFiles
      BY <1>1 DEF PassBegun
    <3>2. /\ r.moves[g] >= 2
          /\ file[g].at # "live" => r.moves[g] >= 3
          /\ <<g, "archive">> \in DOMAIN r.staged => r.moves[g] >= 3
      BY <2>1 DEF ReadTwice
    <3> QED BY <1>3, <1>m, <3>1, <3>2
  <2> QED BY <1>2, <2>1 DEF ReadTwice, Listed
<1> QED BY <1>1, <1>2, <1>5, <1>6, <1>7, <1>8 DEF PassFits

(* Newest first, the archive last: there is a next path, and no live one is *)
(* left once an archived one is next.                                       *)
LEMMA NextPathIs ==
  ASSUME cxRun.todo \subseteq CXFiles \X {"live", "archive"}, cxRun.todo # {}
  PROVE  NextPath \in cxRun.todo /\ (NextPath[2] = "archive" => \A g : <<g, "live">> \notin cxRun.todo)
<1> DEFINE S == cxRun.todo
           place == IF \E g : <<g, "live">> \in S THEN "live" ELSE "archive"
           Here == {f \in CXFiles : <<f, place>> \in S}
           D == {CXDay[f] : f \in Here}
           Top == {f \in Here : CXDay[f] = Max(D)}
<1>1. Here # {}
  <2>1. PICK q \in S : TRUE
    OBVIOUS
  <2>2. PICK f \in CXFiles, w \in {"live", "archive"} : q = <<f, w>>
    BY <2>1
  <2>3. (\A g : <<g, "live">> \notin S) => w = "archive" /\ place = "archive"
    BY <2>1, <2>2
  <2>4. PICK g : <<g, place>> \in S
    BY <2>1, <2>2, <2>3
  <2> QED BY <2>4
<1>2. D \subseteq 0..CXStart /\ D # {} /\ CXStart \in Nat
  BY <1>1, CXAssumption
<1>3. Max(D) \in D /\ \A d \in D : d <= Max(D)
  BY <1>2, MaxIsMember
<1>4. PICK n \in Nat : CXFiles = 1..n
  BY CXAssumption, FS_CardinalityType
<1>5. Top # {} /\ Top \subseteq 0..n
  <2>1. \E f \in Here : CXDay[f] = Max(D)
    BY <1>3
  <2>2. 1..n \subseteq 0..n
    OBVIOUS
  <2> QED BY <1>4, <2>1, <2>2
<1>6. Max(Top) \in Top /\ \A f \in Top : f <= Max(Top)
  BY <1>5, MaxIsMember
<1> DEFINE p == <<Max(Top), place>>
<1>7. p \in S
  BY <1>6
<1>8. ASSUME NEW q \in S, q # p PROVE Before(p, q)
  <2>1. PICK f \in CXFiles, w \in {"live", "archive"} : q = <<f, w>>
    OBVIOUS
  <2>2. CASE w # place
    <3>1. place = "live" /\ w = "archive"
      BY <2>1, <2>2
    <3> QED BY <2>1, <3>1 DEF Before
  <2>3. CASE w = place
    <3>1. f \in Here /\ f # Max(Top)
      BY <1>8, <2>1, <2>3
    <3>2. /\ CXDay[f] \in D /\ CXDay[f] <= Max(D) /\ CXDay[f] \in Int /\ Max(D) \in Int
          /\ Max(Top) \in Int /\ f \in Int /\ CXDay[Max(Top)] = Max(D)
      <4>1. CXDay[f] \in D
        BY <3>1
      <4>2. Max(Top) \in CXFiles /\ CXDay[Max(Top)] = Max(D)
        BY <1>6
      <4>4. \A g \in CXFiles : g \in Int
        BY <1>4
      <4> HIDE DEF D, Top
      <4>3. \A d \in D : d \in Int
        BY <1>2
      <4> QED BY <1>3, <4>1, <4>2, <4>3, <4>4
    <3>3. CXDay[f] = Max(D) => f <= Max(Top)
      BY <1>6, <3>1
    <3>4. \/ CXDay[Max(Top)] > CXDay[f]
          \/ CXDay[Max(Top)] = CXDay[f] /\ Max(Top) > f
      <4> HIDE DEF Here, D, Top
      <4> QED BY <3>1, <3>2, <3>3
    <3>5. p[1] = Max(Top) /\ p[2] = place /\ q[1] = f /\ q[2] = place
      BY <2>1, <2>3
    <3> HIDE DEF p, place, Top
    <3> QED BY <3>4, <3>5 DEF Before
  <2> QED BY <2>2, <2>3
<1> HIDE DEF p
<1>9. NextPath \in S /\ \A q \in S \ {NextPath} : Before(NextPath, q)
  BY <1>7, <1>8 DEF NextPath
<1>10. ASSUME NextPath[2] = "archive", NEW g, <<g, "live">> \in S PROVE FALSE
  <2>1. Before(NextPath, <<g, "live">>)
    BY <1>9, <1>10
  <2> QED BY <1>10, <2>1 DEF Before
<1> QED BY <1>9, <1>10

(* Codex may do anything to a rollout at any moment of a pass.              *)
LEMMA DisturbKeeps ==
  ASSUME ScanInv, NEW f \in CXFiles, NEW new \in RolloutFiles, new.ver >= cxFile[f].ver,
         cxFile[f].at # "gone", Disturb(f, new)
  PROVE  ScanInv'
<1>1. cxFile \in [CXFiles -> RolloutFiles] /\ cxFile' = [cxFile EXCEPT ![f] = new]
  BY DEF ScanInv, FilesOK, Disturb
<1>2. FilesOK'
  BY <1>1 DEF ScanInv, FilesOK, Disturb
<1>3. PassFits(cxRun', cxFile', cxCache)
  <2>0. PassFits(cxRun, cxFile, cxCache)
    BY DEF ScanInv
  <2>1. CASE cxRun = CXIdle
    BY <2>1 DEF Disturb, CXIdle, PassFits
  <2>2. CASE cxRun # CXIdle
    <3>1. cxRun.pc # "idle"
      BY <2>0, <2>2 DEF PassFits
    <3>2. cxRun' = [cxRun EXCEPT !.moves[f] = IF new.at = cxFile[f].at THEN @ ELSE @ + 1]
      BY <3>1 DEF Disturb
    <3>3. PICK moves : moves = [cxRun.moves EXCEPT ![f] = IF new.at = cxFile[f].at THEN @ ELSE @ + 1]
      OBVIOUS
    <3>4. cxRun' = [cxRun EXCEPT !.moves = moves]
      BY <3>2, <3>3
    <3>5. PICK r, file, c : r = cxRun /\ file = cxFile /\ c = cxCache
      OBVIOUS
    <3>6. PICK r2, file2 : r2 = cxRun' /\ file2 = cxFile'
      OBVIOUS
    <3>7. Moved(file, f, new, r, file2, r2) /\ PassFits(r, file, c) /\ r # CXIdle
      BY <1>1, <2>0, <2>2, <3>3, <3>4, <3>5, <3>6 DEF Moved
    <3>8. PassFits(r2, file2, c)
      BY <3>7, MovesCount
    <3> QED BY <3>5, <3>6, <3>8
  <2> QED BY <2>1, <2>2
<1> QED BY <1>2, <1>3 DEF ScanInv, Disturb

LEMMA CodexKeeps ==
  ASSUME ScanInv, NEW f \in CXFiles,
         AppendRollout(f) \/ ArchiveRollout(f) \/ UnarchiveRollout(f) \/ DeleteRollout(f)
  PROVE  ScanInv'
<1>1. cxFile[f] \in RolloutFiles /\ cxNow \in Nat
  BY DEF ScanInv, FilesOK
<1>2. /\ [at |-> "live", ver |-> cxFile[f].ver + 1, wrote |-> cxNow] \in RolloutFiles
      /\ \A w \in {"live", "archive", "gone"} :
           [cxFile[f] EXCEPT !.at = w] \in RolloutFiles /\ [cxFile[f] EXCEPT !.at = w].ver = cxFile[f].ver
  BY <1>1 DEF RolloutFiles
<1>3. /\ cxFile[f].ver + 1 >= cxFile[f].ver
      /\ \A w \in {"live", "archive", "gone"} : [cxFile[f] EXCEPT !.at = w].ver >= cxFile[f].ver
  <2>1. cxFile[f].ver \in Nat
    BY <1>1 DEF RolloutFiles
  <2> QED BY <1>2, <2>1
<1>4. CASE AppendRollout(f)
  BY <1>2, <1>3, <1>4, DisturbKeeps DEF AppendRollout
<1>5. CASE ArchiveRollout(f)
  BY <1>2, <1>3, <1>5, DisturbKeeps DEF ArchiveRollout
<1>6. CASE UnarchiveRollout(f)
  BY <1>2, <1>3, <1>6, DisturbKeeps DEF UnarchiveRollout
<1>7. CASE DeleteRollout(f)
  BY <1>2, <1>3, <1>7, DisturbKeeps DEF DeleteRollout
<1> QED BY <1>4, <1>5, <1>6, <1>7

(* The steps of a pass.                                                     *)
LEMMA InPass ==
  ASSUME ScanInv, cxRun.pc # "idle"
  PROVE  /\ ShapedPass(cxRun) /\ cxRun.pc \in {"live", "archive", "check", "read", "done"}
         /\ PassBegun(cxRun, cxFile) /\ Whereabouts(cxRun, cxFile)
         /\ cxRun.pc \in {"read", "done"} => Accounted(cxRun) /\ ReadTwice(cxRun, cxFile)
         /\ cxRun.pc = "read" => cxRun.carried \subseteq DOMAIN cxCache.records
         /\ cxRun.pc = "done" => cxRun.todo = {}
BY DEF ScanInv, PassFits, CXIdle

LEMMA FileIs ==
  ASSUME ScanInv, NEW f \in CXFiles
  PROVE  cxFile[f].at \in {"live", "archive", "gone"} /\ cxFile[f].ver \in Nat
BY DEF ScanInv, FilesOK, RolloutFiles

LEMMA BeginPassKeeps == ScanInv /\ BeginPass => ScanInv'
<1> SUFFICES ASSUME ScanInv, BeginPass PROVE ScanInv'
  OBVIOUS
<1>1. PICK from : from = [f \in ListedAt("live") \cup ListedAt("archive") |-> cxFile[f].ver]
  OBVIOUS
<1>2. PICK moves : moves = [f \in CXFiles |-> 0]
  OBVIOUS
<1>3. PICK r : r = cxRun'
  OBVIOUS
<1>4. r = [pc |-> "live", live |-> {}, archived |-> {}, todo |-> {}, carried |-> {},
           staged |-> <<>>, learned |-> FALSE, queue |-> <<>>, moves |-> moves, from |-> from]
  BY <1>1, <1>2, <1>3 DEF BeginPass
<1>5. /\ ShapedPass(r) /\ r.pc = "live" /\ r.live = {} /\ r.archived = {} /\ r.moves = moves /\ r.from = from
  BY <1>4 DEF ShapedPass
<1>6. moves \in [CXFiles -> Nat]
  BY <1>2
<1>7. /\ DOMAIN from \subseteq CXFiles
      /\ \A f \in DOMAIN from : from[f] \in Nat /\ from[f] <= cxFile[f].ver
  <2>1. DOMAIN from \subseteq CXFiles /\ \A f \in DOMAIN from : from[f] = cxFile[f].ver
    BY <1>1 DEF ListedAt
  <2> QED BY <2>1, FileIs
<1>8. PassBegun(r, cxFile)
  BY <1>5, <1>6, <1>7 DEF PassBegun
<1>9. Whereabouts(r, cxFile)
  BY <1>5 DEF Whereabouts
<1>10. PassFits(r, cxFile, cxCache)
  BY <1>5, <1>8, <1>9 DEF PassFits
<1> QED BY <1>3, <1>10 DEF ScanInv, FilesOK, BeginPass

LEMMA ListLiveKeeps == ScanInv /\ ListLive => ScanInv'
<1> SUFFICES ASSUME ScanInv, ListLive PROVE ScanInv'
  OBVIOUS
<1>1. /\ ShapedPass(cxRun) /\ cxRun.pc = "live" /\ PassBegun(cxRun, cxFile)
  BY InPass DEF ListLive, Steps
<1>2. PICK r : r = cxRun'
  OBVIOUS
<1>3. /\ ShapedPass(r) /\ r.pc = "archive" /\ r.live = ListedAt("live") /\ r.archived = cxRun.archived
      /\ r.moves = cxRun.moves /\ r.from = cxRun.from
  BY <1>1, <1>2 DEF ListLive, ShapedPass
<1>4. PassBegun(r, cxFile)
  BY <1>1, <1>3 DEF PassBegun, ListedAt
<1>5. Whereabouts(r, cxFile)
  BY <1>3 DEF Whereabouts, ListedAt
<1>6. PassFits(r, cxFile, cxCache)
  BY <1>3, <1>4, <1>5 DEF PassFits
<1> QED BY <1>2, <1>6 DEF ScanInv, FilesOK, ListLive, Steps

LEMMA ListArchiveKeeps == ScanInv /\ ListArchive => ScanInv'
<1> SUFFICES ASSUME ScanInv, ListArchive PROVE ScanInv'
  OBVIOUS
<1>1. /\ ShapedPass(cxRun) /\ cxRun.pc = "archive" /\ PassBegun(cxRun, cxFile) /\ Whereabouts(cxRun, cxFile)
  BY InPass DEF ListArchive, Steps
<1>2. PICK r : r = cxRun'
  OBVIOUS
<1>3. /\ ShapedPass(r) /\ r.pc = "check" /\ r.live = cxRun.live /\ r.archived = ListedAt("archive")
      /\ r.moves = cxRun.moves /\ r.from = cxRun.from
  BY <1>1, <1>2 DEF ListArchive, ShapedPass
<1>4. PassBegun(r, cxFile)
  BY <1>1, <1>3 DEF PassBegun, ListedAt
<1>5. Whereabouts(r, cxFile)
  <2> SUFFICES ASSUME NEW f \in CXFiles
               PROVE  /\ f \in r.live \cap r.archived => r.moves[f] >= 1 /\ (cxFile[f].at = "live" => r.moves[f] >= 2)
                      /\ StillThere(r, cxFile, f) /\ f \notin r.live \cup r.archived
                           => cxFile[f].at = "live" /\ r.moves[f] = 1
    BY <1>3 DEF Whereabouts
  <2>1. r.moves[f] \in Nat
    BY <1>4 DEF PassBegun
  <2>2. f \in r.archived <=> cxFile[f].at = "archive"
    BY <1>3 DEF ListedAt
  <2>3. /\ f \in r.live /\ cxFile[f].at # "live" => r.moves[f] >= 1
        /\ f \in DOMAIN r.from /\ f \notin r.live /\ cxFile[f].at = "live" => r.moves[f] >= 1
    BY <1>1, <1>3 DEF Whereabouts
  <2> QED BY <2>1, <2>2, <2>3, FileIs DEF StillThere
<1>6. PassFits(r, cxFile, cxCache)
  BY <1>3, <1>4, <1>5 DEF PassFits
<1> QED BY <1>2, <1>6 DEF ScanInv, FilesOK, ListArchive, Steps

(* What a pass takes on trust, and what it is left to read.                 *)
LEMMA CarryIs ==
  ASSUME ScanInv, cxRun.pc = "check"
  PROVE  LET r == Carry(cxRun)
         IN  /\ ShapedPass(r) /\ r.pc = "read" /\ r.live = cxRun.live /\ r.archived = cxRun.archived
             /\ r.moves = cxRun.moves /\ r.from = cxRun.from /\ r.carried \subseteq Trusted(cxRun)
             /\ DOMAIN r.staged = {<<f, "live">> : f \in {g \in r.live : CXDay[g] \in r.carried}}
             /\ r.todo = ({f \in r.live : CXDay[f] \notin r.carried} \X {"live"}) \cup (r.archived \X {"archive"})
<1>1. ShapedPass(cxRun)
  BY InPass
<1>2. PICK days, checked : days = Trusted(cxRun) /\ checked = Stalest(days)
  OBVIOUS
<1>3. PICK bad : bad = IF days = {} THEN {}
                       ELSE IF Digest(StatOf(checked)) = Digest(cxCache.records[checked]) THEN {} ELSE {checked}
  OBVIOUS
<1>4. PICK carried : carried = days \ bad
  OBVIOUS
<1>5. PICK keys : keys = {<<f, "live">> : f \in {g \in cxRun.live : CXDay[g] \in carried}}
  OBVIOUS
<1>6. PICK rest : rest = SelectSeq(cxCache.settled, LAMBDA d : d \in carried /\ d # checked)
  OBVIOUS
<1>7. PICK staged : staged = [k \in keys |-> cxCache.files[k]]
  OBVIOUS
<1>8. PICK queue : queue = IF days = {} \/ bad # {} THEN rest ELSE Append(rest, checked)
  OBVIOUS
<1>9. PICK todo : todo = ({f \in cxRun.live : CXDay[f] \notin carried} \X {"live"}) \cup (cxRun.archived \X {"archive"})
  OBVIOUS
<1>10. Carry(cxRun) = [cxRun EXCEPT !.pc = "read", !.carried = carried, !.staged = staged, !.queue = queue, !.todo = todo]
  BY <1>2, <1>3, <1>4, <1>5, <1>6, <1>7, <1>8, <1>9 DEF Carry
<1>11. PICK r : r = Carry(cxRun)
  OBVIOUS
<1>12. /\ ShapedPass(r) /\ r.pc = "read" /\ r.live = cxRun.live /\ r.archived = cxRun.archived
       /\ r.moves = cxRun.moves /\ r.from = cxRun.from /\ r.carried = carried /\ r.staged = staged /\ r.todo = todo
  BY <1>1, <1>10, <1>11 DEF ShapedPass
<1>13. carried \subseteq Trusted(cxRun) /\ DOMAIN staged = keys
  BY <1>2, <1>4, <1>7
<1> QED BY <1>5, <1>9, <1>11, <1>12, <1>13

LEMMA CheckListingsKeeps == ScanInv /\ CheckListings => ScanInv'
<1> SUFFICES ASSUME ScanInv, CheckListings PROVE ScanInv'
  OBVIOUS
<1>1. /\ cxRun.pc = "check" /\ PassBegun(cxRun, cxFile) /\ Whereabouts(cxRun, cxFile)
  BY InPass DEF CheckListings, Steps
<1>2. PICK r : r = cxRun' /\ r = Carry(cxRun)
  BY DEF CheckListings
<1>3. /\ ShapedPass(r) /\ r.pc = "read" /\ r.live = cxRun.live /\ r.archived = cxRun.archived
      /\ r.moves = cxRun.moves /\ r.from = cxRun.from /\ r.carried \subseteq Trusted(cxRun)
      /\ DOMAIN r.staged = {<<f, "live">> : f \in {g \in r.live : CXDay[g] \in r.carried}}
      /\ r.todo = ({f \in r.live : CXDay[f] \notin r.carried} \X {"live"}) \cup (r.archived \X {"archive"})
  BY <1>1, <1>2, CarryIs
<1>4. PassBegun(r, cxFile)
  BY <1>1, <1>3 DEF PassBegun
<1>5. Whereabouts(r, cxFile)
  <2> SUFFICES ASSUME NEW f \in CXFiles
               PROVE  /\ f \in r.live \cap r.archived => r.moves[f] >= 1 /\ (cxFile[f].at = "live" => r.moves[f] >= 2)
                      /\ ~(StillThere(r, cxFile, f) /\ f \notin r.live \cup r.archived)
    BY <1>3 DEF Whereabouts
  <2>1. cxFile[f].at = "live" => f \in r.live
    BY <1>3 DEF CheckListings, Reappeared, ListedAt
  <2> QED BY <1>1, <1>3, <2>1 DEF Whereabouts, StillThere
<1>6. Accounted(r)
  BY <1>3, <1>4 DEF Accounted, PassBegun
<1>7. ASSUME NEW f \in r.live, CXDay[f] \in r.carried PROVE "" \notin CXTurns[f] /\ CXDay[f] \in DOMAIN cxCache.records
  <2>1. CXDay[f] \in Trusted(cxRun)
    BY <1>3, <1>7
  <2>2. CXDay[f] \in DOMAIN cxCache.records /\ InDay(cxRun.live, CXDay[f]) = DOMAIN cxCache.records[CXDay[f]]
    BY <2>1 DEF Trusted
  <2>3. f \in DOMAIN cxCache.records[CXDay[f]]
    BY <1>3, <2>2 DEF InDay
  <2> QED BY <2>2, <2>3 DEF ScanInv, Settled
<1>8. ReadTwice(r, cxFile)
  <2>1. r.todo \subseteq Listed(r) /\ DOMAIN r.staged \subseteq Listed(r)
    BY <1>3 DEF Listed
  <2>2. \A f \in r.live : CXDay[f] \in r.carried => <<f, "live">> \notin r.todo
    BY <1>3
  <2>3. /\ \A f : <<f, "archive">> \notin DOMAIN r.staged
        /\ \A f : <<f, "live">> \in DOMAIN r.staged => CXDay[f] \in r.carried
    BY <1>3
  <2> QED BY <1>7, <2>1, <2>2, <2>3 DEF ReadTwice
<1>9. r.carried \subseteq DOMAIN cxCache.records
  BY <1>3 DEF Trusted
<1>10. PassFits(r, cxFile, cxCache)
  BY <1>3, <1>4, <1>5, <1>6, <1>8, <1>9 DEF PassFits
<1> QED BY <1>2, <1>10 DEF ScanInv, FilesOK, CheckListings, Steps

LEMMA ReadRolloutKeeps == ScanInv /\ ReadRollout => ScanInv'
<1> SUFFICES ASSUME ScanInv, ReadRollout PROVE ScanInv'
  OBVIOUS
<1>1. /\ ShapedPass(cxRun) /\ cxRun.pc = "read" /\ PassBegun(cxRun, cxFile) /\ Whereabouts(cxRun, cxFile)
      /\ Accounted(cxRun) /\ ReadTwice(cxRun, cxFile) /\ cxRun.carried \subseteq DOMAIN cxCache.records
  BY InPass DEF ReadRollout, Steps
<1>2. cxRun.todo \subseteq CXFiles \X {"live", "archive"}
  BY <1>1 DEF ReadTwice, Listed, PassBegun
<1>3. PICK p : p = NextPath
  OBVIOUS
<1>4. p \in cxRun.todo /\ (p[2] = "archive" => \A g : <<g, "live">> \notin cxRun.todo)
  BY <1>2, <1>3, NextPathIs DEF ReadRollout
<1>5. PICK f \in CXFiles, w \in {"live", "archive"} : p = <<f, w>>
  BY <1>2, <1>4
<1>6. cxFile[f].at = w
  BY <1>3, <1>5 DEF ReadRollout, Found
<1>7. PICK staged : staged = [q \in {p} \cup DOMAIN cxRun.staged |-> IF q = p THEN Identity(p[1]) ELSE cxRun.staged[q]]
  OBVIOUS
<1>8. PICK learned : cxRun' = [cxRun EXCEPT !.todo = @ \ {p}, !.learned = learned, !.staged = staged]
  BY <1>3, <1>7 DEF ReadRollout
<1>9. PICK r : r = cxRun'
  OBVIOUS
<1>10. /\ ShapedPass(r) /\ r.pc = "read" /\ r.live = cxRun.live /\ r.archived = cxRun.archived
       /\ r.moves = cxRun.moves /\ r.from = cxRun.from /\ r.carried = cxRun.carried
       /\ r.todo = cxRun.todo \ {p} /\ r.staged = staged
  BY <1>1, <1>8, <1>9 DEF ShapedPass
<1>11. /\ DOMAIN staged = DOMAIN cxRun.staged \cup {p}
       /\ staged[p] = Identity(f)
       /\ \A q \in DOMAIN cxRun.staged : q # p => staged[q] = cxRun.staged[q]
  BY <1>5, <1>7
<1>12. staged[p].ver = cxFile[f].ver /\ cxFile[f].ver \in Nat
  BY <1>11, FileIs DEF Identity
<1>13. PassBegun(r, cxFile)
  BY <1>1, <1>10 DEF PassBegun
<1>14. Whereabouts(r, cxFile)
  BY <1>1, <1>10 DEF Whereabouts, StillThere
<1>15. Accounted(r)
  <2>1. ASSUME NEW g \in DOMAIN r.from, NEW v, AsFresh(cxRun, <<g, v>>) \/ <<g, v>> \in cxRun.todo
        PROVE  <<g, v>> \in r.todo \/ AsFresh(r, <<g, v>>)
    <3>1. CASE <<g, v>> = p
      <4>1. g = f
        BY <1>5, <3>1
      <4>2. r.from[g] <= cxFile[g].ver /\ r.from[g] \in Nat
        BY <1>13 DEF PassBegun
      <4> QED BY <1>10, <1>11, <1>12, <3>1, <4>1, <4>2 DEF AsFresh
    <3>2. CASE <<g, v>> # p
      BY <1>10, <1>11, <2>1, <3>2 DEF AsFresh
    <3> QED BY <3>1, <3>2
  <2>2. ASSUME NEW g \in DOMAIN r.from
        PROVE  /\ g \in r.archived => <<g, "archive">> \in r.todo \/ AsFresh(r, <<g, "archive">>)
               /\ g \in r.live => IF CXDay[g] \in r.carried THEN <<g, "live">> \in DOMAIN r.staged
                                  ELSE <<g, "live">> \in r.todo \/ AsFresh(r, <<g, "live">>) \/ g \in r.archived
    <3>1. /\ g \in r.archived => <<g, "archive">> \in cxRun.todo \/ AsFresh(cxRun, <<g, "archive">>)
          /\ g \in r.live => IF CXDay[g] \in r.carried THEN <<g, "live">> \in DOMAIN cxRun.staged
                             ELSE <<g, "live">> \in cxRun.todo \/ AsFresh(cxRun, <<g, "live">>) \/ g \in r.archived
      BY <1>1, <1>10 DEF Accounted
    <3> QED BY <1>10, <1>11, <2>1, <3>1
  <2> QED BY <2>2 DEF Accounted
<1>16. ReadTwice(r, cxFile)
  <2>1. r.todo \subseteq Listed(r) /\ DOMAIN r.staged \subseteq Listed(r)
    BY <1>1, <1>4, <1>10, <1>11 DEF ReadTwice, Listed
  <2>2. \A g \in r.live : CXDay[g] \in r.carried => "" \notin CXTurns[g] /\ <<g, "live">> \notin r.todo
    BY <1>1, <1>10 DEF ReadTwice
  <2>3. ASSUME NEW g \in CXFiles, NEW h \in CXFiles, <<g, "archive">> \in DOMAIN r.staged PROVE <<h, "live">> \notin r.todo
    <3>1. CASE <<g, "archive">> = p
      BY <1>4, <1>10, <3>1
    <3>2. CASE <<g, "archive">> # p
      BY <1>1, <1>10, <1>11, <2>3, <3>2 DEF ReadTwice
    <3> QED BY <3>1, <3>2
  <2>4. ASSUME NEW g \in r.live \cap r.archived, CXDay[g] \notin r.carried, <<g, "live">> \in DOMAIN r.staged
        PROVE  /\ r.moves[g] >= 2
               /\ cxFile[g].at # "live" => r.moves[g] >= 3
               /\ <<g, "archive">> \in DOMAIN r.staged => r.moves[g] >= 3
    <3>0. g \in CXFiles
      BY <1>13 DEF PassBegun
    <3>1. CASE <<g, "live">> = p
      <4>1. g = f /\ cxFile[g].at = "live"
        BY <1>5, <1>6, <3>1
      <4>2. r.moves[g] >= 2
        BY <1>10, <1>14, <2>4, <4>1 DEF Whereabouts
      <4>3. <<g, "archive">> \notin DOMAIN r.staged
        <5>1. <<g, "live">> \in cxRun.todo
          BY <1>4, <3>1
        <5>2. <<g, "archive">> \notin DOMAIN cxRun.staged
          BY <1>1, <3>0, <5>1 DEF ReadTwice
        <5>3. <<g, "archive">> # p
          BY <3>1
        <5> QED BY <1>10, <1>11, <5>2, <5>3
      <4> QED BY <4>1, <4>2, <4>3
    <3>2. CASE <<g, "live">> # p
      <4>1. <<g, "live">> \in DOMAIN cxRun.staged
        BY <1>10, <1>11, <2>4, <3>2
      <4>2. /\ r.moves[g] >= 2
            /\ cxFile[g].at # "live" => r.moves[g] >= 3
            /\ <<g, "archive">> \in DOMAIN cxRun.staged => r.moves[g] >= 3
        BY <1>1, <1>10, <2>4, <4>1 DEF ReadTwice
      <4>3. <<g, "archive">> = p => cxFile[g].at # "live"
        BY <1>5, <1>6
      <4> QED BY <1>10, <1>11, <4>2, <4>3
    <3> QED BY <3>1, <3>2
  <2> QED BY <2>1, <2>2, <2>3, <2>4 DEF ReadTwice
<1>17. PassFits(r, cxFile, cxCache)
  BY <1>1, <1>10, <1>13, <1>14, <1>15, <1>16 DEF PassFits
<1> QED BY <1>9, <1>17 DEF ScanInv, FilesOK, ReadRollout, Steps

LEMMA SkipMovedKeeps == ScanInv /\ SkipMoved => ScanInv'
<1> SUFFICES ASSUME ScanInv, SkipMoved PROVE ScanInv'
  OBVIOUS
<1>1. /\ ShapedPass(cxRun) /\ cxRun.pc = "read" /\ PassBegun(cxRun, cxFile) /\ Whereabouts(cxRun, cxFile)
      /\ Accounted(cxRun) /\ ReadTwice(cxRun, cxFile) /\ cxRun.carried \subseteq DOMAIN cxCache.records
  BY InPass DEF SkipMoved, Steps
<1>2. cxRun.todo \subseteq CXFiles \X {"live", "archive"}
  BY <1>1 DEF ReadTwice, Listed, PassBegun
<1>3. PICK p : p = NextPath
  OBVIOUS
<1>4. p \in cxRun.todo
  BY <1>2, <1>3, NextPathIs DEF SkipMoved
<1>5. PICK f \in CXFiles : p = <<f, "live">> /\ f \in cxRun.archived
  BY <1>2, <1>3, <1>4 DEF SkipMoved
<1>6. cxRun' = [cxRun EXCEPT !.todo = @ \ {p}]
  BY <1>3 DEF SkipMoved
<1>7. PICK r : r = cxRun'
  OBVIOUS
<1>8. /\ ShapedPass(r) /\ r.pc = "read" /\ r.live = cxRun.live /\ r.archived = cxRun.archived
      /\ r.moves = cxRun.moves /\ r.from = cxRun.from /\ r.carried = cxRun.carried
      /\ r.todo = cxRun.todo \ {p} /\ r.staged = cxRun.staged
  BY <1>1, <1>6, <1>7 DEF ShapedPass
<1>9. PassBegun(r, cxFile) /\ Whereabouts(r, cxFile)
  BY <1>1, <1>8 DEF PassBegun, Whereabouts, StillThere
<1>10. Accounted(r)
  <2>1. \A g, v : <<g, v>> \in cxRun.todo => <<g, v>> \in r.todo \/ (g = f /\ v = "live")
    BY <1>5, <1>8
  <2> QED BY <1>1, <1>5, <1>8, <2>1 DEF Accounted, AsFresh
<1>11. ReadTwice(r, cxFile)
  BY <1>1, <1>8 DEF ReadTwice, Listed
<1>12. PassFits(r, cxFile, cxCache)
  BY <1>1, <1>8, <1>9, <1>10, <1>11 DEF PassFits
<1> QED BY <1>7, <1>12 DEF ScanInv, FilesOK, SkipMoved, Steps

(* Only a complete pass settles a day, and none that names an unnamed turn.  *)
LEMMA WholePassSettles ==
  ASSUME ScanInv, cxRun.pc = "read"
  PROVE  ShapedCache(WholePass(cxRun)) /\ Settled(WholePass(cxRun))
<1>1. cxRun.carried \subseteq DOMAIN cxCache.records
  BY InPass
<1>2. PICK c : c = WholePass(cxRun)
  OBVIOUS
<1>3. PICK new : new = {d \in CXDays : Freezes(d, cxRun)}
  OBVIOUS
<1>4. /\ ShapedCache(c) /\ DOMAIN c.records = cxRun.carried \cup new
      /\ \A d \in cxRun.carried \cup new :
           c.records[d] = IF d \in new THEN [f \in InDay(cxRun.live, d) |-> cxRun.staged[<<f, "live">>].ver]
                          ELSE cxCache.records[d]
  BY <1>2, <1>3 DEF WholePass, ShapedCache
<1>5. ASSUME NEW d \in DOMAIN c.records, NEW f \in DOMAIN c.records[d] PROVE "" \notin CXTurns[f]
  <2>1. CASE d \in new
    <3>1. f \in InDay(cxRun.live, d)
      BY <1>4, <1>5, <2>1
    <3>2. ~Shares(d, cxRun)
      BY <1>3, <2>1 DEF Freezes
    <3> QED BY <3>1, <3>2 DEF Shares
  <2>2. CASE d \notin new
    <3>1. d \in DOMAIN cxCache.records /\ c.records[d] = cxCache.records[d]
      BY <1>1, <1>4, <2>2
    <3> QED BY <1>5, <3>1 DEF ScanInv, Settled
  <2> QED BY <2>1, <2>2
<1> QED BY <1>2, <1>4, <1>5 DEF Settled

LEMMA FinishPassKeeps == ScanInv /\ FinishPass => ScanInv'
<1> SUFFICES ASSUME ScanInv, FinishPass PROVE ScanInv'
  OBVIOUS
<1>1. /\ ShapedPass(cxRun) /\ cxRun.pc = "read" /\ PassBegun(cxRun, cxFile) /\ Whereabouts(cxRun, cxFile)
      /\ Accounted(cxRun) /\ ReadTwice(cxRun, cxFile)
  BY InPass DEF FinishPass, Steps
<1>2. PICK c : c = cxCache'
  OBVIOUS
<1>3. ShapedCache(c) /\ Settled(c)
  <2>1. PICK w : w = WholePass(cxRun)
    OBVIOUS
  <2>2. ShapedCache(w) /\ Settled(w)
    BY <1>1, <2>1, WholePassSettles
  <2>3. c = w \/ c = [w EXCEPT !.why = "deadline"] \/ c = cxCache
    BY <1>2, <2>1 DEF FinishPass
  <2>4. CASE c = [w EXCEPT !.why = "deadline"]
    <3>1. ShapedCache(c) /\ c.records = w.records
      BY <2>2, <2>4 DEF ShapedCache
    <3> QED BY <2>2, <3>1 DEF Settled
  <2> QED BY <2>2, <2>3, <2>4 DEF ScanInv
<1>4. PICK r : r = cxRun'
  OBVIOUS
<1>5. PassFits(r, cxFile, c)
  <2>1. CASE r = CXIdle
    BY <2>1 DEF PassFits
  <2>2. CASE r = [cxRun EXCEPT !.pc = "done"]
    <3>1. /\ ShapedPass(r) /\ r.pc = "done" /\ r.live = cxRun.live /\ r.archived = cxRun.archived
          /\ r.moves = cxRun.moves /\ r.from = cxRun.from /\ r.carried = cxRun.carried
          /\ r.todo = {} /\ r.staged = cxRun.staged
      BY <1>1, <2>2 DEF ShapedPass, FinishPass
    <3>2. PassBegun(r, cxFile) /\ Whereabouts(r, cxFile)
      BY <1>1, <3>1 DEF PassBegun, Whereabouts, StillThere
    <3>3. Accounted(r)
      BY <1>1, <3>1 DEF Accounted, AsFresh, FinishPass
    <3>4. ReadTwice(r, cxFile)
      BY <1>1, <3>1 DEF ReadTwice, Listed
    <3> QED BY <3>1, <3>2, <3>3, <3>4 DEF PassFits
  <2> QED BY <1>4, <2>1, <2>2 DEF FinishPass
<1> QED BY <1>2, <1>3, <1>4, <1>5 DEF ScanInv, FilesOK, FinishPass, Steps

(* A pass that ends any other way leaves the settled days.                  *)
LEMMA OtherwiseKeeps == ScanInv /\ (FailPass \/ EndPass \/ ScanDies \/ LoseCache \/ ClockTurns) => ScanInv'
<1> SUFFICES ASSUME ScanInv, FailPass \/ EndPass \/ ScanDies \/ LoseCache \/ ClockTurns PROVE ScanInv'
  OBVIOUS
<1>1. \A c : PassFits(CXIdle, cxFile, c)
  BY DEF PassFits
<1>2. CASE FailPass
  <2>1. PICK c : c = cxCache'
    OBVIOUS
  <2>2. PICK why : Merges(why)
    BY <1>2 DEF FailPass
  <2>3. PICK files, because : c = cxCache \/ c = [cxCache EXCEPT !.files = files, !.why = because]
    BY <2>1, <2>2 DEF Merges
  <2>4. ShapedCache(c) /\ c.records = cxCache.records
    BY <2>3 DEF ScanInv, ShapedCache
  <2> QED BY <1>1, <1>2, <2>1, <2>4 DEF ScanInv, FilesOK, Settled, FailPass
<1>3. CASE EndPass \/ ScanDies
  BY <1>1, <1>3 DEF ScanInv, FilesOK, EndPass, ScanDies, Steps
<1>4. CASE LoseCache
  <2>1. PICK c : c = cxCache' /\ c = NoCache
    BY <1>4 DEF LoseCache
  <2>2. ShapedCache(c) /\ DOMAIN c.records = {}
    BY <2>1 DEF NoCache, ShapedCache
  <2>3. cxRun = CXIdle
    BY <1>4 DEF LoseCache, ScanInv, PassFits
  <2> QED BY <1>1, <1>4, <2>1, <2>2, <2>3 DEF ScanInv, FilesOK, Settled, LoseCache
<1>5. CASE ClockTurns
  BY <1>5 DEF ScanInv, FilesOK, ClockTurns
<1> QED BY <1>2, <1>3, <1>4, <1>5

LEMMA ScanStarts == CXInit => ScanInv
<1> SUFFICES ASSUME CXInit PROVE ScanInv
  OBVIOUS
<1>1. FilesOK
  <2>1. \A f \in CXFiles : [at |-> "live", ver |-> 1, wrote |-> CXDay[f]] \in RolloutFiles
    BY CXAssumption DEF RolloutFiles
  <2> QED BY <2>1, CXAssumption DEF FilesOK, CXInit
<1>2. PICK c : c = cxCache /\ c = NoCache
  BY DEF CXInit
<1>3. ShapedCache(c) /\ DOMAIN c.records = {}
  BY <1>2 DEF NoCache, ShapedCache
<1> QED BY <1>1, <1>2, <1>3 DEF ScanInv, Settled, PassFits, CXInit

LEMMA ScanNext == ScanInv /\ [CXNext]_cxVars => ScanInv'
<1> SUFFICES ASSUME ScanInv, [CXNext]_cxVars PROVE ScanInv'
  OBVIOUS
<1>1. CASE UNCHANGED cxVars
  BY <1>1 DEF cxVars, ScanInv, FilesOK
<1>2. CASE CXNext
  BY <1>2, CodexKeeps, BeginPassKeeps, ListLiveKeeps, ListArchiveKeeps, CheckListingsKeeps, ReadRolloutKeeps,
     SkipMovedKeeps, FinishPassKeeps, OtherwiseKeeps DEF CXNext
<1> QED BY <1>1, <1>2

LEMMA ScanInvSays == ScanInv => NothingMissed /\ OneLineage
<1> SUFFICES ASSUME ScanInv, cxRun.pc = "done" PROVE NothingMissed /\ OneLineage
  BY DEF NothingMissed, OneLineage
<1>1. /\ PassBegun(cxRun, cxFile) /\ Whereabouts(cxRun, cxFile) /\ Accounted(cxRun) /\ ReadTwice(cxRun, cxFile)
      /\ cxRun.todo = {}
  BY InPass
<1>2. NothingMissed
  <2> SUFFICES ASSUME NEW f \in DOMAIN cxRun.from, cxFile[f].at # "gone", cxRun.moves[f] <= 1
               PROVE  \E place \in {"live", "archive"} :
                        /\ <<f, place>> \in DOMAIN cxRun.staged
                        /\ cxRun.staged[<<f, place>>].ver >= cxRun.from[f] \/ CXDay[f] \in cxRun.carried
    BY DEF NothingMissed
  <2>1. f \in CXFiles
    BY <1>1 DEF PassBegun
  <2>2. f \in cxRun.live \/ f \in cxRun.archived
    BY <1>1, <2>1 DEF Whereabouts, StillThere
  <2>3. CASE f \in cxRun.archived
    <3>1. AsFresh(cxRun, <<f, "archive">>)
      BY <1>1, <2>3 DEF Accounted
    <3> QED BY <3>1 DEF AsFresh
  <2>4. CASE f \notin cxRun.archived /\ CXDay[f] \in cxRun.carried
    BY <1>1, <2>2, <2>4 DEF Accounted
  <2>5. CASE f \notin cxRun.archived /\ CXDay[f] \notin cxRun.carried
    <3>1. AsFresh(cxRun, <<f, "live">>)
      BY <1>1, <2>2, <2>5 DEF Accounted
    <3> QED BY <3>1 DEF AsFresh
  <2> QED BY <2>3, <2>4, <2>5
<1>3. OneLineage
  <2> SUFFICES ASSUME NEW f \in CXFiles, cxRun.moves[f] <= 2,
                      <<f, "live">> \in DOMAIN cxRun.staged, <<f, "archive">> \in DOMAIN cxRun.staged
               PROVE  "" \notin CXTurns[f]
    BY DEF OneLineage
  <2>1. f \in cxRun.live \cap cxRun.archived
    BY <1>1 DEF ReadTwice, Listed
  <2>2. cxRun.moves[f] \in Nat
    BY <1>1 DEF PassBegun
  <2>3. ASSUME CXDay[f] \notin cxRun.carried PROVE cxRun.moves[f] >= 3
    BY <1>1, <2>1, <2>3 DEF ReadTwice
  <2>4. CXDay[f] \in cxRun.carried
    BY <2>2, <2>3
  <2> QED BY <1>1, <2>1, <2>4 DEF ReadTwice
<1> QED BY <1>2, <1>3

(* A published pass over the Codex rollouts misses none that was on disk     *)
(* throughout and moved at most once, and reads no rollout with an unnamed  *)
(* turn twice: codex.py lists the live tree, the archive, and checks the     *)
(* live tree again, for any number of rollouts, days, moves and failures.    *)
THEOREM ScanMissesNothing == CXSpec => [](NothingMissed /\ OneLineage)
<1> QED BY ScanStarts, ScanNext, ScanInvSays, PTL DEF CXSpec

(* ------------------------ the components together ---------------------- *)
(* MCRetro checks the components side by side.  A behaviour of it is, but   *)
(* for their fairness, a behaviour of each: the others stand still.         *)
Stores == (LJInit /\ [][LJNext]_ljVars) /\ SSSpec
Captures == (SWInit /\ [][SWNext]_swVars) /\ ECSpec
Figures == RGSpec /\ RHSpec /\ RSSpec
Ledgers == TCSpec /\ CXSpec /\ CLSpec /\ MLSpec

THEOREM ReadersAreComponents == Spec => Stores /\ Captures /\ Figures /\ Ledgers
<1>1. Init => /\ LJInit /\ SSInit /\ SWInit /\ ECInit /\ RGInit /\ RHInit /\ RSInit
              /\ TCInit /\ CXInit /\ CLInit /\ MLInit
  BY DEF Init
<1>2. [Next]_allVars => [LJNext]_ljVars
  BY DEF Next, allVars, JsonScene, SeenScene, WalkScene, EventsScene, TokensScene, GitScene, HostsScene,
         SessionsScene, CodexScene, LedgerScene, MuseScene
<1>3. [Next]_allVars => [SSNext]_ssVars
  BY DEF Next, allVars, JsonScene, SeenScene, WalkScene, EventsScene, TokensScene, GitScene, HostsScene,
         SessionsScene, CodexScene, LedgerScene, MuseScene
<1>4. [Next]_allVars => [SWNext]_swVars
  BY DEF Next, allVars, JsonScene, SeenScene, WalkScene, EventsScene, TokensScene, GitScene, HostsScene,
         SessionsScene, CodexScene, LedgerScene, MuseScene
<1>5. [Next]_allVars => [ECNext]_ecVars
  BY DEF Next, allVars, JsonScene, SeenScene, WalkScene, EventsScene, TokensScene, GitScene, HostsScene,
         SessionsScene, CodexScene, LedgerScene, MuseScene
<1>6. [Next]_allVars => [TCNext]_tcVars
  BY DEF Next, allVars, JsonScene, SeenScene, WalkScene, EventsScene, TokensScene, GitScene, HostsScene,
         SessionsScene, CodexScene, LedgerScene, MuseScene
<1>7. [Next]_allVars => [RGNext]_rgVars
  BY DEF Next, allVars, JsonScene, SeenScene, WalkScene, EventsScene, TokensScene, GitScene, HostsScene,
         SessionsScene, CodexScene, LedgerScene, MuseScene
<1>8. [Next]_allVars => [ReadHostRow]_rhVars
  BY DEF Next, allVars, JsonScene, SeenScene, WalkScene, EventsScene, TokensScene, GitScene, HostsScene,
         SessionsScene, CodexScene, LedgerScene, MuseScene
<1>9. [Next]_allVars => [ReadSessions]_rsVars
  BY DEF Next, allVars, JsonScene, SeenScene, WalkScene, EventsScene, TokensScene, GitScene, HostsScene,
         SessionsScene, CodexScene, LedgerScene, MuseScene
<1>10. [Next]_allVars => [CXNext]_cxVars
  BY DEF Next, allVars, JsonScene, SeenScene, WalkScene, EventsScene, TokensScene, GitScene, HostsScene,
         SessionsScene, CodexScene, LedgerScene, MuseScene
<1>11. [Next]_allVars => [CLNext]_clVars
  BY DEF Next, allVars, JsonScene, SeenScene, WalkScene, EventsScene, TokensScene, GitScene, HostsScene,
         SessionsScene, CodexScene, LedgerScene, MuseScene
<1>12. [Next]_allVars => [MLNext]_mlVars
  BY DEF Next, allVars, JsonScene, SeenScene, WalkScene, EventsScene, TokensScene, GitScene, HostsScene,
         SessionsScene, CodexScene, LedgerScene, MuseScene
<1>13. Spec => Stores
  BY <1>1, <1>2, <1>3, PTL DEF Spec, Stores, SSSpec
<1>14. Spec => Captures
  BY <1>1, <1>4, <1>5, PTL DEF Spec, Captures, ECSpec
<1>15. Spec => Figures
  BY <1>1, <1>7, <1>8, <1>9, PTL DEF Spec, Figures, RGSpec, RHSpec, RSSpec
<1>16. Spec => Ledgers
  BY <1>1, <1>6, <1>10, <1>11, <1>12, PTL DEF Spec, Ledgers, TCSpec, CXSpec, CLSpec, MLSpec
<1> QED BY <1>13, <1>14, <1>15, <1>16, PTL

(* What a reader takes from a token cache is what the files behind it say,  *)
(* and no locked cache is torn but by a cut write.                          *)
THEOREM CachesExact == Spec => []CachesAreExact
<1>1. LJInv => TornOnlyAfterCut
  BY DEF LJInv, Knowledge, KnownRight, TornOnlyAfterCut
<1>2. Spec => []LJInv
  BY ReadersAreComponents, InitInv, InvStep, PTL DEF Stores
<1>3. Spec => [](CacheIsExact /\ TCTypeOK)
  BY ReadersAreComponents, TokenCacheExact, PTL DEF Ledgers
<1>4. CacheIsExact /\ TornOnlyAfterCut => CachesAreExact
  BY DEF CachesAreExact
<1> QED BY <1>1, <1>2, <1>3, <1>4, PTL

(* A pass over the Codex store misses no rollout, and takes none twice, in  *)
(* MCRetro too: the part of LedgersAreExact that is proved.                 *)
THEOREM CodexPassesMissNothing == Spec => [](NothingMissed /\ OneLineage)
<1> QED BY ReadersAreComponents, ScanMissesNothing, PTL DEF Ledgers

(* So what is proved of each component is true of them side by side.        *)
THEOREM RetroIsRight ==
  ASSUME NoFaults
  PROVE  Spec => /\ [](WalkKeepsCounts /\ NoCommitSkipped /\ CachesAreExact)
                 /\ RefinesStore /\ NoHintAfterAck
<1>1. Spec => []WalkKeepsCounts
  BY ReadersAreComponents, InitRight, WalkNext, RightKeepsCounts, PTL DEF Captures
<1>2. Spec => []NoCommitSkipped
  BY ReadersAreComponents, NoCommitLost, PTL DEF Captures
<1>3. Spec => RefinesStore
  BY ReadersAreComponents, JsonRefines, PTL DEF Stores
<1>4. Spec => NoHintAfterAck
  BY ReadersAreComponents, NeverHintedAgain, PTL DEF Stores
<1> QED BY <1>1, <1>2, <1>3, <1>4, CachesExact, PTL

=============================================================================
