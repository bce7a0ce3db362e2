------------------------- MODULE OfflineQueueProofs -------------------------
(***************************************************************************)
(* Proofs about OfflineQueue.  First what prune returns: its running total  *)
(* is well defined, its sort lists every place once and in order, and its  *)
(* cut leaves a prefix that fits.  Then the invariant of the loop: every   *)
(* report has one place in the agent, and flush holds one batch at most.   *)
(***************************************************************************)
EXTENDS OfflineQueue, FiniteSetTheorems, FunctionTheorems, SequenceTheorems, TLAPS

-----------------------------------------------------------------------------
(* Induction and sums.                                                     *)

\* A set of numbers that is not empty has a least element.
LEMMA Least ==
  ASSUME NEW T \in SUBSET Nat, T # {}
  PROVE  \E n \in T : \A m \in T : n <= m
<1> DEFINE R == {ss \in Nat \X Nat : ss[1] < ss[2]}
<1>1. R = OpToRel(<, Nat)
  BY Zenon DEF OpToRel
<1>2. IsWellFoundedOn(R, Nat)
  BY <1>1, NatLessThanWellFounded
<1> HIDE DEF R
<1>3. PICK x \in T : \A y \in T : <<y, x>> \notin R
  BY <1>2, WFMin
<1>4. \A y \in T : ~(y < x)
  BY <1>3 DEF R
<1> QED
  BY <1>3, <1>4

\* Induction up to N.
LEMMA Reaches ==
  ASSUME NEW N \in Nat, NEW S, 0 \in S, \A k \in 0..N : k \in S /\ k < N => k + 1 \in S
  PROVE  \A k \in 0..N : k \in S
<1> DEFINE T == {k \in 0..N : k \notin S}
<1> SUFFICES ASSUME T # {} PROVE FALSE
  OBVIOUS
<1>0. T \in SUBSET Nat
  OBVIOUS
<1> HIDE DEF T
<1>1. PICK n \in T : \A m \in T : n <= m
  BY <1>0, Least
<1> USE DEF T
<1>2. n \in 0..N /\ n \notin S /\ n # 0
  BY <1>1
<1>3. n - 1 \in 0..N /\ n - 1 < N /\ (n - 1) + 1 = n /\ ~(n <= n - 1)
  BY <1>2
<1>4. n - 1 \in S
  BY <1>1, <1>3
<1> QED
  BY <1>2, <1>3, <1>4

LEMMA UpTo ==
  ASSUME NEW n \in Nat
  PROVE  /\ IsFiniteSet(1..n) /\ Cardinality(1..n) = n
         /\ IsFiniteSet(0..(n - 1)) /\ Cardinality(0..(n - 1)) = n
<1>1. 1 \in Int /\ 0 \in Int /\ n \in Int /\ n - 1 \in Int
  OBVIOUS
<1>2. IsFiniteSet(1..n) /\ Cardinality(1..n) = IF 1 > n THEN 0 ELSE n - 1 + 1
  BY <1>1, FS_Interval
<1>3. IsFiniteSet(0..(n - 1)) /\ Cardinality(0..(n - 1)) = IF 0 > n - 1 THEN 0 ELSE (n - 1) - 0 + 1
  BY <1>1, FS_Interval
<1> QED
  BY <1>2, <1>3

\* A set of numbers up to n has its maximum.
LEMMA Greatest ==
  ASSUME NEW n \in Nat, NEW S \in SUBSET (0..n), S # {}
  PROVE  Max(S) \in S /\ \A x \in S : x <= Max(S)
<1> DEFINE T == {k \in 0..n : n - k \in S}
<1>1. T \in SUBSET Nat /\ T # {}
  <2>1. PICK x \in S : TRUE
    OBVIOUS
  <2>2. x \in 0..n /\ n - x \in 0..n /\ n - (n - x) = x
    BY <2>1
  <2>3. n - x \in T
    BY <2>1, <2>2
  <2>4. T \in SUBSET Nat
    OBVIOUS
  <2> HIDE DEF T
  <2> QED
    BY <2>3, <2>4
<1> HIDE DEF T
<1>2. PICK k \in T : \A m \in T : k <= m
  BY <1>1, Least
<1> USE DEF T
<1>3. ASSUME NEW x \in S PROVE n - x \in T
  <2>1. x \in 0..n /\ n - x \in 0..n /\ n - (n - x) = x
    OBVIOUS
  <2> QED
    BY <2>1
<1>4. n - k \in S /\ \A x \in S : n - k >= x
  BY <1>2, <1>3
<1>5. \E x \in S : \A y \in S : x >= y
  BY <1>4
<1>6. Max(S) \in S /\ \A y \in S : Max(S) >= y
  BY <1>5 DEF Max
<1> QED
  BY <1>6

\* The running total of prune is well defined.
Adds(s, g, n) == g[0] = 0 /\ \A k \in 1..n : g[k] = g[k - 1] + Size[s[k].kind]

LEMMA KindSize == \A it \in Item : Size[it.kind] \in Nat \ {0}
BY QueueAssumption DEF Item

LEMMA TotalsDef ==
  ASSUME NEW s \in Seq(Item)
  PROVE  Totals(s) \in [0..Len(s) -> Nat] /\ Adds(s, Totals(s), Len(s))
<1> DEFINE N == Len(s)
           S == {n \in 0..N : \E g \in [0..n -> Nat] : Adds(s, g, n)}
           Eq(g) == g = [n \in 0..Len(s) |-> IF n = 0 THEN 0 ELSE g[n - 1] + Size[s[n].kind]]
<1>n. N \in Nat /\ DOMAIN s = 1..N /\ \A k \in 1..N : Size[s[k].kind] \in Nat
  BY KindSize
<1> HIDE DEF N
<1>1. 0 \in S
  <2>1. [k \in 0..0 |-> 0] \in [0..0 -> Nat] /\ Adds(s, [k \in 0..0 |-> 0], 0)
    BY DEF Adds
  <2> QED
    BY <1>n, <2>1
<1>2. ASSUME NEW n \in 0..N, n \in S, n < N PROVE n + 1 \in S
  <2>1. PICK g \in [0..n -> Nat] : Adds(s, g, n)
    BY <1>2
  <2> DEFINE h == [k \in 0..(n + 1) |-> IF k = n + 1 THEN g[n] + Size[s[n + 1].kind] ELSE g[k]]
  <2>2. n + 1 \in 1..N /\ n \in 0..n
    BY <1>n, <1>2
  <2>3. h \in [0..(n + 1) -> Nat]
    BY <1>n, <2>1, <2>2
  <2>4. Adds(s, h, n + 1)
    <3>1. h[0] = 0
      BY <1>n, <1>2, <2>1 DEF Adds
    <3>2. ASSUME NEW k \in 1..(n + 1) PROVE h[k] = h[k - 1] + Size[s[k].kind]
      <4>1. CASE k = n + 1
        BY <1>n, <1>2, <4>1
      <4>2. CASE k # n + 1
        <5>1. k \in 1..n /\ k - 1 \in 0..n /\ k - 1 # n + 1
          BY <1>n, <1>2, <3>2, <4>2
        <5>2. h[k] = g[k] /\ h[k - 1] = g[k - 1]
          BY <1>n, <1>2, <5>1
        <5> QED
          BY <2>1, <5>1, <5>2 DEF Adds
      <4> QED
        BY <4>1, <4>2
    <3> QED
      BY <3>1, <3>2 DEF Adds
  <2>5. n + 1 \in 0..N
    BY <1>n, <2>2
  <2> HIDE DEF h
  <2> QED
    BY <2>3, <2>4, <2>5
<1> HIDE DEF S
<1>r. \A n \in 0..N : n \in S
  BY <1>n, <1>1, <1>2, Reaches
<1>3. N \in S
  BY <1>n, <1>r
<1> USE DEF S
<1>4. PICK g \in [0..N -> Nat] : Adds(s, g, N)
  BY <1>3
<1>5. Eq(g)
  <2>1. ASSUME NEW n \in 0..N PROVE g[n] = IF n = 0 THEN 0 ELSE g[n - 1] + Size[s[n].kind]
    BY <1>n, <1>4 DEF Adds
  <2> QED
    BY <1>4, <2>1 DEF N
<1>6. Eq(CHOOSE f : Eq(f))
  BY <1>5, Zenon
<1>7. Eq(Totals(s))
  BY <1>6, Zenon DEF Totals
<1> DEFINE t == Totals(s)
<1> HIDE DEF t
<1>d. t = [n \in 0..N |-> t[n]]
  BY <1>7, Zenon DEF t, N
<1>8. \A n \in 0..N : t[n] = IF n = 0 THEN 0 ELSE t[n - 1] + Size[s[n].kind]
  BY <1>7, Zenon DEF t, N
<1>z. 0 \in 0..N
  BY <1>n
<1>0. t[0] = IF 0 = 0 THEN 0 ELSE t[0 - 1] + Size[s[0].kind]
  BY <1>8, <1>z, Zenon
<1>9. Adds(s, t, N)
  <2>1. ASSUME NEW k \in 1..N PROVE t[k] = t[k - 1] + Size[s[k].kind]
    <3>1. k \in 0..N /\ k # 0
      BY <1>n
    <3> QED
      BY <1>8, <3>1
  <2> QED
    BY <1>0, <2>1 DEF Adds
<1> DEFINE Numbers == {n \in 0..N : t[n] \in Nat}
<1>10. 0 \in Numbers
  BY <1>0, <1>z
<1>11. ASSUME NEW n \in 0..N, n \in Numbers, n < N PROVE n + 1 \in Numbers
  <2>1. n + 1 \in 1..N /\ (n + 1) - 1 = n
    BY <1>n, <1>11
  <2>2. t[n + 1] = t[n] + Size[s[n + 1].kind]
    BY <1>9, <2>1 DEF Adds
  <2>3. t[n] \in Nat /\ Size[s[n + 1].kind] \in Nat
    BY <1>n, <1>11, <2>1
  <2>4. t[n + 1] \in Nat /\ n + 1 \in 0..N
    BY <1>n, <2>1, <2>2, <2>3
  <2> QED
    BY <2>4
<1> HIDE DEF Numbers
<1>12. \A n \in 0..N : n \in Numbers
  BY <1>n, <1>10, <1>11, Reaches
<1> USE DEF Numbers
<1>13. t \in [0..N -> Nat]
  BY <1>d, <1>12
<1> QED
  BY <1>9, <1>13 DEF t, N

LEMMA BytesType ==
  ASSUME NEW s \in Seq(Item)
  PROVE  Bytes(s) \in Nat
<1>1. Totals(s) \in [0..Len(s) -> Nat] /\ Len(s) \in 0..Len(s)
  BY TotalsDef
<1> QED
  BY <1>1 DEF Bytes

\* The totals of a segment are those of the whole, less what stands before it.
LEMMA SegmentTotals ==
  ASSUME NEW s \in Seq(Item), NEW a \in 0..Len(s), NEW b \in a..Len(s)
  PROVE  LET p == SubSeq(s, a + 1, b)
         IN  /\ p \in Seq(Item) /\ Len(p) = b - a
             /\ \A i \in 1..(b - a) : p[i] = s[a + i]
             /\ Bytes(p) + Totals(s)[a] = Totals(s)[b]
<1> DEFINE p == SubSeq(s, a + 1, b)
           N == b - a
           t == Totals(s)
           u == Totals(p)
           S == {k \in 0..N : u[k] + t[a] = t[a + k]}
<1>0. N \in Nat /\ Len(s) \in Nat /\ a \in Nat /\ b \in Nat /\ a <= b /\ b <= Len(s) /\ a + N = b
  OBVIOUS
<1>1. p \in Seq(Item) /\ Len(p) = N /\ \A i \in 1..N : p[i] = s[a + i]
  OBVIOUS
<1>2. t \in [0..Len(s) -> Nat] /\ Adds(s, t, Len(s))
  BY TotalsDef
<1>3. u \in [0..N -> Nat] /\ Adds(p, u, N)
  BY <1>1, TotalsDef
<1> HIDE DEF p, t, u, N
<1>4. 0 \in S
  <2>1. u[0] = 0
    BY <1>3 DEF Adds
  <2>2. 0 \in 0..N /\ a + 0 = a
    BY <1>0
  <2>3. t[a] \in Nat
    BY <1>0, <1>2
  <2> QED
    BY <2>1, <2>2, <2>3
<1>5. ASSUME NEW k \in 0..N, k \in S, k < N PROVE k + 1 \in S
  <2>1. k + 1 \in 1..N /\ (k + 1) - 1 = k /\ a + (k + 1) \in 1..Len(s) /\ (a + (k + 1)) - 1 = a + k
    BY <1>0, <1>5
  <2>2. u[k + 1] = u[k] + Size[p[k + 1].kind]
    BY <1>3, <2>1 DEF Adds
  <2>3. t[a + (k + 1)] = t[a + k] + Size[s[a + (k + 1)].kind]
    BY <1>2, <2>1 DEF Adds
  <2>4. p[k + 1] = s[a + (k + 1)] /\ Size[s[a + (k + 1)].kind] \in Nat
    <3>1. s[a + (k + 1)] \in Item
      BY <2>1
    <3>2. p[k + 1] = s[a + (k + 1)]
      BY <1>1, <2>1
    <3> QED
      BY <3>1, <3>2, KindSize
  <2>8. u[k] + t[a] = t[a + k]
    BY <1>5
  <2>9. k \in 0..N /\ a \in 0..Len(s) /\ a + k \in 0..Len(s)
    BY <1>0, <1>5
  <2>5. u[k] \in Nat /\ t[a] \in Nat /\ t[a + k] \in Nat
    BY <1>2, <1>3, <2>9
  <2>6. u[k + 1] + t[a] = t[a + (k + 1)]
    BY <2>2, <2>3, <2>4, <2>5, <2>8
  <2>7. k + 1 \in 0..N
    BY <1>0, <2>1
  <2> QED
    BY <2>6, <2>7
<1> HIDE DEF S
<1>6. \A k \in 0..N : k \in S
  BY <1>0, <1>4, <1>5, Reaches
<1>7. N \in 0..N
  BY <1>0
<1>8. u[N] + t[a] = t[b]
  BY <1>0, <1>6, <1>7 DEF S
<1>9. p \in Seq(Item) /\ Len(p) = N /\ (\A i \in 1..N : p[i] = s[a + i]) /\ u[Len(p)] + t[a] = t[b]
  BY <1>1, <1>8
<1> QED
  BY <1>9 DEF p, t, u, N, Bytes

-----------------------------------------------------------------------------
(* The sort.                                                               *)

LEMMA PriorityType == \A kind \in Kinds : Priority(kind) \in 0..High
BY DEF Kinds, Priority, High

LEMMA ItemFields == \A it \in Item : it.id \in 1..MaxItems /\ it.kind \in Kinds /\ it.born \in Nat
BY QueueBounds DEF Item

LEMMA PlaceTypes ==
  ASSUME NEW s \in Seq(Item)
  PROVE  \A i \in DOMAIN s : i \in Nat /\ Priority(s[i].kind) \in Nat /\ s[i].born \in Nat
BY ItemFields, PriorityType DEF High

\* Earlier is a strict total order of the places of s.
LEMMA EarlierOrder ==
  ASSUME NEW s \in Seq(Item)
  PROVE  /\ \A i \in DOMAIN s : ~Earlier(s, i, i)
         /\ \A i, j, k \in DOMAIN s : Earlier(s, i, j) /\ Earlier(s, j, k) => Earlier(s, i, k)
         /\ \A i, j \in DOMAIN s : i = j \/ Earlier(s, i, j) \/ Earlier(s, j, i)
BY PlaceTypes DEF Earlier, Before

\* e lists the places kept, each once, in the order of the sort.
Lists(e, s, kept) ==
    /\ e \in [1..Cardinality(kept) -> kept]
    /\ \A i \in kept : \E n \in 1..Cardinality(kept) : e[n] = i
    /\ \A m, n \in 1..Cardinality(kept) : m < n => Earlier(s, e[m], e[n])

LEMMA SortedLists ==
  ASSUME NEW s \in Seq(Item), NEW kept \in SUBSET DOMAIN s
  PROVE  /\ Cardinality(kept) \in 0..Len(s)
         /\ \E e : Lists(e, s, kept) /\ Sorted(s, kept) = [n \in 1..Cardinality(kept) |-> s[e[n]]]
<1> DEFINE M == Cardinality(kept)
           Under(i) == {j \in kept : Earlier(s, j, i)}
           R == [i \in kept |-> Cardinality(Under(i))]
<1>1. IsFiniteSet(kept) /\ M \in 0..Len(s)
  <2>1. Len(s) \in Nat /\ DOMAIN s = 1..Len(s)
    OBVIOUS
  <2>2. IsFiniteSet(1..Len(s)) /\ Cardinality(1..Len(s)) = Len(s)
    BY <2>1, UpTo
  <2>3. kept \in SUBSET (1..Len(s))
    BY <2>1
  <2>4. IsFiniteSet(kept) /\ Cardinality(kept) <= Len(s)
    BY <2>2, <2>3, FS_Subset
  <2> QED
    BY <2>1, <2>4, FS_CardinalityType
<1>m. M \in Nat
  BY <1>1
<1>2. ASSUME NEW i \in kept PROVE R[i] \in 0..(M - 1)
  <2>1. Under(i) \in SUBSET kept /\ Under(i) # kept
    BY EarlierOrder
  <2> DEFINE U == Under(i)
  <2>2. R[i] = Cardinality(U)
    OBVIOUS
  <2> HIDE DEF U
  <2>3. IsFiniteSet(U) /\ Cardinality(U) <= M /\ Cardinality(U) # M
    BY <1>1, <2>1, FS_Subset DEF U
  <2>4. Cardinality(U) \in Nat
    BY <2>3, FS_CardinalityType
  <2> QED
    BY <1>m, <2>2, <2>3, <2>4
<1>3. ASSUME NEW i \in kept, NEW k \in kept, Earlier(s, i, k) PROVE R[i] < R[k]
  <2>1. Under(i) \in SUBSET Under(k) /\ i \in Under(k) /\ i \notin Under(i)
    BY <1>3, EarlierOrder
  <2>2. Under(k) \in SUBSET kept
    OBVIOUS
  <2> DEFINE U == Under(i)
             V == Under(k)
  <2>3. R[i] = Cardinality(U) /\ R[k] = Cardinality(V)
    OBVIOUS
  <2> HIDE DEF U, V
  <2>4. IsFiniteSet(V)
    BY <1>1, <2>2, FS_Subset DEF V
  <2>5. U \in SUBSET V /\ U # V
    BY <2>1 DEF U, V
  <2>6. Cardinality(U) <= Cardinality(V) /\ Cardinality(U) # Cardinality(V)
    BY <2>4, <2>5, FS_Subset
  <2>7. R[i] \in 0..(M - 1) /\ R[k] \in 0..(M - 1)
    BY <1>2
  <2> QED
    BY <1>m, <2>3, <2>6, <2>7
<1>4. \A i, k \in kept : R[i] = R[k] => i = k
  <2> SUFFICES ASSUME NEW i \in kept, NEW k \in kept, R[i] = R[k], i # k PROVE FALSE
    OBVIOUS
  <2>1. Earlier(s, i, k) \/ Earlier(s, k, i)
    BY EarlierOrder
  <2>2. R[i] \in Int /\ R[k] \in Int
    BY <1>m, <1>2
  <2> HIDE DEF R
  <2> QED
    BY <1>3, <2>1, <2>2
<1>5. R \in [kept -> 0..(M - 1)]
  BY <1>2
<1>6. \A n \in 0..(M - 1) : \E i \in kept : R[i] = n
  <2>1. IsFiniteSet(0..(M - 1)) /\ Cardinality(0..(M - 1)) = M
    BY <1>m, UpTo
  <2> DEFINE D == 0..(M - 1)
  <2> HIDE DEF R, D
  <2>2. R \in Injection(kept, D)
    BY <1>4, <1>5, Fun_IsInj DEF D
  <2>3. R \in Surjection(kept, D)
    BY <2>1, <2>2, FS_Injection DEF D
  <2>4. \A n \in D : \E i \in kept : R[i] = n
    BY <2>3, Fun_SurjectionProperties
  <2> QED
    BY <2>4 DEF D
<1> DEFINE At(n) == CHOOSE i \in kept : Cardinality(Under(i)) = n - 1
           e == [n \in 1..M |-> At(n)]
<1>7. ASSUME NEW n \in 1..M PROVE e[n] \in kept /\ R[e[n]] = n - 1
  <2>1. n - 1 \in 0..(M - 1)
    BY <1>m
  <2>2. \E i \in kept : Cardinality(Under(i)) = n - 1
    BY <1>6, <2>1
  <2>3. At(n) \in kept /\ Cardinality(Under(At(n))) = n - 1
    BY <2>2
  <2>4. e[n] = At(n)
    OBVIOUS
  <2> HIDE DEF At, e
  <2> QED
    BY <2>3, <2>4
<1>11. e \in [1..M -> kept]
  BY <1>7
<1>8. Sorted(s, kept) = [n \in 1..M |-> s[e[n]]]
  BY DEF Sorted
<1> HIDE DEF e, R
<1>9. \A i \in kept : \E n \in 1..M : e[n] = i
  <2> TAKE i \in kept
  <2>1. R[i] \in 0..(M - 1)
    BY <1>5
  <2>2. R[i] + 1 \in 1..M /\ (R[i] + 1) - 1 = R[i]
    BY <1>m, <2>1
  <2>3. e[R[i] + 1] = i
    BY <1>4, <1>7, <2>2
  <2> QED
    BY <2>2, <2>3
<1>10. ASSUME NEW m \in 1..M, NEW n \in 1..M, m < n PROVE Earlier(s, e[m], e[n])
  <2>1. e[m] \in kept /\ e[n] \in kept /\ R[e[m]] = m - 1 /\ R[e[n]] = n - 1
    BY <1>7
  <2>2. e[m] # e[n] /\ ~Earlier(s, e[n], e[m])
    BY <1>3, <1>10, <1>m, <2>1
  <2> QED
    BY <2>1, <2>2, EarlierOrder
<1> HIDE DEF M
<1>12. Lists(e, s, kept)
  BY <1>9, <1>10, <1>11 DEF Lists, M
<1> QED
  BY <1>1, <1>8, <1>12 DEF M

-----------------------------------------------------------------------------
(* prune.                                                                  *)

\* f tells for every item of kept where it stood in s.
Chooses(f, s, kept) ==
    /\ f \in [1..Len(kept) -> DOMAIN s]
    /\ \A m, n \in 1..Len(kept) : f[m] = f[n] => m = n
    /\ \A n \in 1..Len(kept) : kept[n] = s[f[n]]

\* What prune returns: items of s, each once, within the limit on bytes; a
\* fresh item that is left out has no higher priority than one that stays.
LEMMA PruneKeeps ==
  ASSUME NEW s \in Seq(Item), NEW kept \in prune(s)
  PROVE  /\ kept \in Seq(Item) /\ Len(kept) <= Len(s) /\ Bytes(kept) <= MaxBytes
         /\ \E f : /\ Chooses(f, s, kept)
                   /\ \A i \in DOMAIN s : 
                        Fresh(s[i]) /\ (\A n \in 1..Len(kept) : f[n] # i)
                        => \A n \in 1..Len(kept) : Priority(s[i].kind) <= Priority(kept[n].kind)
<1> DEFINE I == {i \in DOMAIN s : Fresh(s[i])}
           M == Cardinality(I)
           q == Sorted(s, I)
           Stop(n) == Totals(q)[n] <= MaxBytes \/ (n = 1 /\ Priority(q[1].kind) = High)
           Cuts == {n \in 0..Len(q) : Stop(n)}
           c == Max(Cuts)
<1>1. kept = SubSeq(q, 1, c)
  BY DEF prune, Fitting
<1>2. I \in SUBSET DOMAIN s
  OBVIOUS
<1>i. \A i \in DOMAIN s : Fresh(s[i]) => i \in I
  OBVIOUS
<1> HIDE DEF I
<1>3. M \in 0..Len(s) /\ \E e : Lists(e, s, I) /\ q = [n \in 1..M |-> s[e[n]]]
  BY <1>2, SortedLists
<1>m. M \in Nat /\ M <= Len(s)
  BY <1>3
<1>4. PICK e : Lists(e, s, I) /\ q = [n \in 1..M |-> s[e[n]]]
  BY <1>3
<1> HIDE DEF q, M
<1>5. /\ e \in [1..M -> I] /\ \A i \in I : \E n \in 1..M : e[n] = i
      /\ \A m, n \in 1..M : m < n => Earlier(s, e[m], e[n])
  BY <1>4 DEF Lists, M
<1>6. q \in Seq(Item) /\ Len(q) = M /\ DOMAIN q = 1..M
  <2>1. \A n \in 1..M : s[e[n]] \in Item
    BY <1>2, <1>5
  <2> QED
    BY <1>m, <1>4, <2>1
<1>7. Totals(q) \in [0..M -> Nat] /\ Adds(q, Totals(q), M)
  BY <1>6, TotalsDef
<1>8. c \in Cuts
  <2>1. 0 \in 0..Len(q) /\ Totals(q)[0] <= MaxBytes
    BY <1>m, <1>6, <1>7, QueueAssumption DEF Adds
  <2>2. 0 \in Cuts
    BY <2>1
  <2>3. Cuts \in SUBSET (0..Len(q)) /\ Len(q) \in Nat
    BY <1>m, <1>6
  <2> HIDE DEF Cuts
  <2>4. Cuts # {}
    BY <2>2
  <2> QED
    BY <2>3, <2>4, Greatest
<1>9. c \in 0..M /\ (Totals(q)[c] <= MaxBytes \/ (c = 1 /\ Priority(q[1].kind) = High))
  BY <1>6, <1>8
<1> HIDE DEF c
<1>10. /\ kept \in Seq(Item) /\ Len(kept) = c /\ \A n \in 1..c : kept[n] = q[n]
       /\ Bytes(kept) = Totals(q)[c]
  <2>1. 0 \in 0..Len(q) /\ c \in 0..Len(q) /\ 0 + 1 = 1 /\ c - 0 = c
    BY <1>m, <1>6, <1>9
  <2>2. /\ SubSeq(q, 0 + 1, c) \in Seq(Item) /\ Len(SubSeq(q, 0 + 1, c)) = c - 0
        /\ \A i \in 1..(c - 0) : SubSeq(q, 0 + 1, c)[i] = q[0 + i]
        /\ Bytes(SubSeq(q, 0 + 1, c)) + Totals(q)[0] = Totals(q)[c]
    BY <1>6, <2>1, SegmentTotals
  <2>3. kept \in Seq(Item) /\ Len(kept) = c /\ \A n \in 1..c : kept[n] = q[n]
    BY <1>1, <1>9, <1>m, <2>1, <2>2
  <2>4. Bytes(kept) \in Nat
    BY <2>3, BytesType
  <2>5. Bytes(kept) + Totals(q)[0] = Totals(q)[c] /\ Totals(q)[0] = 0
    BY <1>1, <1>7, <2>1, <2>2 DEF Adds
  <2>6. Bytes(kept) = Totals(q)[c]
    BY <2>4, <2>5
  <2> QED
    BY <2>3, <2>6
<1>11. Bytes(kept) <= MaxBytes
  <2>1. CASE c = 1 /\ Priority(q[1].kind) = High
    <3>1. 1 \in 1..M /\ 1 - 1 = 0 /\ q[1] \in Item
      BY <1>6, <1>9, <1>m, <2>1
    <3>2. q[1].kind = "heartbeat"
      BY <2>1, <3>1, ItemFields DEF Priority, Kinds, High
    <3>3. Totals(q)[1] = Totals(q)[0] + Size[q[1].kind] /\ Totals(q)[0] = 0
      BY <1>7, <3>1 DEF Adds
    <3>4. Size["heartbeat"] \in Nat /\ Size["heartbeat"] <= MaxBytes
      BY QueueAssumption DEF Kinds
    <3> QED
      BY <1>10, <2>1, <3>2, <3>3, <3>4
  <2> QED
    BY <1>9, <1>10, <2>1
<1> DEFINE f == [n \in 1..c |-> e[n]]
<1>12. \A n \in 1..c : n \in 1..M /\ f[n] = e[n] /\ e[n] \in I /\ e[n] \in DOMAIN s
  BY <1>2, <1>5, <1>9, <1>m
<1>f. f \in [1..c -> DOMAIN s]
  BY <1>12
<1> HIDE DEF f
<1>13. Chooses(f, s, kept)
  <2>1. ASSUME NEW m \in 1..c, NEW n \in 1..c, f[m] = f[n] PROVE m = n
    <3>1. m \in 1..M /\ n \in 1..M /\ e[m] = e[n] /\ e[m] \in DOMAIN s
      BY <1>12, <2>1
    <3>2. ~Earlier(s, e[m], e[n]) /\ ~Earlier(s, e[n], e[m])
      BY <3>1, EarlierOrder
    <3> QED
      BY <1>5, <1>m, <3>1, <3>2
  <2>2. \A n \in 1..c : kept[n] = s[f[n]]
    BY <1>4, <1>10, <1>12
  <2> QED
    BY <1>10, <1>f, <2>1, <2>2 DEF Chooses
<1>14. ASSUME NEW i \in DOMAIN s, Fresh(s[i]), \A n \in 1..c : f[n] # i, NEW n \in 1..c
       PROVE  Priority(s[i].kind) <= Priority(kept[n].kind)
  <2>1. PICK k \in 1..M : e[k] = i
    BY <1>5, <1>i, <1>14
  <2>2. k \notin 1..c /\ n < k
    BY <1>9, <1>12, <1>14, <1>m, <2>1
  <2>3. n \in 1..M /\ Earlier(s, e[n], i) /\ kept[n] = s[e[n]] /\ e[n] \in DOMAIN s
    BY <1>4, <1>5, <1>10, <1>12, <1>14, <2>1, <2>2
  <2>4. Priority(s[i].kind) \in Nat /\ Priority(s[e[n]].kind) \in Nat
    BY <1>14, <2>3, PlaceTypes
  <2>5. ~Before(s[i], s[e[n]])
    BY <1>14, <2>3, <2>4, PlaceTypes DEF Earlier, Before
  <2> QED
    BY <2>3, <2>4, <2>5 DEF Before
<1>15. c <= Len(s)
  BY <1>9, <1>m
<1> QED
  BY <1>10, <1>11, <1>13, <1>14, <1>15

-----------------------------------------------------------------------------
(* Names.                                                                  *)

Distinct(s) == \A i, j \in DOMAIN s : s[i].id = s[j].id => i = j

\* As many names as items.
LEMMA IdsCount ==
  ASSUME NEW s \in Seq(Item), Distinct(s)
  PROVE  IsFiniteSet(Ids(s)) /\ Cardinality(Ids(s)) = Len(s)
<1> DEFINE D == 1..Len(s)
           b == [i \in D |-> s[i].id]
<1>1. IsFiniteSet(D) /\ Cardinality(D) = Len(s) /\ DOMAIN s = D
  BY UpTo
<1>2. b \in [D -> Ids(s)] /\ \A i, j \in D : b[i] = b[j] => i = j
  BY <1>1 DEF Ids, Distinct
<1>3. \A x \in Ids(s) : \E i \in D : b[i] = x
  BY <1>1 DEF Ids
<1> HIDE DEF D, b
<1>4. b \in Bijection(D, Ids(s))
  BY <1>2, <1>3, Fun_IsBij
<1>5. ExistsBijection(D, Ids(s))
  BY <1>4, Fun_ExistsBij
<1> QED
  BY <1>1, <1>5, FS_Bijection

LEMMA IdsOfAppend ==
  ASSUME NEW s \in Seq(Item), NEW it \in Item
  PROVE  /\ Append(s, it) \in Seq(Item) /\ Len(Append(s, it)) = Len(s) + 1
         /\ Ids(Append(s, it)) = Ids(s) \cup {it.id}
         /\ Distinct(s) /\ it.id \notin Ids(s) => Distinct(Append(s, it))
<1> DEFINE t == Append(s, it)
           N == Len(s)
<1>1. t \in Seq(Item) /\ Len(t) = N + 1 /\ N \in Nat /\ DOMAIN s = 1..N /\ DOMAIN t = 1..(N + 1)
  OBVIOUS
<1>2. t[N + 1] = it /\ \A i \in 1..N : t[i] = s[i]
  OBVIOUS
<1> HIDE DEF t, N
<1>3. \A i \in 1..(N + 1) : i \in 1..N \/ i = N + 1
  BY <1>1
<1>4. \A i \in 1..N : i \in 1..(N + 1)
  BY <1>1
<1>5. N + 1 \in 1..(N + 1)
  BY <1>1
<1>6. Ids(t) = Ids(s) \cup {it.id}
  BY <1>1, <1>2, <1>3, <1>4, <1>5 DEF Ids
<1>7. Distinct(s) /\ it.id \notin Ids(s) => Distinct(t)
  BY <1>1, <1>2, <1>3 DEF Ids, Distinct
<1> QED
  BY <1>1, <1>6, <1>7 DEF t, N

\* A head and a tail share no name.
LEMMA IdsOfTail ==
  ASSUME NEW s \in Seq(Item), s # <<>>
  PROVE  /\ Head(s) \in Item /\ Tail(s) \in Seq(Item) /\ Len(Tail(s)) = Len(s) - 1 /\ Tail(s) # s
         /\ Ids(s) = Ids(Tail(s)) \cup {Head(s).id}
         /\ Distinct(s) => Distinct(Tail(s)) /\ Head(s).id \notin Ids(Tail(s))
<1> DEFINE t == Tail(s)
           N == Len(s)
<1>1. N \in Nat \ {0} /\ t \in Seq(Item) /\ Len(t) = N - 1 /\ DOMAIN s = 1..N /\ DOMAIN t = 1..(N - 1)
  OBVIOUS
<1>2. Head(s) = s[1] /\ Head(s) \in Item /\ \A i \in 1..(N - 1) : t[i] = s[i + 1]
  OBVIOUS
<1>l. Len(s) = N
  OBVIOUS
<1> HIDE DEF t, N
<1>n. t # s
  <2>1. N - 1 # N
    BY <1>1
  <2>2. Len(t) # Len(s)
    BY <1>1, <1>l, <2>1, Zenon
  <2> QED
    BY <2>2, Zenon
<1>3. \A i \in 1..N : i = 1 \/ (i - 1 \in 1..(N - 1) /\ (i - 1) + 1 = i)
  BY <1>1
<1>4. 1 \in 1..N /\ \A i \in 1..(N - 1) : i + 1 \in 1..N /\ i + 1 # 1
  BY <1>1
<1>5. Ids(s) = Ids(t) \cup {s[1].id}
  <2>1. ASSUME NEW i \in 1..N PROVE s[i].id \in Ids(t) \cup {s[1].id}
    <3>1. CASE i = 1
      BY <3>1
    <3>2. CASE i # 1
      <4>1. i - 1 \in DOMAIN t /\ t[i - 1] = s[i]
        BY <1>1, <1>2, <1>3, <3>2
      <4> QED
        BY <4>1 DEF Ids
    <3> QED
      BY <3>1, <3>2
  <2>2. \A i \in 1..(N - 1) : t[i].id \in Ids(s)
    BY <1>1, <1>2, <1>4 DEF Ids
  <2>3. s[1].id \in Ids(s)
    BY <1>1, <1>4 DEF Ids
  <2> QED
    BY <1>1, <2>1, <2>2, <2>3 DEF Ids
<1>6. ASSUME Distinct(s) PROVE Distinct(t) /\ s[1].id \notin Ids(t)
  <2>1. ASSUME NEW i \in 1..(N - 1), NEW j \in 1..(N - 1), t[i].id = t[j].id PROVE i = j
    <3>0. i + 1 \in DOMAIN s /\ j + 1 \in DOMAIN s /\ s[i + 1].id = s[j + 1].id
      BY <1>1, <1>2, <1>4, <2>1
    <3>1. i + 1 = j + 1
      BY <1>6, <3>0, Zenon DEF Distinct
    <3> QED
      BY <1>1, <3>1
  <2>2. ASSUME NEW i \in 1..(N - 1) PROVE t[i].id # s[1].id
    <3>1. i + 1 \in DOMAIN s /\ 1 \in DOMAIN s /\ i + 1 # 1 /\ t[i] = s[i + 1]
      BY <1>1, <1>2, <1>4
    <3> QED
      BY <1>6, <3>1, Zenon DEF Distinct
  <2> QED
    BY <1>1, <2>1, <2>2 DEF Distinct, Ids
<1> QED
  BY <1>1, <1>2, <1>5, <1>6, <1>n DEF t, N

\* A cut leaves two parts that share no name.
LEMMA IdsOfCut ==
  ASSUME NEW s \in Seq(Item), NEW n \in 0..Len(s)
  PROVE  LET a == SubSeq(s, 1, n)
             b == SubSeq(s, n + 1, Len(s))
         IN  /\ a \in Seq(Item) /\ b \in Seq(Item) /\ Len(a) = n /\ Len(b) = Len(s) - n
             /\ Ids(s) = Ids(a) \cup Ids(b)
             /\ Distinct(s) => Distinct(a) /\ Distinct(b) /\ Ids(a) \cap Ids(b) = {}
             /\ Bytes(b) <= Bytes(s)
<1> DEFINE a == SubSeq(s, 1, n)
           b == SubSeq(s, n + 1, Len(s))
           N == Len(s)
<1>1. N \in Nat /\ n \in Nat /\ n <= N /\ DOMAIN s = 1..N
  OBVIOUS
<1>2. a \in Seq(Item) /\ Len(a) = n /\ DOMAIN a = 1..n /\ \A i \in 1..n : a[i] = s[i]
  OBVIOUS
<1>3. b \in Seq(Item) /\ Len(b) = N - n /\ DOMAIN b = 1..(N - n) /\ \A i \in 1..(N - n) : b[i] = s[n + i]
  OBVIOUS
<1>4. Bytes(b) <= Bytes(s)
  <2>1. n \in 0..Len(s) /\ Len(s) \in n..Len(s)
    BY <1>1
  <2>2. Bytes(b) + Totals(s)[n] = Totals(s)[Len(s)]
    BY <2>1, SegmentTotals
  <2>3. Totals(s)[n] \in Nat /\ Totals(s)[Len(s)] \in Nat
    BY <1>1, TotalsDef
  <2>4. Bytes(b) \in Nat
    BY <1>3, BytesType
  <2> QED
    BY <2>2, <2>3, <2>4 DEF Bytes
<1> HIDE DEF a, b, N
<1>5. \A i \in 1..n : i \in 1..N
  BY <1>1
<1>6. \A i \in 1..(N - n) : n + i \in 1..N /\ n + i \notin 1..n
  BY <1>1
<1>7. \A i \in 1..N : i \in 1..n \/ (i - n \in 1..(N - n) /\ n + (i - n) = i)
  BY <1>1
<1>8. Ids(s) = Ids(a) \cup Ids(b)
  <2>1. ASSUME NEW i \in 1..N PROVE s[i].id \in Ids(a) \cup Ids(b)
    <3>1. CASE i \in 1..n
      <4>1. i \in DOMAIN a /\ a[i] = s[i]
        BY <1>2, <3>1
      <4> QED
        BY <4>1 DEF Ids
    <3>2. CASE i \notin 1..n
      <4>1. i - n \in DOMAIN b /\ b[i - n] = s[i]
        BY <1>3, <1>7, <3>2
      <4> QED
        BY <4>1 DEF Ids
    <3> QED
      BY <3>1, <3>2
  <2>2. \A i \in 1..n : a[i].id \in Ids(s)
    BY <1>1, <1>2, <1>5 DEF Ids
  <2>3. \A i \in 1..(N - n) : b[i].id \in Ids(s)
    BY <1>1, <1>3, <1>6 DEF Ids
  <2>4. \A x \in Ids(s) : x \in Ids(a) \cup Ids(b)
    BY <1>1, <2>1, Zenon DEF Ids
  <2>5. \A x \in Ids(a) : x \in Ids(s)
    BY <1>2, <2>2, Zenon DEF Ids
  <2>6. \A x \in Ids(b) : x \in Ids(s)
    BY <1>3, <2>3, Zenon DEF Ids
  <2> QED
    BY <2>4, <2>5, <2>6
<1>9. ASSUME Distinct(s) PROVE Distinct(a) /\ Distinct(b) /\ Ids(a) \cap Ids(b) = {}
  <2>1. Distinct(a)
    BY <1>1, <1>2, <1>5, <1>9 DEF Distinct
  <2>2. ASSUME NEW i \in 1..(N - n), NEW j \in 1..(N - n), b[i].id = b[j].id PROVE i = j
    <3>0. n + i \in DOMAIN s /\ n + j \in DOMAIN s /\ s[n + i].id = s[n + j].id
      BY <1>1, <1>3, <1>6, <2>2
    <3>1. n + i = n + j
      BY <1>9, <3>0, Zenon DEF Distinct
    <3> QED
      BY <1>1, <3>1
  <2>3. ASSUME NEW i \in 1..n, NEW j \in 1..(N - n) PROVE a[i].id # b[j].id
    <3>1. i \in DOMAIN s /\ n + j \in DOMAIN s /\ i # n + j /\ a[i] = s[i] /\ b[j] = s[n + j]
      BY <1>1, <1>2, <1>3, <1>5, <1>6
    <3> QED
      BY <1>9, <3>1, Zenon DEF Distinct
  <2> QED
    BY <1>2, <1>3, <2>1, <2>2, <2>3 DEF Distinct, Ids
<1>10. /\ a \in Seq(Item) /\ b \in Seq(Item) /\ Len(a) = n /\ Len(b) = N - n
       /\ Ids(s) = Ids(a) \cup Ids(b)
       /\ Distinct(s) => Distinct(a) /\ Distinct(b) /\ Ids(a) \cap Ids(b) = {}
       /\ Bytes(b) <= Bytes(s)
  BY <1>2, <1>3, <1>4, <1>8, <1>9
<1> QED
  BY <1>10 DEF a, b, N

-----------------------------------------------------------------------------
(* The steps of the store.                                                 *)

\* The items offered to prune and the ones it keeps.
LEMMA PruneIds ==
  ASSUME NEW s \in Seq(Item), Distinct(s), NEW kept \in prune(s)
  PROVE  /\ Distinct(kept) /\ Ids(kept) \subseteq Ids(s)
         /\ \A i \in DOMAIN s, n \in DOMAIN kept :
              Fresh(s[i]) /\ s[i].id \notin Ids(kept)
              => Priority(s[i].kind) <= Priority(kept[n].kind)
<1>1. kept \in Seq(Item) /\ DOMAIN kept = 1..Len(kept)
  BY PruneKeeps
<1>2. PICK f : /\ Chooses(f, s, kept)
               /\ \A i \in DOMAIN s : 
                    Fresh(s[i]) /\ (\A n \in 1..Len(kept) : f[n] # i)
                    => \A n \in 1..Len(kept) : Priority(s[i].kind) <= Priority(kept[n].kind)
  BY PruneKeeps
<1>3. /\ \A n \in DOMAIN kept : f[n] \in DOMAIN s /\ kept[n] = s[f[n]]
      /\ \A m, n \in DOMAIN kept : f[m] = f[n] => m = n
  BY <1>1, <1>2 DEF Chooses
<1>4. Distinct(kept)
  <2> SUFFICES ASSUME NEW m \in DOMAIN kept, NEW n \in DOMAIN kept, kept[m].id = kept[n].id PROVE m = n
    BY DEF Distinct
  <2>1. f[m] \in DOMAIN s /\ f[n] \in DOMAIN s /\ s[f[m]].id = s[f[n]].id
    BY <1>3
  <2>2. f[m] = f[n]
    BY <2>1 DEF Distinct
  <2> QED
    BY <1>3, <2>2
<1>5. Ids(kept) \subseteq Ids(s)
  BY <1>3 DEF Ids
<1>6. ASSUME NEW i \in DOMAIN s, NEW n \in DOMAIN kept, Fresh(s[i]), s[i].id \notin Ids(kept)
      PROVE  Priority(s[i].kind) <= Priority(kept[n].kind)
  <2>1. \A k \in DOMAIN kept : f[k] # i
    BY <1>3, <1>6 DEF Ids
  <2> QED
    BY <1>1, <1>2, <1>6, <2>1
<1> QED
  BY <1>4, <1>5, <1>6

LEMMA EnqueueStep ==
  ASSUME queue \in Seq(Item), Distinct(queue), NEW it \in Item, it.id \notin Ids(queue), Enqueue(it)
  PROVE  /\ queue' \in Seq(Item) /\ Len(queue') <= Len(queue) + 1 /\ WithinBudget'
         /\ Distinct(queue') /\ Ids(queue') \subseteq Ids(queue) \cup {it.id}
         /\ dropped' = dropped + Len(queue) + 1 - Len(queue')
         /\ archive' \in {archive, archive \cup Ids(queue)} /\ faults' = faults
         /\ \A i \in DOMAIN Append(queue, it), n \in DOMAIN queue' :
              Fresh(Append(queue, it)[i]) /\ Append(queue, it)[i].id \notin Ids(queue')
              => Priority(Append(queue, it)[i].kind) <= Priority(queue'[n].kind)
<1> DEFINE s == Append(queue, it)
<1>1. s \in Seq(Item) /\ Len(s) = Len(queue) + 1 /\ Ids(s) = Ids(queue) \cup {it.id} /\ Distinct(s)
  BY IdsOfAppend
<1>2. /\ queue' \in prune(s) /\ archive' \in {archive, archive \cup Ids(queue)} /\ faults' = faults
      /\ dropped' = dropped + Len(queue) + 1 - Len(queue')
  BY DEF Enqueue, Replace
<1> HIDE DEF s
<1>3. queue' \in Seq(Item) /\ Len(queue') <= Len(s) /\ Bytes(queue') <= MaxBytes
  BY <1>1, <1>2, PruneKeeps
<1>4. /\ Distinct(queue') /\ Ids(queue') \subseteq Ids(s)
      /\ \A i \in DOMAIN s, n \in DOMAIN queue' :
           Fresh(s[i]) /\ s[i].id \notin Ids(queue') => Priority(s[i].kind) <= Priority(queue'[n].kind)
  BY <1>1, <1>2, PruneIds
<1>5. WithinBudget'
  BY <1>3 DEF WithinBudget, Bytes, Totals
<1>6. /\ queue' \in Seq(Item) /\ Len(queue') <= Len(queue) + 1 /\ WithinBudget'
      /\ Distinct(queue') /\ Ids(queue') \subseteq Ids(queue) \cup {it.id}
  BY <1>1, <1>3, <1>4, <1>5
<1> QED
  BY <1>2, <1>4, <1>6 DEF s

-----------------------------------------------------------------------------
(* The inductive invariant.                                                *)

\* Every name is in one place of the agent, and was given out.
Named ==
    /\ Distinct(queue) /\ Distinct(hand) /\ Ids(queue) \cap Ids(hand) = {}
    /\ Ids(queue) \subseteq 1..made /\ Ids(hand) \subseteq 1..made
OneBatch == Len(hand) <= Batch
IInv == TypeOK /\ WithinBudget /\ Named /\ OneBatch

LEMMA EmptyFacts ==
  /\ <<>> \in Seq(Item) /\ Len(<<>>) = 0 /\ DOMAIN <<>> = {} /\ Ids(<<>>) = {} /\ Distinct(<<>>)
  /\ Bytes(<<>>) <= MaxBytes
<1>1. <<>> \in Seq(Item) /\ Len(<<>>) = 0 /\ DOMAIN <<>> = {}
  OBVIOUS
<1>2. Ids(<<>>) = {} /\ Distinct(<<>>)
  BY <1>1 DEF Ids, Distinct
<1>3. Bytes(<<>>) = 0
  <2>1. Adds(<<>>, Totals(<<>>), Len(<<>>))
    BY <1>1, TotalsDef
  <2> QED
    BY <1>1, <2>1 DEF Adds, Bytes
<1> QED
  BY <1>1, <1>2, <1>3, QueueAssumption

LEMMA InitIInv == Init => IInv
<1> SUFFICES ASSUME Init PROVE IInv
  OBVIOUS
<1>1. TypeOK
  BY EmptyFacts, QueueBounds DEF Init, TypeOK
<1>2. WithinBudget
  BY EmptyFacts DEF Init, WithinBudget
<1>3. Named /\ OneBatch
  BY EmptyFacts, QueueAssumption DEF Init, Named, OneBatch
<1> QED
  BY <1>1, <1>2, <1>3 DEF IInv

\* The invariant does not read these variables.
LEMMA SameItems ==
  ASSUME IInv, UNCHANGED <<queue, hand, made>>
  PROVE  (WithinBudget /\ Named /\ OneBatch)'
BY DEF IInv, WithinBudget, Named, OneBatch

LEMMA NewItem ==
  ASSUME TypeOK, NEW kind \in Kinds, made < MaxItems
  PROVE  [id |-> made + 1, kind |-> kind, born |-> now] \in Item
<1>1. made + 1 \in 1..MaxItems /\ now \in Times
  BY QueueBounds DEF TypeOK
<1> QED
  BY <1>1 DEF Item

LEMMA FlushIInv == IInv /\ Flush => IInv'
<1> SUFFICES ASSUME IInv, Flush PROVE IInv'
  OBVIOUS
<1>t. TypeOK /\ Named /\ OneBatch /\ WithinBudget
  BY DEF IInv
<1>h. hand = <<>> /\ UNCHANGED <<dropped, made, cloud, now, up>>
  BY <1>t DEF Flush, world, TypeOK
<1> DEFINE n == IF Batch > Len(queue) THEN Len(queue) ELSE Batch
<1>1. CASE /\ Dequeue(n) /\ pc' = (IF n = 0 THEN "heartbeat" ELSE "send") /\ UNCHANGED faults
  <2> DEFINE a == SubSeq(queue, 1, n)
             b == SubSeq(queue, n + 1, Len(queue))
  <2>1. n \in 0..Len(queue) /\ n <= Batch /\ queue \in Seq(Item)
    BY <1>t, QueueAssumption DEF TypeOK
  <2>2. hand' = a /\ queue' = b /\ archive' \in {archive, archive \cup Ids(queue)}
    BY <1>1 DEF Dequeue, Replace
  <2> HIDE DEF n
  <2>3. /\ a \in Seq(Item) /\ b \in Seq(Item) /\ Len(a) = n
        /\ Ids(queue) = Ids(a) \cup Ids(b)
        /\ Distinct(a) /\ Distinct(b) /\ Ids(a) \cap Ids(b) = {}
        /\ Bytes(b) <= Bytes(queue)
    BY <1>t, <2>1, IdsOfCut DEF Named
  <2> HIDE DEF a, b
  <2>4. a = <<>> <=> n = 0
    BY <2>3, EmptySeq
  <2>5. archive' \subseteq 1..made
    BY <1>t, <2>2 DEF TypeOK, Named
  <2>6. pc' \in Kinds \cup {"flush", "send", "requeue"} /\ (hand' # <<>> <=> pc' \in {"send", "requeue"})
    BY <1>1, <2>2, <2>4 DEF Kinds
  <2>7. TypeOK'
    BY <1>1, <1>h, <1>t, <2>2, <2>3, <2>5, <2>6 DEF TypeOK
  <2>8. WithinBudget'
    <3>1. Bytes(b) \in Nat /\ Bytes(queue) \in Nat
      BY <2>1, <2>3, BytesType
    <3> QED
      BY <1>t, <2>2, <2>3, <3>1, QueueAssumption DEF WithinBudget
  <2>9. Named'
    BY <1>h, <1>t, <2>2, <2>3 DEF Named
  <2>10. OneBatch'
    BY <2>1, <2>2, <2>3 DEF OneBatch
  <2> QED
    BY <2>7, <2>8, <2>9, <2>10 DEF IInv
<1>2. CASE /\ faults < MaxFaults /\ faults' = faults + 1 /\ pc' = "heartbeat" 
           /\ UNCHANGED <<queue, archive, hand>>
  <2>1. faults' \in 0..MaxFaults
    BY <1>2, <1>t, QueueBounds DEF TypeOK
  <2>2. TypeOK'
    BY <1>2, <1>h, <1>t, <2>1 DEF TypeOK, Kinds
  <2> QED
    BY <1>2, <1>h, <2>2, SameItems DEF IInv
<1> QED
  BY <1>1, <1>2 DEF Flush

LEMMA SendIInv == IInv /\ Send => IInv'
<1> SUFFICES ASSUME IInv, Send PROVE IInv'
  OBVIOUS
<1>t. TypeOK /\ Named /\ OneBatch /\ WithinBudget
  BY DEF IInv
<1>h. hand \in Seq(Item) /\ hand # <<>> /\ UNCHANGED <<queue, dropped, made, archive, faults, now, up>>
  BY <1>t DEF Send, world, TypeOK
<1>i. /\ Tail(hand) \in Seq(Item) /\ Len(Tail(hand)) = Len(hand) - 1
      /\ Ids(hand) = Ids(Tail(hand)) \cup {Head(hand).id}
      /\ Distinct(Tail(hand))
  BY <1>h, <1>t, IdsOfTail DEF Named
<1>c. Head(hand).id \in 1..made /\ cloud' \subseteq 1..made
  <2>1. cloud' \in {cloud, cloud \cup {Head(hand).id}}
    BY DEF Send, Unanswered
  <2> QED
    BY <1>i, <1>t, <2>1 DEF Named, TypeOK
<1>1. CASE hand' = Tail(hand) /\ pc' = IF Tail(hand) = <<>> THEN "heartbeat" ELSE "send"
  <2>1. TypeOK'
    BY <1>1, <1>c, <1>h, <1>i, <1>t DEF TypeOK, Kinds
  <2>2. WithinBudget'
    BY <1>h, <1>t DEF WithinBudget
  <2>3. Named'
    BY <1>1, <1>h, <1>i, <1>t DEF Named
  <2>4. OneBatch'
    <3>1. Len(hand) \in Nat
      BY <1>h
    <3> QED
      BY <1>1, <1>i, <1>t, <3>1, QueueAssumption DEF OneBatch
  <2> QED
    BY <2>1, <2>2, <2>3, <2>4 DEF IInv
<1>2. CASE pc' = "requeue" /\ UNCHANGED hand
  <2>1. TypeOK'
    BY <1>2, <1>c, <1>h, <1>t DEF TypeOK, Kinds
  <2> QED
    BY <1>2, <1>h, <2>1, SameItems DEF IInv
<1> QED
  BY <1>1, <1>2 DEF Send

LEMMA RequeueIInv == IInv /\ Requeue => IInv'
<1> SUFFICES ASSUME IInv, Requeue PROVE IInv'
  OBVIOUS
<1>t. TypeOK /\ Named /\ OneBatch /\ WithinBudget
  BY DEF IInv
<1>h. /\ hand \in Seq(Item) /\ hand # <<>> /\ UNCHANGED <<made, cloud, now, up>>
      /\ hand' = Tail(hand) /\ pc' = IF Tail(hand) = <<>> THEN "heartbeat" ELSE "requeue"
  BY <1>t DEF Requeue, world, TypeOK
<1>i. /\ Head(hand) \in Item /\ Tail(hand) \in Seq(Item) /\ Len(Tail(hand)) = Len(hand) - 1
      /\ Ids(hand) = Ids(Tail(hand)) \cup {Head(hand).id}
      /\ Distinct(Tail(hand)) /\ Head(hand).id \notin Ids(Tail(hand))
  BY <1>h, <1>t, IdsOfTail DEF Named
<1>b. OneBatch'
  <2>1. Len(hand) \in Nat
    BY <1>h
  <2> QED
    BY <1>h, <1>i, <1>t, <2>1, QueueAssumption DEF OneBatch
<1>1. CASE Enqueue(Head(hand))
  <2>1. queue \in Seq(Item) /\ Distinct(queue) /\ Head(hand).id \notin Ids(queue)
    BY <1>i, <1>t DEF TypeOK, Named
  <2>2. /\ queue' \in Seq(Item) /\ Len(queue') <= Len(queue) + 1 /\ WithinBudget'
        /\ Distinct(queue') /\ Ids(queue') \subseteq Ids(queue) \cup {Head(hand).id}
        /\ dropped' = dropped + Len(queue) + 1 - Len(queue')
        /\ archive' \in {archive, archive \cup Ids(queue)} /\ faults' = faults
    BY <1>1, <1>i, <2>1, EnqueueStep
  <2>3. dropped' \in Nat
    BY <1>t, <2>1, <2>2 DEF TypeOK
  <2>4. archive' \subseteq 1..made
    BY <1>t, <2>2 DEF TypeOK, Named
  <2>5. TypeOK'
    BY <1>h, <1>i, <1>t, <2>2, <2>3, <2>4 DEF TypeOK, Kinds
  <2>6. Named'
    BY <1>h, <1>i, <1>t, <2>2 DEF Named
  <2> QED
    BY <1>b, <2>2, <2>5, <2>6 DEF IInv
<1>2. CASE EnqueueFails
  <2>1. faults' \in 0..MaxFaults /\ UNCHANGED <<queue, dropped, archive>>
    BY <1>2, <1>t, QueueBounds DEF TypeOK, EnqueueFails
  <2>2. TypeOK'
    BY <1>h, <1>i, <1>t, <2>1 DEF TypeOK, Kinds
  <2>3. Named' /\ WithinBudget'
    BY <1>h, <1>i, <1>t, <2>1 DEF Named, WithinBudget
  <2> QED
    BY <1>b, <2>2, <2>3 DEF IInv
<1> QED
  BY <1>1, <1>2 DEF Requeue

LEMMA CollectIInv == ASSUME IInv, NEW kind \in Kinds, Collect(kind) PROVE IInv'
<1>t. TypeOK /\ Named /\ OneBatch /\ WithinBudget
  BY DEF IInv
<1>h. hand = <<>> /\ UNCHANGED <<hand, now, up>> /\ pc = kind
  BY <1>t DEF Collect, world, TypeOK, Kinds
<1>1. CASE /\ pc' = CASE kind = "heartbeat" -> "telemetry" [] kind = "telemetry" -> "inventory"
                       [] kind = "inventory" -> "flush"
           /\ UNCHANGED <<queue, dropped, made, cloud, archive, faults>>
  <2>1. pc' \in Kinds \cup {"flush"}
    BY <1>1 DEF Kinds
  <2>2. TypeOK'
    BY <1>1, <1>h, <1>t, <2>1 DEF TypeOK, Kinds
  <2> QED
    BY <1>1, <1>h, <2>2, SameItems DEF IInv
<1>2. CASE /\ made < MaxItems /\ made' = made + 1
           /\ Unanswered(made + 1)
           /\ Enqueue([id |-> made + 1, kind |-> kind, born |-> now]) \/ EnqueueFails
           /\ pc' = IF kind = "telemetry" THEN "inventory" ELSE "flush"
  <2> DEFINE it == [id |-> made + 1, kind |-> kind, born |-> now]
  <2>1. it \in Item /\ it.id = made + 1
    BY <1>2, <1>t, NewItem
  <2>2. Enqueue(it) \/ EnqueueFails
    BY <1>2
  <2> HIDE DEF it
  <2>3. made \in Nat /\ made' \in 0..MaxItems /\ (\A x \in 1..made : x \in 1..made') /\ made + 1 \in 1..made' /\ made + 1 \notin 1..made
    BY <1>2, <1>t, QueueBounds DEF TypeOK
  <2>4. cloud' \subseteq 1..made' /\ pc' \in Kinds \cup {"flush"}
    BY <1>2, <1>t, <2>3 DEF Unanswered, TypeOK, Kinds
  <2>5. CASE Enqueue(it)
    <3>1. queue \in Seq(Item) /\ Distinct(queue) /\ it.id \notin Ids(queue)
      BY <1>t, <2>1, <2>3 DEF TypeOK, Named
    <3>2. /\ queue' \in Seq(Item) /\ Len(queue') <= Len(queue) + 1 /\ WithinBudget'
          /\ Distinct(queue') /\ Ids(queue') \subseteq Ids(queue) \cup {it.id}
          /\ dropped' = dropped + Len(queue) + 1 - Len(queue')
          /\ archive' \in {archive, archive \cup Ids(queue)} /\ faults' = faults
      BY <2>1, <2>5, <3>1, EnqueueStep
    <3>3. dropped' \in Nat
      BY <1>t, <3>1, <3>2 DEF TypeOK
    <3>4. archive' \subseteq 1..made'
      BY <1>t, <2>3, <3>2 DEF TypeOK, Named
    <3>5. TypeOK'
      BY <1>h, <1>t, <2>3, <2>4, <3>2, <3>3, <3>4 DEF TypeOK, Kinds
    <3>6. Named'
      BY <1>h, <1>t, <2>1, <2>3, <3>2, EmptyFacts DEF Named
    <3>7. OneBatch'
      BY <1>h, <1>t DEF OneBatch
    <3> QED
      BY <3>2, <3>5, <3>6, <3>7 DEF IInv
  <2>6. CASE EnqueueFails
    <3>1. faults' \in 0..MaxFaults /\ UNCHANGED <<queue, dropped, archive>>
      BY <1>t, <2>6, QueueBounds DEF TypeOK, EnqueueFails
    <3>2. archive' \subseteq 1..made'
      BY <1>t, <2>3, <3>1 DEF TypeOK
    <3>3. TypeOK'
      BY <1>h, <1>t, <2>3, <2>4, <3>1, <3>2 DEF TypeOK, Kinds
    <3>4. Named'
      BY <1>h, <1>t, <2>3, <3>1, EmptyFacts DEF Named
    <3>5. OneBatch' /\ WithinBudget'
      BY <1>h, <1>t, <3>1 DEF OneBatch, WithinBudget
    <3> QED
      BY <3>3, <3>4, <3>5 DEF IInv
  <2> QED
    BY <2>2, <2>5, <2>6
<1> QED
  BY <1>1, <1>2 DEF Collect

LEMMA NextIInv == IInv /\ [Next]_vars => IInv'
<1> SUFFICES ASSUME IInv, [Next]_vars PROVE IInv'
  OBVIOUS
<1>t. TypeOK /\ Named /\ OneBatch /\ WithinBudget
  BY DEF IInv
<1>1. CASE Archive
  <2>1. queue' = <<>> /\ archive' = archive \cup Ids(queue) /\ UNCHANGED <<dropped, pc, hand, made, cloud, faults, now, up>>
    BY <1>1 DEF Archive, world
  <2>2. archive' \subseteq 1..made
    BY <1>t, <2>1 DEF TypeOK, Named
  <2>3. TypeOK'
    BY <1>t, <2>1, <2>2, EmptyFacts DEF TypeOK
  <2>4. WithinBudget' /\ Named' /\ OneBatch'
    BY <1>t, <2>1, EmptyFacts DEF WithinBudget, Named, OneBatch
  <2> QED
    BY <2>3, <2>4 DEF IInv
<1>2. CASE Restart
  <2>1. /\ pc' = "flush" /\ hand' = <<>> /\ dropped' = 0 /\ faults' = faults + 1 /\ faults < MaxFaults
        /\ UNCHANGED <<queue, made, cloud, archive, now, up>>
    BY <1>2 DEF Restart, world
  <2>2. faults' \in 0..MaxFaults
    BY <1>t, <2>1, QueueBounds DEF TypeOK
  <2>3. TypeOK'
    BY <1>t, <2>1, <2>2, EmptyFacts DEF TypeOK
  <2>4. WithinBudget' /\ Named' /\ OneBatch'
    BY <1>t, <2>1, EmptyFacts, QueueAssumption DEF WithinBudget, Named, OneBatch
  <2> QED
    BY <2>3, <2>4 DEF IInv
<1>3. CASE Link \/ Clock \/ UNCHANGED vars
  <2>1. UNCHANGED <<queue, dropped, pc, hand, made, cloud, archive, faults>> /\ now' \in Times /\ up' \in BOOLEAN
    BY <1>3, <1>t DEF Link, Clock, vars, TypeOK
  <2>2. TypeOK'
    BY <1>t, <2>1 DEF TypeOK
  <2> QED
    BY <2>1, <2>2, SameItems DEF IInv
<1> QED
  BY <1>1, <1>2, <1>3, FlushIInv, SendIInv, RequeueIInv, CollectIInv DEF Next, Tick

\* Every variable of the queue and of the loop keeps its type, and flush holds
\* items exactly while it sends them or puts them back.
THEOREM QueueTypes == Spec => []TypeOK
<1>1. IInv => TypeOK
  BY DEF IInv
<1> QED
  BY <1>1, InitIInv, NextIInv, PTL DEF Spec

\* prune bounds the queue by bytes after every operation, for every size of
\* the reports and every limit that a single heartbeat meets.
THEOREM QueueWithinBudget == Spec => []WithinBudget
<1>1. IInv => WithinBudget
  BY DEF IInv
<1> QED
  BY <1>1, InitIInv, NextIInv, PTL DEF Spec

\* No report is twice in the hands of the agent: Dequeue writes back what it
\* did not hand out, and flush puts back what was not sent, once.
THEOREM QueueHasNoCopies == Spec => []NoCopies
<1>1. IInv => NoCopies
  <2> SUFFICES ASSUME IInv PROVE NoCopies
    OBVIOUS
  <2> DEFINE s == queue \o hand
             M == Len(queue)
             N == Len(hand)
  <2>1. /\ queue \in Seq(Item) /\ hand \in Seq(Item) /\ Distinct(queue) /\ Distinct(hand)
        /\ Ids(queue) \cap Ids(hand) = {}
    BY DEF IInv, TypeOK, Named
  <2>2. /\ s \in Seq(Item) /\ M \in Nat /\ N \in Nat /\ DOMAIN s = 1..(M + N)
        /\ DOMAIN queue = 1..M /\ DOMAIN hand = 1..N
        /\ \A i \in 1..M : s[i] = queue[i]
        /\ \A i \in 1..(M + N) : i \notin 1..M => s[i] = hand[i - M]
    BY <2>1
  <2> HIDE DEF s, M, N
  <2>3. Distinct(s)
    <3> SUFFICES ASSUME NEW i \in 1..(M + N), NEW j \in 1..(M + N), s[i].id = s[j].id PROVE i = j
      BY <2>2 DEF Distinct
    <3>1. \A k \in 1..(M + N) : k \notin 1..M => k - M \in DOMAIN hand /\ s[k] = hand[k - M] /\ s[k].id \in Ids(hand)
      <4> SUFFICES ASSUME NEW k \in 1..(M + N), k \notin 1..M
                   PROVE  k - M \in DOMAIN hand /\ s[k] = hand[k - M] /\ s[k].id \in Ids(hand)
        OBVIOUS
      <4>1. k - M \in DOMAIN hand /\ s[k] = hand[k - M]
        BY <2>2
      <4> QED
        BY <4>1 DEF Ids
    <3>2. \A k \in 1..M : k \in DOMAIN queue /\ s[k] = queue[k] /\ s[k].id \in Ids(queue)
      BY <2>2 DEF Ids
    <3>3. CASE i \in 1..M /\ j \in 1..M
      BY <2>1, <3>2, <3>3 DEF Distinct
    <3>4. CASE i \notin 1..M /\ j \notin 1..M
      <4>1. i - M = j - M
        BY <2>1, <3>1, <3>4 DEF Distinct
      <4> QED
        BY <2>2, <4>1
    <3>5. CASE (i \in 1..M) # (j \in 1..M)
      BY <2>1, <3>1, <3>2, <3>5
    <3> QED
      BY <3>3, <3>4, <3>5
  <2>4. Cardinality(Ids(s)) = Len(s)
    BY <2>2, <2>3, IdsCount
  <2> QED
    BY <2>4 DEF NoCopies, s
<1> QED
  BY <1>1, InitIInv, NextIInv, PTL DEF Spec

-----------------------------------------------------------------------------
(* What a step may lose.                                                   *)

LEMMA LossBound ==
  ASSUME NEW A, NEW B, NEW D, IsFiniteSet(A), IsFiniteSet(B), IsFiniteSet(D), A \subseteq B \cup D
  PROVE  Cardinality(A) - Cardinality(B) <= Cardinality(D)
<1>1. IsFiniteSet(B \cup D) /\ Cardinality(B \cup D) = Cardinality(B) + Cardinality(D) - Cardinality(B \cap D)
  BY FS_Union
<1>2. IsFiniteSet(B \cap D)
  BY FS_Intersection
<1>3. Cardinality(A) <= Cardinality(B \cup D)
  BY <1>1, FS_Subset
<1>4. /\ Cardinality(A) \in Nat /\ Cardinality(B) \in Nat /\ Cardinality(D) \in Nat
      /\ Cardinality(B \cap D) \in Nat
  BY <1>2, FS_CardinalityType
<1> QED
  BY <1>1, <1>3, <1>4

LEMMA HeldFinite ==
  ASSUME IInv
  PROVE  /\ Held \subseteq 1..made /\ IsFiniteSet(Held) /\ Cardinality(Held) \in Nat
         /\ made \in Nat /\ dropped \in Nat /\ faults \in Nat
<1>1. made \in Nat /\ dropped \in Nat /\ faults \in Nat
  BY QueueBounds DEF IInv, TypeOK
<1>2. Held \subseteq 1..made
  BY DEF IInv, TypeOK, Named, Held
<1>3. IsFiniteSet(1..made)
  BY <1>1, UpTo
<1>4. IsFiniteSet(Held)
  BY <1>2, <1>3, FS_Subset
<1> QED
  BY <1>1, <1>2, <1>4, FS_CardinalityType

\* What Enqueue leaves out is as much as dropped counts.
LEMMA EnqueueLoses ==
  ASSUME queue \in Seq(Item), Distinct(queue), NEW it \in Item, it.id \notin Ids(queue), Enqueue(it),
         dropped \in Nat
  PROVE  LET D == (Ids(queue) \cup {it.id}) \ Ids(queue')
         IN  IsFiniteSet(D) /\ Cardinality(D) = dropped' - dropped
<1> DEFINE s == Append(queue, it)
           D == Ids(s) \ Ids(queue')
<1>1. s \in Seq(Item) /\ Len(s) = Len(queue) + 1 /\ Ids(s) = Ids(queue) \cup {it.id} /\ Distinct(s)
  BY IdsOfAppend
<1> HIDE DEF s
<1>2. /\ queue' \in Seq(Item) /\ Distinct(queue') /\ Ids(queue') \subseteq Ids(s)
      /\ dropped' = dropped + Len(queue) + 1 - Len(queue')
  BY <1>1, EnqueueStep
<1>3. IsFiniteSet(Ids(s)) /\ Cardinality(Ids(s)) = Len(queue) + 1
  BY <1>1, IdsCount
<1>4. Cardinality(Ids(queue')) = Len(queue')
  BY <1>2, IdsCount
<1>5. IsFiniteSet(D) /\ Cardinality(D) = Cardinality(Ids(s)) - Cardinality(Ids(s) \cap Ids(queue'))
  BY <1>3, FS_Difference
<1>6. Ids(s) \cap Ids(queue') = Ids(queue')
  BY <1>2
<1>7. Len(queue) \in Nat /\ Len(queue') \in Nat
  BY <1>2
<1>9. Cardinality(Ids(s) \cap Ids(queue')) = Len(queue')
  BY <1>4, <1>6
<1>10. Cardinality(D) = (Len(queue) + 1) - Len(queue')
  BY <1>3, <1>5, <1>9
<1> HIDE DEF D
<1>8. Cardinality(D) = dropped' - dropped
  BY <1>2, <1>7, <1>10
<1> USE DEF D
<1> QED
  BY <1>1, <1>5, <1>8

Loses == (made' - made) + Cardinality(Held) - Cardinality(Held')
Allowed == IF faults' = faults THEN dropped' - dropped ELSE Batch

LEMMA HeldAfter ==
  ASSUME IInv'
  PROVE  IsFiniteSet(Held') /\ Cardinality(Held') \in Nat
<1>1. made' \in 0..MaxItems /\ cloud' \subseteq 1..made' /\ archive' \subseteq 1..made'
  BY DEF IInv, TypeOK
<1>2. Ids(queue') \subseteq 1..made' /\ Ids(hand') \subseteq 1..made'
  BY DEF IInv, Named
<1>3. Held' \subseteq 1..made'
  BY <1>1, <1>2 DEF Held
<1>4. IsFiniteSet(1..made')
  BY <1>1, QueueBounds, UpTo
<1>5. IsFiniteSet(Held')
  BY <1>3, <1>4, FS_Subset
<1> QED
  BY <1>5, FS_CardinalityType

\* A step that loses the reports of D, and makes one or none.
LEMMA StepLoses ==
  ASSUME IInv, IInv', NEW D, IsFiniteSet(D), Held \subseteq Held' \cup D,
         made' = made \/ (made' = made + 1 /\ made' \in Held' \cup D)
  PROVE  Loses <= Cardinality(D)
<1>1. Held \subseteq 1..made /\ IsFiniteSet(Held) /\ Cardinality(Held) \in Nat /\ made \in Nat
  BY HeldFinite
<1>2. IsFiniteSet(Held') /\ Cardinality(Held') \in Nat
  BY HeldAfter
<1>3. Cardinality(D) \in Nat
  BY FS_CardinalityType
<1>4. CASE made' = made
  <2>1. Cardinality(Held) - Cardinality(Held') <= Cardinality(D)
    BY <1>1, <1>2, LossBound
  <2> QED
    BY <1>1, <1>2, <1>3, <1>4, <2>1 DEF Loses
<1>5. CASE made' = made + 1 /\ made' \in Held' \cup D
  <2> DEFINE A == Held \cup {made'}
  <2>1. made' \notin 1..made
    BY <1>1, <1>5
  <2>2. IsFiniteSet(A) /\ Cardinality(A) = Cardinality(Held) + 1
    BY <1>1, <2>1, FS_AddElement
  <2>3. A \subseteq Held' \cup D
    BY <1>5
  <2> HIDE DEF A
  <2>4. Cardinality(A) - Cardinality(Held') <= Cardinality(D)
    BY <1>2, <2>2, <2>3, LossBound
  <2> QED
    BY <1>1, <1>2, <1>3, <1>5, <2>2, <2>4 DEF Loses
<1> QED
  BY <1>4, <1>5

LEMMA LosesNothing ==
  ASSUME IInv, IInv', Held \subseteq Held', made' = made, faults' = faults, dropped' = dropped
  PROVE  Loses <= Allowed
<1>1. Loses <= Cardinality({})
  BY FS_EmptySet, StepLoses
<1>2. Cardinality({}) = 0 /\ dropped \in Nat
  BY FS_EmptySet, HeldFinite
<1> QED
  BY <1>1, <1>2 DEF Allowed

LEMMA FailureAllows ==
  ASSUME IInv, faults' = faults + 1
  PROVE  Allowed = Batch /\ Batch \in Nat \ {0}
<1>1. faults' # faults
  BY HeldFinite
<1> QED
  BY <1>1, QueueAssumption DEF Allowed

LEMMA NextLoses ==
  ASSUME IInv, IInv', Next
  PROVE  Loses <= Allowed
<1>t. /\ TypeOK /\ Named /\ OneBatch /\ queue \in Seq(Item) /\ hand \in Seq(Item)
      /\ Distinct(queue) /\ Distinct(hand) /\ Ids(queue) \cap Ids(hand) = {} /\ dropped \in Nat
  BY DEF IInv, TypeOK, Named
<1>1. CASE Flush
  <2> DEFINE n == IF Batch > Len(queue) THEN Len(queue) ELSE Batch
             a == SubSeq(queue, 1, n)
             b == SubSeq(queue, n + 1, Len(queue))
  <2>1. made' = made /\ dropped' = dropped /\ cloud' = cloud
    BY <1>1 DEF Flush
  <2>2. CASE Dequeue(n) /\ UNCHANGED faults
    <3>1. n \in 0..Len(queue)
      BY <1>t, QueueAssumption
    <3>2. hand' = a /\ queue' = b /\ archive \subseteq archive'
      BY <2>2 DEF Dequeue, Replace
    <3>3. hand = <<>>
      BY <1>1, <1>t DEF Flush, TypeOK
    <3> HIDE DEF n
    <3>4. Ids(queue) = Ids(a) \cup Ids(b)
      BY <1>t, <3>1, IdsOfCut
    <3> HIDE DEF a, b
    <3>5. Held \subseteq Held'
      BY <2>1, <3>2, <3>3, <3>4, EmptyFacts DEF Held
    <3> QED
      BY <2>1, <2>2, <3>5, LosesNothing
  <2>3. CASE faults' = faults + 1 /\ UNCHANGED <<queue, archive, hand>>
    <3>1. Held' = Held
      BY <2>1, <2>3 DEF Held
    <3>2. Loses <= Cardinality({}) /\ Cardinality({}) = 0
      BY <2>1, <3>1, FS_EmptySet, StepLoses
    <3>3. Loses \in Int
      BY <2>1, <3>1, HeldFinite DEF Loses
    <3> QED
      BY <2>3, <3>2, <3>3, FailureAllows
  <2> QED
    BY <1>1, <2>2, <2>3 DEF Flush
<1>2. CASE Send
  <2>1. UNCHANGED <<queue, dropped, made, archive, faults>> /\ hand # <<>>
    BY <1>2, <1>t DEF Send, TypeOK
  <2>2. Ids(hand) = Ids(Tail(hand)) \cup {Head(hand).id}
    BY <1>t, <2>1, IdsOfTail
  <2>3. cloud \subseteq cloud' /\ (hand' = hand \/ (hand' = Tail(hand) /\ Head(hand).id \in cloud'))
    BY <1>2 DEF Send, Unanswered
  <2>4. Held \subseteq Held'
    BY <2>1, <2>2, <2>3 DEF Held
  <2> QED
    BY <2>1, <2>4, LosesNothing
<1>3. CASE Requeue
  <2>1. UNCHANGED <<made, cloud>> /\ hand' = Tail(hand) /\ hand # <<>>
    BY <1>3, <1>t DEF Requeue, TypeOK
  <2>2. Head(hand) \in Item /\ Ids(hand) = Ids(Tail(hand)) \cup {Head(hand).id}
    BY <1>t, <2>1, IdsOfTail
  <2>3. CASE Enqueue(Head(hand))
    <3> DEFINE D == (Ids(queue) \cup {Head(hand).id}) \ Ids(queue')
    <3>1. Head(hand).id \notin Ids(queue)
      BY <1>t, <2>2
    <3>2. IsFiniteSet(D) /\ Cardinality(D) = dropped' - dropped
      BY <1>t, <2>2, <2>3, <3>1, EnqueueLoses
    <3>3. faults' = faults /\ archive \subseteq archive'
      BY <2>3 DEF Enqueue, Replace
    <3>4. Held \subseteq Held' \cup D
      BY <2>1, <2>2, <3>3 DEF Held
    <3> HIDE DEF D
    <3>5. Loses <= Cardinality(D)
      BY <2>1, <3>2, <3>4, StepLoses
    <3> QED
      BY <3>2, <3>3, <3>5 DEF Allowed
  <2>4. CASE EnqueueFails
    <3>1. UNCHANGED <<queue, archive>> /\ faults' = faults + 1
      BY <2>4 DEF EnqueueFails
    <3> DEFINE D == {Head(hand).id}
    <3>2. IsFiniteSet(D) /\ Cardinality(D) = 1
      BY FS_Singleton
    <3>3. Held \subseteq Held' \cup D
      BY <2>1, <2>2, <3>1 DEF Held
    <3> HIDE DEF D
    <3>4. Loses <= Cardinality(D)
      BY <2>1, <3>2, <3>3, StepLoses
    <3>5. Loses \in Int
      BY <2>1, HeldFinite, HeldAfter DEF Loses
    <3> QED
      BY <3>1, <3>2, <3>4, <3>5, FailureAllows
  <2> QED
    BY <1>3, <2>3, <2>4 DEF Requeue
<1>4. ASSUME NEW kind \in Kinds, Collect(kind) PROVE Loses <= Allowed
  <2>1. hand' = hand /\ cloud \subseteq cloud'
    BY <1>4 DEF Collect, Unanswered
  <2>2. CASE UNCHANGED <<queue, dropped, made, cloud, archive, faults>>
    <3>1. Held \subseteq Held'
      BY <2>1, <2>2 DEF Held
    <3> QED
      BY <2>2, <3>1, LosesNothing
  <2> DEFINE it == [id |-> made + 1, kind |-> kind, born |-> now]
  <2>3. CASE made < MaxItems /\ made' = made + 1 /\ Enqueue(it)
    <3> DEFINE D == (Ids(queue) \cup {it.id}) \ Ids(queue')
    <3>1. it \in Item /\ it.id = made + 1
      BY <1>t, <2>3, NewItem
    <3> HIDE DEF it
    <3>2. it.id \notin Ids(queue)
      <4>1. made \in Nat /\ Ids(queue) \subseteq 1..made
        BY <1>t, HeldFinite DEF Named
      <4> QED
        BY <3>1, <4>1
    <3>3. IsFiniteSet(D) /\ Cardinality(D) = dropped' - dropped
      BY <1>t, <2>3, <3>1, <3>2, EnqueueLoses
    <3>4. faults' = faults /\ archive \subseteq archive'
      BY <2>3 DEF Enqueue, Replace
    <3>5. Held \subseteq Held' \cup D /\ made' \in Held' \cup D
      BY <2>1, <2>3, <3>1, <3>4 DEF Held
    <3> HIDE DEF D
    <3>6. Loses <= Cardinality(D)
      BY <2>3, <3>3, <3>5, StepLoses
    <3> QED
      BY <3>3, <3>4, <3>6 DEF Allowed
  <2>4. CASE made' = made + 1 /\ EnqueueFails
    <3>1. UNCHANGED <<queue, archive>> /\ faults' = faults + 1
      BY <2>4 DEF EnqueueFails
    <3> DEFINE D == {made + 1}
    <3>2. IsFiniteSet(D) /\ Cardinality(D) = 1
      BY FS_Singleton
    <3>3. Held \subseteq Held' \cup D /\ made' \in Held' \cup D
      BY <2>1, <2>4, <3>1 DEF Held
    <3> HIDE DEF D
    <3>4. Loses <= Cardinality(D)
      BY <2>4, <3>2, <3>3, StepLoses
    <3>5. Loses \in Int
      BY <2>4, HeldFinite, HeldAfter DEF Loses
    <3> QED
      BY <3>1, <3>2, <3>4, <3>5, FailureAllows
  <2> QED
    BY <1>4, <2>2, <2>3, <2>4 DEF Collect
<1>5. CASE Archive
  <2>1. Held \subseteq Held' /\ made' = made /\ faults' = faults /\ dropped' = dropped
    BY <1>5 DEF Archive, Held
  <2> QED
    BY <2>1, LosesNothing
<1>6. CASE Restart
  <2>1. UNCHANGED <<queue, made, cloud, archive>> /\ faults' = faults + 1
    BY <1>6 DEF Restart
  <2>2. IsFiniteSet(Ids(hand)) /\ Cardinality(Ids(hand)) = Len(hand) /\ Len(hand) \in Nat
    BY <1>t, IdsCount
  <2>3. Held \subseteq Held' \cup Ids(hand)
    BY <2>1 DEF Held
  <2>4. Loses <= Len(hand)
    BY <2>1, <2>2, <2>3, StepLoses
  <2>5. Loses \in Int
    BY <2>1, HeldFinite, HeldAfter DEF Loses
  <2> QED
    BY <1>t, <2>1, <2>2, <2>4, <2>5, FailureAllows DEF OneBatch
<1>7. CASE Link \/ Clock
  <2>1. Held \subseteq Held' /\ made' = made /\ faults' = faults /\ dropped' = dropped
    BY <1>7 DEF Link, Clock, Held
  <2> QED
    BY <2>1, LosesNothing
<1> QED
  BY <1>1, <1>2, <1>3, <1>4, <1>5, <1>6, <1>7 DEF Next, Tick

\* No report vanishes in silence, on any path: a step without a failure loses
\* as many reports as the DroppedItems counter gains, and a crash or a disk
\* error at most the batch that flush holds.
THEOREM QueueLossIsAccounted == Spec => LossIsAccounted
<1>1. IInv /\ IInv' /\ [Next]_vars
      => [(made' - made) + Cardinality(Held) - Cardinality(Held')
            <= IF faults' = faults THEN dropped' - dropped ELSE Batch]_vars
  BY NextLoses DEF Loses, Allowed
<1> QED
  BY <1>1, InitIInv, NextIInv, PTL DEF Spec, LossIsAccounted

-----------------------------------------------------------------------------
(* What goes first when space is short.                                    *)

Ranked ==
    \A i \in DOMAIN Offered, j \in DOMAIN queue' :
        Drops(Offered[i]) /\ Fresh(Offered[i]) => Priority(Offered[i].kind) <= Priority(queue'[j].kind)

\* A step that leaves the queue as it is drops nothing.
LEMMA QuietStep ==
  ASSUME queue \in Seq(Item), queue' = queue, made' = made, pc = "requeue" => hand' = hand
  PROVE  Ranked
<1>1. Offered = queue
  BY DEF Offered
<1>2. \A i \in DOMAIN queue : queue[i].id \in Ids(queue')
  BY DEF Ids
<1> QED
  BY <1>1, <1>2 DEF Ranked, Drops

LEMMA WriteStep ==
  ASSUME queue \in Seq(Item), Distinct(queue), NEW it \in Item, it.id \notin Ids(queue), Enqueue(it),
         Offered = queue \o <<it>>
  PROVE  Ranked
<1>1. Offered = Append(queue, it)
  OBVIOUS
<1>2. \A i \in DOMAIN Append(queue, it), n \in DOMAIN queue' :
        Fresh(Append(queue, it)[i]) /\ Append(queue, it)[i].id \notin Ids(queue')
        => Priority(Append(queue, it)[i].kind) <= Priority(queue'[n].kind)
  BY EnqueueStep
<1> QED
  BY <1>1, <1>2 DEF Ranked, Drops

LEMMA NextRanked ==
  ASSUME IInv, Next
  PROVE  Ranked
<1>t. /\ TypeOK /\ Named /\ queue \in Seq(Item) /\ hand \in Seq(Item)
      /\ Distinct(queue) /\ Ids(queue) \cap Ids(hand) = {} /\ made \in Nat
  BY QueueBounds DEF IInv, TypeOK, Named
<1>1. CASE Flush
  BY <1>1 DEF Flush, Ranked, Drops
<1>2. CASE Send
  BY <1>2, <1>t, QuietStep DEF Send
<1>3. CASE Requeue
  <2>1. pc = "requeue" /\ hand' = Tail(hand) /\ hand # <<>>
    BY <1>3, <1>t DEF Requeue, TypeOK
  <2>2. Head(hand) \in Item /\ Head(hand).id \in Ids(hand) /\ hand' # hand
    BY <1>t, <2>1, IdsOfTail
  <2>3. CASE Enqueue(Head(hand))
    <3>1. Offered = queue \o <<Head(hand)>>
      BY <2>1, <2>2 DEF Offered
    <3>2. Head(hand).id \notin Ids(queue)
      BY <1>t, <2>2
    <3> QED
      BY <1>t, <2>2, <2>3, <3>1, <3>2, WriteStep
  <2>4. CASE EnqueueFails
    <3>1. faults' # faults
      BY <2>4, HeldFinite DEF EnqueueFails
    <3> QED
      BY <3>1 DEF Ranked, Drops
  <2> QED
    BY <1>3, <2>3, <2>4 DEF Requeue
<1>4. ASSUME NEW kind \in Kinds, Collect(kind) PROVE Ranked
  <2> DEFINE it == [id |-> made + 1, kind |-> kind, born |-> now]
  <2>1. pc = kind /\ pc # "requeue"
    BY <1>4 DEF Collect, Kinds
  <2>2. CASE UNCHANGED <<queue, made>>
    BY <1>t, <2>1, <2>2, QuietStep
  <2>3. CASE made < MaxItems /\ made' = made + 1 /\ Enqueue(it)
    <3>1. it \in Item /\ it.id = made + 1
      BY <1>t, <2>3, NewItem
    <3>2. made' # made
      BY <1>t, <2>3
    <3>3. Offered = queue \o <<it>>
      BY <2>1, <2>3, <3>2 DEF Offered
    <3> HIDE DEF it
    <3>4. it.id \notin Ids(queue)
      BY <1>t, <3>1 DEF Named
    <3> QED
      BY <1>t, <2>3, <3>1, <3>3, <3>4, WriteStep
  <2>4. CASE EnqueueFails
    <3>1. faults' # faults
      BY <2>4, HeldFinite DEF EnqueueFails
    <3> QED
      BY <3>1 DEF Ranked, Drops
  <2> QED
    BY <1>4, <2>2, <2>3, <2>4 DEF Collect
<1>5. CASE Archive
  BY <1>5, EmptyFacts DEF Archive, Ranked
<1>6. CASE Restart
  <2>1. faults' # faults
    BY <1>6, HeldFinite DEF Restart
  <2> QED
    BY <2>1 DEF Ranked, Drops
<1>7. CASE Link \/ Clock
  BY <1>7, <1>t, QuietStep DEF Link, Clock
<1> QED
  BY <1>1, <1>2, <1>3, <1>4, <1>5, <1>6, <1>7 DEF Next, Tick

\* "High-priority records are retained ahead of low-priority telemetry": an
\* item that prune leaves out for want of space has no higher priority than
\* any item it keeps.
THEOREM QueueKeepsPriority == Spec => PriorityKept
<1>1. IInv /\ [Next]_vars => [Ranked]_vars
  BY NextRanked
<1>2. [][Ranked]_vars <=> PriorityKept
  BY DEF PriorityKept, Ranked
<1> QED
  BY <1>1, <1>2, InitIInv, NextIInv, PTL DEF Spec
=============================================================================
