------------------------ MODULE AssistantActionsProofs ------------------------
(***************************************************************************)
(* Proofs about AssistantActions for any users, devices, inventories and   *)
(* bounds: an approval has at most one job, no job is left without its     *)
(* device, and the request limit is exact.                                 *)
(***************************************************************************)
EXTENDS AssistantActions, FiniteSetTheorems, FunctionTheorems, SequenceTheorems, TLAPS

JobRecord == [token : Nat, dev : Devices, state : {"queued", "ended", "removed"}]

\* The types of what the store and the users hold.
StoreTypes ==
    /\ now \in Nat /\ tokens \in Seq(Token)
    /\ jobs \in Seq(JobRecord)

\* OneJobPerApproval without cardinalities.
AtMostOne ==
    \A i, j \in DOMAIN jobs :
        jobs[i].token = jobs[j].token /\ jobs[i].state # "removed" /\ jobs[j].state # "removed" => i = j

IInv == StoreTypes /\ AtMostOne /\ JobsHaveDevices

-----------------------------------------------------------------------------
LEMMA InitIInv == Init => IInv
BY DEF Init, IInv, StoreTypes, AtMostOne, JobsHaveDevices

\* A job that is appended: CreateJob found the device, and no job with the key.
LEMMA CreateKeeps ==
  ASSUME IInv, NEW t \in DOMAIN tokens, CreateJob(t), UNCHANGED <<caps, tokens, now>>
  PROVE  IInv'
<1>1. CASE jobs' = jobs
  BY <1>1 DEF IInv, StoreTypes, AtMostOne, JobsHaveDevices
<1>2. CASE tokens[t].dev \in DOMAIN caps /\ JobsOf(t) = {} /\ jobs' = Append(jobs, NewJob(t))
  <2>1. t \in Nat /\ tokens[t] \in Token
    BY DEF IInv, StoreTypes
  <2>2. NewJob(t) \in JobRecord
    BY <2>1 DEF NewJob, JobRecord, Token
  <2>3. /\ jobs' \in Seq(JobRecord) /\ DOMAIN jobs' = 1..(Len(jobs) + 1)
        /\ \A i \in 1..Len(jobs) : jobs'[i] = jobs[i]
        /\ jobs'[Len(jobs) + 1] = NewJob(t)
    BY <1>2, <2>2 DEF IInv, StoreTypes
  <2>4. DOMAIN jobs = 1..Len(jobs) /\ Len(jobs) \in Nat
    BY DEF IInv, StoreTypes
  <2>5. \A i \in DOMAIN jobs : jobs[i].token = t => jobs[i].state = "removed"
    BY <1>2 DEF JobsOf
  <2>6. NewJob(t).token = t /\ NewJob(t).dev = tokens[t].dev
    BY DEF NewJob
  <2>7. AtMostOne'
    <3> SUFFICES ASSUME NEW i \in DOMAIN jobs', NEW j \in DOMAIN jobs',
                        jobs'[i].token = jobs'[j].token,
                        jobs'[i].state # "removed", jobs'[j].state # "removed"
                 PROVE  i = j
      BY DEF AtMostOne
    <3>1. CASE i \in DOMAIN jobs /\ j \in DOMAIN jobs
      BY <3>1, <2>3, <2>4 DEF IInv, AtMostOne
    <3>2. CASE i = Len(jobs) + 1 /\ j \in DOMAIN jobs
      BY <3>2, <2>3, <2>4, <2>5, <2>6
    <3>3. CASE j = Len(jobs) + 1 /\ i \in DOMAIN jobs
      BY <3>3, <2>3, <2>4, <2>5, <2>6
    <3> QED
      BY <3>1, <3>2, <3>3, <2>3, <2>4
  <2>8. JobsHaveDevices'
    BY <1>2, <2>3, <2>4, <2>6 DEF IInv, JobsHaveDevices
  <2> QED
    BY <2>3, <2>7, <2>8 DEF IInv, StoreTypes
<1> QED
  BY <1>1, <1>2 DEF CreateJob

\* Ending, removing and dropping jobs leaves their number, keys and devices.
LEMMA FewerKeeps ==
  ASSUME IInv, UNCHANGED <<tokens, now>>,
         jobs' \in Seq(JobRecord), DOMAIN jobs' = DOMAIN jobs,
         \A i \in DOMAIN jobs :
            /\ jobs'[i].token = jobs[i].token /\ jobs'[i].dev = jobs[i].dev
            /\ jobs[i].state = "removed" => jobs'[i].state = "removed"
            /\ jobs'[i].state = "removed" \/ jobs[i].dev \in DOMAIN caps'
  PROVE  IInv'
BY DEF IInv, StoreTypes, AtMostOne, JobsHaveDevices

LEMMA StepIInv == IInv /\ [Next]_vars => IInv'
<1> SUFFICES ASSUME IInv, [Next]_vars PROVE IInv'
  OBVIOUS
<1>q. ASSUME UNCHANGED <<tokens, jobs>>, now' \in Nat, DOMAIN caps' = DOMAIN caps PROVE IInv'
  BY <1>q DEF IInv, StoreTypes, AtMostOne, JobsHaveDevices
<1>n. now \in Nat
  BY DEF IInv, StoreTypes
<1>j. jobs \in Seq(JobRecord) /\ DOMAIN jobs = 1..Len(jobs) /\ \A i \in DOMAIN jobs : jobs[i] \in JobRecord
  BY DEF IInv, StoreTypes
<1>1. ASSUME NEW u \in Users, Ask(u) PROVE IInv'
  BY <1>1, <1>q, <1>n DEF Ask, store, approvals
<1>2. ASSUME NEW u \in Users, Answer(u) PROVE IInv'
  <2>1. CASE UNCHANGED approvals
    BY <1>2, <2>1, <1>q, <1>n DEF Answer, store, approvals
  <2>2. ASSUME NEW d \in Devices, NEW type \in JobTypes,
               tokens' = Append(tokens, [user |-> u, dev |-> d, type |-> type, expires |-> now + Lifetime])
        PROVE  IInv'
    <3>1. UNCHANGED <<caps, jobs, now>>
      BY <1>2 DEF Answer, store
    <3>2. [user |-> u, dev |-> d, type |-> type, expires |-> now + Lifetime] \in Token
      BY ActionsAssumption DEF Token, IInv, StoreTypes
    <3>3. tokens' \in Seq(Token)
      BY <2>2, <3>2 DEF IInv, StoreTypes
    <3> QED
      BY <3>1, <3>3 DEF IInv, StoreTypes, AtMostOne, JobsHaveDevices
  <2> QED
    BY <1>2, <2>1, <2>2 DEF Answer
<1>3. ASSUME NEW u \in Users, NEW t \in DOMAIN tokens, Approve(u, t) PROVE IInv'
  BY <1>3, <1>q, <1>n DEF Approve, store
<1>4. ASSUME NEW t \in DOMAIN tokens, QueueAction(t) PROVE IInv'
  BY <1>4, CreateKeeps DEF QueueAction
<1>5. ASSUME NEW i \in DOMAIN jobs, JobEnds(i) PROVE IInv'
  <2>1. jobs' = [jobs EXCEPT ![i] = [jobs[i] EXCEPT !.state = "ended"]] /\ UNCHANGED <<caps, tokens, now>>
    BY <1>5 DEF JobEnds, approvals
  <2>2. [jobs[i] EXCEPT !.state = "ended"] \in JobRecord
    BY <1>j DEF JobRecord
  <2>3. jobs' \in Seq(JobRecord) /\ DOMAIN jobs' = DOMAIN jobs
    BY <2>1, <2>2, <1>j
  <2> QED
    BY <1>5, <2>1, <2>3, <1>j, FewerKeeps DEF JobEnds, JobRecord, IInv, JobsHaveDevices
<1>6. ASSUME NEW i \in DOMAIN jobs, DeleteJob(i) PROVE IInv'
  <2>1. jobs' = [jobs EXCEPT ![i] = [jobs[i] EXCEPT !.state = "removed"]] /\ UNCHANGED <<caps, tokens, now>>
    BY <1>6 DEF DeleteJob, approvals
  <2>2. [jobs[i] EXCEPT !.state = "removed"] \in JobRecord
    BY <1>j DEF JobRecord
  <2>3. jobs' \in Seq(JobRecord) /\ DOMAIN jobs' = DOMAIN jobs
    BY <2>1, <2>2, <1>j
  <2> QED
    BY <2>1, <2>3, <1>j, FewerKeeps DEF JobRecord, IInv, JobsHaveDevices
<1>7. ASSUME NEW d \in Devices, DeleteDevice(d) PROVE IInv'
  <2>1. /\ jobs' = [i \in DOMAIN jobs |-> IF jobs[i].dev = d THEN [jobs[i] EXCEPT !.state = "removed"] ELSE jobs[i]]
        /\ DOMAIN caps' = DOMAIN caps \ {d} /\ UNCHANGED <<tokens, now>>
    BY <1>7 DEF DeleteDevice, approvals
  <2>2. \A i \in DOMAIN jobs : [jobs[i] EXCEPT !.state = "removed"] \in JobRecord
    BY <1>j DEF JobRecord
  <2>3. \A i \in DOMAIN jobs : jobs'[i] \in JobRecord
    BY <2>1, <2>2, <1>j
  <2>4. jobs' \in Seq(JobRecord) /\ DOMAIN jobs' = DOMAIN jobs
    BY <2>1, <2>3, <1>j
  <2> QED
    BY <2>1, <2>4, <1>j, FewerKeeps DEF JobRecord, IInv, JobsHaveDevices
<1>8. ASSUME NEW d \in Devices, NEW new \in Reports, Inventory(d, new) PROVE IInv'
  BY <1>8, <1>q, <1>n DEF Inventory, approvals
<1>9. CASE Tick
  BY <1>9, <1>q, <1>n DEF Tick, store, approvals
<1>10. CASE Restart
  BY <1>10, <1>q, <1>n DEF Restart, store
<1>11. CASE UNCHANGED vars
  BY <1>11, <1>q, <1>n DEF vars
<1> QED
  BY <1>1, <1>2, <1>3, <1>4, <1>5, <1>6, <1>7, <1>8, <1>9, <1>10, <1>11 DEF Next

LEMMA Inductive == Spec => []IInv
BY InitIInv, StepIInv, PTL DEF Spec

-----------------------------------------------------------------------------
\* However often and however concurrently an approval is sent to aiAction, the
\* history holds at most one job for it.
THEOREM ApprovedOnce == Spec => []OneJobPerApproval
<1>1. IInv => OneJobPerApproval
  <2> SUFFICES ASSUME IInv, NEW t \in DOMAIN tokens PROVE Cardinality(JobsOf(t)) <= 1
    BY DEF OneJobPerApproval
  <2>1. CASE JobsOf(t) = {}
    BY <2>1, FS_EmptySet
  <2>2. CASE JobsOf(t) # {}
    <3>1. PICK i \in DOMAIN jobs : i \in JobsOf(t)
      BY <2>2 DEF JobsOf
    <3>2. JobsOf(t) = {i}
      BY <3>1 DEF JobsOf, IInv, AtMostOne
    <3> QED
      BY <3>2, FS_Singleton
  <2> QED
    BY <2>1, <2>2
<1> QED
  BY <1>1, Inductive, PTL

\* A device that DeleteDevice removes while its approval is checked gets no job.
THEOREM NoOrphanJobs == Spec => []JobsHaveDevices
<1>1. IInv => JobsHaveDevices
  BY DEF IInv
<1> QED
  BY <1>1, Inductive, PTL

-----------------------------------------------------------------------------
(* The list of request times.                                              *)

LEMMA UpTo ==
  ASSUME NEW n \in Nat
  PROVE  /\ IsFiniteSet(1..n) /\ Cardinality(1..n) = n
         /\ IsFiniteSet(0..(n - 1)) /\ Cardinality(0..(n - 1)) = n
<1>1. 1 \in Int /\ 0 \in Int /\ n \in Int /\ n - 1 \in Int
  OBVIOUS
<1>2. IsFiniteSet(1..n) /\ Cardinality(1..n) = IF 1 > n THEN 0 ELSE n - 1 + 1
  BY <1>1, FS_Interval
<1>3. IsFiniteSet(0..(n - 1)) /\ Cardinality(0..(n - 1)) = IF 0 > n - 1 THEN 0 ELSE (n - 1) - 0 + 1
  BY <1>1, FS_Interval
<1> QED
  BY <1>2, <1>3

\* Some places of a list are finitely many.
LEMMA PlacesFinite ==
  ASSUME NEW s \in Seq(Nat), NEW places \in SUBSET DOMAIN s
  PROVE  IsFiniteSet(places) /\ Cardinality(places) \in Nat /\ Cardinality(places) <= Len(s)
<1>1. Len(s) \in Nat /\ DOMAIN s = 1..Len(s)
  OBVIOUS
<1>2. IsFiniteSet(1..Len(s)) /\ Cardinality(1..Len(s)) = Len(s)
  BY <1>1, UpTo
<1>3. places \in SUBSET (1..Len(s))
  BY <1>1
<1>4. IsFiniteSet(places) /\ Cardinality(places) <= Len(s)
  BY <1>2, <1>3, FS_Subset
<1> QED
  BY <1>4, FS_CardinalityType

\* Filtered lists every one of its places once.
LEMMA FilteredLists ==
  ASSUME NEW s \in Seq(Nat), NEW places \in SUBSET DOMAIN s
  PROVE  \E e \in [1..Cardinality(places) -> places] :
            /\ \A i \in places : \E n \in 1..Cardinality(places) : e[n] = i
            /\ \A m, n \in 1..Cardinality(places) : e[m] = e[n] => m = n
            /\ Filtered(s, places) = [n \in 1..Cardinality(places) |-> s[e[n]]]
<1> DEFINE M == Cardinality(places)
           Under(i) == {j \in places : j < i}
           R == [i \in places |-> Cardinality(Under(i))]
<1>1. IsFiniteSet(places) /\ M \in Nat
  BY PlacesFinite
<1>n. \A i \in places : i \in Nat
  OBVIOUS
<1>2. ASSUME NEW i \in places PROVE R[i] \in 0..(M - 1)
  <2> DEFINE U == Under(i)
  <2>1. U \in SUBSET places /\ U # places /\ R[i] = Cardinality(U)
    BY <1>n
  <2> HIDE DEF U
  <2>2. IsFiniteSet(U) /\ Cardinality(U) <= M /\ Cardinality(U) # M
    BY <1>1, <2>1, FS_Subset
  <2>3. Cardinality(U) \in Nat
    BY <2>2, FS_CardinalityType
  <2> HIDE DEF R, M
  <2> QED
    BY <1>1, <2>1, <2>2, <2>3
<1>3. ASSUME NEW i \in places, NEW k \in places, i < k PROVE R[i] < R[k]
  <2> DEFINE U == Under(i)
             V == Under(k)
  <2>1. U \in SUBSET V /\ U # V /\ V \in SUBSET places
    BY <1>3, <1>n
  <2>2. R[i] = Cardinality(U) /\ R[k] = Cardinality(V)
    OBVIOUS
  <2> HIDE DEF U, V
  <2>3. IsFiniteSet(V)
    BY <1>1, <2>1, FS_Subset
  <2>4. Cardinality(U) <= Cardinality(V) /\ Cardinality(U) # Cardinality(V)
    BY <2>1, <2>3, FS_Subset
  <2>5. R[i] \in 0..(M - 1) /\ R[k] \in 0..(M - 1)
    BY <1>2
  <2> HIDE DEF R, M
  <2> QED
    BY <1>1, <2>2, <2>4, <2>5
<1>4. R \in [places -> 0..(M - 1)]
  BY <1>2
<1>5. \A i, k \in places : R[i] = R[k] => i = k
  <2> SUFFICES ASSUME NEW i \in places, NEW k \in places, R[i] = R[k], i # k PROVE FALSE
    OBVIOUS
  <2>1. i < k \/ k < i
    BY <1>n
  <2>2. R[i] \in Int /\ R[k] \in Int
    BY <1>1, <1>2
  <2> HIDE DEF R
  <2> QED
    BY <1>3, <2>1, <2>2
<1>6. \A n \in 0..(M - 1) : \E i \in places : R[i] = n
  <2>1. IsFiniteSet(0..(M - 1)) /\ Cardinality(0..(M - 1)) = M
    BY <1>1, UpTo
  <2> DEFINE D == 0..(M - 1)
  <2> HIDE DEF R, D
  <2>2. R \in Injection(places, D)
    BY <1>4, <1>5, Fun_IsInj DEF D
  <2>3. R \in Surjection(places, D)
    BY <2>1, <2>2, FS_Injection DEF D
  <2>4. \A n \in D : \E i \in places : R[i] = n
    BY <2>3, Fun_SurjectionProperties
  <2> QED
    BY <2>4 DEF D
<1> DEFINE Place(n) == CHOOSE i \in places : Cardinality(Under(i)) = n - 1
           e == [n \in 1..M |-> Place(n)]
<1>7. ASSUME NEW n \in 1..M PROVE e[n] \in places /\ R[e[n]] = n - 1
  <2>1. n - 1 \in 0..(M - 1)
    BY <1>1
  <2>2. \E i \in places : Cardinality(Under(i)) = n - 1
    BY <1>6, <2>1
  <2>3. Place(n) \in places /\ Cardinality(Under(Place(n))) = n - 1
    BY <2>2
  <2>4. e[n] = Place(n)
    OBVIOUS
  <2> HIDE DEF Place, e
  <2> QED
    BY <2>3, <2>4
<1>8. Filtered(s, places) = [n \in 1..M |-> s[e[n]]]
  BY DEF Filtered
<1>11. e \in [1..M -> places]
  BY <1>7
<1> HIDE DEF e, R
<1>9. \A i \in places : \E n \in 1..M : e[n] = i
  <2> TAKE i \in places
  <2>1. R[i] \in 0..(M - 1)
    BY <1>4
  <2>2. R[i] + 1 \in 1..M /\ (R[i] + 1) - 1 = R[i]
    BY <1>1, <2>1
  <2>3. e[R[i] + 1] = i
    BY <1>5, <1>7, <2>2
  <2> QED
    BY <2>2, <2>3
<1>10. \A m, n \in 1..M : e[m] = e[n] => m = n
  <2> SUFFICES ASSUME NEW m \in 1..M, NEW n \in 1..M, e[m] = e[n] PROVE m = n
    OBVIOUS
  <2>1. m - 1 = n - 1
    BY <1>7
  <2> QED
    BY <1>1, <2>1
<1> HIDE DEF M
<1> QED
  BY <1>8, <1>9, <1>10, <1>11 DEF M

\* The places of a list that will still be of the last minute at time n.
Later(s, n) == {i \in DOMAIN s : s[i] + Minute > n}

\* What Allow throws away does not count later either.
LEMMA FilteredLater ==
  ASSUME NEW s \in Seq(Nat), NEW n \in Nat, now \in Nat, n >= now
  PROVE  /\ Filtered(s, Current(s)) \in Seq(Nat) /\ Len(Filtered(s, Current(s))) = Cardinality(Current(s))
         /\ Cardinality(Later(Filtered(s, Current(s)), n)) = Cardinality(Later(s, n))
<1> DEFINE C == Current(s)
           M == Cardinality(C)
           f == Filtered(s, C)
<1>1. C \in SUBSET DOMAIN s
  BY DEF Current
<1>2. IsFiniteSet(C) /\ M \in Nat
  BY <1>1, PlacesFinite
<1>3. \A i \in Later(s, n) : i \in C
  BY ActionsAssumption DEF Later, Current
<1> HIDE DEF C
<1>4. PICK e \in [1..M -> C] :
         /\ \A i \in C : \E k \in 1..M : e[k] = i
         /\ \A k, l \in 1..M : e[k] = e[l] => k = l
         /\ f = [k \in 1..M |-> s[e[k]]]
  BY <1>1, FilteredLists
<1> HIDE DEF f, M
<1>5. f \in Seq(Nat) /\ Len(f) = M /\ DOMAIN f = 1..M
  <2>1. \A k \in 1..M : s[e[k]] \in Nat
    BY <1>1, <1>4
  <2> QED
    BY <1>2, <1>4, <2>1
<1> DEFINE L == Later(f, n)
           b == [k \in L |-> e[k]]
<1>6. L \in SUBSET (1..M) /\ \A k \in 1..M : k \in L <=> e[k] \in Later(s, n)
  <2>1. \A k \in 1..M : e[k] \in DOMAIN s /\ f[k] = s[e[k]]
    BY <1>1, <1>4
  <2> QED
    BY <1>5, <2>1 DEF Later
<1> HIDE DEF L
<1>7. b \in [L -> Later(s, n)] /\ \A k, l \in L : b[k] = b[l] => k = l
  BY <1>4, <1>6
<1>8. \A i \in Later(s, n) : \E k \in L : b[k] = i
  BY <1>3, <1>4, <1>6
<1> HIDE DEF b
<1>9. b \in Bijection(L, Later(s, n))
  BY <1>7, <1>8, Fun_IsBij
<1>10. ExistsBijection(L, Later(s, n))
  BY <1>9, Fun_ExistsBij
<1>11. IsFiniteSet(L)
  <2>1. IsFiniteSet(1..M)
    BY <1>2, UpTo DEF M
  <2> QED
    BY <1>6, <2>1, FS_Subset
<1>12. Cardinality(L) = Cardinality(Later(s, n))
  BY <1>10, <1>11, FS_Bijection
<1> QED
  BY <1>5, <1>12 DEF f, L, M, C

LEMMA AppendLater ==
  ASSUME NEW s \in Seq(Nat), NEW t \in Nat, NEW n \in Nat
  PROVE  Cardinality(Later(Append(s, t), n)) = Cardinality(Later(s, n)) + (IF t + Minute > n THEN 1 ELSE 0)
<1> DEFINE N == Len(s)
           a == Append(s, t)
           L == Later(s, n)
<1>1. /\ N \in Nat /\ DOMAIN s = 1..N /\ DOMAIN a = 1..(N + 1)
      /\ a[N + 1] = t /\ \A i \in 1..N : a[i] = s[i]
  OBVIOUS
<1>2. L \in SUBSET DOMAIN s
  BY DEF Later
<1>3. IsFiniteSet(L) /\ Cardinality(L) \in Nat
  BY <1>2, PlacesFinite
<1>4. N + 1 \notin L
  BY <1>1, <1>2
<1> HIDE DEF a, N
<1>5. \A i \in 1..(N + 1) : i \in 1..N \/ i = N + 1
  BY <1>1
<1>6. N + 1 \in 1..(N + 1) /\ \A i \in 1..N : i \in 1..(N + 1)
  BY <1>1
<1>7. CASE t + Minute > n
  <2>1. Later(a, n) = L \cup {N + 1}
    BY <1>1, <1>5, <1>6, <1>7 DEF Later
  <2>2. Cardinality(L \cup {N + 1}) = Cardinality(L) + 1
    BY <1>3, <1>4, FS_AddElement
  <2> QED
    BY <1>7, <2>1, <2>2 DEF a
<1>8. CASE ~(t + Minute > n)
  <2>1. Later(a, n) = L
    BY <1>1, <1>5, <1>6, <1>8 DEF Later
  <2> QED
    BY <1>3, <1>8, <2>1 DEF a
<1> QED
  BY <1>7, <1>8

-----------------------------------------------------------------------------
(* The request limit.                                                      *)

\* At every later time, times and calls will have as many current entries.
SameCount ==
    \A u \in Users : \A n \in Nat : n >= now =>
        Cardinality(Later(times[u], n)) = Cardinality(Later(calls[u], n))
LInv == TypeOK /\ SameCount

JobType == [token : 1..Len(tokens), dev : Devices, state : {"queued", "ended", "removed"}]

LEMMA AllowKeeps ==
  ASSUME LInv, NEW u \in Users, Allow(u), now' = now
  PROVE  /\ times' \in [Users -> Seq(Nat)] /\ calls' \in [Users -> Seq(Nat)]
         /\ \A v \in Users : Len(times'[v]) <= Limit
         /\ SameCount'
<1>t. /\ times \in [Users -> Seq(Nat)] /\ calls \in [Users -> Seq(Nat)] /\ now \in Nat
      /\ \A v \in Users : Len(times[v]) <= Limit
  BY ActionsBounds DEF LInv, TypeOK
<1>l. Limit \in Nat
  BY ActionsAssumption
<1> DEFINE s == times[u]
           c == calls[u]
           f == Filtered(s, Current(s))
           go == Len(f) < Limit
<1>1. s \in Seq(Nat) /\ c \in Seq(Nat) /\ Len(s) <= Limit
  BY <1>t
<1>2. /\ times' = [times EXCEPT ![u] = IF go THEN Append(f, now) ELSE f]
      /\ calls' = [calls EXCEPT ![u] = IF go THEN Append(c, now) ELSE c]
  BY DEF Allow, Recent
<1>3. Current(s) \in SUBSET DOMAIN s
  BY DEF Current
<1> HIDE DEF s, c
<1>4. now >= now
  BY <1>t
<1>5. f \in Seq(Nat) /\ Len(f) = Cardinality(Current(s))
  BY <1>1, <1>4, <1>t, FilteredLater
<1>6. Len(f) \in Nat /\ Len(f) <= Limit
  <2>1. Cardinality(Current(s)) <= Len(s) /\ Len(s) \in Nat /\ Len(f) \in Nat
    BY <1>1, <1>3, <1>5, PlacesFinite
  <2> QED
    BY <1>1, <1>5, <1>l, <2>1
<1> HIDE DEF f
<1>7. /\ times'[u] = IF go THEN Append(f, now) ELSE f
      /\ calls'[u] = IF go THEN Append(c, now) ELSE c
      /\ \A v \in Users : v # u => times'[v] = times[v] /\ calls'[v] = calls[v]
  BY <1>2, <1>t
<1>8. times'[u] \in Seq(Nat) /\ calls'[u] \in Seq(Nat) /\ Len(times'[u]) <= Limit
  <2>1. CASE go
    <3>1. Append(f, now) \in Seq(Nat) /\ Len(Append(f, now)) = Len(f) + 1 /\ Append(c, now) \in Seq(Nat)
      BY <1>1, <1>5, <1>t
    <3> QED
      BY <1>6, <1>7, <1>l, <2>1, <3>1
  <2>2. CASE ~go
    BY <1>1, <1>5, <1>6, <1>7, <2>2
  <2> QED
    BY <2>1, <2>2
<1>9. times' \in [Users -> Seq(Nat)] /\ calls' \in [Users -> Seq(Nat)]
  BY <1>2, <1>7, <1>8, <1>t
<1>10. \A v \in Users : Len(times'[v]) <= Limit
  BY <1>7, <1>8, <1>t
<1>11. SameCount'
  <2> SUFFICES ASSUME NEW v \in Users, NEW n \in Nat, n >= now
               PROVE  Cardinality(Later(times'[v], n)) = Cardinality(Later(calls'[v], n))
    BY DEF SameCount
  <2>1. Cardinality(Later(times[v], n)) = Cardinality(Later(calls[v], n))
    BY DEF LInv, SameCount
  <2>2. CASE v # u
    BY <1>7, <2>1, <2>2
  <2>3. CASE v = u
    <3>1. Cardinality(Later(f, n)) = Cardinality(Later(s, n))
      BY <1>1, <1>t, FilteredLater DEF f
    <3>2. Cardinality(Later(f, n)) = Cardinality(Later(c, n))
      BY <2>1, <2>3, <3>1 DEF s, c
    <3>3. CASE ~go
      BY <1>7, <2>3, <3>2, <3>3
    <3>4. CASE go
      <4>1. times'[v] = Append(f, now) /\ calls'[v] = Append(c, now)
        BY <1>7, <2>3, <3>4
      <4>2. Cardinality(Later(Append(f, now), n)) = Cardinality(Later(f, n)) + (IF now + Minute > n THEN 1 ELSE 0)
        BY <1>5, <1>t, AppendLater
      <4>3. Cardinality(Later(Append(c, now), n)) = Cardinality(Later(c, n)) + (IF now + Minute > n THEN 1 ELSE 0)
        BY <1>1, <1>t, AppendLater
      <4> QED
        BY <3>2, <4>1, <4>2, <4>3
    <3> QED
      BY <3>3, <3>4
  <2> QED
    BY <2>2, <2>3
<1> QED
  BY <1>9, <1>10, <1>11

\* The parts of TypeOK.
LimiterOK ==
    /\ times \in [Users -> Seq(Nat)] /\ \A u \in Users : Len(times[u]) <= Limit
    /\ calls \in [Users -> Seq(Nat)] /\ asking \subseteq Users
    /\ now \in 0..MaxTime /\ stops \in 0..MaxStops
DevicesOK == DOMAIN caps \subseteq Devices /\ caps \in [DOMAIN caps -> SUBSET Capabilities]
ApprovalsOK ==
    /\ tokens \in Seq(Token) /\ Len(tokens) <= MaxTokens
    /\ approving \in [DOMAIN tokens -> 0..MaxInflight]
    /\ jobs \in Seq(JobType)

LEMMA TypeParts == TypeOK <=> LimiterOK /\ DevicesOK /\ ApprovalsOK
BY DEF TypeOK, LimiterOK, DevicesOK, ApprovalsOK, JobType

LEMMA BoundsType ==
  /\ MaxTime \in Nat /\ MaxCalls \in Nat /\ MaxTokens \in Nat /\ MaxJobs \in Nat
  /\ MaxInflight \in Nat /\ MaxStops \in Nat
BY ActionsBounds

LEMMA InitLInv == Init => LInv
<1> SUFFICES ASSUME Init PROVE LInv
  OBVIOUS
<1>1. LimiterOK
  BY BoundsType, ActionsAssumption DEF Init, LimiterOK
<1>2. DevicesOK
  BY DEF Init, DevicesOK, Capabilities
<1>3. ApprovalsOK
  BY BoundsType DEF Init, ApprovalsOK
<1>4. SameCount
  BY DEF Init, SameCount
<1> QED
  BY <1>1, <1>2, <1>3, <1>4, TypeParts DEF LInv

\* A job that stays a job.
LEMMA JobTurns ==
  ASSUME jobs \in Seq(JobType), NEW i \in DOMAIN jobs, NEW state \in {"ended", "removed"}
  PROVE  [jobs EXCEPT ![i].state = state] \in Seq(JobType)
<1>1. [jobs[i] EXCEPT !.state = state] \in JobType
  <2>1. jobs[i] \in JobType
    OBVIOUS
  <2> QED
    BY <2>1 DEF JobType
<1> DEFINE r == [jobs[i] EXCEPT !.state = state]
<1>2. [jobs EXCEPT ![i].state = state] = [jobs EXCEPT ![i] = r]
  OBVIOUS
<1> HIDE DEF r
<1>3. [jobs EXCEPT ![i] = r] \in Seq(JobType)
  BY <1>1 DEF r
<1> QED
  BY <1>2, <1>3

LEMMA StepLInv == LInv /\ [Next]_vars => LInv'
<1> SUFFICES ASSUME LInv, [Next]_vars PROVE LInv'
  OBVIOUS
<1>t. LimiterOK /\ DevicesOK /\ ApprovalsOK /\ SameCount
  BY TypeParts DEF LInv
<1>n. now \in Nat
  BY <1>t, BoundsType DEF LimiterOK
<1>l. ASSUME UNCHANGED <<times, calls, now, stops>>, asking' \subseteq Users PROVE LimiterOK' /\ SameCount'
  BY <1>l, <1>t DEF LimiterOK, SameCount
<1>d. ASSUME UNCHANGED caps PROVE DevicesOK'
  BY <1>d, <1>t DEF DevicesOK
<1>a. ASSUME UNCHANGED <<tokens, approving, jobs>> PROVE ApprovalsOK'
  BY <1>a, <1>t DEF ApprovalsOK, JobType
<1>k. asking \subseteq Users
  BY <1>t DEF LimiterOK
<1>w. ASSUME LimiterOK', DevicesOK', ApprovalsOK', SameCount' PROVE LInv'
  BY <1>w DEF LInv, TypeOK, LimiterOK, DevicesOK, ApprovalsOK, JobType
<1>1. ASSUME NEW u \in Users, Ask(u) PROVE LInv'
  <2>1. Allow(u) /\ UNCHANGED <<now, caps, jobs, tokens, approving, stops>>
    BY <1>1 DEF Ask, store, approvals
  <2>2. asking' \subseteq Users
    BY <1>1, <1>k DEF Ask
  <2>3. /\ times' \in [Users -> Seq(Nat)] /\ calls' \in [Users -> Seq(Nat)]
        /\ \A v \in Users : Len(times'[v]) <= Limit
        /\ SameCount'
    BY <2>1, AllowKeeps
  <2>4. LimiterOK'
    BY <1>t, <2>1, <2>2, <2>3 DEF LimiterOK
  <2> QED
    BY <1>a, <1>d, <1>w, <2>1, <2>3, <2>4
<1>2. ASSUME NEW u \in Users, Answer(u) PROVE LInv'
  <2>1. UNCHANGED <<times, calls, now, caps, jobs, stops>> /\ asking' \subseteq Users
    BY <1>2, <1>k DEF Answer, limiter, store
  <2>2. CASE UNCHANGED approvals
    BY <1>a, <1>d, <1>l, <1>w, <2>1, <2>2 DEF approvals
  <2>3. ASSUME NEW d \in Devices, NEW type \in JobTypes, Len(tokens) < MaxTokens,
               tokens' = Append(tokens, [user |-> u, dev |-> d, type |-> type, expires |-> now + Lifetime]),
               approving' = Append(approving, 0)
        PROVE  ApprovalsOK'
    <3> DEFINE r == [user |-> u, dev |-> d, type |-> type, expires |-> now + Lifetime]
               N == Len(tokens)
    <3>1. r \in Token
      BY <1>n, ActionsAssumption DEF Token
    <3> HIDE DEF r
    <3>2. tokens \in Seq(Token) /\ N \in Nat /\ DOMAIN tokens = 1..N
      BY <1>t DEF ApprovalsOK
    <3>3. tokens' \in Seq(Token) /\ Len(tokens') = N + 1 /\ DOMAIN tokens' = 1..(N + 1)
      BY <2>3, <3>1, <3>2 DEF r
    <3>4. approving' \in [DOMAIN tokens' -> 0..MaxInflight]
      <4>1. approving \in [1..N -> 0..MaxInflight]
        BY <1>t, <3>2 DEF ApprovalsOK
      <4> DEFINE I == 0..MaxInflight
      <4>3. 0 \in I
        BY BoundsType
      <4> HIDE DEF N, I
      <4>0. approving \in [1..N -> I]
        BY <4>1 DEF I
      <4>2. approving \in Seq(I)
        BY <3>2, <4>0, SeqDef
      <4>4. Len(approving) = N
        BY <3>2, <4>0, <4>2, LenProperties
      <4>5. approving' \in Seq(I) /\ Len(approving') = N + 1
        BY <2>3, <4>2, <4>3, <4>4
      <4>6. approving' \in [1..(N + 1) -> I]
        BY <4>5, LenProperties
      <4> QED
        BY <3>3, <4>6 DEF I
    <3>5. jobs' \in Seq([token : 1..Len(tokens'), dev : Devices, state : {"queued", "ended", "removed"}])
      <4> DEFINE J == [token : 1..Len(tokens'), dev : Devices, state : {"queued", "ended", "removed"}]
      <4>1. ASSUME NEW j \in JobType PROVE j \in J
        <5>1. 1..N \subseteq 1..(N + 1)
          BY <3>2
        <5> QED
          BY <3>3, <4>1, <5>1 DEF JobType
      <4> HIDE DEF J
      <4>2. jobs \in Seq(JobType)
        BY <1>t DEF ApprovalsOK
      <4>3. jobs \in Seq(J)
        BY <4>1, <4>2
      <4> QED
        BY <2>1, <4>3 DEF J
    <3>6. Len(tokens') <= MaxTokens
      BY <2>3, <3>2, <3>3, BoundsType
    <3> QED
      BY <3>3, <3>4, <3>5, <3>6 DEF ApprovalsOK, JobType
  <2> QED
    BY <1>2, <1>d, <1>l, <1>w, <2>1, <2>2, <2>3 DEF Answer
<1>3. ASSUME NEW u \in Users, NEW t \in DOMAIN tokens, Approve(u, t) PROVE LInv'
  <2>1. /\ UNCHANGED <<times, calls, now, asking, caps, jobs, tokens, stops>>
        /\ approving[t] < MaxInflight /\ approving' = [approving EXCEPT ![t] = @ + 1]
    BY <1>3 DEF Approve, limiter, store
  <2>2. approving' \in [DOMAIN tokens -> 0..MaxInflight]
    BY <1>t, <2>1, BoundsType DEF ApprovalsOK
  <2>3. ApprovalsOK'
    BY <1>t, <2>1, <2>2 DEF ApprovalsOK, JobType
  <2> QED
    BY <1>d, <1>k, <1>l, <1>w, <2>1, <2>3
<1>4. ASSUME NEW t \in DOMAIN tokens, QueueAction(t) PROVE LInv'
  <2>1. /\ UNCHANGED <<times, calls, now, asking, caps, tokens, stops>>
        /\ approving[t] > 0 /\ approving' = [approving EXCEPT ![t] = @ - 1] /\ CreateJob(t)
    BY <1>4 DEF QueueAction, limiter
  <2>2. approving' \in [DOMAIN tokens -> 0..MaxInflight]
    BY <1>t, <2>1, BoundsType DEF ApprovalsOK
  <2>3. tokens[t].dev \in Devices /\ t \in 1..Len(tokens)
    <3>1. tokens \in Seq(Token)
      BY <1>t DEF ApprovalsOK
    <3>2. tokens[t] \in Token /\ t \in 1..Len(tokens)
      BY <3>1
    <3> QED
      BY <3>2 DEF Token
  <2>4. NewJob(t) \in JobType
    BY <2>3 DEF NewJob, JobType
  <2>5. jobs' \in Seq(JobType)
    BY <1>t, <2>1, <2>4 DEF CreateJob, ApprovalsOK
  <2>6. ApprovalsOK'
    BY <1>t, <2>1, <2>2, <2>5 DEF ApprovalsOK, JobType
  <2> QED
    BY <1>d, <1>k, <1>l, <1>w, <2>1, <2>6
<1>5. ASSUME NEW i \in DOMAIN jobs, JobEnds(i) \/ DeleteJob(i) PROVE LInv'
  <2>1. /\ UNCHANGED <<times, calls, now, asking, caps, tokens, approving, stops>>
        /\ \E state \in {"ended", "removed"} : jobs' = [jobs EXCEPT ![i].state = state]
    BY <1>5 DEF JobEnds, DeleteJob, limiter, approvals
  <2>2. jobs' \in Seq(JobType)
    BY <1>t, <2>1, JobTurns DEF ApprovalsOK
  <2>3. ApprovalsOK'
    BY <1>t, <2>1, <2>2 DEF ApprovalsOK, JobType
  <2> QED
    BY <1>d, <1>k, <1>l, <1>w, <2>1, <2>3
<1>7. ASSUME NEW d \in Devices, DeleteDevice(d) PROVE LInv'
  <2>1. /\ UNCHANGED <<times, calls, now, asking, tokens, approving, stops>>
        /\ caps' = [e \in DOMAIN caps \ {d} |-> caps[e]]
        /\ jobs' = [i \in DOMAIN jobs |-> IF jobs[i].dev = d THEN [jobs[i] EXCEPT !.state = "removed"] ELSE jobs[i]]
    BY <1>7 DEF DeleteDevice, limiter, approvals
  <2>2. DevicesOK'
    BY <1>t, <2>1 DEF DevicesOK
  <2>3. jobs \in Seq(JobType) /\ DOMAIN jobs = 1..Len(jobs) /\ Len(jobs) \in Nat /\ \A i \in DOMAIN jobs : jobs[i] \in JobType
    BY <1>t DEF ApprovalsOK
  <2>4. \A i \in DOMAIN jobs : [jobs[i] EXCEPT !.state = "removed"] \in JobType
    BY <2>3 DEF JobType
  <2>5. jobs' \in Seq(JobType)
    BY <2>1, <2>3, <2>4
  <2>6. ApprovalsOK'
    BY <1>t, <2>1, <2>5 DEF ApprovalsOK, JobType
  <2> QED
    BY <1>k, <1>l, <1>w, <2>1, <2>2, <2>6
<1>8. ASSUME NEW d \in Devices, NEW new \in Reports, Inventory(d, new) PROVE LInv'
  <2>1. /\ UNCHANGED <<times, calls, now, asking, tokens, approving, jobs, stops>>
        /\ d \in DOMAIN caps /\ caps' = [caps EXCEPT ![d] = new] /\ new \in SUBSET Capabilities
    BY <1>8, ActionsAssumption DEF Inventory, limiter, approvals
  <2>2. DevicesOK'
    BY <1>t, <2>1 DEF DevicesOK
  <2> QED
    BY <1>a, <1>k, <1>l, <1>w, <2>1, <2>2
<1>9. CASE Tick
  <2>1. now < MaxTime /\ now' = now + 1 /\ UNCHANGED <<times, calls, asking, caps, jobs, tokens, approving, stops>>
    BY <1>9 DEF Tick, limiter, store, approvals
  <2>2. now' \in 0..MaxTime /\ \A n \in Nat : n >= now' => n >= now
    BY <1>n, <2>1, BoundsType
  <2>3. LimiterOK'
    BY <1>t, <2>1, <2>2 DEF LimiterOK
  <2>4. SameCount'
    BY <1>t, <2>1, <2>2 DEF SameCount
  <2> QED
    BY <1>a, <1>d, <1>w, <2>1, <2>3, <2>4
<1>10. CASE Restart
  <2>1. /\ stops < MaxStops /\ stops' = stops + 1 /\ UNCHANGED <<now, caps, jobs, tokens>>
        /\ times' = [u \in Users |-> <<>>] /\ calls' = [u \in Users |-> <<>>] /\ asking' = {}
        /\ approving' = [t \in DOMAIN tokens |-> 0]
    BY <1>10 DEF Restart, store
  <2>2. LimiterOK'
    BY <1>t, <2>1, BoundsType, ActionsAssumption DEF LimiterOK
  <2>3. SameCount'
    BY <2>1 DEF SameCount
  <2>4. ApprovalsOK'
    BY <1>t, <2>1, BoundsType DEF ApprovalsOK, JobType
  <2> QED
    BY <1>d, <1>w, <2>1, <2>2, <2>3, <2>4
<1>11. CASE UNCHANGED vars
  BY <1>11, <1>a, <1>d, <1>k, <1>l, <1>w DEF vars
<1> QED
  BY <1>1, <1>2, <1>3, <1>4, <1>5, <1>7, <1>8, <1>9, <1>10, <1>11 DEF Next

\* Requests, approvals and jobs keep their types, and Allow's list never
\* outgrows the limit.
THEOREM ActionsTypes == Spec => []TypeOK
<1>1. LInv => TypeOK
  BY DEF LInv
<1> QED
  BY <1>1, InitLInv, StepLInv, PTL DEF Spec

\* The list that Allow prunes as it goes decides as the whole record of calls
\* would: a user is refused exactly when Limit requests of the last minute were
\* let through.
THEOREM LimitExact == Spec => []LimitIsExact
<1>1. LInv => LimitIsExact
  <2> SUFFICES ASSUME LInv, NEW u \in Users
               PROVE  Len(Recent(u)) >= Limit <=> Cardinality(Current(calls[u])) >= Limit
    BY DEF LimitIsExact
  <2>1. now \in Nat /\ now >= now /\ times[u] \in Seq(Nat)
    BY BoundsType DEF LInv, TypeOK
  <2>2. Len(Recent(u)) = Cardinality(Current(times[u]))
    BY <2>1, FilteredLater DEF Recent
  <2>3. Cardinality(Later(times[u], now)) = Cardinality(Later(calls[u], now))
    BY <2>1 DEF LInv, SameCount
  <2>4. Current(times[u]) = Later(times[u], now) /\ Current(calls[u]) = Later(calls[u], now)
    BY DEF Current, Later
  <2> QED
    BY <2>2, <2>3, <2>4
<1> QED
  BY <1>1, InitLInv, StepLInv, PTL DEF Spec
=============================================================================
