----------------------------- MODULE DecisionProofs -----------------------------
(***************************************************************************)
(* What holds of every sequence of windows, policies and calls: every      *)
(* decision is typed and within the policy's bounds, penalises only        *)
(* senders that are provably mitigable, and answers the excess in full.    *)
(*                                                                         *)
(* The argument is local: what synthesize() returns for one window has     *)
(* these properties (IntentIsSound, PenalizedIsProvable,                   *)
(* RefusedForProtection), a relaxation keeps the bounds (RelaxedIsSound),  *)
(* and the bounds and the type are inductive together.  How much is asked  *)
(* of protected demand follows from sums over the rows.                    *)
(***************************************************************************)
EXTENDS Decision, FiniteSetTheorems, TLAPS

-----------------------------------------------------------------------------
(* Arithmetic. *)

(* lesser and greater. *)
LEMMA LesserGreater ==
    ASSUME NEW a \in Int, NEW b \in Int
    PROVE  /\ Lesser(a, b) \in {a, b} /\ Lesser(a, b) <= a /\ Lesser(a, b) <= b
           /\ Greater(a, b) \in {a, b} /\ Greater(a, b) >= a /\ Greater(a, b) >= b
  BY DEF Lesser, Greater

LEMMA SaturatedIsNat ==
    ASSUME NEW n \in Nat
    PROVE  Saturated(n) \in Nat /\ Saturated(n) <= n
  BY WordAssumption DEF Saturated, Lesser

LEMMA ProductIsNat ==
    ASSUME NEW a \in Nat, NEW b \in Nat
    PROVE  a * b \in Nat
  OBVIOUS

LEMMA QuotientIsNat ==
    ASSUME NEW a \in Nat, NEW b \in Nat \ {0}
    PROVE  a \div b \in Nat
  OBVIOUS

LEMMA ApplyIsNat ==
    ASSUME NEW a \in Nat, NEW b \in Nat
    PROVE  ApplyBp(a, b) \in Nat
  BY ProductIsNat, SaturatedIsNat, QuotientIsNat DEF ApplyBp

LEMMA NeededIsNat ==
    ASSUME NEW required \in Nat, NEW offer \in Nat \ {0}
    PROVE  NeededBp(required, offer) \in Nat
<1>1. Saturated(required * 10000) \in Nat
  BY SaturatedIsNat
<1>2. Saturated(required * 10000) \div offer \in Nat
  BY <1>1, QuotientIsNat
<1> QED
  BY <1>1, <1>2 DEF NeededBp

LEMMA Division ==
    ASSUME NEW a \in Nat, NEW b \in Nat \ {0}
    PROVE  /\ a \div b \in Nat /\ a % b \in 0..(b - 1)
           /\ a = b * (a \div b) + (a % b)
  OBVIOUS
LEMMA ProductGrows ==
    ASSUME NEW a \in Nat, NEW b \in Nat, NEW c \in Nat, b <= c
    PROVE  a * b <= a * c
  OBVIOUS
LEMMA QuotientBelow ==
    ASSUME NEW a \in Nat, NEW b \in Nat \ {0}, NEW c \in Nat, a < c * b
    PROVE  a \div b < c
<1>1. /\ a \div b \in Nat /\ a % b \in 0..(b - 1)
      /\ a = b * (a \div b) + (a % b)
  BY Division
<1>2. SUFFICES ASSUME a \div b >= c PROVE FALSE
  BY <1>1
<1>3. b * c <= b * (a \div b)
  BY <1>1, <1>2, ProductGrows
<1>4. b * c = c * b OBVIOUS
<1> DEFINE q == a \div b 
<1> DEFINE m == b * q
<1>5. m \in Nat
  BY <1>1
<1> QED BY <1>1, <1>3, <1>4, <1>5

LEMMA RoundedUp ==
    ASSUME NEW n \in Nat, NEW b \in Nat \ {0}, NEW r \in Nat \ {0},
           r <= n \div b + 1, n % b = 0 => r <= n \div b
    PROVE  b * (r - 1) < n
<1> DEFINE q == n \div b
<1>1. /\ q \in Nat /\ n % b \in 0..(b - 1)
      /\ n = b * q + (n % b)
  BY Division
<1>2. b * q \in Nat
  BY <1>1
<1> HIDE DEF q
<1>3. CASE n % b # 0
  <2>1. r - 1 \in Nat /\ r - 1 <= q
    BY <1>1 DEF q
  <2>2. b * (r - 1) <= b * q
    BY <1>1, <2>1, ProductGrows
  <2>3. b * (r - 1) \in Nat
    BY <2>1
  <2> QED BY <1>1, <1>2, <1>3, <2>2, <2>3
<1>4. CASE n % b = 0
  <2>1. r - 1 \in Nat /\ q - 1 \in Nat /\ r - 1 <= q - 1
    BY <1>1, <1>4 DEF q
  <2>2. b * (r - 1) <= b * (q - 1)
    BY <1>1, <2>1, ProductGrows
  <2>3. b * (q - 1) = b * q - b
    BY <1>1
  <2>4. b * (r - 1) \in Nat
    BY <2>1
  <2> QED BY <1>1, <1>2, <1>4, <2>2, <2>3, <2>4
<1> QED BY <1>3, <1>4

-----------------------------------------------------------------------------
(* Induction.  A set of naturals that is not empty has a least element, so *)
(* a set that holds 0, and a number whenever it holds the one before it,   *)
(* holds them all.                                                         *)

LEMMA LeastExists ==
  ASSUME NEW T \in SUBSET Nat, T # {}
  PROVE  \E n \in T : \A m \in T : n <= m
<1> DEFINE R == OpToRel(<, Nat)
<1>1. IsWellFoundedOn(R, Nat)
  BY NatLessThanWellFounded
<1>2. \A x, y \in Nat : x < y => <<x, y>> \in R
  BY DEF OpToRel
<1> HIDE DEF R
<1>3. PICK x \in T : \A y \in T : ~ (<<y, x>> \in R)
  BY <1>1, WFMin
<1>4. \A y \in T : ~(y < x)
  BY <1>2, <1>3
<1> QED BY <1>4

LEMMA Stepwise ==
  ASSUME NEW N \in Nat, NEW T, 0 \in T,
         \A k \in 1..N : k - 1 \in T => k \in T
  PROVE  \A k \in 0..N : k \in T
<1> DEFINE Missed == (0..N) \ T
<1>1. SUFFICES ASSUME Missed # {} PROVE FALSE
  OBVIOUS
<1>2. Missed \in SUBSET Nat
  OBVIOUS
<1>3. PICK n \in Missed : \A m \in Missed : n <= m
  <2> HIDE DEF Missed
  <2> QED BY <1>1, <1>2, LeastExists
<1>4. n \in 1..N
  BY <1>3
<1>5. n - 1 \notin Missed /\ n - 1 \in 0..N
  BY <1>3, <1>4
<1>6. n - 1 \in T
  BY <1>5
<1> QED BY <1>3, <1>4, <1>6

-----------------------------------------------------------------------------
(* Policies and populations. *)

(* What the proofs use of GovernorPolicy::validate. *)
LEMMA PolicyIsValid ==
    ASSUME NEW p \in Policies
    PROVE  /\ p.minReduction \in Nat /\ p.maxReduction \in Nat
           /\ p.minReduction > 0 /\ p.minReduction <= p.maxReduction
           /\ p.maxAdmission \in Nat /\ p.maxHeadroom \in Nat
           /\ p.minDuration \in Nat /\ p.maxDuration \in Nat
           /\ p.minDuration <= p.maxDuration
           /\ p.maxPenalized \in Nat /\ p.maxStagger \in Nat /\ p.maxStagger > 0
           /\ p.relaxOversubscription \in Nat /\ p.headroomWarning \in Nat
           /\ p.maxClean \in Nat /\ p.maxClean > 0
           /\ p.dwell \in Nat
           /\ p.floor \in Nat
  BY PoliciesAssumption DEF ValidPolicy, PolicyFields

LEMMA SendersAreRows ==
    ASSUME NEW w \in Windows
    PROVE  w.senders \in Seq(RowType) /\ Len(w.senders) \in Nat
  BY EvidenceAssumption DEF WindowType

(* The sum over the rows is the function that its definition describes.    *)
LEMMA SumsType ==
  ASSUME NEW w \in Windows, NEW S
  PROVE  /\ Sums(w, S) \in [0..Len(w.senders) -> Nat]
         /\ Sums(w, S)[0] = 0
         /\ \A k \in 1..Len(w.senders) :
               Sums(w, S)[k] = Sums(w, S)[k-1]
                                 + (IF k \in S THEN w.senders[k].rate ELSE 0)
<1> DEFINE N == Len(w.senders)
           r(k) == IF k \in S THEN w.senders[k].rate ELSE 0
           sums(n, f) == f = [k \in 0..n |-> IF k = 0 THEN 0 ELSE f[k-1] + r(k)]
           T == {n \in 0..N : \E f : sums(n, f)}
<1>1. N \in Nat /\ \A k \in 1..N : r(k) \in Nat
  <2>1. N \in Nat /\ \A k \in 1..N : w.senders[k] \in RowType
    BY SendersAreRows
  <2>2. \A row \in RowType : row.rate \in Nat
    BY DEF RowType
  <2> QED BY <2>1, <2>2
<1> HIDE DEF r
<1>2. 0 \in T
  <2>1. sums(0, [k \in 0..0 |-> 0])
    OBVIOUS
  <2> HIDE DEF sums
  <2> QED BY <2>1, <1>1
<1>3. ASSUME NEW m \in 1..N, m - 1 \in T
      PROVE  m \in T
  <2>1. PICK f : sums(m - 1, f)
    BY <1>3
  <2> DEFINE g == [k \in 0..m |-> IF k = m THEN f[m-1] + r(m) ELSE f[k]]
  <2>2. m \in Nat /\ m # 0
    BY <1>1
  <2>4. ASSUME NEW k \in 0..m
        PROVE  g[k] = IF k = 0 THEN 0 ELSE g[k-1] + r(k)
    <3>1. CASE k = m
      BY <3>1, <2>2
    <3>2. CASE k # m
      <4>1. k \in 0..(m-1) /\ (k # 0 => k - 1 \in 0..(m - 1) /\ k - 1 # m)
        BY <3>2, <2>2
      <4>2. f[k] = IF k = 0 THEN 0 ELSE f[k-1] + r(k)
        BY <2>1, <4>1
      <4> QED BY <4>1, <4>2, <3>2
    <3> QED BY <3>1, <3>2
  <2>5. sums(m, g)
    BY <2>4
  <2> HIDE DEF sums, g
  <2> QED BY <2>5
<1>4. N \in T
  <2> HIDE DEF T
  <2>1. \A k \in 0..N : k \in T
    BY <1>1, <1>2, <1>3, Stepwise
  <2> QED BY <2>1, <1>1
<1>5. sums(N, Sums(w, S))
  <2>1. PICK f : sums(N, f)
    BY <1>4
  <2> DEFINE g == CHOOSE g : sums(N, g)
  <2>2. sums(N, g)
    BY <2>1
  <2>3. Sums(w, S) = g
    BY DEF Sums, r
  <2> HIDE DEF g
  <2> QED BY <2>2, <2>3
<1>6. \A k \in 1..N : k # 0 /\ k \in 0..N /\ k - 1 \in 0..N
  BY <1>1
<1>7. /\ Sums(w, S)[0] = 0
      /\ \A k \in 1..N : Sums(w, S)[k] = Sums(w, S)[k-1] + r(k)
  BY <1>1, <1>5, <1>6
<1> HIDE DEF N, sums
<1>8. \A k \in 0..N : Sums(w, S)[k] \in Nat
  <2> DEFINE U == {k \in 0..N : Sums(w, S)[k] \in Nat}
  <2>1. 0 \in U
    BY <1>1, <1>7
  <2>2. \A k \in 1..N : k - 1 \in U => k \in U
    BY <1>1, <1>6, <1>7
  <2>3. \A k \in 0..N : k \in U
    <3> HIDE DEF U
    <3> QED BY <1>1, <2>1, <2>2, Stepwise
  <2> QED BY <2>3
<1>9. Sums(w, S) \in [0..N -> Nat]
  BY <1>5, <1>8 DEF sums
<1> QED BY <1>7, <1>9 DEF N, r

LEMMA OfferedIsNat ==
    ASSUME NEW w \in Windows, NEW S
    PROVE  Offered(w, S) \in Nat
<1>1. Sums(w, S)[Len(w.senders)] \in Nat
  BY SendersAreRows, SumsType
<1> QED
  BY <1>1, SaturatedIsNat DEF Offered

(* Two parts of a population that have no row in common offer no more than *)
(* the whole.                                                              *)
LEMMA SumsOfParts ==
    ASSUME NEW w \in Windows, NEW C, NEW A \in SUBSET C, NEW B \in SUBSET C, A \cap B = {}
    PROVE  \A k \in 0..Len(w.senders) : Sums(w, A)[k] + Sums(w, B)[k] <= Sums(w, C)[k]
<1> DEFINE N == Len(w.senders)
           a == Sums(w, A)
           b == Sums(w, B)
           c == Sums(w, C)
           r(S, k) == IF k \in S THEN w.senders[k].rate ELSE 0
           T == {k \in 0..N : a[k] + b[k] <= c[k]}
<1>1. N \in Nat
  BY SendersAreRows
<1>2. \A k \in 1..N : w.senders[k].rate \in Nat
  <2>1. \A k \in 1..N : w.senders[k] \in RowType
    BY SendersAreRows
  <2> QED BY <2>1 DEF RowType
<1>3. ASSUME NEW k \in 1..N
      PROVE  /\ r(A, k) \in Nat /\ r(B, k) \in Nat /\ r(C, k) \in Nat
             /\ r(A, k) + r(B, k) <= r(C, k)
  BY <1>2, <1>3
<1>4. /\ a \in [0..N -> Nat] /\ a[0] = 0 /\ \A k \in 1..N : a[k] = a[k-1] + r(A, k)
      /\ b \in [0..N -> Nat] /\ b[0] = 0 /\ \A k \in 1..N : b[k] = b[k-1] + r(B, k)
      /\ c \in [0..N -> Nat] /\ c[0] = 0 /\ \A k \in 1..N : c[k] = c[k-1] + r(C, k)
  BY SumsType
<1> HIDE DEF N, a, b, c, r
<1>5. 0 \in T
  BY <1>1, <1>4
<1>6. ASSUME NEW k \in 1..N, k - 1 \in T
      PROVE  k \in T
  <2>1. /\ k \in 0..N /\ k - 1 \in 0..N
        /\ a[k-1] \in Nat /\ b[k-1] \in Nat /\ c[k-1] \in Nat
    BY <1>1, <1>4
  <2>2. a[k-1] + b[k-1] <= c[k-1]
    BY <1>6
  <2> QED BY <1>3, <1>4, <2>1, <2>2
<1>7. \A k \in 0..N : k \in T
  <2> HIDE DEF T
  <2> QED BY <1>1, <1>5, <1>6, Stepwise
<1> QED
  BY <1>7 DEF N, a, b, c

(* The worst queue. *)
LEMMA PressureIsBounded ==
    ASSUME NEW q \in QueueType
    PROVE  MaxRatio \in Nat /\ QueuePressure(q) \in 0..MaxRatio
<1> DEFINE scaled == q.occupancy * 10000
           ratio == scaled \div q.capacity
<1>1. MaxRatio \in Nat
  BY DEF MaxRatio
<1>2. q.capacity \in Nat /\ scaled \in Nat
  BY DEF QueueType
<1>3. QueuePressure(q) \in {0, MaxRatio} \/ (q.capacity # 0 /\ QueuePressure(q) = Lesser(ratio, MaxRatio))
  <2>1. CASE q.capacity = 0
    BY <2>1 DEF QueuePressure, RatioBp
  <2>2. CASE q.capacity # 0 /\ scaled >= MaxWord
    BY <2>2 DEF QueuePressure, RatioBp
  <2>3. CASE q.capacity # 0 /\ scaled < MaxWord
    <3>1. ~(scaled >= MaxWord)
      BY <1>2, <2>3, WordAssumption
    <3> QED
      BY <2>3, <3>1 DEF QueuePressure, RatioBp
  <2> QED
    BY <1>2, <2>1, <2>2, <2>3, WordAssumption
<1> HIDE DEF scaled
<1>4. q.capacity # 0 => ratio \in Nat
  BY <1>2, QuotientIsNat
<1> HIDE DEF ratio
<1> QED
  BY <1>1, <1>3, <1>4 DEF Lesser

(* A queue is worse than every other: among the most pressurised, among    *)
(* the lowest of them, the first.                                          *)
LEMMA SomeQueueIsWorst ==
    ASSUME NEW w \in Windows, Queues(w) # {}
    PROVE  \E k \in Queues(w) : \A j \in Queues(w) \ {k} : Worse(w, k, j)
<1> DEFINE Q == Queues(w)
           relief(k) == MaxRatio - QueuePressure(w.queues[k])
           name(k) == w.queues[k].queue
           Reliefs == {relief(k) : k \in Q}
<1>1. Q \subseteq Nat /\ \A k \in Q : w.queues[k] \in QueueType
  <2>1. w.queues \in Seq(QueueType)
    BY EvidenceAssumption DEF WindowType
  <2> QED BY <2>1 DEF Queues
<1>2. \A k \in Q : relief(k) \in Nat /\ QueuePressure(w.queues[k]) \in Int
  BY <1>1, PressureIsBounded
<1>3. \A k \in Q : name(k) \in Nat
  BY <1>1 DEF QueueType
<1> HIDE DEF relief, name
<1>4. PICK n \in Reliefs : \A m \in Reliefs : n <= m
  <2>1. Reliefs \in SUBSET Nat /\ Reliefs # {}
    BY <1>2
  <2> HIDE DEF Reliefs
  <2> QED BY <2>1, LeastExists
<1> DEFINE Pressed == {k \in Q : relief(k) = n}
           Names == {name(k) : k \in Pressed}
<1>5. PICK m \in Names : \A l \in Names : m <= l
  <2>1. Names \in SUBSET Nat /\ Names # {}
    BY <1>3, <1>4
  <2> HIDE DEF Names
  <2> QED BY <2>1, LeastExists
<1> DEFINE Lowest == {k \in Pressed : name(k) = m}
<1>6. PICK k \in Lowest : \A j \in Lowest : k <= j
  <2>1. Lowest \in SUBSET Nat /\ Lowest # {}
    BY <1>1, <1>5
  <2> HIDE DEF Lowest
  <2> QED BY <2>1, LeastExists
<1>7. ASSUME NEW j \in Q \ {k}
      PROVE  Worse(w, k, j)
  <2>1. relief(k) <= relief(j) /\ relief(k) \in Nat /\ relief(j) \in Nat
    BY <1>2, <1>4, <1>6
  <2>2. relief(j) = relief(k) => name(k) <= name(j)
    BY <1>5, <1>6
  <2>3. relief(j) = relief(k) /\ name(j) = name(k) => k < j
    BY <1>1, <1>6
  <2>4. name(k) \in Nat /\ name(j) \in Nat
    BY <1>3, <1>6
  <2>5. /\ QueuePressure(w.queues[k]) \in Int /\ QueuePressure(w.queues[j]) \in Int
        /\ relief(k) = MaxRatio - QueuePressure(w.queues[k])
        /\ relief(j) = MaxRatio - QueuePressure(w.queues[j])
    BY <1>2, <1>6 DEF relief
  <2>6. MaxRatio \in Nat
    BY DEF MaxRatio
  <2> QED
    BY <2>1, <2>2, <2>3, <2>4, <2>5, <2>6 DEF Worse, name
<1> QED
  BY <1>6, <1>7

LEMMA AffectedQueueIsTyped ==
    ASSUME NEW w \in Windows
    PROVE  AffectedQueue(w) \in QueueType
<1>1. /\ w.queues \in Seq(QueueType) /\ w.queueCapacity \in Nat
  BY EvidenceAssumption DEF WindowType
<1>2. CASE Queues(w) = {}
  BY <1>1, <1>2 DEF AffectedQueue, NoQueue, QueueType, Absent
<1>3. CASE Queues(w) # {}
  <2> DEFINE k == CHOOSE k \in Queues(w) : \A j \in Queues(w) \ {k} : Worse(w, k, j)
  <2>1. k \in Queues(w)
    BY <1>3, SomeQueueIsWorst
  <2>2. WorstQueue(w) = w.queues[k]
    BY DEF WorstQueue
  <2> HIDE DEF k
  <2>3. WorstQueue(w) \in QueueType
    BY <1>1, <2>1, <2>2 DEF Queues
  <2> QED
    BY <1>1, <1>3, <2>3 DEF AffectedQueue, QueueType
<1> QED
  BY <1>2, <1>3

LEMMA RowsAreFinite ==
    ASSUME NEW w \in Windows
    PROVE  /\ IsFiniteSet(Rows(w))
           /\ \A S \in SUBSET Rows(w) : IsFiniteSet(S) /\ Cardinality(S) \in Nat
           /\ \A k \in Rows(w) : w.senders[k] \in RowType
<1>1. w.senders \in Seq(RowType)
  BY SendersAreRows
<1>2. Rows(w) \subseteq 1..Len(w.senders) /\ Len(w.senders) \in Nat
  BY <1>1 DEF Rows, AllRows
<1>3. IsFiniteSet(1..Len(w.senders))
  BY <1>2, FS_Interval
<1>4. IsFiniteSet(Rows(w))
  BY <1>2, <1>3, FS_Subset
<1>5. \A S \in SUBSET Rows(w) : IsFiniteSet(S) /\ Cardinality(S) \in Nat
  BY <1>4, FS_Subset, FS_CardinalityType
<1> QED
  BY <1>1, <1>2, <1>4, <1>5

LEMMA MitigableAreRows ==
    ASSUME NEW w, NEW p
    PROVE  Chosen(w, p) \subseteq Mitigable(w, p) /\ Mitigable(w, p) \subseteq Rows(w)
  BY DEF Chosen, Mitigable, Contributions

LEMMA DemandIsNat ==
    ASSUME NEW w \in Windows, NEW p \in Policies, NEW kind
    PROVE  /\ Aggregate(w) \in Nat /\ MitigableOffer(w, p) \in Nat
           /\ ProtectedOffer(w, p) \in Nat
           /\ Target(w, p, kind) \in Nat /\ Required(w, p, kind) \in Nat
<1>1. Aggregate(w) \in Nat /\ MitigableOffer(w, p) \in Nat /\ ProtectedOffer(w, p) \in Nat
  BY OfferedIsNat DEF Aggregate, MitigableOffer, ProtectedOffer
<1>2. w.service \in Nat
  BY EvidenceAssumption DEF WindowType
<1>3. ApplyBp(w.service, p.relaxOversubscription) \in Nat
  BY <1>2, PolicyIsValid, ApplyIsNat
<1>4. Target(w, p, kind) \in Nat
  BY <1>2, <1>3 DEF Target
<1> QED
  BY <1>1, <1>4 DEF Required, Greater

-----------------------------------------------------------------------------
(* The type of what is asked. *)

LEMMA PenalizedIsTyped ==
    ASSUME NEW w \in Windows, NEW p \in Policies
    PROVE  Penalized(w, p) \in SUBSET [position : Nat \ {0}, identity : Nat \X Nat \X Nat]
<1> SUFFICES ASSUME NEW k \in Chosen(w, p)
             PROVE  /\ Position(w, p, k) \in Nat \ {0}
                    /\ Identity(w.senders[k]) \in Nat \X Nat \X Nat
  BY DEF Penalized
<1>1. k \in Rows(w)
  BY MitigableAreRows
<1>2. Cardinality({j \in Mitigable(w, p) : Ahead(w, j, k)}) \in Nat
  BY RowsAreFinite, MitigableAreRows
<1> QED
  BY <1>1, <1>2, RowsAreFinite DEF Position, Identity, RowType

LEMMA SlotsIsNat ==
    ASSUME NEW w \in Windows, NEW p \in Policies
    PROVE  Slots(w, p) \in Nat
<1>1. Cardinality(Rows(w)) \in Nat
  BY RowsAreFinite
<1> QED
  BY <1>1, PolicyIsValid DEF Slots, Clamped, Lesser, Greater

(* An intent before it is clamped: it is typed, it does something, and a   *)
(* reduction it asks for is at least the policy's least.                   *)
Proposed(i, p) ==
    /\ i \in IntentType
    /\ IsActive(i)
    /\ i.reduction = 0 \/ i.reduction >= p.minReduction

LEMMA HeadroomIsProposed ==
    ASSUME NEW w \in Windows, NEW p \in Policies
    PROVE  Proposed(HeadroomPlan(w, p), p)
<1>1. AffectedQueue(w).capacity \in Nat /\ AffectedQueue(w).watermark \in Nat
  BY AffectedQueueIsTyped DEF QueueType
<1>2. AffectedQueue(w).capacity \div 4 \in Nat
  BY <1>1, QuotientIsNat
<1>3. HeadroomNeeded(w) \in Nat
  BY <1>1, <1>2 DEF HeadroomNeeded
<1>4. Lesser(HeadroomNeeded(w), p.maxHeadroom) \in Nat
  BY <1>3, PolicyIsValid DEF Lesser
<1>5. Slots(w, p) \in Nat
  BY SlotsIsNat
<1> QED
  BY <1>4, <1>5 DEF HeadroomPlan, NoIntent, Proposed, IntentType, IsActive

LEMMA SenderIsProposed ==
    ASSUME NEW w \in Windows, NEW p \in Policies, NEW kind,
           MitigableOffer(w, p) > 0
    PROVE  Proposed(SenderPlan(w, p, kind), p)
<1> DEFINE needed == NeededBp(Required(w, p, kind), MitigableOffer(w, p))
<1>1. needed \in Nat
  BY DemandIsNat, NeededIsNat
<1>2. SenderReduction(w, p, kind) \in Nat /\ SenderReduction(w, p, kind) >= p.minReduction
  <2>1. p.minReduction \in Nat /\ p.maxReduction \in Nat /\ p.minReduction <= p.maxReduction
    BY PolicyIsValid
  <2>2. SenderReduction(w, p, kind) = Clamped(needed, p.minReduction, p.maxReduction)
    BY DEF SenderReduction
  <2> HIDE DEF needed
  <2> QED
    BY <1>1, <2>1, <2>2 DEF Clamped, Lesser, Greater
<1>3. ApplyBp(MitigableOffer(w, p), SenderReduction(w, p, kind)) \in Nat
  BY <1>2, DemandIsNat, ApplyIsNat
<1>4. Slots(w, p) \in Nat /\ Penalized(w, p) \in SUBSET [position : Nat \ {0}, identity : Nat \X Nat \X Nat]
  BY SlotsIsNat, PenalizedIsTyped
<1> HIDE DEF needed
<1> QED
  BY <1>2, <1>3, <1>4 DEF SenderPlan, NoIntent, Proposed, IntentType, IsActive

LEMMA AdmissionIsProposed ==
    ASSUME NEW w \in Windows, NEW p \in Policies, NEW kind
    PROVE  Proposed(AdmissionPlan(w, p, kind), p)
<1> DEFINE needed == Saturated(Required(w, p, kind) * 10000) \div Greater(Aggregate(w), 1)
<1>1. Saturated(Required(w, p, kind) * 10000) \in Nat
  BY DemandIsNat, SaturatedIsNat
<1>2. Greater(Aggregate(w), 1) \in Nat \ {0}
  BY DemandIsNat DEF Greater
<1>3. needed \in Nat
  BY <1>1, <1>2, QuotientIsNat
<1>4. AdmissionReduction(w, p, kind) \in Nat
  <2>1. AdmissionReduction(w, p, kind) =
          Clamped(needed, Lesser(p.minReduction, p.maxAdmission), p.maxAdmission)
    BY DEF AdmissionReduction
  <2> HIDE DEF needed
  <2> QED
    BY <1>3, <2>1, PolicyIsValid DEF Clamped, Lesser, Greater
<1>5. ApplyBp(Aggregate(w), AdmissionReduction(w, p, kind)) \in Nat
  BY <1>4, DemandIsNat, ApplyIsNat
<1> HIDE DEF needed
<1> QED
  BY <1>4, <1>5 DEF AdmissionPlan, NoIntent, Proposed, IntentType, IsActive

LEMMA PlanIsProposed ==
    ASSUME NEW w \in Windows, NEW p \in Policies, NEW kind
    PROVE  Proposed(Plan(w, p, kind), p)
<1>1. Required(w, p, kind) \in Nat /\ MitigableOffer(w, p) \in Nat
  BY DemandIsNat
<1>2. CASE Required(w, p, kind) = 0
  BY <1>2, HeadroomIsProposed DEF Plan
<1>3. CASE Required(w, p, kind) > 0 /\ MitigableOffer(w, p) > 0
  <2>1. Plan(w, p, kind) = SenderPlan(w, p, kind)
    BY <1>1, <1>3 DEF Plan
  <2> QED
    BY <2>1, <1>3, SenderIsProposed
<1>4. CASE Required(w, p, kind) > 0 /\ MitigableOffer(w, p) = 0
  <2>1. Plan(w, p, kind) = AdmissionPlan(w, p, kind)
    BY <1>1, <1>4 DEF Plan
  <2> QED
    BY <2>1, AdmissionIsProposed
<1> QED
  BY <1>1, <1>2, <1>3, <1>4

LEMMA DurationIsNat ==
    ASSUME NEW w \in Windows, NEW p \in Policies, NEW kind \in Incident
    PROVE  DurationFor(w, p, kind) \in Nat
<1>1. Severity(kind, w, p) \in Nat
  BY DEF Severity, Incident
<1>2. p.minDuration \in Nat /\ p.maxDuration \in Nat /\ p.maxDuration - p.minDuration \in Nat
  BY PolicyIsValid
<1>3. (p.maxDuration - p.minDuration) * Severity(kind, w, p) \in Nat
  BY <1>1, <1>2, ProductIsNat
<1> DEFINE n == (p.maxDuration - p.minDuration) * Severity(kind, w, p)
<1>4. n \div 4 \in Nat
  <2> HIDE DEF n
  <2>1. n \in Nat
    BY <1>3 DEF n
  <2> QED BY <2>1, QuotientIsNat
<1>5. DurationFor(w, p, kind) = Clamped(p.minDuration + n \div 4, p.minDuration, p.maxDuration)
  BY DEF DurationFor
<1> HIDE DEF n
<1> QED
  BY <1>2, <1>4, <1>5 DEF Clamped, Lesser, Greater

LEMMA AccompaniedIsProposed ==
    ASSUME NEW w \in Windows, NEW p \in Policies, NEW kind \in Incident, NEW i, Proposed(i, p)
    PROVE  /\ Proposed(Accompanied(w, p, kind, i), p)
           /\ Accompanied(w, p, kind, i).achievable = i.achievable
           /\ Accompanied(w, p, kind, i).penalized = i.penalized
<1>1. w.buffer \in Nat /\ p.maxHeadroom \in Nat
  BY EvidenceAssumption, PolicyIsValid DEF WindowType
<1>2. w.buffer \div 4 \in Nat
  BY <1>1, QuotientIsNat
<1>3. Relief(w, p, kind, i) \in Nat
  BY <1>1, <1>2 DEF Relief, Lesser, Proposed, IntentType
<1>4. DurationFor(w, p, kind) \in Nat
  BY DurationIsNat
<1> QED
  BY <1>3, <1>4 DEF Accompanied, Proposed, IntentType, IsActive

LEMMA EscalatedIsProposed ==
    ASSUME NEW w \in Windows, NEW p \in Policies, NEW kind \in Incident, NEW i, Proposed(i, p)
    PROVE  /\ Proposed(Escalated(w, p, kind, i), p)
           /\ Escalated(w, p, kind, i).achievable = i.achievable
           /\ Escalated(w, p, kind, i).penalized = i.penalized
           /\ \/ i.achievable >= Required(w, p, kind)
              \/ Escalated(w, p, kind, i).escalating
<1>1. Required(w, p, kind) \in Nat /\ i.achievable \in Nat /\ i \in IntentType
  BY DemandIsNat DEF Proposed, IntentType
<1>2. Residual(w, p, kind, i) \in Nat
  BY <1>1 DEF Residual, Greater
<1>3. CASE Residual(w, p, kind, i) = 0
  <2>1. Escalated(w, p, kind, i) = i
    BY <1>3 DEF Escalated
  <2>2. i.achievable >= Required(w, p, kind)
    BY <1>1, <1>3 DEF Residual, Greater
  <2> QED
    BY <2>1, <2>2
<1>4. CASE Residual(w, p, kind, i) > 0 /\ i.achievable > 0
  <2>1. Escalated(w, p, kind, i) = [i EXCEPT !.escalating = TRUE]
    BY <1>4, <1>1 DEF Escalated
  <2> QED
    BY <1>1, <2>1 DEF Proposed, IntentType, IsActive
<1>5. CASE Residual(w, p, kind, i) > 0 /\ i.achievable = 0
  <2>1. Escalated(w, p, kind, i) =
          [i EXCEPT !.escalating = TRUE, !.kind = "CongestionEscalation",
                    !.scope = "Destination"]
    BY <1>5, <1>1 DEF Escalated
  <2> QED
    BY <1>1, <2>1 DEF Proposed, IntentType, IsActive
<1> QED
  BY <1>1, <1>2, <1>3, <1>4, <1>5

(* clamp_to_bounds. *)
LEMMA ClampedIsBounded ==
    ASSUME NEW p \in Policies, NEW i, Proposed(i, p)
    PROVE  /\ ClampedToBounds(i, p) \in IntentType
           /\ IsActive(ClampedToBounds(i, p))
           /\ WithinBoundsOf(ClampedToBounds(i, p), p)
           /\ ClampedToBounds(i, p).penalized \subseteq i.penalized
           /\ ClampedToBounds(i, p).achievable = i.achievable
           /\ ClampedToBounds(i, p).escalating = i.escalating
<1> DEFINE c == ClampedToBounds(i, p)
<1>1. i \in IntentType /\ IsActive(i) /\ (i.reduction = 0 \/ i.reduction >= p.minReduction)
  BY DEF Proposed
<1> DEFINE kept == {s \in i.penalized : s.position <= p.maxPenalized}
<1>0. /\ Lesser(i.reduction, p.maxReduction) \in Nat
      /\ Lesser(i.admission, p.maxAdmission) \in Nat
      /\ Lesser(i.headroom, p.maxHeadroom) \in Nat
      /\ Lesser(i.stagger, p.maxStagger) \in Nat
      /\ Lesser(Greater(i.duration, p.minDuration), p.maxDuration) \in Nat
      /\ kept \in SUBSET [position : Nat \ {0}, identity : Nat \X Nat \X Nat]
  BY <1>1, PolicyIsValid DEF IntentType, Lesser, Greater
<1>2. /\ c \in IntentType /\ IsActive(c)
      /\ c.penalized = kept
      /\ c.achievable = i.achievable /\ c.escalating = i.escalating
  <2> HIDE DEF kept
  <2>1. c = [i EXCEPT
               !.reduction = Lesser(i.reduction, p.maxReduction),
               !.admission = Lesser(i.admission, p.maxAdmission),
               !.headroom = Lesser(i.headroom, p.maxHeadroom),
               !.stagger = Lesser(i.stagger, p.maxStagger),
               !.penalized = kept,
               !.duration = Lesser(Greater(i.duration, p.minDuration), p.maxDuration)]
    BY DEF ClampedToBounds, kept
  <2> HIDE DEF c
  <2> QED
    BY <1>0, <1>1, <2>1 DEF IntentType, IsActive
<1>3. /\ c.reduction = Lesser(i.reduction, p.maxReduction)
      /\ c.admission = Lesser(i.admission, p.maxAdmission)
      /\ c.headroom = Lesser(i.headroom, p.maxHeadroom)
      /\ c.stagger = Lesser(i.stagger, p.maxStagger)
      /\ c.duration = Lesser(Greater(i.duration, p.minDuration), p.maxDuration)
  BY <1>1 DEF ClampedToBounds, IntentType
<1>4. /\ i.reduction \in Nat /\ i.admission \in Nat /\ i.headroom \in Nat
      /\ i.stagger \in Nat /\ i.duration \in Nat
      /\ \A s \in i.penalized : s.position \in Nat \ {0}
  BY <1>1 DEF IntentType
<1> HIDE DEF c
<1>5. /\ c.reduction = 0 \/ c.reduction \in p.minReduction..p.maxReduction
      /\ c.admission <= p.maxAdmission
      /\ c.headroom <= p.maxHeadroom
      /\ c.stagger <= p.maxStagger
      /\ c.duration \in p.minDuration..p.maxDuration
  BY <1>1, <1>3, <1>4, PolicyIsValid DEF Lesser, Greater
<1>6. \A s \in c.penalized : s.position \in 1..p.maxPenalized
  BY <1>2, <1>4, PolicyIsValid
<1>7. WithinBoundsOf(c, p)
  BY <1>5, <1>6 DEF WithinBoundsOf
<1> QED
  BY <1>2, <1>7 DEF c

-----------------------------------------------------------------------------
(* synthesize(). *)

LEMMA PlanPenalizes ==
    ASSUME NEW w, NEW p, NEW kind, Required(w, p, kind) \in Nat, MitigableOffer(w, p) \in Nat
    PROVE  Plan(w, p, kind).penalized \subseteq Penalized(w, p)
<1>1. /\ HeadroomPlan(w, p).penalized = {}
      /\ SenderPlan(w, p, kind).penalized = Penalized(w, p)
      /\ AdmissionPlan(w, p, kind).penalized = {}
  BY DEF HeadroomPlan, SenderPlan, AdmissionPlan, NoIntent
<1>2. \/ Plan(w, p, kind) = HeadroomPlan(w, p)
      \/ Plan(w, p, kind) = SenderPlan(w, p, kind)
      \/ Plan(w, p, kind) = AdmissionPlan(w, p, kind)
  BY DEF Plan
<1> QED
  BY <1>1, <1>2

(* What is asked in an incident is typed, in bounds, of senders that may   *)
(* be penalised, and answers the excess.                                   *)
LEMMA IntentIsSound ==
    ASSUME NEW w \in Windows, NEW p \in Policies, NEW kind \in Incident,
           IsActive(IncidentIntent(w, p, kind))
    PROVE  LET i == IncidentIntent(w, p, kind) IN
           /\ i \in IntentType
           /\ WithinBoundsOf(i, p)
           /\ i.penalized \subseteq Penalized(w, p)
           /\ i.achievable >= Required(w, p, kind) \/ i.escalating
<1> DEFINE plan == Plan(w, p, kind)
           acc == Accompanied(w, p, kind, plan)
           esc == Escalated(w, p, kind, acc)
<1>1. Proposed(plan, p)
  BY PlanIsProposed
<1>2. plan.penalized \subseteq Penalized(w, p)
  BY PlanPenalizes, DemandIsNat
<1>3. IncidentIntent(w, p, kind) \in {NoIntent, ClampedToBounds(esc, p)}
  BY DEF IncidentIntent
<1>4. IncidentIntent(w, p, kind) = ClampedToBounds(esc, p)
  BY <1>3 DEF IsActive, NoIntent
<1> HIDE DEF plan
<1>5. Proposed(acc, p) /\ acc.penalized = plan.penalized
  BY <1>1, AccompaniedIsProposed
<1> HIDE DEF acc
<1>6. /\ Proposed(esc, p) /\ esc.penalized = acc.penalized
      /\ esc.achievable = acc.achievable
      /\ acc.achievable >= Required(w, p, kind) \/ esc.escalating
  BY <1>5, EscalatedIsProposed
<1> HIDE DEF esc
<1> QED
  BY <1>2, <1>4, <1>5, <1>6, ClampedIsBounded

(* An active incast is left alone only over protected demand that the      *)
(* policy may not escalate.                                                *)
LEMMA RefusedForProtection ==
    ASSUME NEW w \in Windows, NEW p \in Policies,
           ~IsActive(IncidentIntent(w, p, "ActiveIncast"))
    PROVE  ~p.escalate /\ ProtectionAtStake(w, p)
<1> DEFINE kind == "ActiveIncast"
           plan == Plan(w, p, kind)
           acc == Accompanied(w, p, kind, plan)
           esc == Escalated(w, p, kind, acc)
<1>1. kind \in Incident
  BY DEF Incident
<1>2. Proposed(plan, p)
  BY PlanIsProposed
<1>3. Proposed(acc, p)
  BY <1>1, <1>2, AccompaniedIsProposed
<1>4. Proposed(esc, p)
  BY <1>1, <1>3, EscalatedIsProposed
<1>5. IsActive(ClampedToBounds(esc, p))
  BY <1>4, ClampedIsBounded
<1>6. ~(ProtectionAtStake(w, p) /\ ~p.escalate) =>
        IncidentIntent(w, p, kind) = ClampedToBounds(esc, p)
  BY DEF IncidentIntent
<1>7. p.escalate \in BOOLEAN
  BY PoliciesAssumption DEF ValidPolicy, PolicyFields
<1> QED
  BY <1>5, <1>6, <1>7

(* A relaxation that is not the last step stays at or above the least      *)
(* reduction, and is clamped under the policy in use.                      *)
LEMMA RelaxedIsSound ==
    ASSUME NEW p \in Policies, NEW i \in IntentType, IsActive(i), ~IsLastStep(i, p)
    PROVE  /\ RelaxedIntent(i, p) \in IntentType
           /\ IsActive(RelaxedIntent(i, p))
           /\ WithinBoundsOf(RelaxedIntent(i, p), p)
<1> DEFINE less == i.reduction - RecoveryStep(i.reduction, p)
           lowered == [i EXCEPT !.reduction = less]
<1>1. i.reduction \in Nat /\ p.minReduction \in Nat
  BY PolicyIsValid DEF IntentType
<1>2. i.reduction \div 4 \in Nat
  BY <1>1, QuotientIsNat
<1>3. RecoveryStep(i.reduction, p) \in Nat
  BY <1>1, <1>2 DEF RecoveryStep, Greater
<1>4. less \in Nat /\ less >= p.minReduction
  BY <1>1, <1>3 DEF IsLastStep
<1>5. RelaxedIntent(i, p) = ClampedToBounds(lowered, p)
  BY DEF RelaxedIntent, IntentType
<1>6. Proposed(lowered, p)
  <2> HIDE DEF less
  <2> QED
    BY <1>4 DEF Proposed, IntentType, IsActive
<1> HIDE DEF less, lowered
<1> QED
  BY <1>5, <1>6, ClampedIsBounded

(* Who is penalised is mitigable in every row that names it.               *)
LEMMA PenalizedIsProvable ==
    ASSUME NEW w \in Windows, NEW p \in Policies, NEW s \in Penalized(w, p)
    PROVE  /\ ~(SaturatedPopulation(w) /\ p.refuseSaturated)
           /\ \A k \in Rows(w) : w.senders[k].sender = s.identity[1] =>
                /\ w.senders[k].incarnation = s.identity[2]
                /\ ~IsProtected(w.senders[k], p)
<1>1. PICK c \in Chosen(w, p) :
        s = [position |-> Position(w, p, c), identity |-> Identity(w.senders[c])]
  BY DEF Penalized
<1>2. /\ s.identity[1] = w.senders[c].sender
      /\ s.identity[2] = w.senders[c].incarnation
  BY <1>1 DEF Identity
<1>3. /\ c \in Rows(w) /\ ~IsProtected(w.senders[c], p)
      /\ w.senders[c].sender \notin Collided(w)
  BY DEF Chosen, Mitigable, Contributions
<1>4. ~(SaturatedPopulation(w) /\ p.refuseSaturated)
  BY <1>1 DEF Chosen, SenderScope
<1>5. ASSUME NEW k \in Rows(w), w.senders[k].sender = w.senders[c].sender
      PROVE  /\ w.senders[k].incarnation = w.senders[c].incarnation
             /\ ~IsProtected(w.senders[k], p)
  <2>1. ~Contradicting(w.senders[k], w.senders[c])
    BY <1>3, <1>5 DEF Collided
  <2>2. /\ w.senders[k].incarnation = w.senders[c].incarnation
        /\ w.senders[k].service = w.senders[c].service
        /\ w.senders[k].protected = w.senders[c].protected
    BY <2>1 DEF Contradicting
  <2> QED
    BY <1>3, <2>2 DEF IsProtected
<1> QED
  BY <1>2, <1>4, <1>5

-----------------------------------------------------------------------------
(* The inductive invariant. *)

IInv == TypeOK /\ WithinBounds /\ PenalizesOnlyProvable /\ ExcessIsAnswered

Ranked == {"Unknown", "NoFanIn", "OrdinaryManyToOne", "Recovery",
           "SynchronizedIncastRisk", "ActiveIncast"}

LEMMA KindIsRanked ==
    ASSUME TypeOK, NEW w, NEW p
    PROVE  Kind(Observation(w, p)) \in Ranked /\ DOMAIN Rank = Ranked
<1> DEFINE o == Observation(w, p)
<1>1. DOMAIN Rank = Ranked
  BY DEF Rank, Ranked
<1>2. prior \in Ranked
  BY <1>1 DEF TypeOK
<1>3. Shown(o) \in Ranked
  BY DEF Shown, Observation, InstantaneousKind, Ranked
<1>4. Kind(o) \in {prior, "Recovery", Shown(o)}
  BY DEF Kind, Held
<1> QED
  BY <1>1, <1>2, <1>3, <1>4 DEF Ranked

LEMMA CountedIsNat ==
    ASSUME TypeOK, NEW o
    PROVE  Counted(o) \in Nat
<1>1. clean \in Nat /\ policy.maxClean \in Nat
  BY PolicyIsValid DEF TypeOK
<1> QED
  BY <1>1 DEF Counted, Lesser

LEMMA AskedIsIntent ==
    ASSUME NEW w, NEW p, Kind(Observation(w, p)) \in Incident
    PROVE  Asked(Observation(w, p)) = IncidentIntent(w, p, Kind(Observation(w, p)))
  BY DEF Asked, Observation, Incident

LEMMA NothingIsTyped == NoIntent \in IntentType /\ ~IsActive(NoIntent)
  BY DEF NoIntent, IntentType, IsActive

(* What is in force after a step and was not decided in it was not         *)
(* overlooked before, and no policy replaced the one it was decided under. *)
LEMMA NotedMeans ==
    ASSUME Noted
    PROVE  /\ overlooked' \in BOOLEAN
           /\ InForce' /\ ~overlooked' /\ outcome' \notin {"Issued", "Continued"}
                => ~overlooked /\ policy' = policy
  BY Zenon DEF Noted

LEMMA InitIInv == Init => IInv
<1> SUFFICES ASSUME Init PROVE IInv
  OBVIOUS
<1>1. TypeOK
  BY NothingIsTyped, PoliciesAssumption DEF Init, TypeOK, Live, Rank
<1> QED
  BY <1>1 DEF Init, IInv, WithinBounds, InForce, PenalizesOnlyProvable, ExcessIsAnswered

(* One observed window. *)
LEMMA DecideKeepsIInv ==
    ASSUME IInv, NEW w \in Windows, NEW p \in Policies, Decide(Observation(w, p))
    PROVE  IInv'
<1> DEFINE o == Observation(w, p)
<1>1. TypeOK /\ WithinBounds
  BY DEF IInv
<1>2. p = policy /\ window' = w
  BY DEF Decide, Observed, Observation
<1>3. Kind(o) \in Ranked /\ DOMAIN Rank = Ranked
  BY <1>1, KindIsRanked
<1>4. Counted(o) \in Nat
  BY <1>1, CountedIsNat
<1>11. /\ overlooked' \in BOOLEAN
       /\ InForce' /\ ~overlooked' /\ outcome' \notin {"Issued", "Continued"}
            => ~overlooked /\ policy' = policy
  BY NotedMeans DEF Decide
<1>5. ASSUME Recorded(o)
      PROVE  policy' = policy /\ prior' = Kind(o)
             /\ policy' \in Policies /\ prior' \in DOMAIN Rank /\ clean' \in Nat
             /\ window' \in Windows
             /\ stated' \in {q.generation : q \in Policies} /\ overlooked' \in BOOLEAN
  BY <1>1, <1>2, <1>3, <1>4, <1>5, <1>11 DEF Recorded, TypeOK
<1> HIDE DEF o
<1>6. CASE HoldBack(o)
  <2>1. /\ UNCHANGED <<state, intent>> /\ outcome' = "Held" /\ Recorded(o)
    BY <1>6 DEF HoldBack
  <2>2. TypeOK'
    BY <1>1, <1>5, <2>1 DEF TypeOK, Live
  <2>3. WithinBounds'
    BY <1>1, <1>5, <1>11, <2>1 DEF WithinBounds, InForce
  <2> QED
    BY <2>1, <2>2, <2>3 DEF IInv, PenalizesOnlyProvable, ExcessIsAnswered
<1>7. CASE Intervene(o)
  <2>1. /\ Kind(o) \in Incident /\ IsActive(Asked(o))
        /\ state' = "Active" /\ intent' = Asked(o)
        /\ outcome' \in {"Issued", "Continued"} /\ Recorded(o)
    BY <1>7 DEF Intervene
  <2>2. intent' = IncidentIntent(window', policy', prior')
    BY <1>2, <1>5, <2>1, AskedIsIntent DEF o
  <2>3. /\ intent' \in IntentType /\ IsActive(intent')
        /\ WithinBoundsOf(intent', policy')
        /\ intent'.penalized \subseteq Penalized(window', policy')
        /\ intent'.achievable >= Required(window', policy', prior') \/ intent'.escalating
    BY <1>2, <1>5, <2>1, <2>2, IntentIsSound
  <2>4. TypeOK'
    BY <1>5, <2>1, <2>3 DEF TypeOK, Live
  <2>5. WithinBounds'
    BY <2>3 DEF WithinBounds
  <2>6. PenalizesOnlyProvable'
    <3>1. window' \in Windows /\ policy' \in Policies
      BY <1>5, <2>1
    <3>2. ASSUME NEW s \in intent'.penalized
          PROVE  /\ ~(SaturatedPopulation(window') /\ policy'.refuseSaturated)
                 /\ \A k \in Rows(window') :
                      window'.senders[k].sender = s.identity[1] =>
                        /\ window'.senders[k].incarnation = s.identity[2]
                        /\ ~IsProtected(window'.senders[k], policy')
      <4>1. s \in Penalized(window', policy')
        BY <2>3
      <4> QED
        BY ONLY <3>1, <4>1, PenalizedIsProvable
    <3> QED
      BY <3>2 DEF PenalizesOnlyProvable
  <2>7. ExcessIsAnswered'
    BY <2>1, <2>3 DEF ExcessIsAnswered
  <2> QED
    BY <2>4, <2>5, <2>6, <2>7 DEF IInv
<1>8. CASE Relax(o)
  <2>1. /\ Live /\ ~IsLastStep(intent, policy)
        /\ state' = IF state = "Active" THEN "Relaxing" ELSE state
        /\ intent' = RelaxedIntent(intent, policy)
        /\ outcome' = "Relaxed" /\ Recorded(o)
    BY <1>8 DEF Relax, Recovering
  <2>2. /\ intent' \in IntentType /\ IsActive(intent')
        /\ WithinBoundsOf(intent', policy')
    BY <1>1, <1>5, <2>1, RelaxedIsSound DEF TypeOK
  <2>3. TypeOK'
    BY <1>1, <1>5, <2>1, <2>2 DEF TypeOK, Live
  <2>4. WithinBounds'
    BY <2>2 DEF WithinBounds
  <2> QED
    BY <2>1, <2>3, <2>4 DEF IInv, PenalizesOnlyProvable, ExcessIsAnswered
<1>9. CASE Complete(o)
  <2>1. /\ state' = "None" /\ intent' = NoIntent
        /\ outcome' = "Retired" /\ Recorded(o)
    BY <1>9 DEF Complete
  <2>2. TypeOK'
    BY <1>5, <2>1, NothingIsTyped DEF TypeOK, Live
  <2> QED
    BY <2>1, <2>2 DEF IInv, WithinBounds, InForce, PenalizesOnlyProvable, ExcessIsAnswered
<1>10. CASE Decline(o)
  <2>1. /\ Kind(o) \in Incident => ~IsActive(Asked(o))
        /\ \/ UNCHANGED <<state, intent>>
           \/ state' = "None" /\ intent' = NoIntent
        /\ outcome' \in {"Retired", "NoAction"}
        /\ Recorded(o)
    BY <1>10 DEF Decline
  <2>2. TypeOK'
    BY <1>1, <1>5, <2>1, NothingIsTyped DEF TypeOK, Live
  <2>3. WithinBounds'
    BY <1>1, <1>5, <1>11, <2>1 DEF WithinBounds, InForce
  <2>4. ASSUME prior' = "ActiveIncast"
        PROVE  ~policy'.escalate /\ ProtectionAtStake(window', policy')
    <3>1. Kind(o) = "ActiveIncast" /\ Kind(o) \in Incident
      BY <1>5, <2>1, <2>4 DEF Incident
    <3>2. ~IsActive(IncidentIntent(w, p, "ActiveIncast"))
      BY <2>1, <3>1, AskedIsIntent DEF o
    <3> QED
      BY <1>2, <1>5, <2>1, <3>2, RefusedForProtection
  <2>5. ExcessIsAnswered'
    BY <2>1, <2>4 DEF ExcessIsAnswered
  <2> QED
    BY <2>1, <2>2, <2>3, <2>5 DEF IInv, PenalizesOnlyProvable
<1> QED
  BY <1>6, <1>7, <1>8, <1>9, <1>10 DEF Decide, o

LEMMA NextKeepsIInv == IInv /\ [Next]_vars => IInv'
<1> SUFFICES ASSUME IInv, [Next]_vars PROVE IInv'
  OBVIOUS
<1>1. TypeOK /\ WithinBounds
  BY DEF IInv
<1>2. ASSUME NEW o \in Observations, Decide(o)
      PROVE  IInv'
  <2>1. PICK w \in Windows, p \in Policies : o = Observation(w, p)
    BY DEF Observations
  <2> QED
    BY <1>2, <2>1, DecideKeepsIInv
<1>3. ASSUME NEW o \in Observations, Fence(o)
      PROVE  IInv'
  <2>1. window' \in Windows
    BY <1>3 DEF Observations, Observation, Fence, Observed
  <2>2. Counted(o) \in Nat /\ overlooked' \in BOOLEAN
    BY <1>1, <1>3, CountedIsNat, NotedMeans DEF Fence
  <2>3. TypeOK'
    BY <1>1, <1>3, <2>1, <2>2, NothingIsTyped DEF Fence, TypeOK, Live
  <2> QED
    BY <1>3, <2>3
       DEF Fence, IInv, WithinBounds, InForce, PenalizesOnlyProvable, ExcessIsAnswered
<1>4. ASSUME NEW p \in Policies, ConfigurePolicy(p)
      PROVE  IInv'
  <2>1. /\ overlooked' \in BOOLEAN
        /\ InForce' /\ ~overlooked' => ~overlooked /\ policy' = policy
    BY <1>4, NotedMeans DEF ConfigurePolicy
  <2>2. TypeOK'
    BY <1>1, <1>4, <2>1 DEF ConfigurePolicy, TypeOK, Live
  <2>3. InForce' => InForce
    BY <1>4 DEF ConfigurePolicy, InForce
  <2>4. WithinBounds'
    BY <1>1, <1>4, <2>1, <2>3 DEF ConfigurePolicy, WithinBounds
  <2> QED
    BY <1>4, <2>2, <2>4 DEF ConfigurePolicy, IInv, PenalizesOnlyProvable, ExcessIsAnswered
<1>5. CASE Retire
  <2>1. overlooked' \in BOOLEAN
    BY <1>5, NotedMeans DEF Retire
  <2>2. TypeOK'
    BY <1>1, <1>5, <2>1, NothingIsTyped DEF Retire, TypeOK, Live
  <2> QED
    BY <1>5, <2>2
       DEF Retire, IInv, WithinBounds, InForce, PenalizesOnlyProvable, ExcessIsAnswered
<1>6. ASSUME NEW p \in Policies, Restore(p)
      PROVE  IInv'
  <2>1. overlooked' \in BOOLEAN
    BY <1>6, NotedMeans DEF Restore
  <2>2. TypeOK'
    BY <1>1, <1>6, <2>1 DEF Restore, TypeOK, Live
  <2>3. ~InForce'
    BY <1>6 DEF Restore, Live, InForce
  <2> QED
    BY <1>6, <2>2, <2>3
       DEF Restore, IInv, WithinBounds, PenalizesOnlyProvable, ExcessIsAnswered
<1>7. CASE UNCHANGED vars
  BY <1>7
     DEF vars, IInv, TypeOK, Live, WithinBounds, InForce, PenalizesOnlyProvable, ExcessIsAnswered
<1> QED
  BY <1>2, <1>3, <1>4, <1>5, <1>6, <1>7 DEF Next

LEMMA AlwaysIInv == Spec => []IInv
  BY InitIInv, NextKeepsIInv, PTL DEF Spec

-----------------------------------------------------------------------------

(* The type invariant, for every set of well-formed windows and valid      *)
(* policies.                                                               *)
THEOREM TypeCorrect == Spec => []TypeOK
<1>1. IInv => TypeOK
  BY DEF IInv
<1> QED
  BY <1>1, AlwaysIInv, PTL

(* Whatever windows, policies and restores follow each other, nothing in   *)
(* force goes beyond the bounds of the policy in use, unless a new policy  *)
(* overlooked it (configure_policy, governor.cpp).                         *)
THEOREM AlwaysWithinBounds == Spec => []WithinBounds
<1>1. IInv => WithinBounds
  BY DEF IInv
<1> QED
  BY <1>1, AlwaysIInv, PTL

(* No decision ever penalises a sender that some row protects or places in *)
(* another incarnation, nor anybody of a clipped population.               *)
THEOREM OnlyProvablePenalized == Spec => []PenalizesOnlyProvable
<1>1. IInv => PenalizesOnlyProvable
  BY DEF IInv
<1> QED
  BY <1>1, AlwaysIInv, PTL

(* The excess of an incident is removed or escalated, or left alone for    *)
(* the sake of protected demand.                                           *)
THEOREM ExcessAlwaysAnswered == Spec => []ExcessIsAnswered
<1>1. IInv => ExcessIsAnswered
  BY DEF IInv
<1> QED
  BY <1>1, AlwaysIInv, PTL

-----------------------------------------------------------------------------
(* How much a decision asks of the senders. *)

(* The intent of a decision is what synthesize() returned for the window,  *)
(* the policy and the kind that are current.                               *)
Decided ==
    outcome \in {"Issued", "Continued"} =>
      /\ prior \in Incident
      /\ IsActive(intent)
      /\ intent = IncidentIntent(window, policy, prior)

LEMMA NextKeepsDecided == Decided /\ [Next]_vars => Decided'
<1> SUFFICES ASSUME Decided, [Next]_vars, outcome' \in {"Issued", "Continued"}
             PROVE  /\ prior' \in Incident
                    /\ IsActive(intent')
                    /\ intent' = IncidentIntent(window', policy', prior')
  BY DEF Decided
<1>1. CASE UNCHANGED vars
  BY <1>1 DEF vars, Decided
<1>2. ASSUME NEW w \in Windows, NEW p \in Policies, Decide(Observation(w, p))
      PROVE  /\ prior' \in Incident
             /\ IsActive(intent')
             /\ intent' = IncidentIntent(window', policy', prior')
  <2> DEFINE o == Observation(w, p)
  <2>1. p = policy /\ window' = w
    BY <1>2 DEF Decide, Observed, Observation
  <2> HIDE DEF o
  <2>2. Intervene(o)
    BY <1>2 DEF Decide, HoldBack, Relax, Complete, Decline, o
  <2>3. /\ Kind(o) \in Incident /\ IsActive(Asked(o)) /\ intent' = Asked(o)
        /\ policy' = policy /\ prior' = Kind(o)
    BY <2>2 DEF Intervene, Recorded
  <2>4. Asked(o) = IncidentIntent(w, p, Kind(o))
    BY <2>3, AskedIsIntent DEF o
  <2> QED
    BY <2>1, <2>3, <2>4
<1>3. ASSUME NEW o \in Observations, Decide(o)
      PROVE  /\ prior' \in Incident
             /\ IsActive(intent')
             /\ intent' = IncidentIntent(window', policy', prior')
  BY <1>2, <1>3 DEF Observations
<1> QED
  BY <1>1, <1>3 DEF Next, Fence, ConfigurePolicy, Retire, Restore

LEMMA AlwaysDecided == Spec => [](IInv /\ Decided)
<1>1. Init => Decided
  BY DEF Init, Decided
<1> QED
  BY <1>1, InitIInv, NextKeepsIInv, NextKeepsDecided, PTL DEF Spec

(* An intent for a set of senders is the sender plan: what accompanies it, *)
(* what is escalated and the bounds change neither its scope nor what it   *)
(* achieves, and can only lower its reduction.                             *)
LEMMA SenderIntentIsPlanned ==
    ASSUME NEW w \in Windows, NEW p \in Policies, NEW kind \in Incident,
           IsActive(IncidentIntent(w, p, kind)),
           IncidentIntent(w, p, kind).scope = "SenderSet"
    PROVE  LET i == IncidentIntent(w, p, kind) IN
           /\ MitigableOffer(w, p) \in Nat \ {0}
           /\ SenderReduction(w, p, kind) \in Nat
           /\ i.reduction \in Nat /\ i.reduction <= SenderReduction(w, p, kind)
           /\ i.achievable = ApplyBp(MitigableOffer(w, p), SenderReduction(w, p, kind))
<1> DEFINE plan == Plan(w, p, kind)
           acc == Accompanied(w, p, kind, plan)
           esc == Escalated(w, p, kind, acc)
           i == ClampedToBounds(esc, p)
<1>1. Proposed(plan, p)
  BY PlanIsProposed
<1>2. IncidentIntent(w, p, kind) = i
  BY DEF IncidentIntent, IsActive, NoIntent
<1>3. /\ Required(w, p, kind) \in Nat /\ MitigableOffer(w, p) \in Nat
      /\ p.maxReduction \in Nat
  BY DemandIsNat, PolicyIsValid
<1> HIDE DEF plan
<1>4. /\ Proposed(acc, p)
      /\ acc.scope = plan.scope /\ acc.reduction = plan.reduction
      /\ acc.achievable = plan.achievable
  BY <1>1, AccompaniedIsProposed DEF Accompanied, Proposed, IntentType
<1> HIDE DEF acc
<1>5. /\ Proposed(esc, p) /\ esc.achievable = acc.achievable
  BY <1>4, EscalatedIsProposed
<1>6. /\ esc.scope \in {acc.scope, "Destination"} /\ esc.reduction = acc.reduction
  <2>1. esc \in {acc, [acc EXCEPT !.escalating = TRUE],
                 [acc EXCEPT !.escalating = TRUE, !.kind = "CongestionEscalation",
                             !.scope = "Destination"]}
    <3>1. Residual(w, p, kind, acc) \in Nat /\ acc.achievable \in Nat
      BY <1>3, <1>4 DEF Residual, Greater, Proposed, IntentType
    <3> QED
      BY <3>1 DEF Escalated
  <2> HIDE DEF esc
  <2>2. acc \in IntentType
    BY <1>4 DEF Proposed
  <2> QED
    BY <2>1, <2>2 DEF IntentType
<1> HIDE DEF esc
<1>7. /\ i.scope = esc.scope /\ i.achievable = esc.achievable
      /\ i.reduction = Lesser(esc.reduction, p.maxReduction)
      /\ esc.reduction \in Nat
  BY <1>5 DEF ClampedToBounds, Proposed, IntentType
<1>8. plan.scope = "SenderSet"
  BY <1>2, <1>4, <1>6, <1>7
<1>9. MitigableOffer(w, p) > 0 /\ plan = SenderPlan(w, p, kind)
  <2>1. HeadroomPlan(w, p).scope = "Queue" /\ AdmissionPlan(w, p, kind).scope = "Destination"
    BY DEF HeadroomPlan, AdmissionPlan, NoIntent
  <2> QED
    BY <1>3, <1>8, <2>1 DEF Plan, plan
<1>10. /\ plan.reduction = SenderReduction(w, p, kind)
       /\ plan.achievable = ApplyBp(MitigableOffer(w, p), SenderReduction(w, p, kind))
  BY <1>9 DEF SenderPlan, NoIntent
<1>11. /\ i.reduction \in Nat /\ i.reduction <= esc.reduction
  BY <1>3, <1>7 DEF Lesser
<1> HIDE DEF i
<1> QED
  BY <1>2, <1>3, <1>4, <1>5, <1>6, <1>7, <1>9, <1>10, <1>11

(* A share of an amount in basis points is part of it. *)
LEMMA ShareIsPart ==
    ASSUME NEW a \in Nat, NEW bp \in Nat, bp <= 10000
    PROVE  ApplyBp(a, bp) <= a
<1> DEFINE product == a * bp
           part == Saturated(product)
<1>1. product \in Nat /\ product <= a * 10000
  BY ProductGrows
<1> HIDE DEF product
<1>2. part \in Nat /\ part <= product
  BY <1>1, SaturatedIsNat
<1> HIDE DEF part
<1>3. part < (a + 1) * 10000
  BY <1>1, <1>2
<1>4. part \div 10000 < a + 1
  BY <1>2, <1>3, QuotientBelow
<1>5. part \div 10000 \in Nat
  BY <1>2, QuotientIsNat
<1> QED
  BY <1>4, <1>5 DEF ApplyBp, part, product

(* One basis point less than needed leaves some of what is required. *)
LEMMA NeededIsLeast ==
    ASSUME NEW required \in Nat, NEW offer \in Nat \ {0}, NEW bp \in Nat \ {0},
           bp <= NeededBp(required, offer)
    PROVE  ApplyBp(offer, bp - 1) < required
<1> DEFINE scaled == Saturated(required * 10000)
           less == offer * (bp - 1)
<1>1. scaled \in Nat /\ scaled <= required * 10000
  BY SaturatedIsNat
<1>2. NeededBp(required, offer) = scaled \div offer + (IF scaled % offer # 0 THEN 1 ELSE 0)
  BY DEF NeededBp
<1> HIDE DEF scaled
<1>3. bp <= scaled \div offer + 1 /\ (scaled % offer = 0 => bp <= scaled \div offer)
  <2>1. scaled \div offer \in Nat
    BY <1>1, QuotientIsNat
  <2> HIDE DEF less
  <2> QED
    BY <1>2, <2>1
<1>4. less < scaled
  BY <1>1, <1>3, RoundedUp
<1>5. less \in Nat
  <2>1. bp - 1 \in Nat
    OBVIOUS
  <2> QED BY <2>1, ProductIsNat
<1> HIDE DEF less
<1>6. Saturated(less) \in Nat /\ Saturated(less) < required * 10000
  BY <1>1, <1>4, <1>5, SaturatedIsNat
<1> QED
  BY <1>6, QuotientBelow DEF ApplyBp, less

(* No decision asks the senders for a basis point more than the excess     *)
(* needs, unless the policy's least reduction does.                        *)
THEOREM ReductionAlwaysNeeded == Spec => []ReductionIsNeeded
<1>1. IInv /\ Decided => ReductionIsNeeded
  <2> SUFFICES ASSUME IInv, Decided,
                      outcome \in {"Issued", "Continued"},
                      intent.scope = "SenderSet", intent.reduction > policy.minReduction
               PROVE  ApplyBp(MitigableOffer(window, policy), intent.reduction - 1)
                        < Required(window, policy, prior)
    BY DEF ReductionIsNeeded
  <2> DEFINE offer == MitigableOffer(window, policy)
             required == Required(window, policy, prior)
             asked == SenderReduction(window, policy, prior)
  <2>1. /\ window \in Windows /\ policy \in Policies /\ prior \in Incident
        /\ IsActive(intent) /\ intent = IncidentIntent(window, policy, prior)
    BY DEF IInv, TypeOK, Decided
  <2>2. /\ offer \in Nat \ {0} /\ asked \in Nat
        /\ intent.reduction \in Nat /\ intent.reduction <= asked
    BY <2>1, SenderIntentIsPlanned
  <2>3. required \in Nat
    BY <2>1, DemandIsNat
  <2>4. /\ policy.minReduction \in Nat /\ policy.maxReduction \in Nat
        /\ policy.minReduction <= policy.maxReduction
    BY <2>1, PolicyIsValid
  <2>5. asked = Clamped(NeededBp(required, offer), policy.minReduction, policy.maxReduction)
    BY DEF SenderReduction
  <2> HIDE DEF offer, required, asked
  <2>6. NeededBp(required, offer) \in Nat
    BY <2>2, <2>3, NeededIsNat
  <2>7. intent.reduction <= NeededBp(required, offer)
    BY <2>2, <2>4, <2>5, <2>6 DEF Clamped, Lesser, Greater
  <2>8. intent.reduction \in Nat \ {0}
    BY <2>2, <2>4
  <2> QED
    BY <2>2, <2>3, <2>7, <2>8, NeededIsLeast DEF offer, required
<1> QED
  BY <1>1, AlwaysDecided, PTL

(* The demand of every window can be counted in a word.  Beyond it a sum   *)
(* saturates, and the parts of a population no longer add up to the whole. *)
DemandFits == \A w \in Windows : Sums(w, Rows(w))[Len(w.senders)] <= MaxWord

LEMMA ProtectedAndChosenFit ==
    ASSUME DemandFits, NEW w \in Windows, NEW p \in Policies
    PROVE  MitigableOffer(w, p) + ProtectedOffer(w, p) <= Aggregate(w)
<1> DEFINE n == Len(w.senders)
           A == Chosen(w, p)
           B == ProtectedRows(w, p)
           all == Sums(w, Rows(w))[n]
<1>1. A \subseteq Rows(w) /\ B \subseteq Rows(w) /\ A \cap B = {}
  BY DEF Chosen, Mitigable, Contributions, ProtectedRows
<1>2. n \in Nat /\ n \in 0..n
  BY SendersAreRows
<1>3. Sums(w, A)[n] \in Nat /\ Sums(w, B)[n] \in Nat /\ all \in Nat
  BY <1>2, SumsType
<1>4. Sums(w, A)[n] + Sums(w, B)[n] <= all
  BY <1>1, <1>2, SumsOfParts
<1>5. Saturated(all) = all
  BY <1>3, WordAssumption DEF DemandFits, Saturated, Lesser
<1>6. /\ Saturated(Sums(w, A)[n]) <= Sums(w, A)[n] /\ Saturated(Sums(w, A)[n]) \in Nat
      /\ Saturated(Sums(w, B)[n]) <= Sums(w, B)[n] /\ Saturated(Sums(w, B)[n]) \in Nat
  BY <1>3, SaturatedIsNat
<1>7. /\ MitigableOffer(w, p) = Saturated(Sums(w, A)[n])
      /\ ProtectedOffer(w, p) = Saturated(Sums(w, B)[n])
      /\ Aggregate(w) = Saturated(all)
  BY DEF MitigableOffer, ProtectedOffer, Aggregate, Offered
<1> HIDE DEF n, A, B, all
<1> QED
  BY <1>3, <1>4, <1>5, <1>6, <1>7

(* As long as the demand can be counted, what the senders are asked to     *)
(* give up is demand that is not protected.                                *)
THEOREM ProtectedDemandAlwaysKept ==
    ASSUME DemandFits
    PROVE  Spec => []ProtectedDemandIsKept
<1>1. IInv /\ Decided => ProtectedDemandIsKept
  <2> SUFFICES ASSUME IInv, Decided,
                      outcome \in {"Issued", "Continued"}, intent.scope = "SenderSet"
               PROVE  Aggregate(window) - intent.achievable >= ProtectedOffer(window, policy)
    BY DEF ProtectedDemandIsKept
  <2> DEFINE offer == MitigableOffer(window, policy)
             asked == SenderReduction(window, policy, prior)
  <2>1. /\ window \in Windows /\ policy \in Policies /\ prior \in Incident
        /\ IsActive(intent) /\ intent = IncidentIntent(window, policy, prior)
    BY DEF IInv, TypeOK, Decided
  <2>2. /\ offer \in Nat \ {0} /\ asked \in Nat
        /\ intent.achievable = ApplyBp(offer, asked)
    BY <2>1, SenderIntentIsPlanned
  <2>3. asked <= 10000
    <3>1. NeededBp(Required(window, policy, prior), offer) \in Nat
      BY <2>1, <2>2, DemandIsNat, NeededIsNat
    <3>2. policy.maxReduction <= 10000
      BY <2>1, PoliciesAssumption DEF ValidPolicy
    <3> QED
      BY <2>1, <3>1, <3>2, PolicyIsValid DEF SenderReduction, Clamped, Lesser, Greater
  <2>4. ApplyBp(offer, asked) <= offer /\ ApplyBp(offer, asked) \in Nat
    <3> HIDE DEF offer, asked
    <3>1. offer \in Nat /\ asked \in Nat /\ asked <= 10000
      BY <2>2, <2>3
    <3>2. ApplyBp(offer, asked) <= offer
      BY ONLY <3>1, ShareIsPart
    <3>3. ApplyBp(offer, asked) \in Nat
      BY ONLY <3>1, ApplyIsNat
    <3> QED
      BY <3>2, <3>3
  <2>5. /\ offer + ProtectedOffer(window, policy) <= Aggregate(window)
        /\ ProtectedOffer(window, policy) \in Nat /\ Aggregate(window) \in Nat
    BY <2>1, ProtectedAndChosenFit, DemandIsNat
  <2> HIDE DEF offer, asked
  <2> QED
    BY <2>2, <2>4, <2>5
<1> QED
  BY <1>1, AlwaysDecided, PTL

-----------------------------------------------------------------------------
(* What a step may do. *)

(* The calls that evaluate nothing have no outcome but "None" or "Fenced". *)
Evaluated == {"Held", "Issued", "Continued", "Relaxed", "Retired", "NoAction"}

LEMMA OnlyDecideEvaluates ==
    ASSUME Next, outcome' \in Evaluated
    PROVE  \E w \in Windows, p \in Policies : Decide(Observation(w, p))
<1>1. PICK o \in Observations : Decide(o)
  BY DEF Next, Fence, ConfigurePolicy, Retire, Restore, Evaluated
<1> QED
  BY <1>1 DEF Observations

LEMMA ShownIsInstantaneous ==
    ASSUME NEW w, NEW p
    PROVE  /\ Shown(Observation(w, p)) = InstantaneousKind(w, p)
           /\ InstantaneousKind(w, p) \in
                {"NoFanIn", "OrdinaryManyToOne", "SynchronizedIncastRisk", "ActiveIncast"}
  BY DEF Shown, Observation, InstantaneousKind

LEMMA IncidentIsCompressed ==
    ASSUME NEW w, NEW p, InstantaneousKind(w, p) \in Incident
    PROVE  Compressed(w, p)
  BY DEF InstantaneousKind, Incident, Synchronized

(* The kind of a window, from whether hysteresis holds it. *)
LEMMA KindByHold ==
    ASSUME NEW o
    PROVE  /\ Dwelling(o) => Kind(o) = prior
           /\ ~Dwelling(o) /\ SteppingDown(o) => Kind(o) = "Recovery"
           /\ ~Held(o) => Kind(o) \in {Shown(o), "Recovery"}
           /\ ~Held(o) /\ Kind(o) \in Incident => Shown(o) \in Incident
           /\ ~Held(o) /\ Shown(o) \in Incident => Kind(o) = Shown(o)
           /\ ~Held(o) /\ Live /\ Shown(o) \notin Incident => Kind(o) = "Recovery"
  BY DEF Kind, Held, SteppingDown, Incident

(* An intervention is only issued for arrivals that are compressed, or     *)
(* while hysteresis holds an incident whose intervention has ended (the    *)
(* synchronization gate of classify() in detect.cpp).                      *)
THEOREM NothingIssuedWithoutCompression == Spec => IssuedOnlyWhenCompressed
<1> DEFINE Allowed == outcome' = "Issued" =>
                        \/ Compressed(window', policy)
                        \/ prior \in Incident /\ clean + 1 < policy.dwell
<1>1. ASSUME [Next]_vars
      PROVE  [Allowed]_vars
  <2> SUFFICES ASSUME Next, outcome' = "Issued"
               PROVE  \/ Compressed(window', policy)
                      \/ prior \in Incident /\ clean + 1 < policy.dwell
    BY <1>1
  <2>1. PICK w \in Windows, p \in Policies : Decide(Observation(w, p))
    BY OnlyDecideEvaluates DEF Evaluated
  <2> DEFINE o == Observation(w, p)
  <2>2. p = policy /\ window' = w
    BY <2>1 DEF Decide, Observed, Observation
  <2> HIDE DEF o
  <2>3. Kind(o) \in Incident
    BY <2>1 DEF Decide, HoldBack, Intervene, Relax, Complete, Decline, o
  <2>4. CASE Dwelling(o)
    BY <2>3, <2>4, KindByHold DEF Dwelling
  <2>5. CASE ~Dwelling(o) /\ SteppingDown(o)
    BY <2>3, <2>5, KindByHold DEF Incident
  <2>6. CASE ~Held(o)
    <3>1. InstantaneousKind(w, p) \in Incident
      BY <2>3, <2>6, KindByHold, ShownIsInstantaneous DEF o
    <3> QED
      BY <2>2, <3>1, IncidentIsCompressed
  <2> QED
    BY <2>4, <2>5, <2>6 DEF Held
<1> QED
  BY <1>1, PTL DEF Spec, IssuedOnlyWhenCompressed

(* An intervention in force was issued, held or relaxed under the policy   *)
(* in use, unless that policy overlooked it: the streak is within its cap, *)
(* and a history that ends in a recovery has lasted as long as the dwell.  *)
Steady ==
    InForce /\ ~overlooked =>
      /\ prior \in Incident \cup {"Recovery"}
      /\ clean <= policy.maxClean
      /\ prior = "Recovery" => clean + 1 >= policy.dwell

LEMMA KindInForce ==
    ASSUME TypeOK, Steady, InForce, ~overlooked,
           NEW w \in Windows, NEW p \in Policies
    PROVE  LET o == Observation(w, p) IN
           /\ Kind(o) \in Incident \cup {"Recovery"}
           /\ Kind(o) = "Recovery" => Shown(o) \notin Incident /\ clean + 1 >= policy.dwell
<1> DEFINE o == Observation(w, p)
<1>1. /\ prior \in Incident \cup {"Recovery"}
      /\ clean \in Nat /\ policy.dwell \in Nat
      /\ prior = "Recovery" => clean + 1 >= policy.dwell
      /\ Live
  BY PolicyIsValid DEF TypeOK, Steady, InForce, Live
<1>2. Shown(o) \in {"NoFanIn", "OrdinaryManyToOne"} \cup Incident
  BY ShownIsInstantaneous DEF Incident
<1> HIDE DEF o
<1>3. /\ Shown(o) \in Incident => Rank[Shown(o)] \in {3, 4}
      /\ Rank["Recovery"] = 2
  BY DEF Rank, Incident
<1>4. Shown(o) \notin Incident => Rank[Shown(o)] < Rank[prior] /\ Rank[prior] > 0
  BY <1>1, <1>2 DEF Rank, Incident
<1>5. SteppingDown(o) => Shown(o) \notin Incident
  BY <1>3 DEF SteppingDown
<1>6. prior = "Recovery" /\ Falling(o) => Shown(o) \notin Incident
  BY <1>3 DEF Falling
<1>7. CASE Dwelling(o)
  BY <1>1, <1>6, <1>7, KindByHold DEF Dwelling, Incident, o
<1>8. CASE ~Dwelling(o) /\ SteppingDown(o)
  BY <1>1, <1>5, <1>8, KindByHold DEF Dwelling, SteppingDown, o
<1>9. CASE ~Held(o)
  <2>1. CASE Shown(o) \in Incident
    <3>1. Kind(o) = Shown(o)
      BY <1>9, <2>1, KindByHold
    <3> QED
      BY <2>1, <3>1 DEF Incident, o
  <2>2. CASE Shown(o) \notin Incident
    <3>1. Kind(o) = "Recovery"
      BY <1>1, <1>9, <2>2, KindByHold
    <3>2. clean + 1 >= policy.dwell
      BY <1>1, <1>4, <1>9, <2>2 DEF Held, Dwelling, Falling
    <3> QED
      BY <2>2, <3>1, <3>2 DEF o
  <2> QED
    BY <2>1, <2>2
<1> QED
  BY <1>7, <1>8, <1>9 DEF Held

(* The streak after a window that counts under the policy in use. *)
LEMMA CountedIsCapped ==
    ASSUME TypeOK, NEW o
    PROVE  /\ Counted(o) <= policy.maxClean
           /\ /\ Shown(o) \notin Incident
              /\ clean <= policy.maxClean /\ clean + 1 >= policy.dwell
              => Counted(o) + 1 >= policy.dwell
<1>1. clean \in Nat /\ policy.maxClean \in Nat /\ policy.dwell \in Nat
  BY PolicyIsValid DEF TypeOK
<1> QED
  BY <1>1 DEF Counted, Lesser

LEMMA NextKeepsSteady == IInv /\ Steady /\ [Next]_vars => Steady'
<1> SUFFICES ASSUME IInv, Steady, [Next]_vars, InForce', ~overlooked'
             PROVE  /\ prior' \in Incident \cup {"Recovery"}
                    /\ clean' <= policy'.maxClean
                    /\ prior' = "Recovery" => clean' + 1 >= policy'.dwell
  BY DEF Steady
<1>1. TypeOK
  BY DEF IInv
<1>2. CASE UNCHANGED vars
  BY <1>2 DEF vars, Steady, InForce
<1>3. ASSUME NEW w \in Windows, NEW p \in Policies, Decide(Observation(w, p))
      PROVE  /\ prior' \in Incident \cup {"Recovery"}
             /\ clean' <= policy'.maxClean
             /\ prior' = "Recovery" => clean' + 1 >= policy'.dwell
  <2> DEFINE o == Observation(w, p)
  <2>1. /\ prior' = Kind(o) /\ clean' = Counted(o) /\ policy' = policy
    BY <1>3 DEF Decide, HoldBack, Intervene, Relax, Complete, Decline, Recorded
  <2>2. Kind(o) \in Incident \/ (InForce /\ ~overlooked)
    <3>1. \/ Kind(o) \in Incident
          \/ InForce /\ outcome' \notin {"Issued", "Continued"}
      BY <1>3 DEF Decide, HoldBack, Intervene, Relax, Complete, Decline, InForce
    <3> QED
      BY <1>3, <3>1, NotedMeans DEF Decide
  <2>3. InForce /\ ~overlooked =>
          /\ Kind(o) \in Incident \cup {"Recovery"}
          /\ Kind(o) = "Recovery" => Shown(o) \notin Incident /\ clean + 1 >= policy.dwell
    BY <1>1, KindInForce
  <2> HIDE DEF o
  <2>4. /\ Counted(o) <= policy.maxClean
        /\ /\ Shown(o) \notin Incident
           /\ clean <= policy.maxClean /\ clean + 1 >= policy.dwell
           => Counted(o) + 1 >= policy.dwell
    BY <1>1, CountedIsCapped
  <2>5. Kind(o) \in Incident => Kind(o) # "Recovery"
    BY DEF Incident
  <2> QED
    BY <2>1, <2>2, <2>3, <2>4, <2>5 DEF Steady
<1>4. ASSUME NEW o \in Observations, Decide(o)
      PROVE  /\ prior' \in Incident \cup {"Recovery"}
             /\ clean' <= policy'.maxClean
             /\ prior' = "Recovery" => clean' + 1 >= policy'.dwell
  BY <1>3, <1>4 DEF Observations
<1>5. ~(\E o \in Observations : Fence(o)) /\ ~Retire /\ ~(\E p \in Policies : Restore(p))
  BY DEF Fence, Retire, Restore, Live, InForce
<1>6. ASSUME NEW p \in Policies, ConfigurePolicy(p)
      PROVE  /\ prior' \in Incident \cup {"Recovery"}
             /\ clean' <= policy'.maxClean
             /\ prior' = "Recovery" => clean' + 1 >= policy'.dwell
  <2>1. ~overlooked /\ policy' = policy /\ UNCHANGED <<prior, clean>>
    BY <1>6, NotedMeans DEF ConfigurePolicy
  <2>2. InForce
    BY <1>6 DEF ConfigurePolicy, InForce
  <2> QED
    BY <2>1, <2>2 DEF Steady
<1> QED
  BY <1>2, <1>4, <1>5, <1>6 DEF Next

LEMMA AlwaysSteady == Spec => [](IInv /\ Steady)
<1>1. Init => Steady
  BY DEF Init, Steady, InForce
<1> QED
  BY <1>1, InitIInv, NextKeepsIInv, NextKeepsSteady, PTL DEF Spec

(* What is in force, and not overlooked by a new policy, keeps its         *)
(* magnitude until the classifier has seen calm windows for as long as the *)
(* dwell, or the incident itself has changed (the hold in evaluate_locked, *)
(* governor.cpp).                                                          *)
THEOREM NothingWeakenedTooSoon == Spec => WeakensOnlyAfterCalm
<1> DEFINE Weakened == /\ InForce /\ ~overlooked
                       /\ outcome' \in {"Held", "Continued", "Relaxed", "Retired"}
                       /\ intent'.reduction < intent.reduction
           Calm == \/ InstantaneousKind(window', policy) \in Incident
                   \/ clean + 1 >= policy.dwell
<1>1. ASSUME IInv /\ Steady, [Next]_vars
      PROVE  [Weakened => Calm]_vars
  <2> SUFFICES ASSUME Next, Weakened
               PROVE  Calm
    BY <1>1
  <2>1. PICK w \in Windows, p \in Policies : Decide(Observation(w, p))
    BY OnlyDecideEvaluates DEF Evaluated
  <2> DEFINE o == Observation(w, p)
  <2>2. p = policy /\ window' = w /\ Shown(o) = InstantaneousKind(window', policy)
    BY <2>1, ShownIsInstantaneous DEF Decide, Observed, Observation
  <2>3. Kind(o) = "Recovery" => clean + 1 >= policy.dwell
    BY <1>1, KindInForce DEF IInv
  <2>4. intent.reduction \in Nat /\ Live
    BY <1>1 DEF IInv, TypeOK, IntentType, InForce, Live
  <2>5. ~HoldBack(o)
    BY <2>4 DEF HoldBack
  <2>6. CASE Intervene(o)
    <3>1. Kind(o) \in Incident /\ ~Held(o)
      BY <2>6 DEF Intervene, HeldBack
    <3> QED
      BY <2>2, <3>1, KindByHold DEF o
  <2>7. CASE Relax(o) \/ Complete(o)
    BY <2>3, <2>7 DEF Relax, Complete, Recovering, o
  <2>8. ~Decline(o)
    BY <2>4 DEF Decline, InForce
  <2> QED
    BY <2>1, <2>5, <2>6, <2>7, <2>8 DEF Decide
<1> QED
  BY <1>1, AlwaysSteady, PTL DEF Spec, WeakensOnlyAfterCalm

-----------------------------------------------------------------------------
(* An engine that never restores a state. *)

UnrestoredNext ==
    \/ \E o \in Observations : Decide(o) \/ Fence(o)
    \/ \E p \in Policies : ConfigurePolicy(p)
    \/ Retire

Unrestored == Init /\ [][UnrestoredNext]_vars

(* The state carries the generation of the policy in use. *)
Agreed == stated = policy.generation /\ ~overlooked

LEMMA NextKeepsAgreed ==
    ASSUME \A p, q \in Policies : p.generation = q.generation => p = q,
           TypeOK, Agreed, [UnrestoredNext]_vars
    PROVE  Agreed'
<1>1. CASE UNCHANGED vars
  BY <1>1 DEF vars, Agreed
<1>2. ASSUME NEW o \in Observations, Decide(o) \/ Fence(o)
      PROVE  Agreed'
  <2>1. UNCHANGED <<policy, stated>>
    BY <1>2 DEF Decide, HoldBack, Intervene, Relax, Complete, Decline, Recorded, Fence
  <2>2. Noted
    BY <1>2 DEF Decide, Fence
  <2> QED
    BY <2>1, <2>2 DEF Noted, Agreed
<1>3. ASSUME NEW p \in Policies, ConfigurePolicy(p)
      PROVE  Agreed'
  <2>1. policy \in Policies
    BY DEF TypeOK
  <2>2. policy' = p /\ stated' = p.generation /\ Noted
    BY <1>3 DEF ConfigurePolicy
  <2>3. CASE stated # p.generation
    <3>1. ~InForce'
      BY <1>3, <2>3 DEF ConfigurePolicy, Live, InForce
    <3> QED
      BY <2>2, <3>1 DEF Noted, Agreed
  <2>4. CASE stated = p.generation
    <3>1. p = policy
      BY <2>1, <2>4 DEF Agreed
    <3> QED
      BY <2>2, <3>1 DEF Noted, Agreed
  <2> QED
    BY <2>3, <2>4
<1>4. CASE Retire
  BY <1>4 DEF Retire, Noted, Agreed
<1> QED
  BY <1>1, <1>2, <1>3, <1>4 DEF UnrestoredNext

(* While no state is restored, and a generation is the name of one policy, *)
(* configure_policy overlooks nothing: whatever is in force is within the  *)
(* bounds of the policy in use.  It takes a restore to break it.           *)
THEOREM WithinBoundsUnlessRestored ==
    ASSUME \A p, q \in Policies : p.generation = q.generation => p = q
    PROVE  Unrestored => [](InForce => WithinBoundsOf(intent, policy))
<1>1. Init => IInv /\ Agreed
  BY InitIInv DEF Init, Agreed
<1>2. IInv /\ Agreed /\ [UnrestoredNext]_vars => (IInv /\ Agreed)'
  <2> SUFFICES ASSUME IInv, Agreed, [UnrestoredNext]_vars
               PROVE  IInv' /\ Agreed'
    OBVIOUS
  <2>1. [Next]_vars
    BY DEF UnrestoredNext, Next
  <2>2. Agreed'
    BY NextKeepsAgreed DEF IInv
  <2> QED
    BY <2>1, <2>2, NextKeepsIInv
<1>3. IInv /\ Agreed => (InForce => WithinBoundsOf(intent, policy))
  BY DEF IInv, WithinBounds, Agreed
<1> QED
  BY <1>1, <1>2, <1>3, PTL DEF Unrestored

-----------------------------------------------------------------------------
(* The decisions as Enforcement describes them. *)

Quiet(o) == Shown(o) \notin Incident

Strength == IF Live THEN intent.reduction ELSE 0

(* The alarm of a window: an incident in itself, or one that is held. *)
LEMMA KindIsAlarm ==
    ASSUME TypeOK, NEW w \in Windows, NEW p \in Policies
    PROVE  LET o == Observation(w, p) IN
           /\ (Kind(o) \in Incident)
                = (~Quiet(o) \/ (prior \in Incident /\ clean + 1 < policy.dwell))
           /\ Kind(o) \in Incident /\ Quiet(o) => Held(o)
<1> DEFINE o == Observation(w, p)
<1>1. /\ Shown(o) \in {"NoFanIn", "OrdinaryManyToOne"} \cup Incident
      /\ prior \in Ranked /\ clean \in Nat /\ policy.dwell \in Nat
  BY ShownIsInstantaneous, PolicyIsValid, KindIsRanked DEF TypeOK, Incident
<1> HIDE DEF o
<1>2. /\ Rank["ActiveIncast"] = 4 /\ Rank["SynchronizedIncastRisk"] = 3
      /\ Rank["Recovery"] = 2 /\ Rank["OrdinaryManyToOne"] = 1
      /\ Rank["NoFanIn"] = 0 /\ Rank["Unknown"] = -1
  BY DEF Rank
<1>3. "Recovery" \notin Incident
  BY DEF Incident
<1>4. CASE ~Quiet(o)
  <2>1. Falling(o) => prior = "ActiveIncast"
    BY <1>1, <1>2, <1>4 DEF Falling, Quiet, Incident, Ranked
  <2>2. ~SteppingDown(o)
    BY <1>2, <1>4 DEF SteppingDown, Quiet, Incident
  <2>3. Dwelling(o) => Kind(o) \in Incident
    BY <2>1, KindByHold DEF Dwelling, Incident
  <2>4. ~Dwelling(o) => Kind(o) \in Incident
    BY <1>4, <2>2, KindByHold DEF Held, Quiet
  <2> QED
    BY <1>4, <2>3, <2>4 DEF o
<1>5. CASE Quiet(o)
  <2>1. prior \in Incident => Falling(o)
    BY <1>1, <1>2, <1>5 DEF Falling, Quiet, Incident
  <2>2. Dwelling(o) => Kind(o) = prior /\ Held(o) /\ clean + 1 < policy.dwell
    BY KindByHold DEF Held, Dwelling
  <2>3. ~Dwelling(o) => Kind(o) \notin Incident
    BY <1>3, <1>5, KindByHold DEF Held, Quiet
  <2>4. prior \in Incident /\ clean + 1 < policy.dwell => Dwelling(o)
    BY <2>1 DEF Dwelling
  <2> QED
    BY <1>5, <2>2, <2>3, <2>4 DEF o
<1> QED
  BY <1>4, <1>5

LEMMA WindowIsCounted ==
    ASSUME TypeOK, NEW o, clean' = Counted(o)
    PROVE  Lifecycle!Counted(Quiet(o))
<1>1. clean \in Nat /\ policy.maxClean \in Nat
  BY PolicyIsValid DEF TypeOK
<1> QED
  BY <1>1 DEF Lifecycle!Counted, Counted, Quiet, Lesser

LEMMA WindowIsRecorded ==
    ASSUME TypeOK, NEW w \in Windows, NEW p \in Policies, Recorded(Observation(w, p))
    PROVE  LET o == Observation(w, p) IN
           /\ Lifecycle!Recorded(Quiet(o))
           /\ (prior' \in Incident) = (Kind(o) \in Incident)
<1> DEFINE o == Observation(w, p)
<1>1. prior' = Kind(o) /\ clean' = Counted(o) /\ UNCHANGED policy
  BY DEF Recorded
<1>2. (Kind(o) \in Incident)
        = (~Quiet(o) \/ (prior \in Incident /\ clean + 1 < policy.dwell))
  BY KindIsAlarm
<1> HIDE DEF o
<1>3. Lifecycle!Counted(Quiet(o))
  BY <1>1, WindowIsCounted
<1> QED
  BY <1>1, <1>2, <1>3 DEF Lifecycle!Recorded, o

(* A relaxation never asks for more. *)
LEMMA RelaxationIsLess ==
    ASSUME TypeOK, NEW p \in Policies, ~IsLastStep(intent, p)
    PROVE  RelaxedIntent(intent, p).reduction \in 0..intent.reduction
<1> DEFINE step == RecoveryStep(intent.reduction, p)
           lowered == [intent EXCEPT !.reduction = intent.reduction - step]
<1>1. /\ intent \in IntentType /\ intent.reduction \in Nat
      /\ p.minReduction \in Nat /\ p.maxReduction \in Nat
  BY PolicyIsValid DEF TypeOK, IntentType
<1>2. step \in Nat
  <2>1. intent.reduction \div 4 \in Nat
    BY <1>1, QuotientIsNat
  <2> QED
    BY <1>1, <2>1 DEF RecoveryStep, Greater
<1>3. intent.reduction > step
  BY <1>1, <1>2 DEF IsLastStep
<1>4. RelaxedIntent(intent, p) = ClampedToBounds(lowered, p)
  BY DEF RelaxedIntent
<1>5. lowered.reduction = intent.reduction - step
  BY <1>1 DEF IntentType
<1>6. DOMAIN lowered = DOMAIN intent
  OBVIOUS
<1> HIDE DEF step, lowered
<1>7. ClampedToBounds(lowered, p).reduction = Lesser(lowered.reduction, p.maxReduction)
  BY <1>1, <1>6 DEF ClampedToBounds, IntentType
<1> QED
  BY <1>1, <1>2, <1>3, <1>4, <1>5, <1>7 DEF Lesser

LEMMA DecideIsEnforcement ==
    ASSUME IInv, IInv', NEW w \in Windows, NEW p \in Policies, Decide(Observation(w, p))
    PROVE  Lifecycle!Next
<1> DEFINE o == Observation(w, p)
           quiet == Quiet(o)
<1>1. TypeOK /\ TypeOK' /\ quiet \in BOOLEAN
  BY DEF IInv, Quiet
<1>2. Strength \in Nat /\ Strength' \in Nat
  <2>1. intent.reduction \in Nat /\ intent'.reduction \in Nat
    BY <1>1 DEF TypeOK, IntentType
  <2> QED
    BY <2>1 DEF Strength
<1>3. Recorded(o)
  BY DEF Decide, HoldBack, Intervene, Relax, Complete, Decline
<1>4. /\ Lifecycle!Recorded(quiet)
      /\ (prior' \in Incident) = (Kind(o) \in Incident)
      /\ Kind(o) \notin Incident => quiet = TRUE
      /\ Kind(o) \in Incident /\ quiet => Held(o)
  BY <1>1, <1>3, KindIsAlarm, WindowIsRecorded
<1> HIDE DEF o, quiet
<1>5. Kind(o) \notin Incident => Lifecycle!Recorded(TRUE) /\ prior' \notin Incident
  BY <1>4
<1>6. "Recovery" \notin Incident /\ "NoFanIn" \notin Incident
      /\ "OrdinaryManyToOne" \notin Incident
  BY DEF Incident
<1>7. UNCHANGED <<state, intent>> => Lifecycle!Leave(quiet)
  BY <1>4 DEF Lifecycle!Leave, Live
<1>8. state' = "None" => Lifecycle!Ended
  BY DEF Lifecycle!Ended, Live
<1>9. CASE HoldBack(o)
  BY <1>1, <1>7, <1>9 DEF HoldBack, Lifecycle!Next
<1>10. CASE Intervene(o)
  <2>1. Kind(o) \in Incident /\ ~HeldBack(o) /\ state' = "Active"
    BY <1>10 DEF Intervene
  <2>2. quiet => state \notin {"Active", "Relaxing"}
    BY <1>4, <2>1 DEF HeldBack, InForce
  <2>3. Lifecycle!Intervene(quiet)
    BY <1>2, <1>4, <2>1, <2>2
       DEF Lifecycle!Intervene, Lifecycle!InForce, Strength
  <2> QED
    BY <1>1, <2>3 DEF Lifecycle!Next
<1>11. CASE Relax(o)
  <2>1. /\ Live /\ Kind(o) = "Recovery" /\ ~IsLastStep(intent, policy)
        /\ state' = IF state = "Active" THEN "Relaxing" ELSE state
        /\ intent' = RelaxedIntent(intent, policy)
    BY <1>11 DEF Relax, Recovering
  <2>2. Live' /\ Strength = intent.reduction /\ Strength' = intent'.reduction
    BY <2>1 DEF Live, Strength
  <2>3. intent'.reduction \in 0..intent.reduction
    BY <1>1, <2>1, RelaxationIsLess DEF TypeOK
  <2>4. Lifecycle!Ease
    BY <1>5, <1>6, <2>1, <2>2, <2>3 DEF Lifecycle!Ease, Live, Strength
  <2> QED
    BY <2>4 DEF Lifecycle!Next
<1>12. CASE Complete(o)
  <2>1. Lifecycle!Finish
    BY <1>5, <1>6, <1>8, <1>12 DEF Complete, Recovering, Lifecycle!Finish
  <2> QED
    BY <2>1 DEF Lifecycle!Next
<1>13. CASE Decline(o)
  <2>1. CASE state = "Revalidating" /\ Kind(o) \in {"NoFanIn", "OrdinaryManyToOne"}
    <3>1. state' = "None"
      BY <1>13, <2>1 DEF Decline
    <3>2. Lifecycle!Finish
      BY <1>5, <1>6, <1>8, <2>1, <3>1 DEF Lifecycle!Finish
    <3> QED
      BY <3>2 DEF Lifecycle!Next
  <2>2. CASE ~(state = "Revalidating" /\ Kind(o) \in {"NoFanIn", "OrdinaryManyToOne"})
    BY <1>1, <1>7, <1>13, <2>2 DEF Decline, Lifecycle!Next
  <2> QED
    BY <2>1, <2>2
<1> QED
  BY <1>9, <1>10, <1>11, <1>12, <1>13 DEF Decide, o

LEMMA NextIsEnforcement ==
    ASSUME IInv, IInv', Next
    PROVE  Lifecycle!Next
<1>1. TypeOK /\ TypeOK'
  BY DEF IInv
<1>2. policy.dwell \in Nat /\ policy'.dwell \in Nat
  BY <1>1, PolicyIsValid DEF TypeOK
<1>3. ASSUME NEW o \in Observations, Decide(o)
      PROVE  Lifecycle!Next
  BY <1>3, DecideIsEnforcement DEF Observations
<1>4. ASSUME NEW o \in Observations, Fence(o)
      PROVE  Lifecycle!Next
  <2>1. Lifecycle!Counted(Quiet(o)) /\ Quiet(o) \in BOOLEAN
    BY <1>1, <1>4, WindowIsCounted DEF Fence, Quiet
  <2>2. Lifecycle!Fence(Quiet(o))
    BY <1>4, <2>1 DEF Fence, Live, Lifecycle!Fence, Lifecycle!Ended
  <2> QED
    BY <2>1, <2>2 DEF Lifecycle!Next
<1>5. ASSUME NEW p \in Policies, ConfigurePolicy(p)
      PROVE  Lifecycle!Reconfigure
  BY <1>2, <1>5 DEF ConfigurePolicy, Live, Lifecycle!Reconfigure, Lifecycle!Doubted
<1>6. CASE Retire
  BY <1>6 DEF Retire, Live, Lifecycle!Stop, Lifecycle!Ended, Lifecycle!Next
<1>7. ASSUME NEW p \in Policies, Restore(p)
      PROVE  Lifecycle!Restart
  BY <1>2, <1>7 DEF Restore, Live, Lifecycle!Restart, Lifecycle!Doubted
<1> QED
  BY <1>3, <1>4, <1>5, <1>6, <1>7 DEF Next, Lifecycle!Next

(* Every decision does to the live intervention what Enforcement allows,   *)
(* as every call of the engine does (GovernorImplementsEnforcement): what  *)
(* evaluate_locked computes from the demand and what it decides from the   *)
(* authority and the clocks meet in one lifecycle.                         *)
THEOREM DecisionImplementsEnforcement == Spec => ImplementsEnforcement
<1>1. Init => Lifecycle!Init
  BY PoliciesAssumption, PolicyIsValid DEF Init, Lifecycle!Init, Live, Incident
<1>2. ASSUME IInv, IInv', [Next]_vars
      PROVE  [Lifecycle!Next]_<<state, IF Live THEN intent.reduction ELSE 0,
                                prior \in Incident, clean, policy.dwell>>
  <2>1. CASE Next
    BY <1>2, <2>1, NextIsEnforcement
  <2>2. CASE UNCHANGED vars
    BY <2>2 DEF vars, Live
  <2> QED
    BY <1>2, <2>1, <2>2
<1> QED
  BY <1>1, <1>2, AlwaysIInv, PTL DEF Spec, ImplementsEnforcement, Lifecycle!Spec

=================================================================================
