--------------------------- MODULE Registrar_proofs ---------------------------
(***************************************************************************)
(* Proofs about the registrar's decision, for every comparison of contacts *)
(* (transitive or not), every policy and every set of commands: a REGISTER *)
(* is followed operation by operation through Reconcile, and what holds of *)
(* every view on the way holds of what is committed.  A REGISTER that is   *)
(* delivered again is followed a second time, on the set that the first    *)
(* delivery left.  The last part is about LocationStore, for any number    *)
(* of workers, retries and commands: its first theorems assume nothing of  *)
(* Process, for whatever the registrar decides, the revision fence makes   *)
(* the workers act as one registrar; the last ones carry the registrar's   *)
(* promises over to it.                                                    *)
(***************************************************************************)
EXTENDS Lookup, LocationStore, FiniteSetTheorems, SequenceTheorems, WellFoundedInduction, TLAPS

-----------------------------------------------------------------------------
(* Induction on a set of numbers, and what an ordered listing is *)

\* A set that holds 0 and is closed under the successor holds every number.
LEMMA SetInduction ==
  ASSUME NEW T, 0 \in T, \A n \in Nat : n \in T => n + 1 \in T
  PROVE  \A n \in Nat : n \in T
  <1> DEFINE R == OpToRel(<, Nat)
             F == Nat \ T
  <1> SUFFICES ASSUME F # {} PROVE FALSE
    OBVIOUS
  <1>1. \E x \in F : \A y \in F : ~ (<<y, x>> \in R)
    <2> HIDE DEF F
    <2>1. F \subseteq Nat
      BY DEF F
    <2> QED BY <2>1, WFMin, NatLessThanWellFounded
  <1>2. PICK x \in F : \A y \in F : ~ (<<y, x>> \in R)
    BY <1>1
  <1>3. x \in Nat /\ x # 0 /\ x - 1 \in Nat /\ x - 1 \in F
    <2> HIDE DEF R
    <2>1. x # 0
      OBVIOUS
    <2>2. x - 1 \in Nat
      BY <2>1
    <2>3. x - 1 \notin T
      BY <2>2
    <2> QED BY <2>1, <2>2, <2>3
  <1>4. <<x - 1, x>> \in R
    BY <1>3 DEF OpToRel
  <1> QED BY <1>2, <1>3, <1>4

\* A finite strict order, given as what precedes each place.
Orders(before) ==
    LET D == DOMAIN before
    IN  /\ IsFiniteSet(D)
        /\ \A k \in D : before[k] \subseteq D /\ k \notin before[k]
        /\ \A j, k \in D : j # k => j \in before[k] \/ k \in before[j]
        /\ \A i, j, k \in D : i \in before[j] /\ j \in before[k] => i \in before[k]

\* Where each element of a listing stood.
Arranges(at, before) ==
    LET D == DOMAIN before
        n == Cardinality(D)
    IN  /\ n \in Nat
        /\ at \in [1..n -> D]
        /\ \A k \in D : \E r \in 1..n : at[r] = k
        /\ \A r, t \in 1..n : at[r] = at[t] => r = t
        /\ \A r, t \in 1..n : at[r] \in before[at[t]] <=> r < t

\* Counting its predecessors ranks each place of an order.
LEMMA RankGrows ==
  ASSUME NEW before, Orders(before), NEW j \in DOMAIN before, NEW k \in DOMAIN before,
         j \in before[k]
  PROVE  /\ Cardinality(before[j]) \in Nat /\ Cardinality(before[k]) \in Nat
         /\ Cardinality(before[j]) < Cardinality(before[k])
         /\ Cardinality(before[k]) < Cardinality(DOMAIN before)
         /\ Cardinality(DOMAIN before) \in Nat
  <1> DEFINE D == DOMAIN before
  <1>1. /\ IsFiniteSet(D) /\ before[k] \subseteq D /\ before[j] \subseteq D
        /\ j \notin before[j] /\ k \notin before[k]
        /\ \A i \in D : i \in before[j] => i \in before[k]
    BY DEF Orders
  <1>2. before[j] \subseteq before[k]
    BY <1>1
  <1>3. IsFiniteSet(before[k]) /\ IsFiniteSet(before[j])
    BY <1>1, FS_Subset
  <1>4. /\ Cardinality(before[j]) <= Cardinality(before[k])
        /\ Cardinality(before[j]) # Cardinality(before[k])
    BY <1>1, <1>2, <1>3, FS_Subset
  <1>5. Cardinality(before[k]) <= Cardinality(D) /\ Cardinality(before[k]) # Cardinality(D)
    BY <1>1, FS_Subset
  <1>6. Cardinality(before[j]) \in Nat /\ Cardinality(before[k]) \in Nat /\ Cardinality(D) \in Nat
    BY <1>1, <1>3, FS_CardinalityType
  <1> QED BY <1>4, <1>5, <1>6

\* A listing holds what stood at the listed places, each once and in their order.
LEMMA ListingArranges ==
  ASSUME NEW s, NEW before, Orders(before)
  PROVE  \E at : /\ Arranges(at, before)
                 /\ Listing(s, before) = [r \in 1..Cardinality(DOMAIN before) |-> s[at[r]]]
  <1> DEFINE D == DOMAIN before
             n == Cardinality(D)
             rank == [k \in D |-> Cardinality(before[k]) + 1]
             at == [r \in 1..n |-> CHOOSE k \in D : Cardinality(before[k]) = r - 1]
  <1>1. IsFiniteSet(D) /\ n \in Nat
    BY FS_CardinalityType DEF Orders
  <1>2. \A k \in D : Cardinality(before[k]) \in 0..(n - 1)
    <2> SUFFICES ASSUME NEW k \in D PROVE Cardinality(before[k]) \in 0..(n - 1)
      OBVIOUS
    <2>1. before[k] \subseteq D /\ k \notin before[k]
      BY DEF Orders
    <2>2. IsFiniteSet(before[k]) /\ Cardinality(before[k]) <= n /\ Cardinality(before[k]) # n
      BY <1>1, <2>1, FS_Subset
    <2>3. Cardinality(before[k]) \in Nat
      BY <2>2, FS_CardinalityType
    <2> QED BY <1>1, <2>2, <2>3
  <1>3. \A j, k \in D : Cardinality(before[j]) = Cardinality(before[k]) => j = k
    <2> SUFFICES ASSUME NEW j \in D, NEW k \in D, j # k
                 PROVE  Cardinality(before[j]) # Cardinality(before[k])
      OBVIOUS
    <2>1. j \in before[k] \/ k \in before[j]
      BY DEF Orders
    <2> QED BY <2>1, RankGrows
  <1>4. \A r \in 1..n : \E k \in D : Cardinality(before[k]) = r - 1
    <2>1. rank \in Injection(D, 1..n)
      <3>1. rank \in [D -> 1..n]
        BY <1>1, <1>2
      <3>2. \A j, k \in D : rank[j] = rank[k] => j = k
        BY <1>2, <1>3
      <3>3. IsInjective(rank)
        BY <3>1, <3>2 DEF IsInjective
      <3> HIDE DEF rank, n, D
      <3> QED BY <3>1, <3>3 DEF Injection
    <2>2. IsFiniteSet(1..n) /\ Cardinality(1..n) = n
      BY <1>1, FS_Interval
    <2>3. rank \in Surjection(D, 1..n)
      <3> HIDE DEF rank, n
      <3>1. Cardinality(D) = Cardinality(1..n)
        BY <2>2 DEF n
      <3> QED BY <2>1, <2>2, <3>1, FS_Injection
    <2>4. \A r \in 1..n : \E k \in D : rank[k] = r
      <3> HIDE DEF rank, n, D
      <3> QED BY <2>3 DEF Surjection
    <2> QED BY <1>2, <2>4
  <1>5. \A r \in 1..n : at[r] \in D /\ Cardinality(before[at[r]]) = r - 1
    BY <1>4
  <1>6. \A k \in D : \E r \in 1..n : at[r] = k
    <2> SUFFICES ASSUME NEW k \in D PROVE \E r \in 1..n : at[r] = k
      OBVIOUS
    <2>1. Cardinality(before[k]) + 1 \in 1..n
      BY <1>1, <1>2
    <2>2. at[Cardinality(before[k]) + 1] = k
      <3> DEFINE r == Cardinality(before[k]) + 1
      <3>1. r \in 1..n /\ Cardinality(before[k]) = r - 1
        BY <1>2, <2>1
      <3> HIDE DEF r, at, n
      <3> QED BY <1>3, <1>5, <3>1
    <2> QED BY <2>1, <2>2
  <1>7. \A r, t \in 1..n : at[r] \in before[at[t]] <=> r < t
    <2> SUFFICES ASSUME NEW r \in 1..n, NEW t \in 1..n PROVE at[r] \in before[at[t]] <=> r < t
      OBVIOUS
    <2>1. /\ at[r] \in D /\ Cardinality(before[at[r]]) = r - 1
          /\ at[t] \in D /\ Cardinality(before[at[t]]) = t - 1
      BY <1>5
    <2>2. at[r] \in before[at[t]] => r < t
      <3> HIDE DEF at, n
      <3> QED BY <2>1, RankGrows
    <2>3. r < t => at[r] # at[t]
      <3> HIDE DEF at, n
      <3> QED BY <2>1
    <2>4. at[t] \in before[at[r]] => t < r
      <3> HIDE DEF at, n
      <3> QED BY <2>1, RankGrows
    <2>5. r < t => ~ (t < r)
      BY <1>1
    <2>6. at[r] # at[t] => at[r] \in before[at[t]] \/ at[t] \in before[at[r]]
      <3> HIDE DEF at, n
      <3> QED BY <2>1 DEF Orders
    <2> QED
      <3> HIDE DEF at, n
      <3> QED BY <2>2, <2>3, <2>4, <2>5, <2>6
  <1>8. \A r, t \in 1..n : at[r] = at[t] => r = t
    <2> HIDE DEF at, n
    <2> QED BY <1>1, <1>5
  <1>9. at \in [1..n -> D]
    BY <1>5
  <1>10. Listing(s, before) = [r \in 1..n |-> s[at[r]]]
    BY DEF Listing
  <1> HIDE DEF at
  <1> QED BY <1>1, <1>6, <1>7, <1>8, <1>9, <1>10 DEF Arranges

-----------------------------------------------------------------------------
(* The active bindings of a set, and the order a call tries them in *)

\* The places of the active bindings.
ActivePlaces(set, now) == {k \in DOMAIN set : IsActive(set[k], now)}

\* Where in the set each active binding stands.
Keeps(at, set, now) ==
    LET n == ActiveCount(set, now)
    IN  /\ n \in Nat /\ n = Cardinality(ActivePlaces(set, now))
        /\ at \in [1..n -> ActivePlaces(set, now)]
        /\ Active(set, now) = [r \in 1..n |-> set[at[r]]]
        /\ \A k \in ActivePlaces(set, now) : \E r \in 1..n : at[r] = k
        /\ \A r, t \in 1..n : r < t => at[r] < at[t]

\* Expiry keeps the active bindings, all of them, in creation order.
LEMMA ActiveKeeps ==
  ASSUME NEW set \in Seq(Binding), NEW now
  PROVE  \E at : Keeps(at, set, now)
  <1> DEFINE P == ActivePlaces(set, now)
             before == [k \in P |-> {j \in P : j < k}]
             n == Cardinality(P)
  <1>1. P \subseteq 1..Len(set) /\ Len(set) \in Nat /\ P \subseteq Nat /\ P \subseteq Int
    BY DEF ActivePlaces
  <1>2. IsFiniteSet(P)
    <2>1. IsFiniteSet(1..Len(set))
      BY <1>1, FS_Interval
    <2> QED BY <1>1, <2>1, FS_Subset
  <1>3. Orders(before)
    <2> HIDE DEF P
    <2> QED BY <1>1, <1>2 DEF Orders
  <1>4. Active(set, now) = Listing(set, before)
    BY DEF Active, ActivePlaces
  <1>d. DOMAIN before = P
    OBVIOUS
  <1>5. PICK at : Arranges(at, before) /\ Listing(set, before) = [r \in 1..n |-> set[at[r]]]
    <2> HIDE DEF before, P
    <2> QED BY <1>3, <1>d, ListingArranges
  <1>6. /\ n \in Nat /\ at \in [1..n -> P]
        /\ \A k \in P : \E r \in 1..n : at[r] = k
        /\ \A r, t \in 1..n : at[r] \in before[at[t]] <=> r < t
    BY <1>5 DEF Arranges
  <1>7. \A r, t \in 1..n : r < t => at[r] < at[t]
    <2> HIDE DEF P, n
    <2> QED BY <1>6
  <1>8. Active(set, now) = [r \in 1..n |-> set[at[r]]] /\ ActiveCount(set, now) = n
    BY <1>4, <1>5, <1>6 DEF ActiveCount
  <1> HIDE DEF before
  <1> QED BY <1>6, <1>7, <1>8 DEF Keeps

\* The fields of a binding that decisions are made on.
LEMMA BindingFields ==
  ASSUME NEW b \in Binding
  PROVE  /\ b.contact \in Contacts /\ b.contact \in Nat /\ b.q \in Nat
         /\ b.expiresAt \in Nat /\ b.cseq \in Nat
         /\ b.registeredAt \in Nat /\ b.refreshedAt \in Nat
  <1>1. \A x \in 0..1000 : x \in Nat
    OBVIOUS
  <1>2. /\ b.contact \in Contacts /\ b.q \in 0..1000
        /\ b.expiresAt \in Nat /\ b.cseq \in Nat
        /\ b.registeredAt \in Nat /\ b.refreshedAt \in Nat
    BY DEF Binding
  <1>3. b.contact \in Nat
    BY <1>2, ContactsAssumption
  <1>4. b.q \in Nat
    BY <1>1, <1>2, ZenonT(40)
  <1> QED BY <1>2, <1>3, <1>4

\* What is left of a set after expiry is a set, and all of it is active.
LEMMA ActiveType ==
  ASSUME NEW set \in Seq(Binding), NEW now
  PROVE  /\ Active(set, now) \in Seq(Binding)
         /\ DOMAIN Active(set, now) = 1..Len(Active(set, now))
         /\ \A k \in DOMAIN Active(set, now) :
              \E j \in DOMAIN set : IsActive(set[j], now) /\ Active(set, now)[k] = set[j]
         /\ \A j \in DOMAIN set : IsActive(set[j], now) =>
              \E k \in DOMAIN Active(set, now) : Active(set, now)[k] = set[j]
  <1>1. PICK at : Keeps(at, set, now)
    BY ActiveKeeps
  <1> DEFINE n == ActiveCount(set, now)
             kept == Active(set, now)
  <1>2. /\ n \in Nat /\ at \in [1..n -> ActivePlaces(set, now)]
        /\ kept = [r \in 1..n |-> set[at[r]]]
        /\ \A k \in ActivePlaces(set, now) : \E r \in 1..n : at[r] = k
    BY <1>1 DEF Keeps
  <1>3. \A r \in 1..n : at[r] \in DOMAIN set /\ IsActive(set[at[r]], now) /\ set[at[r]] \in Binding
    BY <1>2 DEF ActivePlaces
  <1>4. kept \in Seq(Binding) /\ DOMAIN kept = 1..n /\ Len(kept) = n
    <2> HIDE DEF n, kept
    <2> QED BY <1>2, <1>3
  <1>5. \A k \in DOMAIN kept : \E j \in DOMAIN set : IsActive(set[j], now) /\ kept[k] = set[j]
    <2> HIDE DEF n, kept
    <2> QED BY <1>2, <1>3, <1>4
  <1>6. \A j \in DOMAIN set : IsActive(set[j], now) => \E k \in DOMAIN kept : kept[k] = set[j]
    <2> HIDE DEF n, kept
    <2> QED BY <1>2, <1>4 DEF ActivePlaces
  <1> QED BY <1>4, <1>5, <1>6

\* No more bindings are active later.
LEMMA ActiveCountShrinks ==
  ASSUME NEW set \in Seq(Binding), NEW now \in Nat, NEW later \in Nat, now <= later
  PROVE  ActiveCount(set, later) <= ActiveCount(set, now)
  <1>1. /\ ActiveCount(set, later) = Cardinality(ActivePlaces(set, later))
        /\ ActiveCount(set, now) = Cardinality(ActivePlaces(set, now))
    BY ActiveKeeps DEF Keeps
  <1>2. ActivePlaces(set, later) \subseteq ActivePlaces(set, now)
    <2>1. \A k \in DOMAIN set : set[k] \in Binding
      OBVIOUS
    <2>2. \A k \in DOMAIN set : set[k].expiresAt \in Nat
      BY <2>1, BindingFields
    <2> QED BY <2>2 DEF ActivePlaces, IsActive
  <1>3. IsFiniteSet(ActivePlaces(set, now))
    <2>1. ActivePlaces(set, now) \subseteq 1..Len(set) /\ IsFiniteSet(1..Len(set))
      BY FS_Interval DEF ActivePlaces
    <2> QED BY <2>1, FS_Subset
  <1> QED BY <1>1, <1>2, <1>3, FS_Subset

\* Nothing is active in the empty set.
LEMMA EmptyIsInactive ==
  ASSUME NEW now
  PROVE  Active(<<>>, now) = <<>> /\ ActiveCount(<<>>, now) = 0
  <1>1. <<>> \in Seq(Binding)
    OBVIOUS
  <1>2. ActivePlaces(<<>>, now) = {}
    BY DEF ActivePlaces
  <1>3. PICK at : Keeps(at, <<>>, now)
    BY <1>1, ActiveKeeps
  <1>4. ActiveCount(<<>>, now) = 0
    BY <1>2, <1>3, FS_EmptySet DEF Keeps
  <1>5. Active(<<>>, now) = [r \in 1..0 |-> <<>>[at[r]]]
    BY <1>3, <1>4 DEF Keeps
  <1>6. 1..0 = {}
    OBVIOUS
  <1>7. Active(<<>>, now) = <<>>
    BY <1>5, <1>6
  <1> QED BY <1>4, <1>7

-----------------------------------------------------------------------------
(* Reconcile applies the operations one after the other *)

\* The fold behind Reconcile: what each set of places comes to.
Unfolds(g, n, cmd, now, set) ==
    g = [s \in SUBSET (1..n) |->
          IF s = {} THEN View(set)
          ELSE ApplyOp(g[s \ {Max(s)}], cmd.ops[Max(s)], cmd, now)]

\* The last of some places is one of them, and the last of the first k is k.
LEMMA LastPlace ==
  ASSUME NEW n \in Nat
  PROVE  /\ \A s \in SUBSET (1..n) : s # {} => Max(s) \in s
         /\ \A s \in SUBSET (1..n) : n \in s => Max(s) = n
  <1>1. \A s \in SUBSET (1..n) : n \in s => Max(s) = n
    <2> SUFFICES ASSUME NEW s \in SUBSET (1..n), n \in s PROVE Max(s) = n
      OBVIOUS
    <2>1. \A y \in s : n >= y
      OBVIOUS
    <2>2. Max(s) \in s /\ \A y \in s : Max(s) >= y
      BY <2>1 DEF Max
    <2> DEFINE m == Max(s)
    <2>3. m \in s /\ m >= n
      BY <2>2
    <2> HIDE DEF m
    <2>4. m \in 1..n
      BY <2>3
    <2>5. m = n
      BY <2>3, <2>4
    <2> QED BY <2>5 DEF m
  <1> DEFINE T == {k \in Nat : \A s \in SUBSET (1..k) : s # {} => Max(s) \in s}
  <1>2. 0 \in T
    <2>1. 1..0 = {}
      OBVIOUS
    <2> QED BY <2>1
  <1>3. \A k \in Nat : k \in T => k + 1 \in T
    <2> SUFFICES ASSUME NEW k \in Nat, k \in T, NEW s \in SUBSET (1..(k + 1)), s # {}
                 PROVE  Max(s) \in s
      OBVIOUS
    <2>1. CASE k + 1 \in s
      <3>1. \A y \in s : k + 1 >= y
        OBVIOUS
      <3> QED BY <2>1, <3>1 DEF Max
    <2>2. CASE k + 1 \notin s
      <3>1. s \in SUBSET (1..k)
        BY <2>2
      <3> QED BY <3>1
    <2> QED BY <2>1, <2>2
  <1>4. \A k \in Nat : k \in T
    <2> HIDE DEF T
    <2> QED BY <1>2, <1>3, SetInduction
  <1> QED BY <1>1, <1>4

\* There is such a fold, whatever one operation does.
LEMMA FoldExists ==
  ASSUME NEW cmd, NEW now, NEW set, NEW n \in Nat
  PROVE  \E g : Unfolds(g, n, cmd, now, set)
  <1> DEFINE T == {k \in Nat : \E g : Unfolds(g, k, cmd, now, set)}
  <1>1. 0 \in T
    <2> DEFINE g == [s \in SUBSET (1..0) |-> View(set)]
    <2>1. Unfolds(g, 0, cmd, now, set)
      <3>1. 1..0 = {}
        OBVIOUS
      <3>2. \A s \in SUBSET (1..0) : s = {}
        BY <3>1
      <3>3. g = [s \in SUBSET (1..0) |->
                  IF s = {} THEN View(set)
                  ELSE ApplyOp(g[s \ {Max(s)}], cmd.ops[Max(s)], cmd, now)]
        BY <3>2
      <3> QED BY <3>3 DEF Unfolds
    <2> QED BY <2>1
  <1>2. \A k \in Nat : k \in T => k + 1 \in T
    <2> SUFFICES ASSUME NEW k \in Nat, k \in T
                 PROVE  \E h : Unfolds(h, k + 1, cmd, now, set)
      OBVIOUS
    <2>1. PICK g : Unfolds(g, k, cmd, now, set)
      OBVIOUS
    <2> DEFINE h == [s \in SUBSET (1..(k + 1)) |->
                      IF k + 1 \in s
                        THEN ApplyOp(g[s \ {k + 1}], cmd.ops[k + 1], cmd, now)
                        ELSE g[s]]
    <2>2. \A s \in SUBSET (1..k) : h[s] = g[s]
      <3> SUFFICES ASSUME NEW s \in SUBSET (1..k) PROVE h[s] = g[s]
        OBVIOUS
      <3>1. s \in SUBSET (1..(k + 1)) /\ k + 1 \notin s
        OBVIOUS
      <3> QED BY <3>1
    <2>3. \A s \in SUBSET (1..(k + 1)) :
            h[s] = IF s = {} THEN View(set)
                   ELSE ApplyOp(h[s \ {Max(s)}], cmd.ops[Max(s)], cmd, now)
      <3> SUFFICES ASSUME NEW s \in SUBSET (1..(k + 1))
                   PROVE  h[s] = IF s = {} THEN View(set)
                                 ELSE ApplyOp(h[s \ {Max(s)}], cmd.ops[Max(s)], cmd, now)
        OBVIOUS
      <3>1. CASE k + 1 \in s
        <4>1. Max(s) = k + 1
          BY <3>1, LastPlace, k + 1 \in Nat
        <4>2. s \ {k + 1} \in SUBSET (1..k)
          OBVIOUS
        <4>3. h[s] = ApplyOp(g[s \ {k + 1}], cmd.ops[k + 1], cmd, now)
          BY <3>1
        <4> QED
          <5> HIDE DEF h
          <5> QED BY <2>2, <3>1, <4>1, <4>2, <4>3
      <3>2. CASE k + 1 \notin s
        <4>1. s \in SUBSET (1..k)
          BY <3>2
        <4>2. g[s] = IF s = {} THEN View(set)
                     ELSE ApplyOp(g[s \ {Max(s)}], cmd.ops[Max(s)], cmd, now)
          BY <2>1, <4>1 DEF Unfolds
        <4>3. s \ {Max(s)} \in SUBSET (1..k)
          BY <4>1
        <4> QED
          <5> HIDE DEF h
          <5> QED BY <2>2, <4>1, <4>2, <4>3
      <3> QED BY <3>1, <3>2
    <2>4. h = [s \in SUBSET (1..(k + 1)) |-> h[s]]
      OBVIOUS
    <2>5. Unfolds(h, k + 1, cmd, now, set)
      <3> HIDE DEF h
      <3> QED BY <2>3, <2>4 DEF Unfolds
    <2> QED BY <2>5
  <1>3. \A k \in Nat : k \in T
    <2> HIDE DEF T
    <2> QED BY <1>1, <1>2, SetInduction
  <1> QED BY <1>3

\* A relation between how many operations were applied and what they made of the set: where
\* it holds before the first and survives each, it holds of the outcome.
LEMMA ReconcileSteps ==
  ASSUME NEW cmd, NEW now, NEW set, cmd.ops \in Seq(ContactOp), NEW V, <<0, View(set)>> \in V,
         \A i \in 1..Len(cmd.ops) : \A v :
           <<i - 1, v>> \in V => <<i, ApplyOp(v, cmd.ops[i], cmd, now)>> \in V
  PROVE  <<Len(cmd.ops), Reconcile(cmd, now, set)>> \in V
  <1> DEFINE n == Len(cmd.ops)
             iter == CHOOSE g : Unfolds(g, n, cmd, now, set)
  <1>1. n \in Nat /\ DOMAIN cmd.ops = 1..n
    OBVIOUS
  <1>2. Unfolds(iter, n, cmd, now, set)
    <2> HIDE DEF n
    <2> QED BY <1>1, FoldExists
  <1>3. Reconcile(cmd, now, set) = iter[1..n]
    <2> HIDE DEF n
    <2> QED BY <1>1 DEF Reconcile, FoldLeft, MapThenFoldSet, Unfolds
  <1> HIDE DEF iter
  <1> DEFINE T == {k \in Nat : k <= n => <<k, iter[1..k]>> \in V}
  <1>4. \A k \in 1..n : iter[1..k] = ApplyOp(iter[1..(k - 1)], cmd.ops[k], cmd, now)
    <2> SUFFICES ASSUME NEW k \in 1..n
                 PROVE  iter[1..k] = ApplyOp(iter[1..(k - 1)], cmd.ops[k], cmd, now)
      OBVIOUS
    <2>0. k \in Nat /\ 1 <= k /\ k <= n
      BY <1>1
    <2>1. k \in Nat /\ 1..k \in SUBSET (1..n) /\ 1..k # {} /\ k \in 1..k
      <3> HIDE DEF n, T
      <3>1. k \in 1..k
        BY <2>0
      <3>2. 1..k \in SUBSET (1..n)
        BY <1>1, <2>0
      <3> QED BY <2>0, <3>1, <3>2
    <2>2. Max(1..k) = k
      BY <2>1, LastPlace
    <2>3. (1..k) \ {k} = 1..(k - 1)
      BY <2>1
    <2> HIDE DEF n
    <2>4. iter[1..k] = ApplyOp(iter[(1..k) \ {Max(1..k)}], cmd.ops[Max(1..k)], cmd, now)
      BY <1>2, <2>1 DEF Unfolds
    <2> QED BY <2>2, <2>3, <2>4
  <1>5. 0 \in T
    <2>1. 1..0 = {} /\ 1..0 \in SUBSET (1..n)
      OBVIOUS
    <2>2. iter[1..0] = View(set)
      <3> HIDE DEF n
      <3> QED BY <1>2, <2>1 DEF Unfolds
    <2> QED BY <2>2
  <1>6. \A k \in Nat : k \in T => k + 1 \in T
    <2> SUFFICES ASSUME NEW k \in Nat, k \in T, k + 1 <= n
                 PROVE  <<k + 1, iter[1..(k + 1)]>> \in V
      OBVIOUS
    <2>1. k + 1 \in 1..n /\ (k + 1) - 1 = k /\ k <= n
      BY <1>1
    <2>2. <<(k + 1) - 1, iter[1..k]>> \in V
      BY <2>1
    <2>3. iter[1..(k + 1)] = ApplyOp(iter[1..k], cmd.ops[k + 1], cmd, now)
      <3> HIDE DEF n, T
      <3> QED BY <1>4, <2>1
    <2> QED BY <2>1, <2>2, <2>3
  <1>7. \A k \in Nat : k \in T
    <2> HIDE DEF T
    <2> QED BY <1>5, <1>6, SetInduction
  <1>8. <<n, iter[1..n]>> \in V
    BY <1>1, <1>7
  <1> QED BY <1>3, <1>8

\* What holds of the set's view and survives every operation holds of the outcome, and
\* the outcome is what the last operation made of such a view.
LEMMA ReconcileFolds ==
  ASSUME NEW cmd, NEW now, NEW set, cmd.ops \in Seq(ContactOp), NEW V, View(set) \in V,
         \A v \in V, i \in 1..Len(cmd.ops) : ApplyOp(v, cmd.ops[i], cmd, now) \in V
  PROVE  /\ Reconcile(cmd, now, set) \in V
         /\ cmd.ops # <<>> =>
              \E v \in V : Reconcile(cmd, now, set)
                             = ApplyOp(v, cmd.ops[Len(cmd.ops)], cmd, now)
  <1> DEFINE n == Len(cmd.ops)
             W == {w \in (0..n) \X V :
                     w[1] # 0 => \E v \in V : w[2] = ApplyOp(v, cmd.ops[w[1]], cmd, now)}
  <1>1. n \in Nat /\ (cmd.ops # <<>> => n # 0)
    OBVIOUS
  <1>2. <<0, View(set)>> \in W
    BY <1>1
  <1>3. ASSUME NEW i \in 1..n, NEW v, <<i - 1, v>> \in W
        PROVE  <<i, ApplyOp(v, cmd.ops[i], cmd, now)>> \in W
    <2>1. v \in V
      BY <1>3
    <2>2. ApplyOp(v, cmd.ops[i], cmd, now) \in V /\ i \in 0..n
      BY <1>1, <2>1
    <2> QED BY <2>1, <2>2
  <1>4. <<n, Reconcile(cmd, now, set)>> \in W
    <2> HIDE DEF W
    <2> QED BY <1>2, <1>3, ReconcileSteps
  <1> QED BY <1>1, <1>4

-----------------------------------------------------------------------------
(* The binary search stays within the sequence *)

Windows(n) == {w \in (0..n) \X (0..n) : w[1] + w[2] <= n}

\* The next window of the search, and the search over windows no larger than size.
Narrowed(w, s, binding) ==
    LET half == w[2] \div 2
    IN  <<IF NotAfter(s[w[1] + half + 1].binding, binding) THEN w[1] + half ELSE w[1],
          w[2] - half>>
Searched(g, s, binding, n, size) ==
    g = [w \in {x \in Windows(n) : x[2] <= size} |->
          IF w[2] <= 1
            THEN IF w[2] = 1 /\ NotAfter(s[w[1] + 1].binding, binding) THEN w[1] + 1 ELSE w[1]
            ELSE g[Narrowed(w, s, binding)]]

\* Halving a window leaves a smaller window inside it.
LEMMA Narrows ==
  ASSUME NEW s, NEW binding, NEW n \in Nat, NEW w \in Windows(n), w[2] > 1
  PROVE  LET v == Narrowed(w, s, binding)
         IN  /\ v \in Windows(n) /\ v[2] < w[2]
             /\ w[1] <= v[1] /\ v[1] + v[2] <= w[1] + w[2]
  <1> DEFINE b == w[1]
             k == w[2]
             half == k \div 2
             v == Narrowed(w, s, binding)
  <1>1. b \in Nat /\ k \in Nat /\ b + k <= n /\ k > 1
    BY DEF Windows
  <1>2. half \in Nat /\ half >= 1 /\ half < k
    <2> HIDE DEF b, k
    <2> QED BY <1>1
  <1>3. v = <<b + half, k - half>> \/ v = <<b, k - half>>
    BY DEF Narrowed
  <1>4. CASE v = <<b + half, k - half>>
    <2> HIDE DEF b, k, half, v
    <2> QED BY <1>1, <1>2, <1>4 DEF Windows, b, k, v
  <1>5. CASE v = <<b, k - half>>
    <2> HIDE DEF b, k, half, v
    <2> QED BY <1>1, <1>2, <1>5 DEF Windows, b, k, v
  <1> QED BY <1>3, <1>4, <1>5

\* The search is well defined.
LEMMA SearchExists ==
  ASSUME NEW s, NEW binding, NEW n \in Nat, NEW size \in Nat
  PROVE  \E g : Searched(g, s, binding, n, size)
  <1> DEFINE T == {k \in Nat : \E g : Searched(g, s, binding, n, k)}
             D(k) == {x \in Windows(n) : x[2] <= k}
             Ends(w) == IF w[2] = 1 /\ NotAfter(s[w[1] + 1].binding, binding)
                          THEN w[1] + 1 ELSE w[1]
  <1>0. \A w \in Windows(n) : w[2] \in Nat
    BY DEF Windows
  <1>1. 0 \in T
    <2> DEFINE g == [w \in D(0) |-> Ends(w)]
    <2>1. \A w \in D(0) : w[2] <= 1
      BY <1>0
    <2>2. g = [w \in D(0) |-> IF w[2] <= 1 THEN Ends(w) ELSE g[Narrowed(w, s, binding)]]
      BY <2>1
    <2>3. Searched(g, s, binding, n, 0)
      BY <2>2 DEF Searched
    <2> QED BY <2>3
  <1>2. \A k \in Nat : k \in T => k + 1 \in T
    <2> SUFFICES ASSUME NEW k \in Nat, k \in T
                 PROVE  \E h : Searched(h, s, binding, n, k + 1)
      OBVIOUS
    <2>1. PICK g : Searched(g, s, binding, n, k)
      OBVIOUS
    <2> DEFINE h == [w \in D(k + 1) |->
                      IF w[2] <= 1 THEN Ends(w) ELSE g[Narrowed(w, s, binding)]]
    <2>2. \A w \in D(k) : h[w] = g[w]
      <3> SUFFICES ASSUME NEW w \in D(k) PROVE h[w] = g[w]
        OBVIOUS
      <3>1. w \in D(k + 1)
        BY <1>0
      <3>2. g[w] = IF w[2] <= 1 THEN Ends(w) ELSE g[Narrowed(w, s, binding)]
        BY <2>1 DEF Searched
      <3> QED BY <3>1, <3>2
    <2>3. \A w \in D(k + 1) :
            h[w] = IF w[2] <= 1 THEN Ends(w) ELSE h[Narrowed(w, s, binding)]
      <3> SUFFICES ASSUME NEW w \in D(k + 1), ~ (w[2] <= 1)
                   PROVE  h[w] = h[Narrowed(w, s, binding)]
        OBVIOUS
      <3>1. Narrowed(w, s, binding) \in D(k)
        <4>1. w[2] \in Nat /\ w[2] > 1 /\ w[2] <= k + 1
          BY <1>0
        <4>2. /\ Narrowed(w, s, binding) \in Windows(n)
              /\ Narrowed(w, s, binding)[2] < w[2]
              /\ Narrowed(w, s, binding)[2] \in Nat
          BY <1>0, <4>1, Narrows
        <4> QED BY <4>1, <4>2
      <3>2. h[w] = g[Narrowed(w, s, binding)]
        OBVIOUS
      <3> QED
        <4> HIDE DEF h
        <4> QED BY <2>2, <3>1, <3>2
    <2>4. h = [w \in D(k + 1) |-> h[w]]
      OBVIOUS
    <2>5. Searched(h, s, binding, n, k + 1)
      <3> HIDE DEF h
      <3> QED BY <2>3, <2>4 DEF Searched
    <2> QED BY <2>5
  <1>3. \A k \in Nat : k \in T
    <2> HIDE DEF T
    <2> QED BY <1>1, <1>2, SetInduction
  <1> QED BY <1>3

\* Where a binding belongs, among the slots of a view.
Place(s, binding) == PartitionPoint(s, LAMBDA slot : NotAfter(slot.binding, binding))

\* A new binding is put somewhere between the first and the last.
LEMMA PlaceWithin ==
  ASSUME NEW s, NEW binding, Len(s) \in Nat
  PROVE  Place(s, binding) \in 0..Len(s)
  <1> DEFINE n == Len(s)
             Window == {w \in (0..Len(s)) \X (0..Len(s)) : w[1] + w[2] <= Len(s)}
             Halving(g) ==
               g = [w \in Window |->
                     IF w[2] <= 1
                       THEN IF w[2] = 1 /\ NotAfter(s[w[1] + 1].binding, binding)
                              THEN w[1] + 1 ELSE w[1]
                       ELSE LET half == w[2] \div 2
                            IN  g[<<IF NotAfter(s[w[1] + half + 1].binding, binding)
                                      THEN w[1] + half ELSE w[1],
                                    w[2] - half>>]]
             search == CHOOSE g : Halving(g)
  <1>2. {x \in Windows(n) : x[2] <= n} = Windows(n)
    BY DEF Windows
  <1>1. Searched(search, s, binding, n, n)
    <2>1. \A g : Halving(g) <=> Searched(g, s, binding, n, n)
      <3>1. Window = {x \in Windows(n) : x[2] <= n}
        BY <1>2 DEF Windows
      <3> HIDE DEF Window
      <3> QED BY <3>1 DEF Searched, Narrowed
    <2> HIDE DEF Halving
    <2> QED BY <2>1, SearchExists
  <1>3. Place(s, binding) = search[<<0, n>>]
    BY DEF Place, PartitionPoint
  <1> HIDE DEF search
  <1> DEFINE T == {k \in Nat : \A w \in Windows(n) : w[2] <= k =>
                                 search[w] \in w[1]..(w[1] + w[2])}
  <1>0. \A w \in Windows(n) : w[1] \in Nat /\ w[2] \in Nat
    BY DEF Windows
  <1>4. \A w \in Windows(n) :
          search[w] = IF w[2] <= 1
                        THEN IF w[2] = 1 /\ NotAfter(s[w[1] + 1].binding, binding)
                               THEN w[1] + 1 ELSE w[1]
                        ELSE search[Narrowed(w, s, binding)]
    BY <1>1, <1>2 DEF Searched
  <1>5. \A w \in Windows(n) : w[2] <= 1 => search[w] \in w[1]..(w[1] + w[2])
    BY <1>0, <1>4
  <1>6. 0 \in T
    BY <1>0, <1>5
  <1>7. \A k \in Nat : k \in T => k + 1 \in T
    <2> SUFFICES ASSUME NEW k \in Nat, k \in T, NEW w \in Windows(n), w[2] <= k + 1, w[2] > 1
                 PROVE  search[w] \in w[1]..(w[1] + w[2])
      BY <1>0, <1>5
    <2> DEFINE v == Narrowed(w, s, binding)
    <2>1. /\ v \in Windows(n) /\ v[2] < w[2]
          /\ w[1] <= v[1] /\ v[1] + v[2] <= w[1] + w[2]
      BY Narrows
    <2>2. search[w] = search[v]
      BY <1>0, <1>4
    <2> HIDE DEF v
    <2>3. v[2] <= k /\ v[1] \in Nat /\ v[2] \in Nat /\ w[1] \in Nat /\ w[2] \in Nat
      BY <1>0, <2>1
    <2>4. search[v] \in v[1]..(v[1] + v[2])
      BY <2>1, <2>3
    <2> HIDE DEF T
    <2> QED BY <2>1, <2>2, <2>3, <2>4
  <1>8. \A k \in Nat : k \in T
    <2> HIDE DEF T
    <2> QED BY <1>6, <1>7, SetInduction
  <1>9. <<0, n>> \in Windows(n)
    BY DEF Windows
  <1>10. n \in T
    <2> HIDE DEF T
    <2> QED BY <1>8
  <1>11. search[<<0, n>>] \in 0..(0 + n)
    <2>1. <<0, n>>[2] <= n /\ <<0, n>>[1] = 0 /\ <<0, n>>[2] = n
      OBVIOUS
    <2> QED BY <1>9, <1>10, <2>1
  <1> QED BY <1>3, <1>11

-----------------------------------------------------------------------------
(* Views *)

Slot == [binding : Binding, id : Nat, writtenHere : BOOLEAN]
Deferred == [slot : Nat, stored : Binding, net : Nat]
Reconciling ==
    [slots : Seq(Slot), nextId : Nat, changed : BOOLEAN, pending : SUBSET Deferred,
     stale : BOOLEAN]

\* Slot k is the first the contact names.
FirstNamed(slots, contact, k) ==
    /\ k \in DOMAIN slots
    /\ Equivalent(slots[k].binding.contact, contact)
    /\ \A j \in DOMAIN slots : j < k => ~Equivalent(slots[j].binding.contact, contact)

\* An element put after the first p.
LEMMA Inserted ==
  ASSUME NEW S, NEW s \in Seq(S), NEW p \in 0..Len(s), NEW e \in S
  PROVE  LET t == InsertAt(s, p + 1, e)
         IN  /\ t \in Seq(S)
             /\ Len(t) = Len(s) + 1
             /\ \A i \in 1..(Len(s) + 1) :
                  t[i] = IF i <= p THEN s[i] ELSE IF i = p + 1 THEN e ELSE s[i - 1]
  <1> DEFINE n == Len(s)
             a == SubSeq(s, 1, p)
             b == SubSeq(s, p + 1, n)
  <1>1. n \in Nat /\ p \in Nat /\ p <= n
    OBVIOUS
  <1>2. a \in Seq(S) /\ Len(a) = p /\ \A i \in 1..p : a[i] = s[i]
    BY <1>1
  <1>3. b \in Seq(S) /\ Len(b) = n - p /\ \A i \in 1..(n - p) : b[i] = s[p + i]
    BY <1>1
  <1>4. InsertAt(s, p + 1, e) = a \o <<e>> \o b
    <2>1. (p + 1) - 1 = p
      BY <1>1
    <2> QED BY <2>1 DEF InsertAt
  <1> HIDE DEF a, b, n
  <1> DEFINE c == a \o <<e>>
  <1>5. /\ c \in Seq(S) /\ Len(c) = p + 1
        /\ \A i \in 1..p : c[i] = s[i]
        /\ c[p + 1] = e
    BY <1>1, <1>2
  <1> HIDE DEF c
  <1> DEFINE t == c \o b
  <1>c. /\ t \in Seq(S) /\ Len(t) = (p + 1) + (n - p)
        /\ \A i \in 1..((p + 1) + (n - p)) :
             t[i] = IF i <= p + 1 THEN c[i] ELSE b[i - (p + 1)]
    <2>1. /\ t \in Seq(S) /\ Len(t) = Len(c) + Len(b)
          /\ \A i \in 1..(Len(c) + Len(b)) :
               t[i] = IF i <= Len(c) THEN c[i] ELSE b[i - Len(c)]
      BY <1>3, <1>5, ConcatProperties
    <2> HIDE DEF t
    <2> QED BY <1>3, <1>5, <2>1
  <1> HIDE DEF t
  <1>6. t \in Seq(S) /\ Len(t) = n + 1
    BY <1>1, <1>c
  <1>7. \A i \in 1..(p + 1) : t[i] = c[i]
    BY <1>1, <1>c
  <1>8. \A i \in (p + 2)..(n + 1) : t[i] = s[i - 1]
    <2> SUFFICES ASSUME NEW i \in (p + 2)..(n + 1) PROVE t[i] = s[i - 1]
      OBVIOUS
    <2>1. i - (p + 1) \in 1..(n - p) /\ i \in 1..(n + 1) /\ i > p + 1
          /\ p + (i - (p + 1)) = i - 1
      BY <1>1
    <2>2. t[i] = b[i - (p + 1)]
      BY <1>1, <1>c, <2>1
    <2> QED BY <1>3, <2>1, <2>2
  <1>9. \A i \in 1..(n + 1) :
          t[i] = IF i <= p THEN s[i] ELSE IF i = p + 1 THEN e ELSE s[i - 1]
    <2> SUFFICES ASSUME NEW i \in 1..(n + 1)
                 PROVE  t[i] = IF i <= p THEN s[i]
                               ELSE IF i = p + 1 THEN e ELSE s[i - 1]
      OBVIOUS
    <2>1. CASE i <= p
      <3>1. i \in 1..(p + 1) /\ i \in 1..p
        BY <1>1, <2>1
      <3> QED BY <1>5, <1>7, <2>1, <3>1
    <2>2. CASE i = p + 1
      <3>1. i \in 1..(p + 1) /\ ~ (i <= p)
        BY <1>1, <2>2
      <3> QED BY <1>5, <1>7, <2>2, <3>1
    <2>3. CASE i > p + 1
      <3>1. i \in (p + 2)..(n + 1) /\ ~ (i <= p) /\ i # p + 1
        BY <1>1, <2>3
      <3> QED BY <1>8, <3>1
    <2> QED BY <1>1, <2>1, <2>2, <2>3
  <1>10. InsertAt(s, p + 1, e) = t
    BY <1>4 DEF t, c
  <1> QED BY <1>6, <1>9, <1>10 DEF n

\* An element taken out.
LEMMA Removed ==
  ASSUME NEW S, NEW s \in Seq(S), NEW k \in DOMAIN s
  PROVE  LET t == RemoveAt(s, k)
         IN  /\ t \in Seq(S)
             /\ Len(t) = Len(s) - 1
             /\ \A i \in 1..(Len(s) - 1) : t[i] = IF i < k THEN s[i] ELSE s[i + 1]
  <1> DEFINE n == Len(s)
             a == SubSeq(s, 1, k - 1)
             b == SubSeq(s, k + 1, n)
             t == a \o b
  <1>1. n \in Nat /\ k \in Nat /\ 1 <= k /\ k <= n
    OBVIOUS
  <1>2. a \in Seq(S) /\ Len(a) = k - 1 /\ \A i \in 1..(k - 1) : a[i] = s[i]
    BY <1>1
  <1>3. b \in Seq(S) /\ Len(b) = n - k /\ \A i \in 1..(n - k) : b[i] = s[k + i]
    BY <1>1
  <1>4. RemoveAt(s, k) = t
    BY DEF RemoveAt
  <1> HIDE DEF a, b, n
  <1>c. /\ t \in Seq(S) /\ Len(t) = (k - 1) + (n - k)
        /\ \A i \in 1..((k - 1) + (n - k)) : t[i] = IF i <= k - 1 THEN a[i] ELSE b[i - (k - 1)]
    <2>1. /\ t \in Seq(S) /\ Len(t) = Len(a) + Len(b)
          /\ \A i \in 1..(Len(a) + Len(b)) :
               t[i] = IF i <= Len(a) THEN a[i] ELSE b[i - Len(a)]
      BY <1>2, <1>3, ConcatProperties
    <2> HIDE DEF t
    <2> QED BY <1>2, <1>3, <2>1
  <1> HIDE DEF t
  <1>5. t \in Seq(S) /\ Len(t) = n - 1
    BY <1>1, <1>c
  <1>6. \A i \in 1..(k - 1) : t[i] = s[i]
    BY <1>1, <1>2, <1>c
  <1>7. \A i \in k..(n - 1) : t[i] = s[i + 1]
    <2> SUFFICES ASSUME NEW i \in k..(n - 1) PROVE t[i] = s[i + 1]
      OBVIOUS
    <2>1. i - (k - 1) \in 1..(n - k) /\ i \in 1..((k - 1) + (n - k)) /\ ~ (i <= k - 1)
          /\ k + (i - (k - 1)) = i + 1
      BY <1>1
    <2>2. t[i] = b[i - (k - 1)]
      BY <1>1, <1>c, <2>1
    <2> QED BY <1>3, <2>1, <2>2
  <1>8. \A i \in 1..(n - 1) : t[i] = IF i < k THEN s[i] ELSE s[i + 1]
    BY <1>1, <1>6, <1>7
  <1> QED BY <1>4, <1>5, <1>8 DEF n

\* Find returns the first slot the contact names, or 0 where it names none.
LEMMA FindsFirst ==
  ASSUME NEW view \in Reconciling, NEW contact
  PROVE  LET k == Find(view, contact)
         IN  /\ k = 0 => \A j \in DOMAIN view.slots :
                           ~Equivalent(view.slots[j].binding.contact, contact)
             /\ k # 0 => FirstNamed(view.slots, contact, k)
  <1> DEFINE n == Len(view.slots)
             I == {i \in 1..n : Equivalent(view.slots[i].binding.contact, contact)}
             k == Find(view, contact)
  <1>1. n \in Nat /\ DOMAIN view.slots = 1..n
    BY DEF Reconciling
  <1>2. k = IF I # {} THEN Min(I) ELSE 0
    BY DEF Find, SelectInSeq
  <1>3. I # {} => \E m \in I : \A j \in I : m <= j
    <2> HIDE DEF n
    <2> SUFFICES ASSUME I # {}, \A m \in I : \E j \in I : ~ (m <= j)
                 PROVE  FALSE
      OBVIOUS
    <2> DEFINE T == {a \in Nat : \A i \in 1..a : i \notin I}
    <2>1. 0 \in T
      OBVIOUS
    <2>2. \A a \in Nat : a \in T => a + 1 \in T
      <3> SUFFICES ASSUME NEW a \in Nat, a \in T, a + 1 \in I PROVE FALSE
        OBVIOUS
      <3>1. PICK j \in I : ~ (a + 1 <= j)
        OBVIOUS
      <3>2. j \in 1..a
        BY <1>1, <3>1
      <3> QED BY <3>2
    <2>3. \A a \in Nat : a \in T
      <3> HIDE DEF T
      <3> QED BY <2>1, <2>2, SetInduction
    <2>4. n \in T
      BY <1>1, <2>3
    <2> QED BY <2>4
  <1>4. I # {} => Min(I) \in I /\ \A j \in I : Min(I) <= j
    <2> HIDE DEF I
    <2> QED BY <1>3 DEF Min
  <1>5. ASSUME I = {}
        PROVE  k = 0 /\ \A j \in DOMAIN view.slots :
                          ~Equivalent(view.slots[j].binding.contact, contact)
    BY <1>1, <1>2, <1>5
  <1>6. ASSUME I # {}
        PROVE  k # 0 /\ FirstNamed(view.slots, contact, k)
    <2> HIDE DEF k, n
    <2>1. k \in I /\ \A j \in I : k <= j
      BY <1>2, <1>4, <1>6
    <2>2. k \in 1..n /\ Equivalent(view.slots[k].binding.contact, contact)
      BY <2>1
    <2>3. \A j \in 1..n : j < k => ~Equivalent(view.slots[j].binding.contact, contact)
      BY <1>1, <2>1, <2>2
    <2>4. k # 0
      BY <1>1, <2>2
    <2> QED BY <1>1, <2>2, <2>3, <2>4 DEF FirstNamed
  <1> HIDE DEF k, I
  <1>7. CASE I = {}
    BY <1>5, <1>7 DEF k
  <1>8. CASE I # {}
    BY <1>6, <1>8 DEF k
  <1> QED BY <1>7, <1>8

\* What an operation is granted, and the binding it makes.
LEMMA GrantedType ==
  ASSUME NEW cmd \in Command, NEW op \in ContactOp, NEW now \in Nat, NEW since \in Nat
  PROVE  /\ Granted(cmd, op) \in Nat
         /\ BindingFor(op, cmd, now, Granted(cmd, op), since) \in Binding
  <1>1. RequestedExpires(cmd, op) \in Nat
    BY PolicyAssumption DEF RequestedExpires, Command, ContactOp, Absent
  <1>2. Granted(cmd, op) \in Nat
    BY <1>1, PolicyAssumption DEF Granted
  <1> QED BY <1>2 DEF BindingFor, Binding, Command, ContactOp

-----------------------------------------------------------------------------
(* What one operation does to a view *)

\* The written slot an operation leaves behind.
Written(op, cmd, now, granted, since, id) ==
    [binding |-> BindingFor(op, cmd, now, granted, since), id |-> id, writtenHere |-> TRUE]

\* B5: the slot was written by a request of this Call-ID with a later CSeq.
Newer(slot, cmd) == Compared(slot, cmd) /\ slot.binding.cseq > cmd.cseq

\* B3: it answers a request of this Call-ID with this very CSeq.
Repeated(slot, cmd) == Compared(slot, cmd) /\ slot.binding.cseq = cmd.cseq

Unnamed(slots, contact) ==
    \A k \in DOMAIN slots : ~Equivalent(slots[k].binding.contact, contact)

\* B8: what was deferred about a slot is now decided by what this operation grants.
Decides(view, after, slot, granted) ==
    /\ after.nextId = view.nextId
    /\ \A d \in view.pending : d.slot # slot.id => d \in after.pending
    /\ \A d \in after.pending :
         \/ d.slot # slot.id /\ d \in view.pending
         \/ /\ d.slot = slot.id /\ d.net = granted
            /\ \/ d.stored = slot.binding /\ ~slot.writtenHere
               \/ \E e \in view.pending : e.slot = slot.id /\ e.stored = d.stored

\* What an operation may do.  It comes too late; it has nothing to remove; it leaves the
\* binding it names as it is, for the end of the request to judge; or it writes.
Halts(view, after, op, cmd) ==
    /\ after.slots = view.slots /\ after.changed = view.changed /\ after.stale
    /\ \/ view.stale
       \/ \E k \in DOMAIN view.slots :
            FirstNamed(view.slots, op.contact, k) /\ Newer(view.slots[k], cmd)
Passes(view, after, op) == Unnamed(view.slots, op.contact) /\ after = view
Defers(view, after, op, cmd, granted) ==
    \E k \in DOMAIN view.slots :
      /\ FirstNamed(view.slots, op.contact, k) /\ Repeated(view.slots[k], cmd)
      /\ after.slots = view.slots /\ after.changed = view.changed
      /\ Decides(view, after, view.slots[k], granted)
      /\ \/ AlreadyHolds(view.slots[k].binding, cmd, granted)
         \/ [slot |-> view.slots[k].id, stored |-> view.slots[k].binding, net |-> granted]
              \in after.pending
Removes(view, after, op, cmd) ==
    \E k \in DOMAIN view.slots :
      /\ FirstNamed(view.slots, op.contact, k)
      /\ ~Newer(view.slots[k], cmd) /\ ~Repeated(view.slots[k], cmd)
      /\ after.slots = RemoveAt(view.slots, k)
      /\ Decides(view, after, view.slots[k], 0)
Replaces(view, after, op, cmd, now, granted) ==
    \E k \in DOMAIN view.slots :
      /\ FirstNamed(view.slots, op.contact, k)
      /\ ~Newer(view.slots[k], cmd) /\ ~Repeated(view.slots[k], cmd)
      /\ after.slots =
           [view.slots EXCEPT ![k] = Written(op, cmd, now, granted,
              view.slots[k].binding.registeredAt, view.slots[k].id)]
      /\ Decides(view, after, view.slots[k], granted)
Inserts(view, after, op, cmd, now, granted) ==
    /\ Unnamed(view.slots, op.contact)
    /\ \E p \in 0..Len(view.slots) :
         after.slots = InsertAt(view.slots, p + 1,
                                Written(op, cmd, now, granted, now, view.nextId))
    /\ after.nextId = view.nextId + 1 /\ after.pending = view.pending

Effect(view, after, op, cmd, now, granted) ==
    /\ view.stale => after.stale
    /\ \/ Halts(view, after, op, cmd)
       \/ /\ ~view.stale /\ ~after.stale
          /\ \/ granted = 0 /\ Passes(view, after, op)
             \/ Defers(view, after, op, cmd, granted)
             \/ granted = 0 /\ after.changed /\ Removes(view, after, op, cmd)
             \/ granted # 0 /\ after.changed /\ Replaces(view, after, op, cmd, now, granted)
             \/ granted # 0 /\ after.changed /\ Inserts(view, after, op, cmd, now, granted)

\* Rebase touches only the deferred decisions, and only those of its slot.
LEMMA RebaseType ==
  ASSUME NEW view \in Reconciling, NEW id, NEW granted \in Nat
  PROVE  /\ Rebase(view, id, granted) \in Reconciling
         /\ \A d \in view.pending : d.slot # id => d \in Rebase(view, id, granted).pending
         /\ \A d \in Rebase(view, id, granted).pending :
              \/ d.slot # id /\ d \in view.pending
              \/ /\ d.slot = id /\ d.net = granted
                 /\ \E e \in view.pending : e.slot = id /\ e.stored = d.stored
         /\ Rebase(view, id, granted).slots = view.slots
         /\ Rebase(view, id, granted).changed = view.changed
         /\ Rebase(view, id, granted).stale = view.stale
         /\ Rebase(view, id, granted).nextId = view.nextId
  <1> DEFINE P == {IF d.slot = id THEN [d EXCEPT !.net = granted] ELSE d : d \in view.pending}
  <1>1. P \in SUBSET Deferred
    <2>1. \A d \in view.pending : d \in Deferred
      BY DEF Reconciling
    <2>2. \A d \in Deferred : [d EXCEPT !.net = granted] \in Deferred
      BY DEF Deferred
    <2> QED BY <2>1, <2>2
  <1>2. Rebase(view, id, granted) = [view EXCEPT !.pending = P]
    BY DEF Rebase
  <1>3. /\ \A d \in view.pending : d.slot # id => d \in P
        /\ \A d \in P : \/ d.slot # id /\ d \in view.pending
                       \/ /\ d.slot = id /\ d.net = granted
                          /\ \E e \in view.pending : e.slot = id /\ e.stored = d.stored
    <2>1. \A e \in view.pending : e \in Deferred
      BY DEF Reconciling
    <2>2. \A e \in Deferred : LET d == [e EXCEPT !.net = granted]
                             IN  d.slot = e.slot /\ d.stored = e.stored /\ d.net = granted
      BY DEF Deferred
    <2>3. \A d \in view.pending : d.slot # id => d \in P
      OBVIOUS
    <2>4. ASSUME NEW d \in P
          PROVE  \/ d.slot # id /\ d \in view.pending
                 \/ /\ d.slot = id /\ d.net = granted
                    /\ \E e \in view.pending : e.slot = id /\ e.stored = d.stored
      <3>1. PICK e \in view.pending : d = IF e.slot = id THEN [e EXCEPT !.net = granted] ELSE e
        OBVIOUS
      <3> QED BY <2>1, <2>2, <3>1
    <2> QED BY <2>3, <2>4
  <1> HIDE DEF P
  <1>4. Rebase(view, id, granted).pending = P
    BY <1>2 DEF Reconciling
  <1> QED BY <1>1, <1>2, <1>3, <1>4 DEF Reconciling

\* An operation that lands on slot k.
LEMMA LandEffect ==
  ASSUME NEW view \in Reconciling, NEW op \in ContactOp, NEW cmd \in Command, NEW now \in Nat,
         NEW k, FirstNamed(view.slots, op.contact, k), ~view.stale
  PROVE  LET granted == Granted(cmd, op)
             after == Land(view, k, op, cmd, now, granted)
         IN  after \in Reconciling /\ Effect(view, after, op, cmd, now, granted)
  <1> DEFINE granted == Granted(cmd, op)
             after == Land(view, k, op, cmd, now, granted)
             slot == view.slots[k]
             based == Rebase(view, slot.id, granted)
             new == BindingFor(op, cmd, now, granted, slot.binding.registeredAt)
  <1>1. view.slots \in Seq(Slot) /\ k \in DOMAIN view.slots /\ slot \in Slot
    BY DEF FirstNamed, Reconciling
  <1>2. slot.binding \in Binding /\ slot.id \in Nat /\ slot.writtenHere \in BOOLEAN
    BY <1>1 DEF Slot
  <1>3. granted \in Nat /\ new \in Binding
    BY <1>2, BindingFields, GrantedType
  <1>4. /\ based \in Reconciling /\ based.slots = view.slots /\ based.changed = view.changed
        /\ based.stale = view.stale /\ based.nextId = view.nextId
        /\ \A d \in view.pending : d.slot # slot.id => d \in based.pending
        /\ \A d \in based.pending :
             \/ d.slot # slot.id /\ d \in view.pending
             \/ /\ d.slot = slot.id /\ d.net = granted
                /\ \E e \in view.pending : e.slot = slot.id /\ e.stored = d.stored
    <2> HIDE DEF granted, slot
    <2> QED BY <1>3, RebaseType
  <1>5. cmd.cseq \in Nat /\ slot.binding.cseq \in Nat
    BY <1>2, BindingFields DEF Command
  <1>6. Equivalent(slot.binding.contact, op.contact)
    BY DEF FirstNamed
  <1> HIDE DEF granted, after, slot, based, new
  <1>7. CASE Compared(slot, cmd) /\ cmd.cseq < slot.binding.cseq
    <2>0. cmd.cseq # slot.binding.cseq
      BY <1>5, <1>7
    <2>1. after = [view EXCEPT !.stale = TRUE]
      BY <1>7, <2>0, Zenon DEF Land, after, slot
    <2>2. after \in Reconciling /\ Halts(view, after, op, cmd)
      <3>1. Newer(slot, cmd)
        BY <1>5, <1>7 DEF Newer
      <3>2. after \in Reconciling /\ after.slots = view.slots
            /\ after.changed = view.changed /\ after.stale
        BY <2>1 DEF Reconciling
      <3> QED BY <1>1, <3>1, <3>2 DEF Halts, slot
    <2>3. Effect(view, after, op, cmd, now, granted)
      BY <2>2 DEF Effect, Halts
    <2> QED BY <2>2, <2>3 DEF granted, after
  <1>8. CASE Compared(slot, cmd) /\ cmd.cseq = slot.binding.cseq
    <2> DEFINE d == [slot |-> slot.id, stored |-> slot.binding, net |-> granted]
    <2>1. \/ after = based /\ AlreadyHolds(slot.binding, cmd, granted)
          \/ after = [based EXCEPT !.pending = @ \cup {d}]
      BY <1>5, <1>8 DEF Land, after, slot, based, granted
    <2>2. d \in Deferred /\ d.slot = slot.id /\ d.stored = slot.binding /\ d.net = granted
      BY <1>2, <1>3 DEF Deferred
    <2>3. /\ after \in Reconciling /\ after.slots = view.slots /\ after.changed = view.changed
          /\ after.stale = view.stale /\ after.nextId = view.nextId
          /\ \/ after.pending = based.pending /\ AlreadyHolds(slot.binding, cmd, granted)
             \/ after.pending = based.pending \cup {d}
      <3> HIDE DEF d
      <3> QED BY <1>4, <2>1, <2>2 DEF Reconciling
    <2>4. Decides(view, after, slot, granted)
      <3>1. ~slot.writtenHere
        BY <1>8 DEF Compared
      <3> HIDE DEF d
      <3> QED BY <1>4, <2>2, <2>3, <3>1 DEF Decides
    <2>5. AlreadyHolds(slot.binding, cmd, granted) \/ d \in after.pending
      BY <2>3
    <2>6. Defers(view, after, op, cmd, granted)
      BY <1>1, <1>5, <1>8, <2>3, <2>4, <2>5 DEF Defers, Repeated, slot
    <2>7. Effect(view, after, op, cmd, now, granted)
      BY <2>3, <2>6 DEF Effect
    <2> QED BY <2>3, <2>7 DEF granted, after
  <1>9. CASE ~ (Compared(slot, cmd) /\ cmd.cseq <= slot.binding.cseq)
    <2>1. ~Newer(slot, cmd) /\ ~Repeated(slot, cmd)
      BY <1>5, <1>9 DEF Newer, Repeated
    <2>2. CASE granted = 0
      <3>1. after = RemoveBinding(based, k)
        BY <1>5, <1>9, <2>2 DEF Land, after, slot, based, granted
      <3>2. after = [based EXCEPT !.slots = RemoveAt(view.slots, k), !.changed = TRUE]
        BY <1>4, <3>1 DEF RemoveBinding
      <3>3. RemoveAt(view.slots, k) \in Seq(Slot)
        BY <1>1, Removed
      <3>4. after \in Reconciling /\ after.slots = RemoveAt(view.slots, k) /\ after.changed
            /\ after.stale = view.stale /\ after.nextId = view.nextId
            /\ after.pending = based.pending
        BY <1>4, <3>2, <3>3 DEF Reconciling
      <3>5. Decides(view, after, slot, 0)
        BY <1>4, <2>2, <3>4 DEF Decides
      <3>6. Removes(view, after, op, cmd)
        BY <1>1, <2>1, <3>4, <3>5 DEF Removes, slot
      <3>7. Effect(view, after, op, cmd, now, granted)
        BY <2>2, <3>4, <3>6 DEF Effect
      <3> QED BY <3>4, <3>7 DEF granted, after
    <2>3. CASE granted # 0
      <3> DEFINE put == Written(op, cmd, now, granted, slot.binding.registeredAt, slot.id)
                 t == [view.slots EXCEPT ![k] = put]
      <3>1. after = ReplaceBinding(based, k, new)
        BY <1>5, <1>9, <2>3 DEF Land, after, slot, based, granted, new
      <3>2. put \in Slot /\ put = [binding |-> new, id |-> slot.id, writtenHere |-> TRUE]
        BY <1>2, <1>3 DEF Written, Slot, new
      <3>3. [slot EXCEPT !.binding = new, !.writtenHere = TRUE] = put
        <4> DEFINE r == [slot EXCEPT !.binding = new, !.writtenHere = TRUE]
        <4>1. r \in Slot /\ r.binding = new /\ r.id = slot.id /\ r.writtenHere = TRUE
          BY <1>1, <1>3, Zenon DEF Slot
        <4> HIDE DEF put, r
        <4>2. r = [binding |-> r.binding, id |-> r.id, writtenHere |-> r.writtenHere]
          BY <4>1 DEF Slot
        <4>3. r = put
          BY <3>2, <4>1, <4>2
        <4> QED BY <4>3 DEF r
      <3>4. t \in Seq(Slot)
        <4> HIDE DEF put
        <4> QED BY <1>1, <3>2
      <3>5. after = [based EXCEPT !.slots = t, !.changed = TRUE]
        <4>1. ReplaceBinding(based, k, new)
                = [based EXCEPT !.slots[k] = [@ EXCEPT !.binding = new, !.writtenHere = TRUE],
                                !.changed = TRUE]
          BY DEF ReplaceBinding
        <4>2. @ = [based EXCEPT !.slots = [based.slots EXCEPT ![k]
                                   = [based.slots[k] EXCEPT !.binding = new, !.writtenHere = TRUE]],
                                !.changed = TRUE]
          BY Zenon
        <4> HIDE DEF put
        <4> QED BY <1>4, <3>1, <3>3, <4>1, <4>2, Zenon DEF slot
      <3> HIDE DEF put, t
      <3>6. after \in Reconciling /\ after.slots = t /\ after.changed
            /\ after.stale = view.stale /\ after.nextId = view.nextId
            /\ after.pending = based.pending
        BY <1>4, <3>4, <3>5 DEF Reconciling
      <3>7. Decides(view, after, slot, granted)
        BY <1>4, <3>6 DEF Decides
      <3>8. Replaces(view, after, op, cmd, now, granted)
        BY <1>1, <2>1, <3>6, <3>7 DEF Replaces, slot, put, t
      <3>9. Effect(view, after, op, cmd, now, granted)
        BY <2>3, <3>6, <3>8 DEF Effect
      <3> QED BY <3>6, <3>9 DEF granted, after
    <2> QED BY <2>2, <2>3
  <1> QED BY <1>5, <1>7, <1>8, <1>9

\* Any operation.
LEMMA OpEffect ==
  ASSUME NEW view \in Reconciling, NEW op \in ContactOp, NEW cmd \in Command, NEW now \in Nat
  PROVE  LET after == ApplyOp(view, op, cmd, now)
         IN  after \in Reconciling /\ Effect(view, after, op, cmd, now, Granted(cmd, op))
  <1> DEFINE granted == Granted(cmd, op)
             after == ApplyOp(view, op, cmd, now)
             k == Find(view, op.contact)
             put == Written(op, cmd, now, granted, now, view.nextId)
             p == Place(view.slots, put.binding)
  <1>0. granted \in Nat
    BY GrantedType, 0 \in Nat
  <1>1. CASE view.stale
    <2>1. after = view
      BY <1>1 DEF ApplyOp
    <2> HIDE DEF after, granted
    <2>2. Effect(view, after, op, cmd, now, granted)
      BY <1>1, <2>1 DEF Effect, Halts
    <2> QED BY <2>1, <2>2 DEF after, granted
  <1>2. CASE ~view.stale /\ k # 0
    <2>1. FirstNamed(view.slots, op.contact, k)
      BY <1>2, FindsFirst
    <2>2. after = Land(view, k, op, cmd, now, granted)
      BY <1>2 DEF ApplyOp
    <2> HIDE DEF k
    <2> QED BY <1>2, <2>1, <2>2, LandEffect
  <1>3. CASE ~view.stale /\ k = 0 /\ granted = 0
    <2>1. after = view
      BY <1>3 DEF ApplyOp
    <2>u. Unnamed(view.slots, op.contact)
      BY <1>3, FindsFirst DEF Unnamed
    <2> HIDE DEF after, granted
    <2>2. Effect(view, after, op, cmd, now, granted)
      BY <1>3, <2>1, <2>u DEF Effect, Passes
    <2> QED BY <2>1, <2>2 DEF after, granted
  <1>4. CASE ~view.stale /\ k = 0 /\ granted # 0
    <2>1. Unnamed(view.slots, op.contact)
      BY <1>4, FindsFirst DEF Unnamed
    <2>2. view.slots \in Seq(Slot) /\ view.nextId \in Nat
      BY DEF Reconciling
    <2>3. /\ put \in Slot /\ put.binding = BindingFor(op, cmd, now, granted, now)
          /\ put = [binding |-> put.binding, id |-> view.nextId, writtenHere |-> TRUE]
      BY <2>2, GrantedType DEF Written, Slot
    <2>4. p \in 0..Len(view.slots)
      <3> HIDE DEF put
      <3> QED BY <2>2, PlaceWithin
    <2>5. InsertBinding(view, put.binding)
            = [view EXCEPT !.slots = InsertAt(@, p + 1, put), !.nextId = @ + 1,
                           !.changed = TRUE]
      <3>1. InsertBinding(view, put.binding)
              = [view EXCEPT !.slots = InsertAt(@, p + 1, [binding |-> put.binding,
                               id |-> view.nextId, writtenHere |-> TRUE]),
                             !.nextId = @ + 1, !.changed = TRUE]
        <4> HIDE DEF put
        <4> QED BY DEF InsertBinding, Place
      <3> HIDE DEF put, p
      <3> QED BY <2>3, <3>1
    <2>6. after = InsertBinding(view, put.binding)
      BY <1>4, <2>3 DEF ApplyOp
    <2>7. InsertAt(view.slots, p + 1, put) \in Seq(Slot)
      <3> HIDE DEF put, p
      <3> QED BY <2>2, <2>3, <2>4, Inserted
    <2> HIDE DEF after, put, p
    <2> DEFINE t == InsertAt(view.slots, p + 1, put)
    <2>8. after = [view EXCEPT !.slots = t, !.nextId = @ + 1, !.changed = TRUE]
      BY <2>5, <2>6
    <2> HIDE DEF t
    <2>9. after \in Reconciling /\ after.slots = t /\ after.changed
          /\ after.stale = view.stale /\ after.nextId = view.nextId + 1
          /\ after.pending = view.pending
      <3>1. t \in Seq(Slot) /\ view.nextId + 1 \in Nat
        BY <2>2, <2>7 DEF t
      <3> QED BY <2>8, <3>1, Zenon DEF Reconciling
    <2>10. Inserts(view, after, op, cmd, now, granted)
      BY <2>1, <2>4, <2>9 DEF Inserts, put, t
    <2>11. Effect(view, after, op, cmd, now, granted)
      BY <1>4, <2>9, <2>10 DEF Effect
    <2> QED BY <2>9, <2>11 DEF granted, after
  <1> QED BY <1>1, <1>2, <1>3, <1>4

-----------------------------------------------------------------------------
(* What holds of every view on the way *)

\* Of two bindings that compare as equivalent, the later one is ambiguous.
FirstOfItsKind(set) ==
    \A i, j \in DOMAIN set :
      i < j /\ Equivalent(set[i].contact, set[j].contact) => Ambiguous(set[j].contact)

KindsApart(slots) ==
    \A i, j \in DOMAIN slots :
      i < j /\ Equivalent(slots[i].binding.contact, slots[j].binding.contact) =>
        Ambiguous(slots[j].binding.contact)

\* No slot has expired.
Live(slots, now) == \A m \in DOMAIN slots : IsActive(slots[m].binding, now)

\* A written slot carries the request's ordering token, any other is one of the set's.
Origins(slots, cmd, kept) ==
    \A m \in DOMAIN slots :
      IF slots[m].writtenHere
        THEN slots[m].binding.callId = cmd.callId /\ slots[m].binding.cseq = cmd.cseq
        ELSE \E i \in DOMAIN kept : slots[m].binding = kept[i]

\* A binding of the request's Call-ID with a later CSeq is still where it was.
Survivors(slots, cmd, kept) ==
    \A i \in DOMAIN kept : kept[i].callId = cmd.callId /\ kept[i].cseq > cmd.cseq =>
      \E m \in DOMAIN slots : slots[m].binding = kept[i] /\ ~slots[m].writtenHere

Untouched(slots, kept) ==
    Len(slots) = Len(kept) /\ \A m \in DOMAIN slots : slots[m].binding = kept[m]

Good(view, cmd, now, kept) ==
    /\ view \in Reconciling
    /\ Live(view.slots, now)
    /\ KindsApart(view.slots)
    /\ Origins(view.slots, cmd, kept)
    /\ ~view.changed => Untouched(view.slots, kept)
    /\ ~view.stale => Survivors(view.slots, cmd, kept)

\* The view reconciliation starts from.
LEMMA GoodStart ==
  ASSUME NEW kept \in Seq(Binding), NEW cmd, NEW now, FirstOfItsKind(kept),
         \A k \in DOMAIN kept : IsActive(kept[k], now)
  PROVE  Good(View(kept), cmd, now, kept)
  <1> DEFINE v == View(kept)
             s == [k \in DOMAIN kept |-> [binding |-> kept[k], id |-> k, writtenHere |-> FALSE]]
  <1>1. /\ v.slots = s /\ v.changed = FALSE /\ v.stale = FALSE
        /\ v.pending = {} /\ v.nextId = Len(kept) + 1
        /\ v = [slots |-> s, nextId |-> Len(kept) + 1, changed |-> FALSE, pending |-> {},
                stale |-> FALSE]
    BY DEF View
  <1>2. /\ DOMAIN kept = 1..Len(kept) /\ Len(kept) \in Nat
        /\ \A k \in DOMAIN kept : kept[k] \in Binding /\ k \in Nat
    OBVIOUS
  <1>3. /\ s \in Seq(Slot) /\ DOMAIN s = DOMAIN kept /\ Len(s) = Len(kept)
        /\ \A k \in DOMAIN s : s[k].binding = kept[k] /\ s[k].writtenHere = FALSE
    <2>1. \A k \in DOMAIN kept : s[k] \in Slot /\ s[k].binding = kept[k]
                                 /\ s[k].writtenHere = FALSE
      BY <1>2 DEF Slot
    <2>2. DOMAIN s = 1..Len(kept) /\ s = [k \in 1..Len(kept) |-> s[k]]
      BY <1>2
    <2> HIDE DEF s
    <2>3. s \in [1..Len(kept) -> Slot]
      BY <1>2, <2>1, <2>2
    <2> QED BY <1>2, <2>1, <2>3
  <1> HIDE DEF s, v
  <1>4. v \in Reconciling
    <2>1. v.nextId \in Nat
      BY <1>1, <1>2
    <2> QED BY <1>1, <1>3, <2>1, {} \in SUBSET Deferred DEF Reconciling
  <1>5. Live(s, now) /\ KindsApart(s) /\ Origins(s, cmd, kept) /\ Untouched(s, kept)
    <2>1. KindsApart(s)
      BY <1>3 DEF KindsApart, FirstOfItsKind
    <2>2. Live(s, now) /\ Origins(s, cmd, kept)
      BY <1>3 DEF Live, Origins
    <2>3. Untouched(s, kept)
      BY <1>3 DEF Untouched
    <2> QED BY <2>1, <2>2, <2>3
  <1>6. Survivors(s, cmd, kept)
    BY <1>3 DEF Survivors
  <1> QED BY <1>1, <1>4, <1>5, <1>6 DEF Good, v

\* Equivalence is symmetric, and where it meets two contacts it keeps apart it is ambiguous.
LEMMA EquivalenceFacts ==
  ASSUME NEW a \in Contacts, NEW b \in Contacts, NEW c \in Contacts
  PROVE  /\ Equivalent(a, b) <=> Equivalent(b, a)
         /\ Equivalent(a, b) /\ Equivalent(b, c) /\ ~Equivalent(a, c) => Ambiguous(a)
  BY DEF Equivalent, Ambiguous

\* The written slot is live and carries the request's token.
LEMMA WrittenFacts ==
  ASSUME NEW op \in ContactOp, NEW cmd \in Command, NEW now \in Nat, NEW since \in Nat,
         NEW id \in Nat, Granted(cmd, op) # 0
  PROVE  LET put == Written(op, cmd, now, Granted(cmd, op), since, id)
         IN  /\ put \in Slot /\ put.writtenHere
             /\ IsActive(put.binding, now)
             /\ put.binding.contact = op.contact /\ op.contact \in Contacts
             /\ put.binding.callId = cmd.callId /\ put.binding.cseq = cmd.cseq
  <1>1. /\ Granted(cmd, op) \in Nat
        /\ BindingFor(op, cmd, now, Granted(cmd, op), since) \in Binding
    BY GrantedType
  <1>2. Written(op, cmd, now, Granted(cmd, op), since, id) \in Slot
    BY <1>1 DEF Written, Slot
  <1>3. now + Granted(cmd, op) > now
    BY <1>1
  <1> QED BY <1>2, <1>3 DEF Written, BindingFor, IsActive, ContactOp

\* A view's slots, seen one by one.
LEMMA SlotFacts ==
  ASSUME NEW s \in Seq(Slot)
  PROVE  /\ Len(s) \in Nat /\ DOMAIN s = 1..Len(s)
         /\ \A m \in DOMAIN s : s[m] \in Slot /\ s[m].binding \in Binding
                                /\ s[m].binding.contact \in Contacts
                                /\ s[m].binding.registeredAt \in Nat /\ s[m].id \in Nat
  <1>1. Len(s) \in Nat /\ DOMAIN s = 1..Len(s) /\ \A m \in DOMAIN s : s[m] \in Slot
    OBVIOUS
  <1>2. \A x \in Slot : x.binding \in Binding /\ x.id \in Nat
    BY DEF Slot
  <1> QED BY <1>1, <1>2, BindingFields

\* Taking out a slot the request may overwrite.
LEMMA RemovesGood ==
  ASSUME NEW s \in Seq(Slot), NEW cmd, NEW now, NEW kept, NEW k \in DOMAIN s,
         ~Newer(s[k], cmd), Live(s, now), KindsApart(s), Origins(s, cmd, kept)
  PROVE  LET t == RemoveAt(s, k)
         IN  /\ Live(t, now) /\ KindsApart(t) /\ Origins(t, cmd, kept)
             /\ Survivors(s, cmd, kept) => Survivors(t, cmd, kept)
  <1> DEFINE n == Len(s)
             t == RemoveAt(s, k)
             was == [i \in 1..(n - 1) |-> IF i < k THEN i ELSE i + 1]
  <1>1. n \in Nat /\ DOMAIN s = 1..n /\ k \in 1..n
    BY SlotFacts
  <1>2. t \in Seq(Slot) /\ Len(t) = n - 1
        /\ \A i \in 1..(n - 1) : t[i] = IF i < k THEN s[i] ELSE s[i + 1]
    BY Removed
  <1> HIDE DEF t, n
  <1>3. DOMAIN t = 1..(n - 1) /\ DOMAIN was = 1..(n - 1)
    BY <1>1, <1>2
  <1>4. /\ \A i \in DOMAIN t : was[i] \in DOMAIN s /\ t[i] = s[was[i]]
        /\ \A i, j \in DOMAIN t : i < j => was[i] < was[j]
        /\ \A m \in DOMAIN s : m # k => \E i \in DOMAIN t : was[i] = m
    <2>1. \A i \in 1..(n - 1) : was[i] \in 1..n /\ t[i] = s[was[i]]
      BY <1>1, <1>2
    <2>2. \A i, j \in 1..(n - 1) : i < j => was[i] < was[j]
      BY <1>1
    <2>3. ASSUME NEW m \in 1..n, m # k PROVE \E i \in 1..(n - 1) : was[i] = m
      <3>1. CASE m < k
        <4>1. m \in 1..(n - 1) /\ was[m] = m
          BY <1>1, <3>1
        <4> QED BY <4>1
      <3>2. CASE m > k
        <4>1. m - 1 \in 1..(n - 1) /\ was[m - 1] = m
          BY <1>1, <3>2
        <4> QED BY <4>1
      <3> QED BY <1>1, <2>3, <3>1, <3>2
    <2> QED BY <1>1, <1>3, <2>1, <2>2, <2>3
  <1> HIDE DEF was
  <1>5. Live(t, now)
    BY <1>4 DEF Live
  <1>6. KindsApart(t)
    BY <1>4 DEF KindsApart
  <1>7. Origins(t, cmd, kept)
    BY <1>4 DEF Origins
  <1>8. ASSUME Survivors(s, cmd, kept) PROVE Survivors(t, cmd, kept)
    <2> SUFFICES ASSUME NEW i \in DOMAIN kept,
                        kept[i].callId = cmd.callId, kept[i].cseq > cmd.cseq
                 PROVE  \E m \in DOMAIN t : t[m].binding = kept[i] /\ ~t[m].writtenHere
      BY DEF Survivors
    <2>1. PICK m \in DOMAIN s : s[m].binding = kept[i] /\ ~s[m].writtenHere
      BY <1>8 DEF Survivors
    <2>2. m # k
      BY <2>1 DEF Newer, Compared
    <2> QED BY <1>4, <2>1, <2>2
  <1> QED BY <1>5, <1>6, <1>7, <1>8 DEF t

\* Writing over the first slot the contact names.
LEMMA ReplacesGood ==
  ASSUME NEW s \in Seq(Slot), NEW cmd, NEW now, NEW kept, NEW contact \in Contacts, NEW k,
         FirstNamed(s, contact, k), ~Newer(s[k], cmd), Live(s, now), KindsApart(s),
         Origins(s, cmd, kept), NEW put \in Slot, put.writtenHere, IsActive(put.binding, now),
         put.binding.contact = contact, put.binding.callId = cmd.callId,
         put.binding.cseq = cmd.cseq
  PROVE  LET t == [s EXCEPT ![k] = put]
         IN  /\ Live(t, now) /\ KindsApart(t) /\ Origins(t, cmd, kept)
             /\ Survivors(s, cmd, kept) => Survivors(t, cmd, kept)
  <1> DEFINE t == [s EXCEPT ![k] = put]
  <1>1. k \in DOMAIN s /\ DOMAIN s \subseteq Nat /\ DOMAIN t = DOMAIN s /\ t[k] = put
        /\ \A m \in DOMAIN s : m # k => t[m] = s[m]
    BY SlotFacts DEF FirstNamed
  <1> HIDE DEF t
  <1>2. Live(t, now)
    BY <1>1 DEF Live
  <1>3. Origins(t, cmd, kept)
    BY <1>1 DEF Origins
  <1>4. KindsApart(t)
    <2> SUFFICES ASSUME NEW i \in DOMAIN t, NEW j \in DOMAIN t, i < j,
                        Equivalent(t[i].binding.contact, t[j].binding.contact)
                 PROVE  Ambiguous(t[j].binding.contact)
      BY DEF KindsApart
    <2>0. /\ s[i].binding.contact \in Contacts /\ s[j].binding.contact \in Contacts
          /\ s[k].binding.contact \in Contacts
      BY <1>1, SlotFacts
    <2>1. CASE i # k /\ j # k
      BY <1>1, <2>1 DEF KindsApart
    <2>2. CASE j = k
      <3>1. Equivalent(s[i].binding.contact, contact) /\ i < k /\ i \in DOMAIN s
        BY <1>1, <2>2
      <3> QED BY <3>1 DEF FirstNamed
    <2>3. CASE i = k
      <3>1. j # k /\ j \in DOMAIN s /\ k < j
        BY <1>1, <2>3
      <3>2. Equivalent(contact, s[j].binding.contact) /\ t[j] = s[j]
        BY <1>1, <2>3, <3>1
      <3>3. Equivalent(s[k].binding.contact, contact)
        BY DEF FirstNamed
      <3>4. CASE Equivalent(s[k].binding.contact, s[j].binding.contact)
        BY <1>1, <3>1, <3>2, <3>4 DEF KindsApart
      <3>5. CASE ~Equivalent(s[k].binding.contact, s[j].binding.contact)
        BY <2>0, <3>2, <3>3, <3>5, EquivalenceFacts
      <3> QED BY <3>4, <3>5
    <2> QED BY <2>1, <2>2, <2>3
  <1>5. ASSUME Survivors(s, cmd, kept) PROVE Survivors(t, cmd, kept)
    <2> SUFFICES ASSUME NEW i \in DOMAIN kept,
                        kept[i].callId = cmd.callId, kept[i].cseq > cmd.cseq
                 PROVE  \E m \in DOMAIN t : t[m].binding = kept[i] /\ ~t[m].writtenHere
      BY DEF Survivors
    <2>1. PICK m \in DOMAIN s : s[m].binding = kept[i] /\ ~s[m].writtenHere
      BY <1>5 DEF Survivors
    <2>2. m # k
      BY <2>1 DEF Newer, Compared
    <2> QED BY <1>1, <2>1, <2>2
  <1> QED BY <1>2, <1>3, <1>4, <1>5 DEF t

\* Adding a slot for a contact that named none.
LEMMA InsertsGood ==
  ASSUME NEW s \in Seq(Slot), NEW cmd, NEW now, NEW kept, NEW contact \in Contacts,
         NEW p \in 0..Len(s),
         \A m \in DOMAIN s : ~Equivalent(s[m].binding.contact, contact),
         Live(s, now), KindsApart(s), Origins(s, cmd, kept),
         NEW put \in Slot, put.writtenHere, IsActive(put.binding, now),
         put.binding.contact = contact, put.binding.callId = cmd.callId,
         put.binding.cseq = cmd.cseq
  PROVE  LET t == InsertAt(s, p + 1, put)
         IN  /\ Live(t, now) /\ KindsApart(t) /\ Origins(t, cmd, kept)
             /\ Survivors(s, cmd, kept) => Survivors(t, cmd, kept)
  <1> DEFINE n == Len(s)
             t == InsertAt(s, p + 1, put)
             was == [i \in 1..(n + 1) |-> IF i <= p THEN i ELSE i - 1]
  <1>1. n \in Nat /\ DOMAIN s = 1..n /\ p \in 0..n
    BY SlotFacts
  <1>2. t \in Seq(Slot) /\ Len(t) = n + 1
        /\ \A i \in 1..(n + 1) :
             t[i] = IF i <= p THEN s[i] ELSE IF i = p + 1 THEN put ELSE s[i - 1]
    BY Inserted
  <1> HIDE DEF t, n
  <1>3. DOMAIN t = 1..(n + 1) /\ p + 1 \in DOMAIN t /\ t[p + 1] = put
    BY <1>1, <1>2
  <1>4. /\ \A i \in DOMAIN t : i # p + 1 => was[i] \in DOMAIN s /\ t[i] = s[was[i]]
        /\ \A i, j \in DOMAIN t : i < j /\ i # p + 1 /\ j # p + 1 => was[i] < was[j]
        /\ \A m \in DOMAIN s : \E i \in DOMAIN t : i # p + 1 /\ was[i] = m
    <2>1. \A i \in 1..(n + 1) : i # p + 1 => was[i] \in 1..n /\ t[i] = s[was[i]]
      BY <1>1, <1>2
    <2>2. \A i, j \in 1..(n + 1) : i < j /\ i # p + 1 /\ j # p + 1 => was[i] < was[j]
      BY <1>1
    <2>3. ASSUME NEW m \in 1..n PROVE \E i \in 1..(n + 1) : i # p + 1 /\ was[i] = m
      <3>1. CASE m <= p
        <4>1. m \in 1..(n + 1) /\ was[m] = m /\ m # p + 1
          BY <1>1, <3>1
        <4> QED BY <4>1
      <3>2. CASE m > p
        <4>1. m + 1 \in 1..(n + 1) /\ was[m + 1] = m /\ m + 1 # p + 1
          BY <1>1, <3>2
        <4> QED BY <4>1
      <3> QED BY <1>1, <3>1, <3>2
    <2> QED BY <1>1, <1>3, <2>1, <2>2, <2>3
  <1> HIDE DEF was
  <1>5. Live(t, now)
    BY <1>3, <1>4 DEF Live
  <1>6. Origins(t, cmd, kept)
    BY <1>3, <1>4, SMTT(40) DEF Origins
  <1>7. KindsApart(t)
    <2> SUFFICES ASSUME NEW i \in DOMAIN t, NEW j \in DOMAIN t, i < j,
                        Equivalent(t[i].binding.contact, t[j].binding.contact)
                 PROVE  Ambiguous(t[j].binding.contact)
      BY DEF KindsApart
    <2>1. CASE i # p + 1 /\ j # p + 1
      BY <1>4, <2>1 DEF KindsApart
    <2>2. CASE j = p + 1
      <3>1. i # p + 1
        BY <1>1, <1>3, <2>2
      <3> QED BY <1>3, <1>4, <2>2, <3>1
    <2>3. CASE i = p + 1
      <3>1. j # p + 1
        BY <1>1, <1>3, <2>3
      <3>2. Equivalent(contact, s[was[j]].binding.contact) /\ was[j] \in DOMAIN s
        BY <1>3, <1>4, <2>3, <3>1
      <3> QED BY <3>2, SlotFacts, EquivalenceFacts
    <2> QED BY <2>1, <2>2, <2>3
  <1>8. ASSUME Survivors(s, cmd, kept) PROVE Survivors(t, cmd, kept)
    <2> SUFFICES ASSUME NEW i \in DOMAIN kept,
                        kept[i].callId = cmd.callId, kept[i].cseq > cmd.cseq
                 PROVE  \E m \in DOMAIN t : t[m].binding = kept[i] /\ ~t[m].writtenHere
      BY DEF Survivors
    <2>1. PICK m \in DOMAIN s : s[m].binding = kept[i] /\ ~s[m].writtenHere
      BY <1>8 DEF Survivors
    <2> QED BY <1>4, <2>1
  <1> QED BY <1>5, <1>6, <1>7, <1>8 DEF t

\* Every operation keeps a view good.
LEMMA OpKeepsGood ==
  ASSUME NEW kept, NEW cmd \in Command, NEW now \in Nat, NEW op \in ContactOp, NEW view,
         Good(view, cmd, now, kept)
  PROVE  Good(ApplyOp(view, op, cmd, now), cmd, now, kept)
  <1> DEFINE after == ApplyOp(view, op, cmd, now)
             granted == Granted(cmd, op)
  <1>1. view \in Reconciling /\ view.slots \in Seq(Slot) /\ view.nextId \in Nat
    BY DEF Good, Reconciling
  <1>2. after \in Reconciling /\ Effect(view, after, op, cmd, now, granted)
    BY <1>1, OpEffect
  <1>3. op.contact \in Contacts
    BY DEF ContactOp
  <1> HIDE DEF after
  <1> SUFFICES Good(after, cmd, now, kept)
    BY DEF after
  <1>4. CASE \/ Halts(view, after, op, cmd) \/ Passes(view, after, op)
             \/ Defers(view, after, op, cmd, granted)
    <2>1. after.slots = view.slots /\ after.changed = view.changed
      BY <1>4 DEF Halts, Passes, Defers
    <2> QED BY <1>2, <2>1 DEF Good, Effect
  <1> DEFINE Kept == /\ Live(after.slots, now) /\ KindsApart(after.slots)
                     /\ Origins(after.slots, cmd, kept)
                     /\ Survivors(view.slots, cmd, kept) => Survivors(after.slots, cmd, kept)
  <1>5. CASE /\ ~view.stale /\ ~after.stale /\ after.changed
             /\ Removes(view, after, op, cmd)
    <2>1. PICK k \in DOMAIN view.slots :
            ~Newer(view.slots[k], cmd) /\ after.slots = RemoveAt(view.slots, k)
      BY <1>5 DEF Removes
    <2>2. Kept
      BY <1>1, <2>1, RemovesGood DEF Good
    <2> QED BY <1>2, <1>5, <2>2 DEF Good
  <1>6. CASE /\ ~view.stale /\ ~after.stale /\ after.changed
             /\ granted # 0 /\ Replaces(view, after, op, cmd, now, granted)
    <2>1. PICK k \in DOMAIN view.slots :
            /\ FirstNamed(view.slots, op.contact, k) /\ ~Newer(view.slots[k], cmd)
            /\ after.slots =
                 [view.slots EXCEPT ![k] = Written(op, cmd, now, granted,
                    view.slots[k].binding.registeredAt, view.slots[k].id)]
      BY <1>6 DEF Replaces
    <2> DEFINE put == Written(op, cmd, now, granted, view.slots[k].binding.registeredAt,
                              view.slots[k].id)
    <2>s. view.slots[k].binding.registeredAt \in Nat /\ view.slots[k].id \in Nat
      BY <1>1, SlotFacts
    <2>2. /\ put \in Slot /\ put.writtenHere /\ IsActive(put.binding, now)
          /\ put.binding.contact = op.contact
          /\ put.binding.callId = cmd.callId /\ put.binding.cseq = cmd.cseq
      <3> DEFINE since == view.slots[k].binding.registeredAt
                 id == view.slots[k].id
      <3>1. granted # 0 /\ since \in Nat /\ id \in Nat
        BY <1>6, <2>s
      <3> HIDE DEF since, id
      <3>2. LET w == Written(op, cmd, now, Granted(cmd, op), since, id)
            IN  /\ w \in Slot /\ w.writtenHere /\ IsActive(w.binding, now)
                /\ w.binding.contact = op.contact
                /\ w.binding.callId = cmd.callId /\ w.binding.cseq = cmd.cseq
        BY <3>1, WrittenFacts
      <3> QED BY <3>2 DEF since, id
    <2> HIDE DEF put
    <2>3. after.slots = [view.slots EXCEPT ![k] = put]
      BY <2>1 DEF put
    <2>4. Kept
      <3>1. /\ Live(view.slots, now) /\ KindsApart(view.slots)
            /\ Origins(view.slots, cmd, kept)
        BY DEF Good
      <3>2. FirstNamed(view.slots, op.contact, k) /\ ~Newer(view.slots[k], cmd)
        BY <2>1
      <3> DEFINE s == view.slots
                 t == [s EXCEPT ![k] = put]
      <3>3. s \in Seq(Slot) /\ FirstNamed(s, op.contact, k) /\ ~Newer(s[k], cmd)
            /\ Live(s, now) /\ KindsApart(s) /\ Origins(s, cmd, kept)
        BY <1>1, <3>1, <3>2
      <3> HIDE DEF granted, s
      <3>4. /\ Live(t, now) /\ KindsApart(t) /\ Origins(t, cmd, kept)
            /\ Survivors(s, cmd, kept) => Survivors(t, cmd, kept)
        BY <1>3, <2>2, <3>3, ReplacesGood
      <3> QED BY <2>3, <3>4 DEF s
    <2> QED BY <1>2, <1>6, <2>4 DEF Good
  <1>7. CASE /\ ~view.stale /\ ~after.stale /\ after.changed
             /\ granted # 0 /\ Inserts(view, after, op, cmd, now, granted)
    <2> DEFINE put == Written(op, cmd, now, granted, now, view.nextId)
    <2>1. PICK p \in 0..Len(view.slots) : after.slots = InsertAt(view.slots, p + 1, put)
      BY <1>7 DEF Inserts
    <2>2. /\ put \in Slot /\ put.writtenHere /\ IsActive(put.binding, now)
          /\ put.binding.contact = op.contact
          /\ put.binding.callId = cmd.callId /\ put.binding.cseq = cmd.cseq
      BY <1>1, <1>7, WrittenFacts, SMTT(40)
    <2> HIDE DEF put
    <2>3. \A m \in DOMAIN view.slots : ~Equivalent(view.slots[m].binding.contact, op.contact)
      BY <1>7 DEF Inserts, Unnamed
    <2>4. Kept
      BY <1>1, <1>3, <2>1, <2>2, <2>3, InsertsGood DEF Good
    <2> QED BY <1>2, <1>7, <2>4 DEF Good
  <1> QED
    <2> HIDE DEF Kept, granted
    <2> QED BY <1>2, <1>4, <1>5, <1>6, <1>7 DEF Effect

-----------------------------------------------------------------------------
(* The decision *)

\* Expiry leaves no two bindings of a kind that were not there before.
LEMMA ActiveApart ==
  ASSUME NEW set \in Seq(Binding), NEW now, FirstOfItsKind(set)
  PROVE  FirstOfItsKind(Active(set, now))
  <1> DEFINE n == ActiveCount(set, now)
             kept == Active(set, now)
  <1>1. PICK at : Keeps(at, set, now)
    BY ActiveKeeps
  <1>2. /\ n \in Nat /\ at \in [1..n -> ActivePlaces(set, now)]
        /\ kept = [r \in 1..n |-> set[at[r]]]
        /\ \A r, t \in 1..n : r < t => at[r] < at[t]
    BY <1>1 DEF Keeps
  <1>3. \A r \in 1..n : at[r] \in DOMAIN set
    BY <1>2 DEF ActivePlaces
  <1> HIDE DEF n, kept
  <1>4. FirstOfItsKind(kept)
    BY <1>2, <1>3 DEF FirstOfItsKind
  <1> QED BY <1>4 DEF kept

\* A view's bindings are a set, apart and active where its slots are.
LEMMA BindingsOfFacts ==
  ASSUME NEW view, NEW cmd, NEW now, NEW kept, Good(view, cmd, now, kept)
  PROVE  /\ BindingsOf(view) \in Seq(Binding)
         /\ DOMAIN BindingsOf(view) = DOMAIN view.slots
         /\ \A m \in DOMAIN view.slots : BindingsOf(view)[m] = view.slots[m].binding
         /\ FirstOfItsKind(BindingsOf(view))
  <1> DEFINE s == view.slots
             set == BindingsOf(view)
  <1>1. s \in Seq(Slot)
    BY DEF Good, Reconciling
  <1>2. Len(s) \in Nat /\ DOMAIN s = 1..Len(s) /\ \A m \in DOMAIN s : s[m].binding \in Binding
    BY <1>1, SlotFacts
  <1>3. set = [m \in DOMAIN s |-> s[m].binding]
    BY DEF BindingsOf
  <1>k. KindsApart(s)
    BY DEF Good
  <1> HIDE DEF set, s
  <1>4. set \in [1..Len(s) -> Binding]
    BY <1>2, <1>3
  <1>5. set \in Seq(Binding)
    BY <1>2, <1>4
  <1>6. FirstOfItsKind(set)
    BY <1>3, <1>k DEF FirstOfItsKind, KindsApart
  <1> QED BY <1>3, <1>5, <1>6 DEF set, s

\* Reconciling a live set: the outcome is good, and the last operation made it so.
LEMMA ReconcileGood ==
  ASSUME NEW kept \in Seq(Binding), NEW cmd \in Command, NEW now \in Nat,
         FirstOfItsKind(kept), \A k \in DOMAIN kept : IsActive(kept[k], now)
  PROVE  /\ Good(Reconcile(cmd, now, kept), cmd, now, kept)
         /\ cmd.ops # <<>> =>
              \E v : /\ Good(v, cmd, now, kept)
                     /\ Reconcile(cmd, now, kept) = ApplyOp(v, cmd.ops[Len(cmd.ops)], cmd, now)
  <1> DEFINE V == {v \in Reconciling : Good(v, cmd, now, kept)}
  <1>1. cmd.ops \in Seq(ContactOp)
    BY DEF Command
  <1>2. View(kept) \in V
    BY GoodStart DEF Good
  <1>3. \A v \in V, i \in 1..Len(cmd.ops) : ApplyOp(v, cmd.ops[i], cmd, now) \in V
    <2> SUFFICES ASSUME NEW v, Good(v, cmd, now, kept), NEW i \in 1..Len(cmd.ops)
                 PROVE  Good(ApplyOp(v, cmd.ops[i], cmd, now), cmd, now, kept)
      BY DEF Good
    <2>1. cmd.ops[i] \in ContactOp
      BY <1>1
    <2> QED BY <2>1, OpKeepsGood
  <1>4. \A v \in V : Good(v, cmd, now, kept)
    OBVIOUS
  <1> HIDE DEF V
  <1> QED BY <1>1, <1>2, <1>3, <1>4, ReconcileFolds

\* An operation that was granted a lifetime leaves a binding its contact names.
LEMMA OpIsHeard ==
  ASSUME NEW v \in Reconciling, NEW op \in ContactOp, NEW cmd \in Command, NEW now \in Nat,
         Granted(cmd, op) > 0, ~ApplyOp(v, op, cmd, now).stale
  PROVE  LET after == ApplyOp(v, op, cmd, now)
         IN  \E m \in DOMAIN after.slots : Equivalent(after.slots[m].binding.contact, op.contact)
  <1> DEFINE after == ApplyOp(v, op, cmd, now)
             granted == Granted(cmd, op)
  <1>1. Effect(v, after, op, cmd, now, granted) /\ ~after.stale /\ granted # 0
    BY OpEffect, GrantedType
  <1>2. v.slots \in Seq(Slot) /\ v.nextId \in Nat /\ op.contact \in Contacts
    BY DEF Reconciling, ContactOp
  <1> HIDE DEF after, granted
  <1> SUFFICES \E m \in DOMAIN after.slots :
                 Equivalent(after.slots[m].binding.contact, op.contact)
    BY DEF after
  <1>3. CASE Halts(v, after, op, cmd) \/ Defers(v, after, op, cmd, granted)
    BY <1>1, <1>3 DEF Halts, Defers, FirstNamed
  <1>4. CASE Replaces(v, after, op, cmd, now, granted)
    <2>1. PICK k \in DOMAIN v.slots :
            after.slots = [v.slots EXCEPT ![k] = Written(op, cmd, now, granted,
                             v.slots[k].binding.registeredAt, v.slots[k].id)]
      BY <1>4 DEF Replaces
    <2>2. k \in DOMAIN after.slots /\ after.slots[k].binding.contact = op.contact
      BY <2>1 DEF Written, BindingFor
    <2> QED BY <2>2 DEF Equivalent
  <1>5. CASE Inserts(v, after, op, cmd, now, granted)
    <2> DEFINE put == Written(op, cmd, now, granted, now, v.nextId)
    <2>1. PICK p \in 0..Len(v.slots) : after.slots = InsertAt(v.slots, p + 1, put)
      BY <1>5 DEF Inserts
    <2>2. put \in Slot /\ put.binding.contact = op.contact
      BY <1>1, <1>2, WrittenFacts DEF granted
    <2>3. Len(v.slots) \in Nat
      BY <1>2
    <2> HIDE DEF put
    <2>4. /\ after.slots \in Seq(Slot) /\ Len(after.slots) = Len(v.slots) + 1
          /\ \A i \in 1..(Len(v.slots) + 1) :
               after.slots[i] = IF i <= p THEN v.slots[i]
                                ELSE IF i = p + 1 THEN put ELSE v.slots[i - 1]
      <3> DEFINE s == v.slots
      <3>1. s \in Seq(Slot) /\ p \in 0..Len(s) /\ put \in Slot
            /\ after.slots = InsertAt(s, p + 1, put)
        BY <1>2, <2>1, <2>2
      <3> HIDE DEF s
      <3>2. LET t == InsertAt(s, p + 1, put)
            IN  /\ t \in Seq(Slot) /\ Len(t) = Len(s) + 1
                /\ \A i \in 1..(Len(s) + 1) :
                     t[i] = IF i <= p THEN s[i] ELSE IF i = p + 1 THEN put ELSE s[i - 1]
        BY <3>1, Inserted
      <3> QED BY <3>1, <3>2 DEF s
    <2>5. /\ p + 1 \in 1..(Len(v.slots) + 1) /\ ~ (p + 1 <= p)
          /\ DOMAIN after.slots = 1..(Len(v.slots) + 1)
      BY <2>3, <2>4
    <2>6. after.slots[p + 1] = put
      BY <2>4, <2>5
    <2> QED BY <2>2, <2>5, <2>6 DEF Equivalent
  <1> QED BY <1>1, <1>3, <1>4, <1>5 DEF Effect

-----------------------------------------------------------------------------
(* What every decision promises of the set it was made on *)

\* The request's last operation is in force in a set.
Heard(cmd, now, set) ==
    cmd.ops # <<>> /\ ~cmd.wildcard =>
      LET op == cmd.ops[Len(cmd.ops)]
      IN  Granted(cmd, op) > 0 =>
            \E k \in DOMAIN set : Equivalent(set[k].contact, op.contact) /\ IsActive(set[k], now)

\* No binding goes back to an older CSeq.
KeepsOrder(set, next, now) ==
    \A j \in DOMAIN set, k \in DOMAIN next :
      /\ set[j].contact = next[k].contact /\ set[j].callId = next[k].callId
      /\ IsActive(set[j], now)
      => next[k].cseq >= set[j].cseq \/ Ambiguous(set[j].contact)

ContactsOf(set) == {set[k].contact : k \in DOMAIN set}

Promise(cmd, now, current, out) ==
    /\ out.kind = "Commit" =>
         /\ out.set \in Seq(Binding)
         /\ FirstOfItsKind(out.set)
         /\ ActiveCount(out.set, now) <= MaxBindings
         /\ KeepsOrder(current, out.set, now)
         /\ Heard(cmd, now, out.set)
         /\ out.told = Active(out.set, now)
    /\ out.kind = "Noop" =>
         /\ Heard(cmd, now, current)
         /\ ContactsOf(out.told) = ContactsOf(Active(current, now))

\* Expiring what was expired already changes nothing that is left.
LEMMA ActiveTwice ==
  ASSUME NEW set \in Seq(Binding), NEW now
  PROVE  ContactsOf(Active(Active(set, now), now)) = ContactsOf(Active(set, now))
  <1> DEFINE kept == Active(set, now)
             again == Active(kept, now)
  <1>1. kept \in Seq(Binding) /\ \A k \in DOMAIN kept : IsActive(kept[k], now)
    BY ActiveType
  <1> HIDE DEF kept
  <1>2. /\ \A k \in DOMAIN again : \E j \in DOMAIN kept : again[k] = kept[j]
        /\ \A j \in DOMAIN kept : \E k \in DOMAIN again : again[k] = kept[j]
    <2>1. /\ \A k \in DOMAIN Active(kept, now) :
               \E j \in DOMAIN kept : IsActive(kept[j], now) /\ Active(kept, now)[k] = kept[j]
          /\ \A j \in DOMAIN kept : IsActive(kept[j], now) =>
               \E k \in DOMAIN Active(kept, now) : Active(kept, now)[k] = kept[j]
      BY <1>1, ActiveType
    <2> QED BY <1>1, <2>1, Zenon
  <1> HIDE DEF again
  <1>3. ContactsOf(again) = ContactsOf(kept)
    BY <1>2 DEF ContactsOf
  <1> QED BY <1>3 DEF again, kept

\* Reconciliation keeps each binding's ordering token from going back.
LEMMA ReconcileKeepsOrder ==
  ASSUME NEW current \in Seq(Binding), NEW cmd \in Command, NEW now \in Nat,
         FirstOfItsKind(current), NEW view,
         Good(view, cmd, now, Active(current, now)), ~view.stale
  PROVE  KeepsOrder(current, BindingsOf(view), now)
  <1> DEFINE kept == Active(current, now)
             set == BindingsOf(view)
             s == view.slots
  <1> SUFFICES ASSUME NEW j \in DOMAIN current, NEW k \in DOMAIN set,
                      current[j].contact = set[k].contact, current[j].callId = set[k].callId,
                      IsActive(current[j], now)
               PROVE  set[k].cseq >= current[j].cseq \/ Ambiguous(current[j].contact)
    BY DEF KeepsOrder
  <1> DEFINE b == current[j]
             c == set[k]
  <1>1. /\ kept \in Seq(Binding) /\ FirstOfItsKind(kept)
        /\ \E i \in DOMAIN kept : kept[i] = b
    BY ActiveType, ActiveApart
  <1>2. /\ set \in Seq(Binding) /\ FirstOfItsKind(set) /\ DOMAIN set = DOMAIN s
        /\ \A m \in DOMAIN s : set[m] = s[m].binding
    BY BindingsOfFacts
  <1>3. b \in Binding /\ c \in Binding /\ b.cseq \in Nat /\ c.cseq \in Nat /\ cmd.cseq \in Nat
    <2>1. b \in Binding /\ c \in Binding
      <3> HIDE DEF set
      <3> QED BY <1>2
    <2> QED BY <2>1, BindingFields DEF Command
  <1>4. Origins(s, cmd, kept) /\ Survivors(s, cmd, kept)
    BY DEF Good
  <1>5. PICK i \in DOMAIN kept : kept[i] = b
    BY <1>1
  <1>d. DOMAIN kept \subseteq Nat /\ DOMAIN set \subseteq Nat
    <2> HIDE DEF kept, set
    <2> QED BY <1>1, <1>2
  <1> HIDE DEF kept, set, s
  <1>6. CASE ~s[k].writtenHere
    <2>1. PICK l \in DOMAIN kept : c = kept[l]
      BY <1>2, <1>4, <1>6 DEF Origins
    <2>2. CASE l = i
      BY <1>3, <1>5, <2>1, <2>2
    <2>3. CASE l # i
      <3>1. kept[l].contact = kept[i].contact /\ (l < i \/ i < l)
        BY <1>5, <1>d, <2>1, <2>3
      <3>2. Ambiguous(b.contact)
        BY <1>1, <1>5, <2>1, <3>1 DEF FirstOfItsKind, Equivalent
      <3> QED BY <3>2
    <2> QED BY <2>2, <2>3
  <1>7. CASE s[k].writtenHere
    <2>1. c.callId = cmd.callId /\ c.cseq = cmd.cseq
      BY <1>2, <1>4, <1>7 DEF Origins
    <2>2. CASE cmd.cseq >= b.cseq
      BY <2>1, <2>2
    <2>3. CASE b.cseq > cmd.cseq
      <3>1. PICK m \in DOMAIN s : s[m].binding = b /\ ~s[m].writtenHere
        BY <1>4, <1>5, <2>1, <2>3 DEF Survivors
      <3>2. m # k /\ m \in DOMAIN set /\ set[m] = b /\ set[m].contact = set[k].contact
        BY <1>2, <1>7, <3>1
      <3>3. m < k \/ k < m
        BY <1>d, <3>2
      <3>4. Ambiguous(b.contact)
        BY <1>2, <3>2, <3>3 DEF FirstOfItsKind, Equivalent
      <3> QED BY <3>4
    <2> QED BY <1>3, <2>2, <2>3
  <1> QED BY <1>6, <1>7

\* Section 5.3 keeps the promise.
LEMMA ExplicitPromise ==
  ASSUME NEW current \in Seq(Binding), NEW cmd \in Command, NEW now \in Nat,
         FirstOfItsKind(current)
  PROVE  Promise(cmd, now, current, Explicit(cmd, now, current))
  <1> DEFINE kept == DropExpired(current, now)
             view == Reconcile(cmd, now, kept)
             set == BindingsOf(view)
             out == Explicit(cmd, now, current)
             unheld == \E d \in view.pending : ~AlreadyHolds(d.stored, cmd, d.net)
             reaped == Len(kept) # Len(current)
  <1>1. /\ kept \in Seq(Binding) /\ FirstOfItsKind(kept) /\ kept = Active(current, now)
        /\ \A k \in DOMAIN kept : IsActive(kept[k], now)
        /\ \A k \in DOMAIN kept : \E j \in DOMAIN current : kept[k] = current[j]
    BY ActiveType, ActiveApart DEF DropExpired
  <1>2. out = IF view.stale \/ unheld THEN Reject(500)
              ELSE IF OverQuota(set, now) THEN Reject(403)
              ELSE IF view.changed /\ (reaped \/ set # current) THEN Commit(set, now)
              ELSE Noop(Active(set, now))
    BY DEF Explicit
  <1> HIDE DEF kept
  <1>3. /\ Good(view, cmd, now, kept)
        /\ cmd.ops # <<>> =>
             \E v : Good(v, cmd, now, kept) /\ view = ApplyOp(v, cmd.ops[Len(cmd.ops)], cmd, now)
    BY <1>1, ReconcileGood
  <1> HIDE DEF view
  <1>4. /\ set \in Seq(Binding) /\ FirstOfItsKind(set) /\ DOMAIN set = DOMAIN view.slots
        /\ \A m \in DOMAIN view.slots : set[m] = view.slots[m].binding
    BY <1>3, BindingsOfFacts
  <1>5. ~view.stale => KeepsOrder(current, set, now)
    BY <1>1, <1>3, ReconcileKeepsOrder
  <1>6. ASSUME ~view.stale PROVE Heard(cmd, now, set)
    <2> SUFFICES ASSUME cmd.ops # <<>>, Granted(cmd, cmd.ops[Len(cmd.ops)]) > 0
                 PROVE  \E k \in DOMAIN set :
                          /\ Equivalent(set[k].contact, cmd.ops[Len(cmd.ops)].contact)
                          /\ IsActive(set[k], now)
      BY DEF Heard
    <2> DEFINE op == cmd.ops[Len(cmd.ops)]
    <2>1. op \in ContactOp
      <3>1. cmd.ops \in Seq(ContactOp)
        BY DEF Command
      <3>2. Len(cmd.ops) \in DOMAIN cmd.ops
        BY <3>1
      <3> QED BY <3>1, <3>2
    <2>2. PICK v : Good(v, cmd, now, kept) /\ view = ApplyOp(v, op, cmd, now)
      BY <1>3
    <2>3. v \in Reconciling
      BY <2>2 DEF Good
    <2> HIDE DEF op
    <2>4. PICK m \in DOMAIN view.slots :
            Equivalent(view.slots[m].binding.contact, op.contact)
      BY <1>6, <2>1, <2>2, <2>3, OpIsHeard DEF op
    <2>5. IsActive(view.slots[m].binding, now)
      BY <1>3 DEF Good, Live
    <2> HIDE DEF set
    <2> QED BY <1>4, <2>4, <2>5 DEF op
  <1>7. ASSUME ~view.changed PROVE set = kept
    <2>1. Untouched(view.slots, kept) /\ view.slots \in Seq(Slot)
      BY <1>3, <1>7 DEF Good, Reconciling
    <2>2. DOMAIN view.slots = DOMAIN kept
      BY <1>1, <2>1 DEF Untouched
    <2> HIDE DEF set
    <2>3. \A m \in DOMAIN kept : set[m] = kept[m]
      BY <1>4, <2>1, <2>2 DEF Untouched
    <2> QED BY <1>1, <1>4, <2>2, <2>3
  <1>8. CASE out = Commit(set, now) /\ ~view.stale /\ ~OverQuota(set, now)
    <2>1. /\ out.kind = "Commit" /\ out.set = set /\ out.told = Active(set, now)
      BY <1>8 DEF Commit
    <2>2. ActiveCount(set, now) <= MaxBindings
      <3>1. \E at : Keeps(at, set, now)
        <4> HIDE DEF set
        <4> QED BY <1>4, ActiveKeeps
      <3>2. ActiveCount(set, now) \in Nat
        BY <3>1 DEF Keeps
      <3> QED BY <1>8, <3>2, PolicyAssumption DEF OverQuota
    <2> HIDE DEF set, out
    <2> QED BY <1>4, <1>5, <1>6, <1>8, <2>1, <2>2 DEF Promise, out
  <1>9. CASE /\ out = Noop(Active(set, now)) /\ ~view.stale
             /\ ~view.changed \/ (~reaped /\ set = current)
    <2>1. out.kind = "Noop" /\ out.told = Active(set, now)
      BY <1>9 DEF Noop
    <2>2. Heard(cmd, now, set)
      BY <1>6, <1>9
    <2>3. Heard(cmd, now, current)
      <3>1. CASE set = current
        BY <2>2, <3>1
      <3>2. CASE set = kept
        <4> HIDE DEF set
        <4> QED BY <1>1, <2>2, <3>2 DEF Heard
      <3> HIDE DEF set
      <3> QED BY <1>7, <1>9, <3>1, <3>2
    <2>4. ContactsOf(Active(set, now)) = ContactsOf(Active(current, now))
      <3>1. set = current \/ set = kept
        <4> HIDE DEF set
        <4> QED BY <1>7, <1>9
      <3> HIDE DEF set
      <3> QED BY <1>1, <3>1, ActiveTwice
    <2> HIDE DEF set, out
    <2> QED BY <2>1, <2>3, <2>4 DEF Promise, out
  <1>10. CASE out = Reject(500) \/ out = Reject(403)
    <2>1. out.kind = "Reject"
      BY <1>10 DEF Reject
    <2> HIDE DEF out
    <2> QED BY <2>1 DEF Promise, out
  <1>11. \/ out = Reject(500) \/ out = Reject(403)
         \/ out = Commit(set, now) /\ ~view.stale /\ ~OverQuota(set, now)
         \/ /\ out = Noop(Active(set, now)) /\ ~view.stale
            /\ ~view.changed \/ (~reaped /\ set = current)
    <2> HIDE DEF out, set, unheld, reaped
    <2>1. CASE view.stale \/ unheld
      BY <1>2, <2>1
    <2>2. CASE ~ (view.stale \/ unheld) /\ OverQuota(set, now)
      BY <1>2, <2>2
    <2>3. CASE /\ ~ (view.stale \/ unheld) /\ ~OverQuota(set, now)
               /\ view.changed /\ (reaped \/ set # current)
      BY <1>2, <2>3
    <2>4. CASE /\ ~ (view.stale \/ unheld) /\ ~OverQuota(set, now)
               /\ ~ (view.changed /\ (reaped \/ set # current))
      BY <1>2, <2>4
    <2> QED BY <2>1, <2>2, <2>3, <2>4
  <1> QED BY <1>8, <1>9, <1>10, <1>11

\* Section 5.4 keeps the promise.
LEMMA WildcardPromise ==
  ASSUME NEW current \in Seq(Binding), NEW cmd \in Command, NEW now \in Nat, cmd.wildcard
  PROVE  Promise(cmd, now, current, Wildcard(cmd, now, current))
  <1> DEFINE out == Wildcard(cmd, now, current)
  <1>1. \/ out = Reject(400) \/ out = Reject(500)
        \/ out = Noop(<<>>) /\ DropExpired(current, now) = <<>>
        \/ out = Commit(<<>>, now)
    BY DEF Wildcard
  <1>2. \A set : Heard(cmd, now, set)
    BY DEF Heard
  <1>3. CASE out = Reject(400) \/ out = Reject(500)
    <2>1. out.kind = "Reject"
      BY <1>3 DEF Reject
    <2> HIDE DEF out
    <2> QED BY <2>1 DEF Promise, out
  <1>4. CASE out = Noop(<<>>) /\ DropExpired(current, now) = <<>>
    <2>1. out.kind = "Noop" /\ out.told = Active(current, now)
      BY <1>4 DEF Noop, DropExpired
    <2> HIDE DEF out
    <2> QED BY <1>2, <2>1 DEF Promise, out
  <1>5. CASE out = Commit(<<>>, now)
    <2>1. out.kind = "Commit" /\ out.set = <<>> /\ out.told = Active(<<>>, now)
      BY <1>5 DEF Commit
    <2>2. /\ <<>> \in Seq(Binding) /\ FirstOfItsKind(<<>>) /\ KeepsOrder(current, <<>>, now)
      BY DEF FirstOfItsKind, KeepsOrder
    <2>3. ActiveCount(<<>>, now) <= MaxBindings
      BY EmptyIsInactive, PolicyAssumption
    <2> HIDE DEF out
    <2> QED BY <1>2, <2>1, <2>2, <2>3 DEF Promise, out
  <1> HIDE DEF out
  <1> QED BY <1>1, <1>3, <1>4, <1>5 DEF out

\* Every decision keeps the promise.
LEMMA ProcessPromise ==
  ASSUME NEW current \in Seq(Binding), NEW cmd \in Command, NEW now \in Nat,
         FirstOfItsKind(current)
  PROVE  Promise(cmd, now, current, Process(cmd, now, current))
  <1> DEFINE out == Process(cmd, now, current)
  <1>1. \/ \E status : out = Reject(status)
        \/ cmd.wildcard /\ out = Wildcard(cmd, now, current)
        \/ cmd.ops = <<>> /\ out = Noop(Active(current, now))
        \/ out = Explicit(cmd, now, current)
    <2>1. CASE ~cmd.requireOk
      BY <2>1, Zenon DEF Process
    <2>2. CASE cmd.requireOk /\ cmd.path # 0 /\ ~cmd.supportsPath
      BY <2>2, Zenon DEF Process
    <2>3. CASE cmd.requireOk /\ ~ (cmd.path # 0 /\ ~cmd.supportsPath)
      <3>1. out = IF cmd.wildcard THEN Wildcard(cmd, now, current)
                  ELSE IF Len(cmd.ops) > MaxContactOps THEN Reject(403)
                  ELSE IF cmd.ops = <<>> THEN Noop(Active(current, now))
                  ELSE IF \E k \in DOMAIN cmd.ops : TooBrief(cmd, cmd.ops[k]) THEN Reject(423)
                  ELSE Explicit(cmd, now, current)
        BY <2>3, Zenon DEF Process
      <3> HIDE DEF out
      <3> QED BY <3>1, SMTT(40)
    <2> QED BY <2>1, <2>2, <2>3
  <1>2. ASSUME NEW status, out = Reject(status) PROVE Promise(cmd, now, current, out)
    <2>1. out.kind = "Reject"
      BY <1>2 DEF Reject
    <2> HIDE DEF out
    <2> QED BY <2>1 DEF Promise
  <1>3. CASE cmd.ops = <<>> /\ out = Noop(Active(current, now))
    <2>1. out.kind = "Noop" /\ out.told = Active(current, now)
      BY <1>3 DEF Noop
    <2>2. Heard(cmd, now, current)
      BY <1>3 DEF Heard
    <2> HIDE DEF out
    <2> QED BY <2>1, <2>2 DEF Promise, out
  <1> HIDE DEF out
  <1> QED BY <1>1, <1>2, <1>3, WildcardPromise, ExplicitPromise DEF out

-----------------------------------------------------------------------------
(* The registrar *)

TypeOKRegistrar == bindings \in Seq(Binding) /\ revision \in Nat /\ clock \in Nat

\* The answer to the last REGISTER is true of the set it left.
LastAnswerHolds ==
    last.kind \in {"Commit", "Noop"} =>
      /\ Heard(last.cmd, last.now, bindings)
      /\ ContactsOf(last.outcome.told) = ContactsOf(Active(bindings, last.now))

\* The inductive invariant.
RegistrarInv ==
    /\ TypeOKRegistrar
    /\ FirstOfItsKind(bindings)
    /\ QuotaHolds
    /\ LastAnswerHolds

LEMMA RegistrarInit == InitRegistrar => RegistrarInv
  <1> SUFFICES ASSUME InitRegistrar PROVE RegistrarInv
    OBVIOUS
  <1>1. bindings = <<>> /\ revision = 0 /\ clock = 0 /\ last.kind = "none"
    BY DEF InitRegistrar, Undecided
  <1>2. TypeOKRegistrar /\ FirstOfItsKind(bindings) /\ LastAnswerHolds
    BY <1>1 DEF TypeOKRegistrar, FirstOfItsKind, LastAnswerHolds
  <1>3. QuotaHolds
    BY <1>1, EmptyIsInactive, PolicyAssumption DEF QuotaHolds
  <1> QED BY <1>2, <1>3 DEF RegistrarInv

\* A REGISTER: what the decision promises becomes true of the committed set.
LEMMA RegisterStep ==
  ASSUME RegistrarInv, NEW cmd \in Commands, NEW now \in 0..clock, Register(cmd, now)
  PROVE  /\ RegistrarInv'
         /\ last'.now = now
         /\ bindings' # bindings => KeepsOrder(bindings, bindings', now)
  <1> DEFINE out == Process(cmd, now, bindings)
  <1>1. cmd \in Command /\ now \in Nat /\ now <= clock /\ clock \in Nat
    BY CommandsAssumption DEF RegistrarInv, TypeOKRegistrar
  <1>2. Promise(cmd, now, bindings, out)
    BY <1>1, ProcessPromise DEF RegistrarInv, TypeOKRegistrar
  <1>3. /\ clock' = clock
        /\ last' = [kind |-> out.kind, cmd |-> cmd, now |-> now, outcome |-> out]
        /\ \/ out.kind = "Commit" /\ bindings' = out.set /\ revision' = revision + 1
           \/ out.kind # "Commit" /\ bindings' = bindings /\ revision' = revision
    BY DEF Register, Decided, Install
  <1> HIDE DEF out
  <1>4. /\ last'.now = now /\ last'.kind = out.kind /\ last'.cmd = cmd /\ last'.outcome = out
    BY <1>3
  <1>5. CASE out.kind = "Commit" /\ bindings' = out.set /\ revision' = revision + 1
    <2>1. TypeOKRegistrar' /\ FirstOfItsKind(bindings)'
      BY <1>2, <1>3, <1>5 DEF Promise, RegistrarInv, TypeOKRegistrar, FirstOfItsKind
    <2>2. ActiveCount(bindings', clock) <= MaxBindings
      <3> DEFINE set == out.set
      <3>1. set \in Seq(Binding) /\ ActiveCount(set, now) <= MaxBindings
        BY <1>2, <1>5 DEF Promise
      <3> HIDE DEF set
      <3>2. ActiveCount(set, clock) <= ActiveCount(set, now)
        BY <1>1, <3>1, ActiveCountShrinks
      <3>3. ActiveCount(set, clock) \in Nat /\ ActiveCount(set, now) \in Nat
        BY <3>1, ActiveKeeps DEF Keeps
      <3>4. ActiveCount(set, clock) <= MaxBindings
        BY <3>1, <3>2, <3>3, PolicyAssumption
      <3> QED BY <1>5, <3>4 DEF set
    <2>3. QuotaHolds'
      BY <1>3, <2>2 DEF QuotaHolds
    <2>4. LastAnswerHolds'
      BY <1>2, <1>4, <1>5 DEF Promise, LastAnswerHolds
    <2>5. KeepsOrder(bindings, bindings', now)
      BY <1>2, <1>5 DEF Promise
    <2> QED BY <1>4, <2>1, <2>3, <2>4, <2>5 DEF RegistrarInv
  <1>6. CASE out.kind # "Commit" /\ bindings' = bindings /\ revision' = revision
    <2>1. TypeOKRegistrar' /\ FirstOfItsKind(bindings)' /\ QuotaHolds'
      BY <1>3, <1>6 DEF RegistrarInv, TypeOKRegistrar, FirstOfItsKind, QuotaHolds
    <2>2. LastAnswerHolds'
      BY <1>2, <1>4, <1>6 DEF Promise, LastAnswerHolds
    <2> QED BY <1>4, <1>6, <2>1, <2>2 DEF RegistrarInv
  <1> QED BY <1>3, <1>5, <1>6

\* Time only makes bindings inactive.
LEMMA TickStep ==
  ASSUME RegistrarInv, Tick
  PROVE  RegistrarInv'
  <1>1. /\ clock' = clock + 1 /\ bindings' = bindings /\ revision' = revision /\ last' = last
        /\ clock \in Nat /\ bindings \in Seq(Binding)
    BY DEF Tick, RegistrarInv, TypeOKRegistrar
  <1>2. ActiveCount(bindings, clock + 1) <= ActiveCount(bindings, clock)
    BY <1>1, ActiveCountShrinks
  <1>3. ActiveCount(bindings, clock) \in Nat /\ ActiveCount(bindings, clock + 1) \in Nat
    BY <1>1, ActiveKeeps DEF Keeps
  <1>4. ActiveCount(bindings, clock + 1) <= MaxBindings
    BY <1>2, <1>3, PolicyAssumption DEF RegistrarInv, QuotaHolds
  <1>5. QuotaHolds'
    BY <1>1, <1>4 DEF QuotaHolds
  <1>6. TypeOKRegistrar' /\ FirstOfItsKind(bindings)' /\ LastAnswerHolds'
    BY <1>1 DEF RegistrarInv, TypeOKRegistrar, FirstOfItsKind, LastAnswerHolds
  <1> QED BY <1>5, <1>6 DEF RegistrarInv

LEMMA RegistrarStep ==
  RegistrarInv /\ [NextRegistrar]_registrarVars => RegistrarInv'
  <1> SUFFICES ASSUME RegistrarInv, [NextRegistrar]_registrarVars PROVE RegistrarInv'
    OBVIOUS
  <1>1. CASE UNCHANGED registrarVars
    BY <1>1 DEF registrarVars, RegistrarInv, TypeOKRegistrar, FirstOfItsKind, QuotaHolds,
       LastAnswerHolds
  <1>2. ASSUME NEW cmd \in Commands, NEW now \in 0..clock, Register(cmd, now)
        PROVE  RegistrarInv'
    BY <1>2, RegisterStep
  <1>3. CASE Tick
    BY <1>3, TickStep
  <1> QED BY <1>1, <1>2, <1>3 DEF NextRegistrar

\* The registrar's invariant: its type, its quota, and that no two bindings compare as
\* equivalent unless the later one's contact is ambiguous (section 5.3).
THEOREM RegistrarInvariance == SpecRegistrar => []RegistrarInv
  BY RegistrarInit, RegistrarStep, PTL DEF SpecRegistrar

\* Section 5.5: whatever a request's operations collapse to, the quota holds.
THEOREM QuotaIsKept == SpecRegistrar => []QuotaHolds
  <1>1. RegistrarInv => QuotaHolds
    BY DEF RegistrarInv
  <1> QED BY <1>1, RegistrarInvariance, PTL

\* Section 5.3: the last operation of an accepted REGISTER is in force.
THEOREM LastWordIsKept == SpecRegistrar => []LastWordHolds
  <1>1. RegistrarInv => LastWordHolds
    BY DEF RegistrarInv, LastAnswerHolds, Heard, LastWordHolds
  <1> QED BY <1>1, RegistrarInvariance, PTL

\* B3 to B5: ordering tokens do not go back.
THEOREM OrderingTokens == SpecRegistrar => OrderingTokenAdvances
  <1> DEFINE Advances ==
        \A j \in DOMAIN bindings, k \in DOMAIN bindings' :
          /\ bindings[j].contact = bindings'[k].contact
          /\ bindings[j].callId = bindings'[k].callId
          /\ IsActive(bindings[j], last'.now)
          => \/ bindings'[k].cseq >= bindings[j].cseq
             \/ Ambiguous(bindings[j].contact)
  <1>1. RegistrarInv /\ [NextRegistrar]_registrarVars => [Advances]_<<bindings, revision>>
    <2> SUFFICES ASSUME RegistrarInv, [NextRegistrar]_registrarVars,
                        <<bindings, revision>>' # <<bindings, revision>>
                 PROVE  Advances
      OBVIOUS
    <2>1. PICK cmd \in Commands, now \in 0..clock : Register(cmd, now)
      BY DEF NextRegistrar, Tick, registrarVars
    <2>2. last'.now = now /\ (bindings' # bindings => KeepsOrder(bindings, bindings', now))
      BY <2>1, RegisterStep
    <2>3. CASE bindings' # bindings
      BY <2>2, <2>3 DEF KeepsOrder
    <2>4. CASE bindings' = bindings
      <3> SUFFICES ASSUME NEW j \in DOMAIN bindings, NEW k \in DOMAIN bindings,
                          bindings[j].contact = bindings[k].contact
                   PROVE  bindings[k].cseq >= bindings[j].cseq \/ Ambiguous(bindings[j].contact)
        BY <2>4
      <3>1. /\ bindings[j] \in Binding /\ bindings[j].cseq \in Nat /\ j \in Nat /\ k \in Nat
        <4>1. bindings[j] \in Binding /\ j \in Nat /\ k \in Nat
          BY DEF RegistrarInv, TypeOKRegistrar
        <4> QED BY <4>1, BindingFields
      <3>2. CASE j = k
        BY <3>1, <3>2
      <3>3. CASE j # k
        <4>1. j < k \/ k < j
          BY <3>1, <3>3
        <4> QED BY <4>1 DEF RegistrarInv, FirstOfItsKind, Equivalent
      <3> QED BY <3>2, <3>3
    <2> QED BY <2>3, <2>4
  <1>2. RegistrarInv /\ RegistrarInv' /\ [NextRegistrar]_registrarVars
          => [Advances]_<<bindings, revision>>
    BY <1>1
  <1> QED BY <1>1, RegistrarInvariance, PTL DEF SpecRegistrar, OrderingTokenAdvances

-----------------------------------------------------------------------------
(* Retransmissions: contacts that can be told apart *)

\* A distinguishable contact and those it equals are a kind: none of them is ambiguous, and
\* what equals one of them equals all.
LEMMA KindFacts ==
  ASSUME NEW a \in Contacts, NEW b \in Contacts, NEW c \in Contacts, Distinguishable(c),
         Equivalent(a, c)
  PROVE  ~Ambiguous(a) /\ (Equivalent(b, c) <=> Equivalent(b, a))
  <1>1. Equivalent(c, c) /\ Equivalent(c, a) /\ (Equivalent(b, c) <=> Equivalent(c, b))
        /\ (Equivalent(b, a) <=> Equivalent(a, b))
    BY DEF Equivalent
  <1>2. ~Ambiguous(c) /\ ~Ambiguous(a)
    BY <1>1 DEF Distinguishable
  <1>3. Equivalent(c, b) => Equivalent(a, b)
    BY <1>2 DEF Ambiguous
  <1>4. Equivalent(a, b) => Equivalent(c, b)
    BY <1>1, <1>2 DEF Ambiguous
  <1> QED BY <1>1, <1>2, <1>3, <1>4

\* Every contact of the request can be told apart.
Clear(cmd) == \A k \in DOMAIN cmd.ops : Distinguishable(cmd.ops[k].contact)

\* The slots of a view, and those that a contact names.
Held(slots) == {slots[m] : m \in DOMAIN slots}
OfKind(slots, contact) == {x \in Held(slots) : Equivalent(x.binding.contact, contact)}

\* A contact that can be told apart names one slot at most.
LEMMA OneOfAKind ==
  ASSUME NEW s \in Seq(Slot), KindsApart(s), NEW c \in Contacts, Distinguishable(c),
         NEW m \in DOMAIN s, NEW k \in DOMAIN s,
         Equivalent(s[m].binding.contact, c), Equivalent(s[k].binding.contact, c)
  PROVE  m = k
  <1> DEFINE a == s[m].binding.contact
             b == s[k].binding.contact
  <1>1. a \in Contacts /\ b \in Contacts /\ m \in Nat /\ k \in Nat
    BY SlotFacts
  <1>2. ~Ambiguous(a) /\ ~Ambiguous(b) /\ Equivalent(a, b) /\ Equivalent(b, a)
    <2> HIDE DEF a, b
    <2>1. Equivalent(a, c) /\ Equivalent(b, c)
      BY DEF a, b
    <2> QED BY <1>1, <2>1, KindFacts
  <1>3. ~ (m < k) /\ ~ (k < m)
    BY <1>2 DEF KindsApart
  <1> QED BY <1>1, <1>3

\* The same of the slots themselves.
LEMMA OneHeld ==
  ASSUME NEW s \in Seq(Slot), KindsApart(s), NEW c \in Contacts, Distinguishable(c),
         NEW x \in OfKind(s, c), NEW y \in OfKind(s, c)
  PROVE  x = y
  <1>1. PICK m \in DOMAIN s : x = s[m] /\ Equivalent(s[m].binding.contact, c)
    BY DEF OfKind, Held
  <1>2. PICK k \in DOMAIN s : y = s[k] /\ Equivalent(s[k].binding.contact, c)
    BY DEF OfKind, Held
  <1> QED BY <1>1, <1>2, OneOfAKind

\* The slots nothing was written to are in the order of their names.
InOrder(slots) ==
    \A i, j \in DOMAIN slots :
      i < j /\ ~slots[i].writtenHere /\ ~slots[j].writtenHere => slots[i].id < slots[j].id

\* What removing, inserting and writing in place do to the slots held and to their order.
LEMMA HeldRemoved ==
  ASSUME NEW s \in Seq(Slot), NEW k \in DOMAIN s
  PROVE  LET t == RemoveAt(s, k)
         IN  /\ Held(t) = {s[m] : m \in DOMAIN s \ {k}}
             /\ InOrder(s) => InOrder(t)
  <1> DEFINE n == Len(s)
             t == RemoveAt(s, k)
             was == [i \in 1..(n - 1) |-> IF i < k THEN i ELSE i + 1]
  <1>1. n \in Nat /\ DOMAIN s = 1..n /\ k \in 1..n
    BY SlotFacts
  <1>2. t \in Seq(Slot) /\ Len(t) = n - 1
        /\ \A i \in 1..(n - 1) : t[i] = IF i < k THEN s[i] ELSE s[i + 1]
    BY Removed
  <1> HIDE DEF t, n
  <1>3. DOMAIN t = 1..(n - 1) /\ DOMAIN was = 1..(n - 1)
    BY <1>1, <1>2
  <1>4. /\ \A i \in DOMAIN t : was[i] \in DOMAIN s /\ was[i] # k /\ t[i] = s[was[i]]
        /\ \A i, j \in DOMAIN t : i < j => was[i] < was[j]
        /\ \A m \in DOMAIN s : m # k => \E i \in DOMAIN t : was[i] = m
    <2>1. \A i \in 1..(n - 1) : was[i] \in 1..n /\ was[i] # k /\ t[i] = s[was[i]]
      BY <1>1, <1>2
    <2>2. \A i, j \in 1..(n - 1) : i < j => was[i] < was[j]
      BY <1>1
    <2>3. ASSUME NEW m \in 1..n, m # k PROVE \E i \in 1..(n - 1) : was[i] = m
      <3>1. CASE m < k
        <4>1. m \in 1..(n - 1) /\ was[m] = m
          BY <1>1, <3>1
        <4> QED BY <4>1
      <3>2. CASE m > k
        <4>1. m - 1 \in 1..(n - 1) /\ was[m - 1] = m
          BY <1>1, <3>2
        <4> QED BY <4>1
      <3> QED BY <1>1, <2>3, <3>1, <3>2
    <2> QED BY <1>1, <1>3, <2>1, <2>2, <2>3
  <1> HIDE DEF was
  <1>5. Held(t) = {s[m] : m \in DOMAIN s \ {k}}
    BY <1>4 DEF Held
  <1>6. InOrder(s) => InOrder(t)
    BY <1>4 DEF InOrder
  <1> QED BY <1>5, <1>6 DEF t

LEMMA HeldInserted ==
  ASSUME NEW s \in Seq(Slot), NEW p \in 0..Len(s), NEW put \in Slot, put.writtenHere
  PROVE  LET t == InsertAt(s, p + 1, put)
         IN  /\ Held(t) = Held(s) \cup {put}
             /\ InOrder(s) => InOrder(t)
  <1> DEFINE n == Len(s)
             t == InsertAt(s, p + 1, put)
             was == [i \in 1..(n + 1) |-> IF i <= p THEN i ELSE i - 1]
  <1>1. n \in Nat /\ DOMAIN s = 1..n /\ p \in 0..n
    BY SlotFacts
  <1>2. t \in Seq(Slot) /\ Len(t) = n + 1
        /\ \A i \in 1..(n + 1) : t[i] = IF i <= p THEN s[i] ELSE IF i = p + 1 THEN put ELSE s[i - 1]
    BY Inserted
  <1> HIDE DEF t, n
  <1>3. DOMAIN t = 1..(n + 1) /\ DOMAIN was = 1..(n + 1)
    BY <1>1, <1>2
  <1>4. /\ p + 1 \in DOMAIN t /\ t[p + 1] = put
        /\ \A i \in DOMAIN t : i # p + 1 => was[i] \in DOMAIN s /\ t[i] = s[was[i]]
        /\ \A i, j \in DOMAIN t : i < j /\ i # p + 1 /\ j # p + 1 => was[i] < was[j]
        /\ \A m \in DOMAIN s : \E i \in DOMAIN t : i # p + 1 /\ was[i] = m
    <2>1. p + 1 \in 1..(n + 1) /\ t[p + 1] = put
      BY <1>1, <1>2
    <2>2. \A i \in 1..(n + 1) : i # p + 1 => was[i] \in 1..n /\ t[i] = s[was[i]]
      BY <1>1, <1>2
    <2>3. \A i, j \in 1..(n + 1) : i < j /\ i # p + 1 /\ j # p + 1 => was[i] < was[j]
      BY <1>1
    <2>4. ASSUME NEW m \in 1..n PROVE \E i \in 1..(n + 1) : i # p + 1 /\ was[i] = m
      <3>1. CASE m <= p
        <4>1. m \in 1..(n + 1) /\ was[m] = m /\ m # p + 1
          BY <1>1, <3>1
        <4> QED BY <4>1
      <3>2. CASE m > p
        <4>1. m + 1 \in 1..(n + 1) /\ was[m + 1] = m /\ m + 1 # p + 1
          BY <1>1, <3>2
        <4> QED BY <4>1
      <3> QED BY <1>1, <3>1, <3>2
    <2> QED BY <1>1, <1>3, <2>1, <2>2, <2>3, <2>4
  <1> HIDE DEF was
  <1>5. Held(t) = Held(s) \cup {put}
    <2>1. \A x \in Held(t) : x \in Held(s) \cup {put}
      BY <1>4 DEF Held
    <2>2. \A x \in Held(s) : x \in Held(t)
      BY <1>4 DEF Held
    <2>3. put \in Held(t)
      BY <1>4 DEF Held
    <2> QED BY <2>1, <2>2, <2>3
  <1>6. InOrder(s) => InOrder(t)
    BY <1>4 DEF InOrder
  <1> QED BY <1>5, <1>6 DEF t

LEMMA HeldReplaced ==
  ASSUME NEW s \in Seq(Slot), NEW k \in DOMAIN s, NEW put, put.writtenHere
  PROVE  LET t == [s EXCEPT ![k] = put]
         IN  /\ Held(t) = {s[m] : m \in DOMAIN s \ {k}} \cup {put}
             /\ InOrder(s) => InOrder(t)
  <1> DEFINE t == [s EXCEPT ![k] = put]
  <1>1. DOMAIN t = DOMAIN s /\ t[k] = put /\ \A m \in DOMAIN s \ {k} : t[m] = s[m]
    OBVIOUS
  <1> HIDE DEF t
  <1>2. Held(t) = {s[m] : m \in DOMAIN s \ {k}} \cup {put}
    BY <1>1 DEF Held
  <1>3. InOrder(s) => InOrder(t)
    BY <1>1 DEF InOrder
  <1> QED BY <1>2, <1>3 DEF t

-----------------------------------------------------------------------------
(* Retransmissions: what an operation does to the kind it names *)

\* The slots of other kinds stay, with what was deferred about them.
LeavesOthers(view, after, contact) ==
    /\ \A x : ~Equivalent(x.binding.contact, contact) =>
         (x \in Held(after.slots) <=> x \in Held(view.slots))
    /\ \A d \in view.pending :
         (\A x \in OfKind(view.slots, contact) : d.slot # x.id) => d \in after.pending

\* What is deferred about the operation's own kind is decided by what it grants.
Redecides(view, after, contact, granted) ==
    \A d \in after.pending :
      \/ d \in view.pending /\ \A x \in OfKind(view.slots, contact) : d.slot # x.id
      \/ /\ d.net = granted
         /\ \E x \in OfKind(view.slots, contact) :
              /\ d.slot = x.id
              /\ \/ d.stored = x.binding /\ ~x.writtenHere
                 \/ \E e \in view.pending : e.slot = d.slot /\ e.stored = d.stored

\* Names are kept or new.
NamesOn(view, after, contact) ==
    /\ view.nextId <= after.nextId
    /\ \A y \in OfKind(after.slots, contact) :
         \/ \E x \in OfKind(view.slots, contact) : y.id = x.id
         \/ y.id = view.nextId /\ y.id < after.nextId

\* The view has what an operation asked for: nothing, or a binding with the request's
\* ordering token that holds what was granted, or is deferred to do so.
Answers(view, cmd, contact, granted) ==
    \/ granted = 0 /\ OfKind(view.slots, contact) = {}
    \/ \E x \in OfKind(view.slots, contact) :
         /\ x.binding.callId = cmd.callId /\ x.binding.cseq = cmd.cseq
         /\ \/ AlreadyHolds(x.binding, cmd, granted)
            \/ [slot |-> x.id, stored |-> x.binding, net |-> granted] \in view.pending

\* An operation that meets the ordering token of its own request writes nothing; any other
\* leaves only what it wrote itself.
MeetsItself(view, cmd, contact) ==
    \E x \in OfKind(view.slots, contact) :
      ~x.writtenHere /\ x.binding.callId = cmd.callId /\ x.binding.cseq = cmd.cseq
Writes(view, after, cmd, contact, granted) ==
    IF MeetsItself(view, cmd, contact)
      THEN after.slots = view.slots
      ELSE \A y \in OfKind(after.slots, contact) : y.writtenHere /\ granted # 0

\* One operation, as its kind and the other kinds see it.
LEMMA OpOnKind ==
  ASSUME NEW view \in Reconciling, NEW op \in ContactOp, NEW cmd \in Command, NEW now \in Nat,
         KindsApart(view.slots), Distinguishable(op.contact),
         ~ApplyOp(view, op, cmd, now).stale
  PROVE  LET after == ApplyOp(view, op, cmd, now)
             granted == Granted(cmd, op)
         IN  /\ ~view.stale
             /\ LeavesOthers(view, after, op.contact)
             /\ Redecides(view, after, op.contact, granted)
             /\ NamesOn(view, after, op.contact)
             /\ Answers(after, cmd, op.contact, granted)
             /\ Writes(view, after, cmd, op.contact, granted)
             /\ InOrder(view.slots) => InOrder(after.slots)
  <1> DEFINE after == ApplyOp(view, op, cmd, now)
             granted == Granted(cmd, op)
             s == view.slots
             c == op.contact
  <1>1. Effect(view, after, op, cmd, now, granted) /\ after \in Reconciling
    BY OpEffect
  <1>2. s \in Seq(Slot) /\ view.nextId \in Nat /\ c \in Contacts /\ granted \in Nat
    BY GrantedType, 0 \in Nat DEF Reconciling, ContactOp
  <1>3. \A m \in DOMAIN s : s[m] \in Slot /\ s[m].id \in Nat /\ s[m].binding.registeredAt \in Nat
    BY <1>2, SlotFacts
  <1> HIDE DEF after, granted
  <1> SUFFICES /\ ~view.stale
               /\ LeavesOthers(view, after, c)
               /\ Redecides(view, after, c, granted)
               /\ NamesOn(view, after, c)
               /\ Answers(after, cmd, c, granted)
               /\ Writes(view, after, cmd, c, granted)
               /\ InOrder(s) => InOrder(after.slots)
    BY DEF after, granted
  <1>4. ~view.stale /\ ~Halts(view, after, op, cmd)
    BY <1>1 DEF Effect, Halts, after
  <1>u. ASSUME Unnamed(s, c) PROVE OfKind(s, c) = {} /\ \A x \in Held(s) : ~Equivalent(x.binding.contact, c)
    BY <1>u DEF Unnamed, OfKind, Held
  \* The slot the contact names, and the others.
  <1>k. ASSUME NEW k \in DOMAIN s, FirstNamed(s, c, k)
        PROVE  /\ OfKind(s, c) = {s[k]}
               /\ \A m \in DOMAIN s \ {k} : ~Equivalent(s[m].binding.contact, c)
    <2>1. Equivalent(s[k].binding.contact, c)
      BY <1>k DEF FirstNamed
    <2>2. \A m \in DOMAIN s \ {k} : ~Equivalent(s[m].binding.contact, c)
      <3> HIDE DEF s, c
      <3> SUFFICES ASSUME NEW m \in DOMAIN s, Equivalent(s[m].binding.contact, c) PROVE m = k
        OBVIOUS
      <3> QED BY <1>2, <2>1, OneOfAKind DEF s, c
    <2> QED BY <2>1, <2>2 DEF OfKind, Held
  <1>r. ASSUME NEW k \in DOMAIN s, FirstNamed(s, c, k), ~Repeated(s[k], cmd)
        PROVE  ~MeetsItself(view, cmd, c)
    <2>1. OfKind(s, c) = {s[k]}
      BY <1>k, <1>r
    <2> HIDE DEF c
    <2> QED BY <1>r, <2>1 DEF MeetsItself, Repeated, Compared
  <1>d. ASSUME NEW k \in DOMAIN s, FirstNamed(s, c, k), Decides(view, after, s[k], granted)
        PROVE  /\ after.nextId = view.nextId
               /\ \A d \in view.pending :
                    (\A x \in OfKind(view.slots, c) : d.slot # x.id) => d \in after.pending
               /\ Redecides(view, after, c, granted)
    <2>1. OfKind(s, c) = {s[k]}
      BY <1>d, <1>k
    <2> HIDE DEF c
    <2> QED BY <1>d, <2>1 DEF Decides, Redecides
  <1>5. CASE granted = 0 /\ Passes(view, after, op)
    <2>1. OfKind(s, c) = {} /\ after = view
      BY <1>5, <1>u DEF Passes
    <2> HIDE DEF c
    <2> QED BY <1>2, <1>4, <1>5, <2>1 DEF LeavesOthers, Redecides, NamesOn, Answers, Writes
  <1>6. CASE Defers(view, after, op, cmd, granted)
    <2>1. PICK k \in DOMAIN s :
            /\ FirstNamed(s, c, k) /\ Repeated(s[k], cmd) /\ after.slots = s
            /\ Decides(view, after, s[k], granted)
            /\ \/ AlreadyHolds(s[k].binding, cmd, granted)
               \/ [slot |-> s[k].id, stored |-> s[k].binding, net |-> granted] \in after.pending
      BY <1>6 DEF Defers
    <2>2. OfKind(s, c) = {s[k]} /\ OfKind(after.slots, c) = {s[k]}
      BY <1>k, <2>1
    <2>3. /\ ~s[k].writtenHere
          /\ s[k].binding.callId = cmd.callId /\ s[k].binding.cseq = cmd.cseq
      BY <2>1 DEF Repeated, Compared
    <2>4. Answers(after, cmd, c, granted)
      BY <2>1, <2>2, <2>3 DEF Answers
    <2>5. Writes(view, after, cmd, c, granted)
      BY <2>1, <2>2, <2>3 DEF Writes, MeetsItself
    <2>6. NamesOn(view, after, c)
      BY <1>2, <1>d, <2>1, <2>2 DEF NamesOn
    <2>7. LeavesOthers(view, after, c) /\ Redecides(view, after, c, granted)
      BY <1>d, <2>1 DEF LeavesOthers
    <2> QED BY <1>4, <2>1, <2>4, <2>5, <2>6, <2>7
  <1>7. CASE granted = 0 /\ Removes(view, after, op, cmd)
    <2>1. PICK k \in DOMAIN s :
            /\ FirstNamed(s, c, k) /\ ~Repeated(s[k], cmd) /\ after.slots = RemoveAt(s, k)
            /\ Decides(view, after, s[k], granted)
      BY <1>7 DEF Removes
    <2>2. OfKind(s, c) = {s[k]} /\ \A m \in DOMAIN s \ {k} : ~Equivalent(s[m].binding.contact, c)
      BY <1>k, <2>1
    <2>3. /\ Held(after.slots) = {s[m] : m \in DOMAIN s \ {k}}
          /\ InOrder(s) => InOrder(after.slots)
      BY <1>2, <2>1, HeldRemoved
    <2>4. OfKind(after.slots, c) = {}
      BY <2>2, <2>3 DEF OfKind
    <2>5. LeavesOthers(view, after, c)
      <3>1. \A x : ~Equivalent(x.binding.contact, c) =>
              (x \in Held(after.slots) <=> x \in Held(s))
        BY <2>2, <2>3 DEF Held, OfKind
      <3> QED BY <1>d, <2>1, <3>1 DEF LeavesOthers
    <2>6. NamesOn(view, after, c)
      BY <1>2, <1>d, <2>1, <2>4 DEF NamesOn
    <2>7. Redecides(view, after, c, granted)
      BY <1>d, <2>1
    <2>8. Answers(after, cmd, c, granted) /\ Writes(view, after, cmd, c, granted)
      BY <1>7, <1>r, <2>1, <2>4 DEF Answers, Writes
    <2> QED BY <1>4, <2>3, <2>5, <2>6, <2>7, <2>8
  \* What an operation writes is what it was asked for.
  <1>w. ASSUME NEW since \in Nat, NEW id \in Nat, granted # 0,
               ~MeetsItself(view, cmd, c),
               OfKind(after.slots, c) = {Written(op, cmd, now, granted, since, id)}
        PROVE  /\ Answers(after, cmd, c, granted) /\ Writes(view, after, cmd, c, granted)
               /\ \A y \in OfKind(after.slots, c) : y.id = id
    <2> DEFINE put == Written(op, cmd, now, granted, since, id)
    <2>1. /\ put.writtenHere /\ put.id = id
          /\ put.binding.callId = cmd.callId /\ put.binding.cseq = cmd.cseq
          /\ put.binding.expiresAt = now + granted /\ put.binding.refreshedAt = now
          /\ put.binding.path = cmd.path
      BY DEF Written, BindingFor
    <2> HIDE DEF put
    <2>2. AlreadyHolds(put.binding, cmd, granted)
      BY <1>2, <1>w, <2>1 DEF AlreadyHolds
    <2> QED BY <1>w, <2>1, <2>2 DEF Answers, Writes, put
  <1>p. ASSUME NEW since \in Nat, NEW id \in Nat, granted # 0
        PROVE  LET put == Written(op, cmd, now, granted, since, id)
               IN  put \in Slot /\ put.writtenHere /\ put.binding.contact = c
    <2>1. Granted(cmd, op) # 0
      BY <1>p DEF granted
    <2>2. LET put == Written(op, cmd, now, Granted(cmd, op), since, id)
          IN  /\ put \in Slot /\ put.writtenHere
              /\ IsActive(put.binding, now)
              /\ put.binding.contact = op.contact /\ op.contact \in Contacts
              /\ put.binding.callId = cmd.callId /\ put.binding.cseq = cmd.cseq
      BY <2>1, WrittenFacts
    <2> QED BY <2>2 DEF granted
  <1>8. CASE granted # 0 /\ Replaces(view, after, op, cmd, now, granted)
    <2>1. PICK k \in DOMAIN s :
            /\ FirstNamed(s, c, k) /\ ~Repeated(s[k], cmd)
            /\ after.slots =
                 [s EXCEPT ![k] = Written(op, cmd, now, granted, s[k].binding.registeredAt, s[k].id)]
            /\ Decides(view, after, s[k], granted)
      BY <1>8 DEF Replaces
    <2> DEFINE since == s[k].binding.registeredAt
               id == s[k].id
               put == Written(op, cmd, now, granted, since, id)
    <2>s. since \in Nat /\ id \in Nat
      BY <1>3
    <2>2. put \in Slot /\ put.writtenHere /\ put.binding.contact = c
      <3> HIDE DEF since, id
      <3> QED BY <1>8, <1>p, <2>s
    <2>3. OfKind(s, c) = {s[k]} /\ \A m \in DOMAIN s \ {k} : ~Equivalent(s[m].binding.contact, c)
      BY <1>k, <2>1
    <2>4. /\ Held(after.slots) = {s[m] : m \in DOMAIN s \ {k}} \cup {put}
          /\ InOrder(s) => InOrder(after.slots)
      <3> HIDE DEF s
      <3>1. after.slots = [s EXCEPT ![k] = put]
        BY <2>1
      <3> HIDE DEF put
      <3> QED BY <1>2, <2>2, <3>1, HeldReplaced
    <2>5. OfKind(after.slots, c) = {put}
      <3> HIDE DEF put
      <3> QED BY <2>2, <2>3, <2>4 DEF OfKind, Equivalent
    <2>6. LeavesOthers(view, after, c)
      <3>1. \A x : ~Equivalent(x.binding.contact, c) =>
              (x \in Held(after.slots) <=> x \in Held(s))
        <4> HIDE DEF put
        <4>1. Equivalent(put.binding.contact, c) /\ Equivalent(s[k].binding.contact, c)
          BY <2>2, <2>3 DEF Equivalent, OfKind
        <4> QED BY <2>4, <4>1 DEF Held
      <3> QED BY <1>d, <2>1, <3>1 DEF LeavesOthers
    <2>7. /\ Answers(after, cmd, c, granted) /\ Writes(view, after, cmd, c, granted)
          /\ \A y \in OfKind(after.slots, c) : y.id = s[k].id
      <3> HIDE DEF since, id
      <3>1. OfKind(after.slots, c) = {Written(op, cmd, now, granted, since, id)}
        BY <2>5
      <3>2. /\ Answers(after, cmd, c, granted) /\ Writes(view, after, cmd, c, granted)
            /\ \A y \in OfKind(after.slots, c) : y.id = id
        BY <1>8, <1>r, <1>w, <2>1, <2>s, <3>1
      <3> QED BY <3>2 DEF id
    <2>8. NamesOn(view, after, c)
      BY <1>2, <1>d, <2>1, <2>3, <2>7 DEF NamesOn
    <2>9. Redecides(view, after, c, granted)
      BY <1>d, <2>1
    <2> QED BY <1>4, <2>4, <2>6, <2>7, <2>8, <2>9
  <1>9. CASE granted # 0 /\ Inserts(view, after, op, cmd, now, granted)
    <2> DEFINE put == Written(op, cmd, now, granted, now, view.nextId)
    <2>1. PICK p \in 0..Len(s) : after.slots = InsertAt(s, p + 1, put)
      BY <1>9 DEF Inserts
    <2>2. put \in Slot /\ put.writtenHere /\ put.binding.contact = c
      BY <1>2, <1>9, <1>p
    <2>3. /\ OfKind(s, c) = {} /\ \A x \in Held(s) : ~Equivalent(x.binding.contact, c)
          /\ after.nextId = view.nextId + 1 /\ after.pending = view.pending
      BY <1>9, <1>u DEF Inserts
    <2>4. /\ Held(after.slots) = Held(s) \cup {put}
          /\ InOrder(s) => InOrder(after.slots)
      <3> HIDE DEF put, s
      <3> QED BY <1>2, <2>1, <2>2, HeldInserted
    <2>5. OfKind(after.slots, c) = {put}
      <3> HIDE DEF put
      <3> QED BY <2>2, <2>3, <2>4 DEF OfKind, Equivalent
    <2>6. LeavesOthers(view, after, c) /\ Redecides(view, after, c, granted)
      <3> HIDE DEF put
      <3>1. Equivalent(put.binding.contact, c)
        BY <2>2 DEF Equivalent
      <3> QED BY <2>3, <2>4, <3>1 DEF LeavesOthers, Redecides
    <2>7. /\ Answers(after, cmd, c, granted) /\ Writes(view, after, cmd, c, granted)
          /\ \A y \in OfKind(after.slots, c) : y.id = view.nextId
      <3>1. ~MeetsItself(view, cmd, c)
        BY <2>3 DEF MeetsItself
      <3> QED BY <1>2, <1>9, <1>w, <2>5, <3>1
    <2>8. NamesOn(view, after, c)
      BY <1>2, <2>3, <2>7 DEF NamesOn
    <2> QED BY <1>4, <2>4, <2>6, <2>7, <2>8
  <1> QED BY <1>1, <1>4, <1>5, <1>6, <1>7, <1>8, <1>9 DEF Effect

-----------------------------------------------------------------------------
(* Retransmissions: of each kind, the first delivery leaves what its last operation asked for *)

\* Of the first i operations, the j-th is the last on its kind.
Latest(cmd, i, j) ==
    /\ j \in 1..i
    /\ \A l \in 1..i : j < l => ~Equivalent(cmd.ops[l].contact, cmd.ops[j].contact)

\* One operation more is the last on its kind; of the others, those on other kinds stay.
LEMMA LatestGrows ==
  ASSUME NEW cmd, NEW i \in Nat \ {0}
  PROVE  /\ Latest(cmd, i, i)
         /\ \A j : j # i => (Latest(cmd, i, j) <=>
              Latest(cmd, i - 1, j) /\ ~Equivalent(cmd.ops[i].contact, cmd.ops[j].contact))
  BY DEF Latest

\* The contact and the lifetime of an operation.
LEMMA OpsFacts ==
  ASSUME NEW cmd \in Command, NEW j \in DOMAIN cmd.ops
  PROVE  /\ cmd.ops[j] \in ContactOp /\ cmd.ops[j].contact \in Contacts
         /\ Granted(cmd, cmd.ops[j]) \in Nat
         /\ Clear(cmd) => Distinguishable(cmd.ops[j].contact)
  <1>1. cmd.ops[j] \in ContactOp
    BY DEF Command
  <1>2. Granted(cmd, cmd.ops[j]) \in Nat
    BY <1>1, GrantedType, 0 \in Nat
  <1> QED BY <1>1, <1>2 DEF ContactOp, Clear

\* Names tell the slots of a view apart.
NamesDiffer(view) ==
    /\ \A x, y \in Held(view.slots) : x.id = y.id => x = y
    /\ \A x \in Held(view.slots) : x.id < view.nextId

\* After i operations, each kind among them has what the last one on it asked for.
Followed(view, cmd, now, kept, i) ==
    /\ Good(view, cmd, now, kept)
    /\ ~view.stale =>
         /\ NamesDiffer(view)
         /\ \A j : Latest(cmd, i, j) =>
              Answers(view, cmd, cmd.ops[j].contact, Granted(cmd, cmd.ops[j]))

\* The types of a slot that is held.
LEMMA HeldFacts ==
  ASSUME NEW s \in Seq(Slot), NEW x \in Held(s)
  PROVE  x \in Slot /\ x.binding \in Binding /\ x.binding.contact \in Contacts /\ x.id \in Nat
  BY SlotFacts DEF Held

\* The next operation answers for its own kind and leaves the others' answers alone.
LEMMA FollowedStep ==
  ASSUME NEW kept, NEW cmd \in Command, NEW now \in Nat, Clear(cmd), NEW i \in DOMAIN cmd.ops,
         NEW view, Followed(view, cmd, now, kept, i - 1)
  PROVE  Followed(ApplyOp(view, cmd.ops[i], cmd, now), cmd, now, kept, i)
  <1> DEFINE op == cmd.ops[i]
             c == op.contact
             granted == Granted(cmd, op)
             after == ApplyOp(view, op, cmd, now)
  <1>1. /\ op \in ContactOp /\ c \in Contacts /\ Distinguishable(c) /\ i \in Nat \ {0}
    <2>1. i \in Nat \ {0}
      BY DEF Command
    <2> QED BY <2>1, OpsFacts
  <1>2. /\ Good(view, cmd, now, kept) /\ view \in Reconciling /\ KindsApart(view.slots)
        /\ view.slots \in Seq(Slot) /\ view.nextId \in Nat
    BY DEF Followed, Good, Reconciling
  <1>3. /\ Good(after, cmd, now, kept) /\ after.slots \in Seq(Slot) /\ KindsApart(after.slots)
        /\ after.nextId \in Nat
    <2>1. Good(after, cmd, now, kept)
      BY <1>1, <1>2, OpKeepsGood
    <2> HIDE DEF after
    <2> QED BY <2>1 DEF Good, Reconciling
  <1> SUFFICES ASSUME ~after.stale
               PROVE  /\ NamesDiffer(after)
                      /\ \A j : Latest(cmd, i, j) =>
                           Answers(after, cmd, cmd.ops[j].contact, Granted(cmd, cmd.ops[j]))
    BY <1>3 DEF Followed
  <1>4. /\ ~view.stale
        /\ LeavesOthers(view, after, c) /\ NamesOn(view, after, c)
        /\ Answers(after, cmd, c, granted)
    BY <1>1, <1>2, OpOnKind
  <1>5. NamesDiffer(view)
    BY <1>4 DEF Followed
  <1> HIDE DEF after, op
  <1>6. NamesDiffer(after)
    <2>1. ASSUME NEW x \in Held(after.slots), ~Equivalent(x.binding.contact, c)
          PROVE  x \in Held(view.slots) /\ x.id < view.nextId /\ x.id < after.nextId
      <3>1. x \in Held(view.slots) /\ x.id < view.nextId
        BY <1>4, <1>5, <2>1 DEF LeavesOthers, NamesDiffer
      <3>2. x.id \in Nat
        BY <1>2, <3>1, HeldFacts
      <3> QED BY <1>2, <1>3, <1>4, <3>1, <3>2 DEF NamesOn
    <2>2. ASSUME NEW y \in Held(after.slots), Equivalent(y.binding.contact, c)
          PROVE  /\ y.id < after.nextId
                 /\ \/ y.id = view.nextId
                    \/ \E z \in OfKind(view.slots, c) : y.id = z.id /\ z \in Held(view.slots)
      <3>1. y \in OfKind(after.slots, c)
        BY <2>2 DEF OfKind
      <3>2. CASE \E z \in OfKind(view.slots, c) : y.id = z.id
        <4>1. PICK z \in OfKind(view.slots, c) : y.id = z.id
          BY <3>2
        <4>2. z \in Held(view.slots)
          BY DEF OfKind
        <4>3. z.id \in Nat /\ z.id < view.nextId
          BY <1>2, <1>5, <4>2, HeldFacts DEF NamesDiffer
        <4> QED BY <1>2, <1>3, <1>4, <4>1, <4>2, <4>3 DEF NamesOn
      <3>3. CASE y.id = view.nextId /\ y.id < after.nextId
        BY <3>3
      <3> QED BY <1>4, <3>1, <3>2, <3>3 DEF NamesOn
    <2>3. ASSUME NEW x \in Held(after.slots), ~Equivalent(x.binding.contact, c),
                 NEW y \in Held(after.slots), Equivalent(y.binding.contact, c)
          PROVE  x.id # y.id
      <3>1. x \in Held(view.slots) /\ x.id < view.nextId
        BY <2>1, <2>3
      <3>2. x.id \in Nat
        BY <1>2, <3>1, HeldFacts
      <3>3. ASSUME NEW z \in OfKind(view.slots, c), z \in Held(view.slots), y.id = z.id, x.id = y.id
            PROVE  FALSE
        <4>1. x = z
          BY <1>5, <3>1, <3>3 DEF NamesDiffer
        <4> QED BY <2>3, <4>1 DEF OfKind
      <3>4. CASE y.id = view.nextId
        BY <1>2, <3>1, <3>2, <3>4
      <3> QED BY <2>2, <2>3, <3>3, <3>4
    <2>4. ASSUME NEW x \in Held(after.slots), NEW y \in Held(after.slots), x.id = y.id
          PROVE  x = y
      <3>1. CASE ~Equivalent(x.binding.contact, c) /\ ~Equivalent(y.binding.contact, c)
        BY <1>5, <2>1, <2>4, <3>1 DEF NamesDiffer
      <3>2. CASE Equivalent(x.binding.contact, c) /\ Equivalent(y.binding.contact, c)
        <4>1. x \in OfKind(after.slots, c) /\ y \in OfKind(after.slots, c)
          BY <3>2 DEF OfKind
        <4> QED BY <1>1, <1>3, <4>1, OneHeld
      <3> QED BY <2>3, <2>4, <3>1, <3>2
    <2> QED BY <2>1, <2>2, <2>4 DEF NamesDiffer
  <1>7. ASSUME NEW j, Latest(cmd, i, j), j # i
        PROVE  Answers(after, cmd, cmd.ops[j].contact, Granted(cmd, cmd.ops[j]))
    <2> DEFINE e == cmd.ops[j].contact
               g == Granted(cmd, cmd.ops[j])
    <2>1. Latest(cmd, i - 1, j) /\ ~Equivalent(c, e)
      BY <1>1, <1>7, LatestGrows DEF op
    <2>2. e \in Contacts /\ Distinguishable(e)
      <3>1. j \in DOMAIN cmd.ops
        BY <1>7 DEF Latest, Command
      <3> QED BY <3>1, OpsFacts
    <2>3. Answers(view, cmd, e, g)
      BY <1>4, <2>1 DEF Followed
    <2> HIDE DEF e, g
    \* Nothing is of both kinds.
    <2>4. ASSUME NEW x, x \in Held(view.slots) \/ x \in Held(after.slots),
                 Equivalent(x.binding.contact, e)
          PROVE  ~Equivalent(x.binding.contact, c)
      <3>1. x.binding.contact \in Contacts
        BY <1>2, <1>3, <2>4, HeldFacts
      <3>2. Equivalent(c, e) <=> Equivalent(c, x.binding.contact)
        BY <1>1, <2>2, <2>4, <3>1, KindFacts
      <3> QED BY <2>1, <3>2 DEF Equivalent
    <2>5. CASE g = 0 /\ OfKind(view.slots, e) = {}
      <3>1. OfKind(after.slots, e) = {}
        BY <1>4, <2>4, <2>5 DEF OfKind, LeavesOthers
      <3> QED BY <2>5, <3>1 DEF Answers, e, g
    <2>6. ASSUME NEW x \in OfKind(view.slots, e),
                 x.binding.callId = cmd.callId, x.binding.cseq = cmd.cseq,
                 \/ AlreadyHolds(x.binding, cmd, g)
                 \/ [slot |-> x.id, stored |-> x.binding, net |-> g] \in view.pending
          PROVE  Answers(after, cmd, e, g)
      <3>1. /\ x \in Held(view.slots) /\ Equivalent(x.binding.contact, e)
            /\ ~Equivalent(x.binding.contact, c)
        BY <2>4 DEF OfKind
      <3>2. x \in OfKind(after.slots, e)
        BY <1>4, <3>1 DEF OfKind, LeavesOthers
      <3>3. \A y \in OfKind(view.slots, c) : x.id # y.id
        BY <1>5, <3>1 DEF NamesDiffer, OfKind
      <3> DEFINE d == [slot |-> x.id, stored |-> x.binding, net |-> g]
      <3>4. d \in view.pending => d \in after.pending
        <4>1. d.slot = x.id
          OBVIOUS
        <4> HIDE DEF d
        <4> QED BY <1>4, <3>3, <4>1 DEF LeavesOthers
      <3> QED BY <2>6, <3>2, <3>4 DEF Answers
    <2> QED BY <2>3, <2>5, <2>6 DEF Answers, e, g
  <1> QED BY <1>1, <1>4, <1>6, <1>7, LatestGrows DEF op

\* A strictly increasing listing of numbers from 1 on leaves none behind.
LEMMA Climbs ==
  ASSUME NEW n \in Nat, NEW f, \A m \in 1..n : f[m] \in Nat /\ f[m] >= 1,
         \A i, j \in 1..n : i < j => f[i] < f[j]
  PROVE  \A m \in 1..n : f[m] >= m
  <1> DEFINE T == {m \in Nat : m \in 1..n => f[m] >= m}
  <1>1. 0 \in T
    OBVIOUS
  <1>2. \A m \in Nat : m \in T => m + 1 \in T
    <2> SUFFICES ASSUME NEW m \in Nat, m \in T, m + 1 \in 1..n PROVE f[m + 1] >= m + 1
      OBVIOUS
    <2>1. CASE m = 0
      BY <2>1
    <2>2. CASE m # 0
      <3>1. m \in 1..n /\ m < m + 1
        BY <2>2
      <3>2. f[m] >= m /\ f[m] < f[m + 1] /\ f[m] \in Nat /\ f[m + 1] \in Nat
        BY <3>1
      <3> QED BY <3>2
    <2> QED BY <2>1, <2>2
  <1>3. \A m \in Nat : m \in T
    <2> HIDE DEF T
    <2> QED BY <1>1, <1>2, SetInduction
  <1> QED BY <1>3

\* One that reaches all of 1..n is 1..n.
Enumerates(f, l, n) ==
    /\ l \in Nat /\ n \in Nat
    /\ \A m \in 1..l : f[m] \in 1..n
    /\ \A i, j \in 1..l : i < j => f[i] < f[j]
    /\ \A k \in 1..n : \E m \in 1..l : f[m] = k

LEMMA ListsItself ==
  ASSUME NEW l, NEW n, NEW f, Enumerates(f, l, n)
  PROVE  l = n /\ \A m \in 1..n : f[m] = m
  <1>0. /\ l \in Nat /\ n \in Nat
        /\ \A m \in 1..l : f[m] \in 1..n
        /\ \A i, j \in 1..l : i < j => f[i] < f[j]
        /\ \A k \in 1..n : \E m \in 1..l : f[m] = k
    BY DEF Enumerates
  <1> DEFINE g == [k \in 1..n |-> CHOOSE m \in 1..l : f[m] = k]
  <1>1. \A k \in 1..n : g[k] \in 1..l /\ f[g[k]] = k
    BY <1>0
  <1> HIDE DEF g
  <1>2. \A i, j \in 1..n : i < j => g[i] < g[j]
    <2> SUFFICES ASSUME NEW i \in 1..n, NEW j \in 1..n, i < j, ~ (g[i] < g[j]) PROVE FALSE
      OBVIOUS
    <2>1. g[i] \in 1..l /\ g[j] \in 1..l /\ f[g[i]] = i /\ f[g[j]] = j
      BY <1>1
    <2>2. g[j] < g[i] \/ g[j] = g[i]
      BY <2>1
    <2>3. f[g[j]] < f[g[i]] \/ f[g[j]] = f[g[i]]
      BY <1>0, <2>1, <2>2
    <2> QED BY <2>1, <2>3
  <1>3. \A k \in 1..n : g[k] >= k
    <2>1. \A k \in 1..n : g[k] \in Nat /\ g[k] >= 1
      <3>1. \A m \in 1..l : m \in Nat /\ m >= 1
        BY <1>0
      <3> QED BY <1>1, <3>1
    <2> QED BY <1>0, <1>2, <2>1, Climbs
  <1>4. \A m \in 1..l : f[m] >= m
    <2>1. \A m \in 1..l : f[m] \in Nat /\ f[m] >= 1
      BY <1>0
    <2> QED BY <1>0, <2>1, Climbs
  <1>5. \A k \in 1..n : g[k] = k
    <2> SUFFICES ASSUME NEW k \in 1..n PROVE g[k] = k
      OBVIOUS
    <2>1. g[k] \in 1..l /\ f[g[k]] = k /\ f[g[k]] >= g[k] /\ g[k] >= k
      BY <1>1, <1>3, <1>4
    <2> QED BY <1>0, <2>1
  <1>6. \A k \in 1..n : k \in 1..l /\ f[k] = k
    BY <1>1, <1>5
  <1>7. n <= l
    <2>1. n = 0 \/ n \in 1..n
      BY <1>0
    <2> QED BY <1>0, <1>6, <2>1
  <1>8. l <= n
    <2>1. l = 0 \/ l \in 1..l
      BY <1>0
    <2>2. l \in 1..l => f[l] \in 1..n /\ f[l] >= l
      BY <1>0, <1>4
    <2> QED BY <1>0, <2>1, <2>2
  <1>9. l = n
    BY <1>0, <1>7, <1>8
  <1> QED BY <1>6, <1>9

\* Expiry leaves a set alone that has nothing expired.
LEMMA NothingExpires ==
  ASSUME NEW set \in Seq(Binding), NEW now, \A k \in DOMAIN set : IsActive(set[k], now)
  PROVE  Active(set, now) = set
  <1> DEFINE n == Len(set)
             l == ActiveCount(set, now)
  <1>1. PICK at : Keeps(at, set, now)
    BY ActiveKeeps
  <1>2. n \in Nat /\ DOMAIN set = 1..n /\ ActivePlaces(set, now) = 1..n
    BY DEF ActivePlaces
  <1>3. /\ l \in Nat /\ at \in [1..l -> 1..n]
        /\ Active(set, now) = [r \in 1..l |-> set[at[r]]]
        /\ \A k \in 1..n : \E r \in 1..l : at[r] = k
        /\ \A r, t \in 1..l : r < t => at[r] < at[t]
    BY <1>1, <1>2 DEF Keeps
  <1> HIDE DEF n, l
  <1>4. l = n /\ \A m \in 1..n : at[m] = m
    <2>1. Enumerates(at, l, n)
      BY <1>2, <1>3 DEF Enumerates
    <2> QED BY <2>1, ListsItself
  <1>5. set = [k \in 1..n |-> set[k]]
    BY <1>2
  <1>6. Active(set, now) = [r \in 1..n |-> set[r]]
    BY <1>3, <1>4
  <1> QED BY <1>5, <1>6

\* After the whole request.
LEMMA ReconcileFollows ==
  ASSUME NEW kept \in Seq(Binding), NEW cmd \in Command, NEW now \in Nat, Clear(cmd),
         FirstOfItsKind(kept), \A k \in DOMAIN kept : IsActive(kept[k], now)
  PROVE  Followed(Reconcile(cmd, now, kept), cmd, now, kept, Len(cmd.ops))
  <1> DEFINE n == Len(cmd.ops)
             V == {w \in (0..n) \X Reconciling : Followed(w[2], cmd, now, kept, w[1])}
  <1>1. cmd.ops \in Seq(ContactOp) /\ n \in Nat /\ DOMAIN cmd.ops = 1..n
    BY DEF Command
  <1>2. \A i, v : <<i, v>> \in V <=>
          i \in 0..n /\ v \in Reconciling /\ Followed(v, cmd, now, kept, i)
    OBVIOUS
  <1>3. <<0, View(kept)>> \in V
    <2> DEFINE v == View(kept)
    <2>1. Good(v, cmd, now, kept) /\ v \in Reconciling
      BY GoodStart DEF Good
    <2>2. NamesDiffer(v)
      <3>1. /\ v.nextId = Len(kept) + 1
            /\ v.slots = [k \in DOMAIN kept |-> [binding |-> kept[k], id |-> k, writtenHere |-> FALSE]]
        BY DEF View
      <3>2. DOMAIN kept = 1..Len(kept) /\ Len(kept) \in Nat
        OBVIOUS
      <3> HIDE DEF v
      <3>3. \A x \in Held(v.slots) :
              x.id \in 1..Len(kept)
              /\ x = [binding |-> kept[x.id], id |-> x.id, writtenHere |-> FALSE]
        BY <3>1, <3>2 DEF Held
      <3>4. \A x, y \in Held(v.slots) : x.id = y.id => x = y
        BY <3>3
      <3>5. \A x \in Held(v.slots) : x.id < v.nextId
        BY <3>1, <3>2, <3>3
      <3> QED BY <3>4, <3>5 DEF NamesDiffer
    <2>3. \A j : ~Latest(cmd, 0, j)
      BY DEF Latest
    <2> HIDE DEF v
    <2>4. Followed(v, cmd, now, kept, 0)
      BY <2>1, <2>2, <2>3 DEF Followed
    <2> QED BY <1>1, <1>2, <2>1, <2>4 DEF v
  <1>4. ASSUME NEW i \in 1..n, NEW v, <<i - 1, v>> \in V
        PROVE  <<i, ApplyOp(v, cmd.ops[i], cmd, now)>> \in V
    <2>1. Followed(v, cmd, now, kept, i - 1)
      BY <1>2, <1>4
    <2>2. Followed(ApplyOp(v, cmd.ops[i], cmd, now), cmd, now, kept, i)
      BY <1>1, <2>1, FollowedStep
    <2>3. ApplyOp(v, cmd.ops[i], cmd, now) \in Reconciling /\ i \in 0..n
      BY <1>1, <2>2 DEF Followed, Good
    <2> QED BY <1>2, <2>2, <2>3
  <1>5. <<n, Reconcile(cmd, now, kept)>> \in V
    <2> HIDE DEF V
    <2> QED BY <1>1, <1>3, <1>4, ReconcileSteps
  <1> HIDE DEF V
  <1> QED BY <1>2, <1>5

\* The set has, of each kind the request named, what the last operation on it asked for:
\* no binding, or one with its ordering token that holds what was granted.
Settled(cmd, set) ==
    \A j : Latest(cmd, Len(cmd.ops), j) =>
      LET op == cmd.ops[j]
          granted == Granted(cmd, op)
      IN  \/ granted = 0 /\ \A k \in DOMAIN set : ~Equivalent(set[k].contact, op.contact)
          \/ \E k \in DOMAIN set :
               /\ Equivalent(set[k].contact, op.contact)
               /\ set[k].callId = cmd.callId /\ set[k].cseq = cmd.cseq
               /\ AlreadyHolds(set[k], cmd, granted)

\* If nothing deferred fails, the view's bindings are such a set.
LEMMA ViewSettles ==
  ASSUME NEW kept, NEW cmd \in Command, NEW now, NEW view,
         Followed(view, cmd, now, kept, Len(cmd.ops)), ~view.stale,
         \A d \in view.pending : AlreadyHolds(d.stored, cmd, d.net)
  PROVE  Settled(cmd, BindingsOf(view))
  <1> DEFINE set == BindingsOf(view)
  <1>1. DOMAIN set = DOMAIN view.slots /\ \A m \in DOMAIN set : set[m] = view.slots[m].binding
    BY DEF BindingsOf
  <1> HIDE DEF set
  <1> SUFFICES ASSUME NEW j, Latest(cmd, Len(cmd.ops), j)
               PROVE  LET op == cmd.ops[j]
                          granted == Granted(cmd, op)
                      IN  \/ granted = 0 /\ \A k \in DOMAIN set : ~Equivalent(set[k].contact, op.contact)
                          \/ \E k \in DOMAIN set :
                               /\ Equivalent(set[k].contact, op.contact)
                               /\ set[k].callId = cmd.callId /\ set[k].cseq = cmd.cseq
                               /\ AlreadyHolds(set[k], cmd, granted)
    BY DEF Settled, set
  <1> DEFINE c == cmd.ops[j].contact
             g == Granted(cmd, cmd.ops[j])
  <1>2. Answers(view, cmd, c, g)
    BY DEF Followed
  <1> HIDE DEF c, g
  <1>3. CASE g = 0 /\ OfKind(view.slots, c) = {}
    <2>1. \A k \in DOMAIN set : ~Equivalent(set[k].contact, c)
      BY <1>1, <1>3 DEF OfKind, Held
    <2> QED BY <1>3, <2>1 DEF c, g
  <1>4. ASSUME NEW x \in OfKind(view.slots, c),
               x.binding.callId = cmd.callId, x.binding.cseq = cmd.cseq,
               \/ AlreadyHolds(x.binding, cmd, g)
               \/ [slot |-> x.id, stored |-> x.binding, net |-> g] \in view.pending
        PROVE  \E k \in DOMAIN set :
                 /\ Equivalent(set[k].contact, c)
                 /\ set[k].callId = cmd.callId /\ set[k].cseq = cmd.cseq
                 /\ AlreadyHolds(set[k], cmd, g)
    <2>1. PICK k \in DOMAIN view.slots : x = view.slots[k]
      BY DEF OfKind, Held
    <2>2. k \in DOMAIN set /\ set[k] = x.binding /\ Equivalent(set[k].contact, c)
      BY <1>1, <2>1 DEF OfKind
    <2>3. AlreadyHolds(x.binding, cmd, g)
      <3> DEFINE d == [slot |-> x.id, stored |-> x.binding, net |-> g]
      <3>1. d.stored = x.binding /\ d.net = g
        OBVIOUS
      <3> HIDE DEF d
      <3>2. d \in view.pending => AlreadyHolds(x.binding, cmd, g)
        BY <3>1
      <3> QED BY <1>4, <3>2 DEF d
    <2> QED BY <1>4, <2>2, <2>3
  <1> QED BY <1>2, <1>3, <1>4 DEF Answers, c, g

-----------------------------------------------------------------------------
(* Retransmissions: the second delivery *)

\* Of the operations on a kind there is a last one.
LEMMA LastOnKind ==
  ASSUME NEW cmd \in Command, Clear(cmd), NEW i \in DOMAIN cmd.ops
  PROVE  \E j : /\ Latest(cmd, Len(cmd.ops), j)
                /\ Equivalent(cmd.ops[j].contact, cmd.ops[i].contact)
  <1> DEFINE n == Len(cmd.ops)
             c == cmd.ops[i].contact
             S == {l \in 1..n : Equivalent(cmd.ops[l].contact, c)}
  <1>1. n \in Nat /\ DOMAIN cmd.ops = 1..n /\ i \in S
    BY DEF Command, Equivalent
  <1>2. c \in Contacts /\ Distinguishable(c)
        /\ \A l \in 1..n : cmd.ops[l].contact \in Contacts
    BY <1>1, OpsFacts
  <1>3. \E m \in S : \A y \in S : ~ (m < y)
    <2> SUFFICES ASSUME \A m \in S : \E y \in S : m < y PROVE FALSE
      OBVIOUS
    <2> DEFINE T == {a \in Nat : \E y \in S : y >= a}
    <2>0. S \subseteq 1..n /\ S \subseteq Nat
      BY <1>1
    <2> HIDE DEF S
    <2>1. 0 \in T
      BY <1>1, <2>0
    <2>2. \A a \in Nat : a \in T => a + 1 \in T
      <3> SUFFICES ASSUME NEW a \in Nat, a \in T PROVE \E y \in S : y >= a + 1
        OBVIOUS
      <3>1. PICK m \in S : m >= a
        OBVIOUS
      <3>2. PICK y \in S : m < y
        OBVIOUS
      <3>3. m \in Nat /\ y \in Nat
        BY <2>0
      <3> QED BY <3>1, <3>2, <3>3
    <2>3. \A a \in Nat : a \in T
      <3> HIDE DEF T
      <3> QED BY <2>1, <2>2, SetInduction
    <2>4. n + 1 \in T
      BY <1>1, <2>3
    <2> QED BY <1>1, <2>0, <2>4
  <1>4. PICK j \in S : \A y \in S : ~ (j < y)
    BY <1>3
  <1>5. j \in 1..n /\ Equivalent(cmd.ops[j].contact, c)
    OBVIOUS
  <1>6. ASSUME NEW l \in 1..n, j < l, Equivalent(cmd.ops[l].contact, cmd.ops[j].contact)
        PROVE  FALSE
    <2>1. Equivalent(cmd.ops[l].contact, c)
      <3> HIDE DEF c
      <3> QED BY <1>2, <1>5, <1>6, KindFacts
    <2> QED BY <1>4, <1>6, <2>1
  <1> QED BY <1>5, <1>6 DEF Latest

\* A set with no two of a kind, and what the request left of each kind it named.
LEMMA KeptMeets ==
  ASSUME NEW kept \in Seq(Binding), FirstOfItsKind(kept), NEW cmd \in Command, Clear(cmd),
         Settled(cmd, kept), NEW b \in DOMAIN kept, NEW j, Latest(cmd, Len(cmd.ops), j),
         Equivalent(kept[b].contact, cmd.ops[j].contact)
  PROVE  /\ kept[b].callId = cmd.callId /\ kept[b].cseq = cmd.cseq
         /\ AlreadyHolds(kept[b], cmd, Granted(cmd, cmd.ops[j]))
  <1> DEFINE c == cmd.ops[j].contact
  <1>1. c \in Contacts /\ Distinguishable(c)
    <2>1. j \in DOMAIN cmd.ops
      BY DEF Latest, Command
    <2> QED BY <2>1, OpsFacts
  <1>2. PICK k \in DOMAIN kept :
          /\ Equivalent(kept[k].contact, c)
          /\ kept[k].callId = cmd.callId /\ kept[k].cseq = cmd.cseq
          /\ AlreadyHolds(kept[k], cmd, Granted(cmd, cmd.ops[j]))
    BY DEF Settled
  <1>3. k = b
    <2>1. kept[k].contact \in Contacts /\ kept[b].contact \in Contacts /\ k \in Nat /\ b \in Nat
      <3>1. kept[k] \in Binding /\ kept[b] \in Binding /\ k \in Nat /\ b \in Nat
        OBVIOUS
      <3> QED BY <3>1, BindingFields
    <2>c. Equivalent(kept[b].contact, c)
      OBVIOUS
    <2> HIDE DEF c
    <2>2. ~Ambiguous(kept[k].contact) /\ ~Ambiguous(kept[b].contact)
          /\ Equivalent(kept[b].contact, kept[k].contact)
          /\ Equivalent(kept[k].contact, kept[b].contact)
      BY <1>1, <1>2, <2>1, <2>c, KindFacts
    <2>3. ~ (k < b) /\ ~ (b < k)
      BY <2>2 DEF FirstOfItsKind
    <2> QED BY <2>1, <2>3
  <1> QED BY <1>2, <1>3

\* A binding that an operation names carries the request's ordering token.
LEMMA KeptIsCurrent ==
  ASSUME NEW kept \in Seq(Binding), FirstOfItsKind(kept), NEW cmd \in Command, Clear(cmd),
         Settled(cmd, kept), NEW b \in DOMAIN kept, NEW i \in DOMAIN cmd.ops,
         Equivalent(kept[b].contact, cmd.ops[i].contact)
  PROVE  kept[b].callId = cmd.callId /\ kept[b].cseq = cmd.cseq
  <1>1. PICK j : /\ Latest(cmd, Len(cmd.ops), j)
                 /\ Equivalent(cmd.ops[j].contact, cmd.ops[i].contact)
    BY LastOnKind
  <1>2. j \in DOMAIN cmd.ops
    BY <1>1 DEF Latest, Command
  <1>3. /\ cmd.ops[i].contact \in Contacts /\ Distinguishable(cmd.ops[i].contact)
        /\ cmd.ops[j].contact \in Contacts /\ kept[b].contact \in Contacts
    <2>1. kept[b] \in Binding
      OBVIOUS
    <2> QED BY <1>2, <2>1, OpsFacts, BindingFields
  <1>4. Equivalent(kept[b].contact, cmd.ops[j].contact)
    BY <1>1, <1>3, KindFacts
  <1> QED BY <1>1, <1>4, KeptMeets

\* The slot of a binding nothing was written to.
Stored(kept, k) == [binding |-> kept[k], id |-> k, writtenHere |-> FALSE]

\* A second delivery, after i operations: the set's own bindings are there and in order, what
\* else there is was written by the last operation on its kind, and what is deferred is what
\* the last operation on that kind asked for.
Repeats(view, cmd, now, kept, i) ==
    /\ Good(view, cmd, now, kept)
    /\ ~view.stale
    /\ Len(kept) < view.nextId
    /\ InOrder(view.slots)
    /\ \A k \in DOMAIN kept : Stored(kept, k) \in Held(view.slots)
    /\ \A x \in Held(view.slots) :
         \/ ~x.writtenHere /\ \E k \in DOMAIN kept : x = Stored(kept, k)
         \/ /\ x.writtenHere /\ x.id > Len(kept)
            /\ \E j : /\ Latest(cmd, i, j) /\ Granted(cmd, cmd.ops[j]) # 0
                      /\ Equivalent(x.binding.contact, cmd.ops[j].contact)
    /\ \A d \in view.pending :
         \E k \in DOMAIN kept, j \in 1..i :
           /\ d.slot = k /\ d.stored = kept[k] /\ d.net = Granted(cmd, cmd.ops[j])
           /\ Latest(cmd, i, j) /\ Equivalent(kept[k].contact, cmd.ops[j].contact)

\* No operation of a second delivery comes too late.
LEMMA NeverLate ==
  ASSUME NEW kept \in Seq(Binding), FirstOfItsKind(kept), NEW cmd \in Command, NEW now \in Nat,
         Clear(cmd), Settled(cmd, kept), NEW i \in DOMAIN cmd.ops, NEW view,
         Repeats(view, cmd, now, kept, i - 1)
  PROVE  ~ApplyOp(view, cmd.ops[i], cmd, now).stale
  <1> DEFINE op == cmd.ops[i]
             after == ApplyOp(view, op, cmd, now)
             granted == Granted(cmd, op)
  <1>1. op \in ContactOp
    BY OpsFacts
  <1>2. view \in Reconciling /\ view.slots \in Seq(Slot) /\ ~view.stale
    BY DEF Repeats, Good, Reconciling
  <1>3. Effect(view, after, op, cmd, now, granted)
    BY <1>1, <1>2, OpEffect
  <1>4. ASSUME NEW k \in DOMAIN view.slots, FirstNamed(view.slots, op.contact, k),
               Newer(view.slots[k], cmd)
        PROVE  FALSE
    <2>1. view.slots[k] \in Held(view.slots)
      BY DEF Held
    <2>2. ~view.slots[k].writtenHere /\ view.slots[k].binding.cseq > cmd.cseq
      BY <1>4 DEF Newer, Compared
    <2>3. PICK b \in DOMAIN kept : view.slots[k] = Stored(kept, b)
      BY <2>1, <2>2 DEF Repeats
    <2>4. view.slots[k].binding = kept[b]
      BY <2>3 DEF Stored
    <2>5. Equivalent(kept[b].contact, op.contact)
      BY <1>4, <2>4 DEF FirstNamed
    <2> HIDE DEF op
    <2>6. kept[b].cseq = cmd.cseq
      BY <2>5, KeptIsCurrent DEF op
    <2>7. cmd.cseq \in Nat
      BY DEF Command
    <2> QED BY <2>2, <2>4, <2>6, <2>7
  <1> HIDE DEF after, op, granted
  <1>5. ~after.stale
    BY <1>2, <1>3, <1>4 DEF Effect, Halts
  <1> QED BY <1>5 DEF after, op

\* The next operation of a second delivery writes nothing but what a later one takes back.
LEMMA RepeatsStep ==
  ASSUME NEW kept \in Seq(Binding), FirstOfItsKind(kept), NEW cmd \in Command, NEW now \in Nat,
         Clear(cmd), Settled(cmd, kept), NEW i \in DOMAIN cmd.ops, NEW view,
         Repeats(view, cmd, now, kept, i - 1)
  PROVE  Repeats(ApplyOp(view, cmd.ops[i], cmd, now), cmd, now, kept, i)
  <1> DEFINE op == cmd.ops[i]
             c == op.contact
             granted == Granted(cmd, op)
             after == ApplyOp(view, op, cmd, now)
  <1>1. /\ op \in ContactOp /\ c \in Contacts /\ Distinguishable(c) /\ i \in Nat \ {0}
    <2>1. i \in Nat \ {0}
      BY DEF Command
    <2> QED BY <2>1, OpsFacts
  <1>2. /\ Good(view, cmd, now, kept) /\ view \in Reconciling /\ KindsApart(view.slots)
        /\ view.slots \in Seq(Slot) /\ view.nextId \in Nat
    BY DEF Repeats, Good, Reconciling
  <1>3. /\ Good(after, cmd, now, kept) /\ after.slots \in Seq(Slot) /\ KindsApart(after.slots)
        /\ after.nextId \in Nat
    <2>1. Good(after, cmd, now, kept)
      BY <1>1, <1>2, OpKeepsGood
    <2> HIDE DEF after
    <2> QED BY <2>1 DEF Good, Reconciling
  <1>4. ~after.stale
    BY NeverLate
  <1>5. /\ LeavesOthers(view, after, c) /\ Redecides(view, after, c, granted)
        /\ NamesOn(view, after, c) /\ Writes(view, after, cmd, c, granted)
        /\ InOrder(view.slots) => InOrder(after.slots)
    BY <1>1, <1>2, <1>4, OpOnKind
  <1>6. /\ Len(kept) \in Nat /\ DOMAIN kept = 1..Len(kept)
        /\ \A k \in DOMAIN kept : k \in Nat /\ k <= Len(kept)
    OBVIOUS
  <1> HIDE DEF after, op
  <1>7. Len(kept) < after.nextId /\ InOrder(after.slots)
    <2>1. Len(kept) < view.nextId /\ InOrder(view.slots)
      BY DEF Repeats
    <2> QED BY <1>2, <1>3, <1>5, <1>6, <2>1 DEF NamesOn
  <1>8. /\ \A k \in DOMAIN kept : Stored(kept, k) \in Held(view.slots)
        /\ \A k \in DOMAIN kept : /\ Stored(kept, k).id = k /\ ~Stored(kept, k).writtenHere
                                  /\ Stored(kept, k).binding = kept[k]
    BY DEF Repeats, Stored
  \* The operation's kind is the request's own, or has nothing of the set.
  <1>9. ASSUME NEW k \in DOMAIN kept, Equivalent(kept[k].contact, c)
        PROVE  MeetsItself(view, cmd, c) /\ after.slots = view.slots
    <2>1. kept[k].callId = cmd.callId /\ kept[k].cseq = cmd.cseq
      BY <1>9, KeptIsCurrent DEF op
    <2>2. MeetsItself(view, cmd, c)
      BY <1>8, <1>9, <2>1 DEF MeetsItself, OfKind
    <2> QED BY <1>5, <2>2 DEF Writes
  \* What was the last operation on another kind still is.
  <1>10. ASSUME NEW j, Latest(cmd, i - 1, j), NEW a \in Contacts,
                Equivalent(a, cmd.ops[j].contact), ~Equivalent(a, c)
         PROVE  Latest(cmd, i, j) /\ j \in 1..i
    <2>1. j \in DOMAIN cmd.ops /\ j # i /\ j \in 1..i
      BY <1>1, <1>10 DEF Latest, Command
    <2>2. cmd.ops[j].contact \in Contacts /\ Distinguishable(cmd.ops[j].contact)
      BY <2>1, OpsFacts
    <2>3. Equivalent(c, cmd.ops[j].contact) <=> Equivalent(c, a)
      BY <1>1, <1>10, <2>2, KindFacts
    <2>4. ~Equivalent(c, cmd.ops[j].contact)
      BY <1>10, <2>3 DEF Equivalent
    <2> QED BY <1>1, <1>10, <2>1, <2>4, LatestGrows DEF op
  <1>11. Latest(cmd, i, i) /\ i \in 1..i
    BY <1>1, LatestGrows
  <1>12. ASSUME NEW k \in DOMAIN kept PROVE Stored(kept, k) \in Held(after.slots)
    <2>1. CASE Equivalent(kept[k].contact, c)
      BY <1>8, <1>9, <2>1
    <2>2. CASE ~Equivalent(kept[k].contact, c)
      BY <1>5, <1>8, <2>2 DEF LeavesOthers
    <2> QED BY <2>1, <2>2
  <1>13. ASSUME NEW x \in Held(after.slots)
         PROVE  \/ ~x.writtenHere /\ \E k \in DOMAIN kept : x = Stored(kept, k)
                \/ /\ x.writtenHere /\ x.id > Len(kept)
                   /\ \E j : /\ Latest(cmd, i, j) /\ Granted(cmd, cmd.ops[j]) # 0
                             /\ Equivalent(x.binding.contact, cmd.ops[j].contact)
    <2> DEFINE a == x.binding.contact
    <2>1. a \in Contacts
      BY <1>3, HeldFacts
    <2>2. CASE ~Equivalent(a, c)
      <3>1. x \in Held(view.slots)
        BY <1>5, <2>2 DEF LeavesOthers
      <3>2. CASE ~x.writtenHere /\ \E k \in DOMAIN kept : x = Stored(kept, k)
        BY <3>2
      <3>3. ASSUME x.writtenHere, x.id > Len(kept),
                   NEW j, Latest(cmd, i - 1, j), Granted(cmd, cmd.ops[j]) # 0,
                   Equivalent(a, cmd.ops[j].contact)
            PROVE  \E l : /\ Latest(cmd, i, l) /\ Granted(cmd, cmd.ops[l]) # 0
                          /\ Equivalent(a, cmd.ops[l].contact)
        <4> HIDE DEF a, c
        <4>1. Latest(cmd, i, j)
          BY <1>10, <2>1, <2>2, <3>3
        <4> QED BY <3>3, <4>1
      <3> QED BY <3>1, <3>2, <3>3 DEF Repeats
    <2>3. CASE Equivalent(a, c) /\ MeetsItself(view, cmd, c)
      <3>1. after.slots = view.slots
        BY <1>5, <2>3 DEF Writes
      <3>2. PICK z \in OfKind(view.slots, c) : ~z.writtenHere
        BY <2>3 DEF MeetsItself
      <3>3. x \in Held(view.slots) /\ x \in OfKind(view.slots, c)
        BY <2>3, <3>1 DEF OfKind
      <3>4. x = z
        BY <1>1, <1>2, <3>3, OneHeld
      <3> QED BY <3>2, <3>3, <3>4 DEF Repeats
    <2>4. CASE Equivalent(a, c) /\ ~MeetsItself(view, cmd, c)
      <3>1. x \in OfKind(after.slots, c)
        BY <2>4 DEF OfKind
      <3>2. x.writtenHere /\ granted # 0
        BY <1>5, <2>4, <3>1 DEF Writes
      <3>3. x.id > Len(kept)
        <4>1. CASE x.id = view.nextId
          BY <1>2, <1>6, <4>1 DEF Repeats
        <4>2. ASSUME NEW z \in OfKind(view.slots, c), x.id = z.id PROVE x.id > Len(kept)
          <5>1. z \in Held(view.slots) /\ Equivalent(z.binding.contact, c)
            BY DEF OfKind
          <5>2. ~ (\E k \in DOMAIN kept : z = Stored(kept, k))
            BY <1>8, <1>9, <2>4, <5>1
          <5> QED BY <4>2, <5>1, <5>2 DEF Repeats
        <4> QED BY <1>5, <3>1, <4>1, <4>2 DEF NamesOn
      <3> QED BY <1>11, <2>4, <3>2, <3>3 DEF op
    <2> QED BY <2>2, <2>3, <2>4
  <1>14. ASSUME NEW d \in after.pending
         PROVE  \E k \in DOMAIN kept, j \in 1..i :
                  /\ d.slot = k /\ d.stored = kept[k] /\ d.net = Granted(cmd, cmd.ops[j])
                  /\ Latest(cmd, i, j) /\ Equivalent(kept[k].contact, cmd.ops[j].contact)
    <2>1. ASSUME d \in view.pending, \A x \in OfKind(view.slots, c) : d.slot # x.id
          PROVE  \E k \in DOMAIN kept, j \in 1..i :
                   /\ d.slot = k /\ d.stored = kept[k] /\ d.net = Granted(cmd, cmd.ops[j])
                   /\ Latest(cmd, i, j) /\ Equivalent(kept[k].contact, cmd.ops[j].contact)
      <3>1. PICK k \in DOMAIN kept, j \in 1..(i - 1) :
              /\ d.slot = k /\ d.stored = kept[k] /\ d.net = Granted(cmd, cmd.ops[j])
              /\ Latest(cmd, i - 1, j) /\ Equivalent(kept[k].contact, cmd.ops[j].contact)
        BY <2>1 DEF Repeats
      <3>2. ~Equivalent(kept[k].contact, c)
        BY <1>8, <2>1, <3>1 DEF OfKind
      <3>3. kept[k].contact \in Contacts
        <4>1. kept[k] \in Binding
          OBVIOUS
        <4> QED BY <4>1, BindingFields
      <3>4. Latest(cmd, i, j) /\ j \in 1..i
        BY <1>10, <3>1, <3>2, <3>3
      <3> QED BY <3>1, <3>4
    <2>2. ASSUME NEW x \in OfKind(view.slots, c), d.net = granted, d.slot = x.id,
                 \/ d.stored = x.binding /\ ~x.writtenHere
                 \/ \E e \in view.pending : e.slot = d.slot /\ e.stored = d.stored
          PROVE  \E k \in DOMAIN kept : /\ d.slot = k /\ d.stored = kept[k]
                                        /\ Equivalent(kept[k].contact, c)
      <3>1. x \in Held(view.slots) /\ Equivalent(x.binding.contact, c)
        BY DEF OfKind
      <3>2. CASE d.stored = x.binding /\ ~x.writtenHere
        <4>1. PICK k \in DOMAIN kept : x = Stored(kept, k)
          BY <3>1, <3>2 DEF Repeats
        <4> QED BY <1>8, <2>2, <3>1, <3>2, <4>1
      <3>3. ASSUME NEW e \in view.pending, e.slot = d.slot, e.stored = d.stored
            PROVE  \E k \in DOMAIN kept : /\ d.slot = k /\ d.stored = kept[k]
                                          /\ Equivalent(kept[k].contact, c)
        <4>1. PICK k \in DOMAIN kept : e.slot = k /\ e.stored = kept[k]
          BY DEF Repeats
        <4>2. ~ (x.id > Len(kept))
          BY <1>6, <2>2, <3>3, <4>1
        <4>3. PICK b \in DOMAIN kept : x = Stored(kept, b)
          BY <3>1, <4>2 DEF Repeats
        <4>4. b = k /\ Equivalent(kept[b].contact, c)
          BY <1>8, <2>2, <3>1, <3>3, <4>1, <4>3
        <4> QED BY <2>2, <3>3, <4>1, <4>4
      <3> QED BY <2>2, <3>2, <3>3
    <2> QED BY <1>5, <1>11, <2>1, <2>2 DEF Redecides, op
  <1> QED BY <1>3, <1>4, <1>7, <1>12, <1>13, <1>14 DEF Repeats, after, op

\* Before its first operation.
LEMMA RepeatsStart ==
  ASSUME NEW kept \in Seq(Binding), NEW cmd, NEW now, FirstOfItsKind(kept),
         \A k \in DOMAIN kept : IsActive(kept[k], now)
  PROVE  Repeats(View(kept), cmd, now, kept, 0)
  <1> DEFINE v == View(kept)
  <1>1. Good(v, cmd, now, kept)
    BY GoodStart
  <1>2. /\ DOMAIN v.slots = DOMAIN kept /\ \A k \in DOMAIN kept : v.slots[k] = Stored(kept, k)
        /\ v.nextId = Len(kept) + 1 /\ v.stale = FALSE /\ v.pending = {}
    BY DEF View, Stored
  <1>3. DOMAIN kept = 1..Len(kept) /\ Len(kept) \in Nat
    OBVIOUS
  <1>4. \A k \in DOMAIN kept : Stored(kept, k).id = k /\ ~Stored(kept, k).writtenHere
    BY DEF Stored
  <1> HIDE DEF v
  <1>5. InOrder(v.slots)
    BY <1>2, <1>4 DEF InOrder
  <1>6. /\ \A k \in DOMAIN kept : Stored(kept, k) \in Held(v.slots)
        /\ \A x \in Held(v.slots) : \E k \in DOMAIN kept : x = Stored(kept, k)
    BY <1>2 DEF Held
  <1>7. \A x \in Held(v.slots) : ~x.writtenHere /\ \E k \in DOMAIN kept : x = Stored(kept, k)
    BY <1>4, <1>6
  <1>8. Len(kept) < v.nextId
    BY <1>2, <1>3
  <1> QED BY <1>1, <1>2, <1>5, <1>6, <1>7, <1>8 DEF Repeats, v

\* After its last one.
LEMMA ReconcileRepeats ==
  ASSUME NEW kept \in Seq(Binding), FirstOfItsKind(kept), NEW cmd \in Command, NEW now \in Nat,
         Clear(cmd), Settled(cmd, kept), \A k \in DOMAIN kept : IsActive(kept[k], now)
  PROVE  Repeats(Reconcile(cmd, now, kept), cmd, now, kept, Len(cmd.ops))
  <1> DEFINE n == Len(cmd.ops)
             V == {w \in (0..n) \X Reconciling : Repeats(w[2], cmd, now, kept, w[1])}
  <1>1. cmd.ops \in Seq(ContactOp) /\ n \in Nat /\ DOMAIN cmd.ops = 1..n
    BY DEF Command
  <1>2. \A i, v : <<i, v>> \in V <=> i \in 0..n /\ Repeats(v, cmd, now, kept, i)
    <2>1. \A i, v : Repeats(v, cmd, now, kept, i) => v \in Reconciling
      BY DEF Repeats, Good
    <2> QED BY <2>1
  <1>3. <<0, View(kept)>> \in V
    <2>1. Repeats(View(kept), cmd, now, kept, 0)
      BY RepeatsStart
    <2> HIDE DEF V
    <2> QED BY <1>1, <1>2, <2>1
  <1>4. ASSUME NEW i \in 1..n, NEW v, <<i - 1, v>> \in V
        PROVE  <<i, ApplyOp(v, cmd.ops[i], cmd, now)>> \in V
    <2> HIDE DEF V
    <2>1. Repeats(v, cmd, now, kept, i - 1)
      BY <1>2, <1>4
    <2>2. Repeats(ApplyOp(v, cmd.ops[i], cmd, now), cmd, now, kept, i)
      BY <1>1, <2>1, RepeatsStep
    <2>3. i \in 0..n
      BY <1>1
    <2> QED BY <1>2, <2>2, <2>3
  <1>5. <<n, Reconcile(cmd, now, kept)>> \in V
    <2> HIDE DEF V
    <2> QED BY <1>1, <1>3, <1>4, ReconcileSteps
  <1> HIDE DEF V
  <1> QED BY <1>2, <1>5

\* At the end nothing is left of what was written, and what was deferred is held already.
LEMMA RepeatsEnds ==
  ASSUME NEW kept \in Seq(Binding), FirstOfItsKind(kept), NEW cmd \in Command, NEW now,
         Clear(cmd), Settled(cmd, kept), NEW view,
         Repeats(view, cmd, now, kept, Len(cmd.ops))
  PROVE  /\ ~view.stale
         /\ BindingsOf(view) = kept
         /\ \A d \in view.pending : AlreadyHolds(d.stored, cmd, d.net)
  <1> DEFINE s == view.slots
             n == Len(kept)
             l == Len(s)
             set == BindingsOf(view)
  <1>1. s \in Seq(Slot) /\ KindsApart(s)
    BY DEF Repeats, Good, Reconciling
  <1>2. /\ l \in Nat /\ DOMAIN s = 1..l /\ n \in Nat /\ DOMAIN kept = 1..n
    BY <1>1
  <1>3. \A k \in DOMAIN kept : /\ Stored(kept, k).id = k /\ ~Stored(kept, k).writtenHere
                               /\ Stored(kept, k).binding = kept[k]
    BY DEF Stored
  <1>4. \A k \in DOMAIN kept : Stored(kept, k) \in Held(s)
    BY DEF Repeats
  <1>5. ASSUME NEW x \in Held(s), x.writtenHere PROVE FALSE
    <2>1. PICK j : /\ Latest(cmd, Len(cmd.ops), j) /\ Granted(cmd, cmd.ops[j]) # 0
                   /\ Equivalent(x.binding.contact, cmd.ops[j].contact)
      BY <1>5 DEF Repeats
    <2> DEFINE c == cmd.ops[j].contact
    <2>2. c \in Contacts /\ Distinguishable(c)
      <3>1. j \in DOMAIN cmd.ops
        BY <2>1 DEF Latest, Command
      <3> QED BY <3>1, OpsFacts
    <2>3. PICK k \in DOMAIN kept : Equivalent(kept[k].contact, c)
      BY <2>1 DEF Settled
    <2>4. Equivalent(x.binding.contact, c)
      BY <2>1
    <2> HIDE DEF c, s
    <2>5. x \in OfKind(s, c) /\ Stored(kept, k) \in OfKind(s, c)
      BY <1>3, <1>4, <2>3, <2>4 DEF OfKind
    <2>6. x = Stored(kept, k)
      BY <1>1, <2>2, <2>5, OneHeld
    <2> QED BY <1>3, <1>5, <2>6
  <1>6. \A m \in DOMAIN s : \E k \in DOMAIN kept : s[m] = Stored(kept, k)
    <2> SUFFICES ASSUME NEW m \in DOMAIN s PROVE \E k \in DOMAIN kept : s[m] = Stored(kept, k)
      OBVIOUS
    <2>1. s[m] \in Held(s)
      BY DEF Held
    <2> QED BY <1>5, <2>1 DEF Repeats
  <1>i. InOrder(s)
    BY DEF Repeats
  <1> HIDE DEF s, n, l
  <1> DEFINE f == [m \in 1..l |-> s[m].id]
  <1>7. \A m \in 1..l : f[m] \in 1..n /\ s[m] = Stored(kept, f[m])
    BY <1>2, <1>3, <1>6
  <1>8. Enumerates(f, l, n)
    <2>f. \A m \in 1..l : f[m] = s[m].id
      OBVIOUS
    <2> HIDE DEF f
    <2>1. \A i, j \in 1..l : i < j => f[i] < f[j]
      <3> SUFFICES ASSUME NEW i \in 1..l, NEW j \in 1..l, i < j PROVE f[i] < f[j]
        OBVIOUS
      <3>1. ~s[i].writtenHere /\ ~s[j].writtenHere
        BY <1>2, <1>3, <1>7
      <3>2. s[i].id < s[j].id
        BY <1>2, <1>i, <3>1 DEF InOrder
      <3> QED BY <2>f, <3>2
    <2>2. \A k \in 1..n : \E m \in 1..l : f[m] = k
      <3> SUFFICES ASSUME NEW k \in 1..n PROVE \E m \in 1..l : f[m] = k
        OBVIOUS
      <3>1. PICK m \in 1..l : Stored(kept, k) = s[m]
        BY <1>2, <1>4 DEF Held
      <3>2. s[m].id = k
        BY <1>2, <1>3, <3>1
      <3> QED BY <2>f, <3>2
    <2> HIDE DEF f
    <2> QED BY <1>2, <1>7, <2>1, <2>2 DEF Enumerates
  <1> HIDE DEF f
  <1>9. l = n /\ \A m \in 1..n : f[m] = m
    BY <1>8, ListsItself
  <1>10. set = kept
    <2>1. set = [m \in 1..l |-> s[m].binding]
      BY <1>2 DEF BindingsOf, s
    <2>2. \A m \in 1..n : s[m].binding = kept[m]
      BY <1>2, <1>3, <1>7, <1>9
    <2>3. kept = [m \in 1..n |-> kept[m]]
      BY <1>2
    <2> HIDE DEF set
    <2> QED BY <1>9, <2>1, <2>2, <2>3
  <1>11. ASSUME NEW d \in view.pending PROVE AlreadyHolds(d.stored, cmd, d.net)
    <2>1. PICK k \in DOMAIN kept, j \in 1..Len(cmd.ops) :
            /\ d.stored = kept[k] /\ d.net = Granted(cmd, cmd.ops[j])
            /\ Latest(cmd, Len(cmd.ops), j) /\ Equivalent(kept[k].contact, cmd.ops[j].contact)
      BY DEF Repeats
    <2> QED BY <2>1, KeptMeets
  <1> QED BY <1>10, <1>11 DEF Repeats

-----------------------------------------------------------------------------
(* Retransmissions: the decisions *)

\* The checks that ask about the request alone.
Admissible(cmd) ==
    /\ cmd.requireOk /\ ~ (cmd.path # 0 /\ ~cmd.supportsPath)
    /\ cmd.wildcard => cmd.expires = 0
    /\ ~cmd.wildcard => ~ (Len(cmd.ops) > MaxContactOps)
    /\ ~cmd.wildcard /\ cmd.ops # <<>> => \A k \in DOMAIN cmd.ops : ~TooBrief(cmd, cmd.ops[k])

\* The set is as the request asked.
Obeyed(cmd, set) ==
    /\ Admissible(cmd)
    /\ cmd.wildcard => set = <<>>
    /\ ~cmd.wildcard => Settled(cmd, set)

\* Nothing in the set has expired.
AllActive(set, now) == \A k \in DOMAIN set : IsActive(set[k], now)

\* How a REGISTER is decided once it is admissible, and that no other is accepted.
LEMMA ProcessCases ==
  ASSUME NEW cmd, NEW now, NEW current
  PROVE  /\ ~Admissible(cmd) => Process(cmd, now, current).kind = "Reject"
         /\ Admissible(cmd) =>
              /\ cmd.wildcard => Process(cmd, now, current) = Wildcard(cmd, now, current)
              /\ ~cmd.wildcard /\ cmd.ops = <<>> =>
                   Process(cmd, now, current) = Noop(Active(current, now))
              /\ ~cmd.wildcard /\ cmd.ops # <<>> =>
                   Process(cmd, now, current) = Explicit(cmd, now, current)
  <1> DEFINE out == Process(cmd, now, current)
  <1>r. \A status : Reject(status).kind = "Reject"
    BY DEF Reject
  <1>1. CASE ~cmd.requireOk
    <2>1. out = Reject(420)
      BY <1>1, Zenon DEF Process
    <2> HIDE DEF out
    <2> QED BY <1>1, <1>r, <2>1 DEF Admissible, out
  <1>2. CASE cmd.requireOk /\ cmd.path # 0 /\ ~cmd.supportsPath
    <2>1. out = Reject(421)
      BY <1>2, Zenon DEF Process
    <2> HIDE DEF out
    <2> QED BY <1>2, <1>r, <2>1 DEF Admissible, out
  <1>3. CASE cmd.requireOk /\ ~ (cmd.path # 0 /\ ~cmd.supportsPath)
    <2>1. out = IF cmd.wildcard THEN Wildcard(cmd, now, current)
                ELSE IF Len(cmd.ops) > MaxContactOps THEN Reject(403)
                ELSE IF cmd.ops = <<>> THEN Noop(Active(current, now))
                ELSE IF \E k \in DOMAIN cmd.ops : TooBrief(cmd, cmd.ops[k]) THEN Reject(423)
                ELSE Explicit(cmd, now, current)
      BY <1>3, Zenon DEF Process
    <2>2. cmd.expires # 0 => Wildcard(cmd, now, current) = Reject(400)
      BY DEF Wildcard
    <2> HIDE DEF out
    <2>3. CASE cmd.wildcard
      <3>1. out = Wildcard(cmd, now, current)
        BY <2>1, <2>3
      <3> QED BY <1>3, <1>r, <2>2, <2>3, <3>1 DEF Admissible, out
    <2>4. CASE ~cmd.wildcard
      BY <1>3, <1>r, <2>1, <2>4 DEF Admissible, out
    <2> QED BY <2>3, <2>4
  <1> QED BY <1>1, <1>2, <1>3

\* Section 5.3 leaves the set as the request asked.
LEMMA ExplicitObeys ==
  ASSUME NEW current \in Seq(Binding), NEW cmd \in Command, NEW now \in Nat,
         FirstOfItsKind(current), Clear(cmd)
  PROVE  LET out == Explicit(cmd, now, current)
         IN  /\ out.kind = "Commit" => Settled(cmd, out.set)
             /\ out.kind = "Noop" /\ AllActive(current, now) => Settled(cmd, current)
  <1> DEFINE kept == DropExpired(current, now)
             view == Reconcile(cmd, now, kept)
             set == BindingsOf(view)
             out == Explicit(cmd, now, current)
             unheld == \E d \in view.pending : ~AlreadyHolds(d.stored, cmd, d.net)
             reaped == Len(kept) # Len(current)
  <1>1. /\ kept \in Seq(Binding) /\ FirstOfItsKind(kept)
        /\ \A k \in DOMAIN kept : IsActive(kept[k], now)
    BY ActiveType, ActiveApart DEF DropExpired
  <1>2. out = IF view.stale \/ unheld THEN Reject(500)
              ELSE IF OverQuota(set, now) THEN Reject(403)
              ELSE IF view.changed /\ (reaped \/ set # current) THEN Commit(set, now)
              ELSE Noop(Active(set, now))
    BY DEF Explicit
  <1>3. AllActive(current, now) => kept = current
    BY NothingExpires DEF DropExpired, AllActive
  <1> HIDE DEF kept
  <1>4. /\ Good(view, cmd, now, kept)
        /\ Followed(view, cmd, now, kept, Len(cmd.ops))
    BY <1>1, ReconcileGood, ReconcileFollows
  <1> HIDE DEF view
  <1>5. /\ DOMAIN set = DOMAIN view.slots /\ set \in Seq(Binding)
        /\ \A m \in DOMAIN view.slots : set[m] = view.slots[m].binding
    BY <1>4, BindingsOfFacts
  <1>6. ~view.stale /\ ~unheld => Settled(cmd, set)
    BY <1>4, ViewSettles
  <1>7. ASSUME ~view.changed PROVE set = kept
    <2>1. Untouched(view.slots, kept) /\ view.slots \in Seq(Slot)
      BY <1>4, <1>7 DEF Good, Reconciling
    <2>2. DOMAIN view.slots = DOMAIN kept
      BY <1>1, <2>1 DEF Untouched
    <2> HIDE DEF set
    <2>3. \A m \in DOMAIN kept : set[m] = kept[m]
      BY <1>5, <2>1, <2>2 DEF Untouched
    <2> QED BY <1>1, <1>5, <2>2, <2>3
  <1> HIDE DEF set, unheld, reaped, out
  <1>8. CASE view.stale \/ unheld \/ OverQuota(set, now)
    <2>1. out = Reject(500) \/ out = Reject(403)
      BY <1>2, <1>8
    <2>2. out.kind = "Reject"
      BY <2>1 DEF Reject
    <2> QED BY <2>2 DEF out
  <1>9. CASE /\ ~ (view.stale \/ unheld \/ OverQuota(set, now))
             /\ view.changed /\ (reaped \/ set # current)
    <2>1. out = Commit(set, now)
      BY <1>2, <1>9
    <2>2. out.kind = "Commit" /\ out.set = set
      BY <2>1 DEF Commit
    <2> QED BY <1>6, <1>9, <2>2 DEF out
  <1>10. CASE /\ ~ (view.stale \/ unheld \/ OverQuota(set, now))
              /\ ~ (view.changed /\ (reaped \/ set # current))
    <2>1. out = Noop(Active(set, now))
      BY <1>2, <1>10
    <2>2. out.kind = "Noop"
      BY <2>1 DEF Noop
    <2>3. AllActive(current, now) => set = current
      BY <1>3, <1>7, <1>10
    <2> QED BY <1>6, <1>10, <2>2, <2>3 DEF out
  <1> QED BY <1>8, <1>9, <1>10

\* So does section 5.4.
LEMMA WildcardObeys ==
  ASSUME NEW current \in Seq(Binding), NEW cmd \in Command, NEW now \in Nat
  PROVE  LET out == Wildcard(cmd, now, current)
         IN  /\ out.kind = "Commit" => out.set = <<>>
             /\ out.kind = "Noop" /\ AllActive(current, now) => current = <<>>
  <1> DEFINE out == Wildcard(cmd, now, current)
  <1>1. \/ out = Reject(400) \/ out = Reject(500)
        \/ out = Noop(<<>>) /\ DropExpired(current, now) = <<>>
        \/ out = Commit(<<>>, now)
    BY DEF Wildcard
  <1>2. AllActive(current, now) => DropExpired(current, now) = current
    BY NothingExpires DEF DropExpired, AllActive
  <1> HIDE DEF out
  <1>3. CASE out = Reject(400) \/ out = Reject(500)
    BY <1>3 DEF Reject, out
  <1>4. CASE out = Noop(<<>>) /\ DropExpired(current, now) = <<>>
    BY <1>2, <1>4 DEF Noop, out
  <1>5. CASE out = Commit(<<>>, now)
    BY <1>5 DEF Commit, out
  <1> QED BY <1>1, <1>3, <1>4, <1>5

\* Every decision that accepts does.
LEMMA ProcessObeys ==
  ASSUME NEW current \in Seq(Binding), NEW cmd \in Command, NEW now \in Nat,
         FirstOfItsKind(current), Clear(cmd)
  PROVE  LET out == Process(cmd, now, current)
         IN  /\ out.kind = "Commit" => Obeyed(cmd, out.set)
             /\ out.kind = "Noop" /\ AllActive(current, now) => Obeyed(cmd, current)
  <1> DEFINE out == Process(cmd, now, current)
  <1> HIDE DEF out
  <1>1. CASE ~Admissible(cmd)
    BY <1>1, ProcessCases DEF out
  <1>2. CASE Admissible(cmd) /\ cmd.wildcard
    <2>1. out = Wildcard(cmd, now, current)
      BY <1>2, ProcessCases DEF out
    <2>2. /\ out.kind = "Commit" => out.set = <<>>
          /\ out.kind = "Noop" /\ AllActive(current, now) => current = <<>>
      BY <2>1, WildcardObeys
    <2> QED BY <1>2, <2>2 DEF Obeyed, out
  <1>3. CASE Admissible(cmd) /\ ~cmd.wildcard /\ cmd.ops = <<>>
    <2>1. out = Noop(Active(current, now))
      BY <1>3, ProcessCases DEF out
    <2>2. out.kind = "Noop"
      BY <2>1 DEF Noop
    <2>3. Settled(cmd, current)
      <3>1. Len(cmd.ops) = 0
        BY <1>3
      <3> QED BY <3>1 DEF Settled, Latest
    <2> QED BY <1>3, <2>2, <2>3 DEF Obeyed, out
  <1>4. CASE Admissible(cmd) /\ ~cmd.wildcard /\ cmd.ops # <<>>
    <2>1. out = Explicit(cmd, now, current)
      BY <1>4, ProcessCases DEF out
    <2>2. /\ out.kind = "Commit" => Settled(cmd, out.set)
          /\ out.kind = "Noop" /\ AllActive(current, now) => Settled(cmd, current)
      BY <2>1, ExplicitObeys
    <2> QED BY <1>4, <2>2 DEF Obeyed, out
  <1> QED BY <1>1, <1>2, <1>3, <1>4

\* A second delivery, on a set as the request asked in which nothing has expired.
LEMMA ExplicitRepeats ==
  ASSUME NEW current \in Seq(Binding), NEW cmd \in Command, NEW now \in Nat,
         FirstOfItsKind(current), Clear(cmd), Settled(cmd, current),
         AllActive(current, now), ActiveCount(current, now) <= MaxBindings
  PROVE  Explicit(cmd, now, current).kind = "Noop"
  <1> DEFINE kept == DropExpired(current, now)
             view == Reconcile(cmd, now, kept)
             set == BindingsOf(view)
             out == Explicit(cmd, now, current)
             unheld == \E d \in view.pending : ~AlreadyHolds(d.stored, cmd, d.net)
             reaped == Len(kept) # Len(current)
  <1>1. out = IF view.stale \/ unheld THEN Reject(500)
              ELSE IF OverQuota(set, now) THEN Reject(403)
              ELSE IF view.changed /\ (reaped \/ set # current) THEN Commit(set, now)
              ELSE Noop(Active(set, now))
    BY DEF Explicit
  <1>2. kept = current
    BY NothingExpires DEF DropExpired, AllActive
  <1>3. Repeats(view, cmd, now, current, Len(cmd.ops))
    BY <1>2, ReconcileRepeats DEF AllActive
  <1> HIDE DEF kept, view
  <1>4. ~view.stale /\ ~unheld /\ set = current
    BY <1>3, RepeatsEnds
  <1> HIDE DEF set, unheld, out
  <1>5. ~OverQuota(set, now)
    <2>1. ActiveCount(current, now) \in Nat
      BY ActiveKeeps DEF Keeps
    <2> QED BY <1>4, <2>1, PolicyAssumption DEF OverQuota
  <1>6. out = Noop(Active(set, now))
    BY <1>1, <1>2, <1>4, <1>5
  <1> QED BY <1>6 DEF Noop, out

\* A second delivery of any REGISTER that was accepted.
LEMMA ProcessRepeats ==
  ASSUME NEW current \in Seq(Binding), NEW cmd \in Command, NEW now \in Nat,
         FirstOfItsKind(current), Clear(cmd), Obeyed(cmd, current),
         AllActive(current, now), ActiveCount(current, now) <= MaxBindings
  PROVE  Process(cmd, now, current).kind = "Noop"
  <1> DEFINE out == Process(cmd, now, current)
  <1> HIDE DEF out
  <1>1. Admissible(cmd)
    BY DEF Obeyed
  <1>2. CASE cmd.wildcard
    <2>1. out = Wildcard(cmd, now, current)
      BY <1>1, <1>2, ProcessCases DEF out
    <2>2. cmd.expires = 0 /\ current = <<>>
      BY <1>1, <1>2 DEF Admissible, Obeyed
    <2>3. DropExpired(current, now) = <<>>
      BY <2>2, EmptyIsInactive DEF DropExpired
    <2>4. out = Noop(<<>>)
      BY <2>1, <2>2, <2>3 DEF Wildcard
    <2> QED BY <2>4 DEF Noop, out
  <1>3. CASE ~cmd.wildcard /\ cmd.ops = <<>>
    <2>1. out = Noop(Active(current, now))
      BY <1>1, <1>3, ProcessCases DEF out
    <2> QED BY <2>1 DEF Noop, out
  <1>4. CASE ~cmd.wildcard /\ cmd.ops # <<>>
    <2>1. out = Explicit(cmd, now, current)
      BY <1>1, <1>4, ProcessCases DEF out
    <2> QED BY <1>4, <2>1, ExplicitRepeats DEF Obeyed, out
  <1> QED BY <1>2, <1>3, <1>4

-----------------------------------------------------------------------------
(* Retransmissions: the registrar *)

\* Until a binding expires, the set is as the REGISTER accepted last asked.
LastObeyed ==
    last.kind \in {"Commit", "Noop"} =>
      /\ last.cmd \in Command /\ last.now \in 0..clock
      /\ Clear(last.cmd) /\ AllActive(bindings, last.now) => Obeyed(last.cmd, bindings)

\* A REGISTER leaves the set so; time changes only whether it has expired.
LEMMA ObeyedStep ==
  RegistrarInv /\ LastObeyed /\ [NextRegistrar]_registrarVars => LastObeyed'
  <1> SUFFICES ASSUME RegistrarInv, LastObeyed, [NextRegistrar]_registrarVars
               PROVE  LastObeyed'
    OBVIOUS
  <1>t. clock \in Nat /\ bindings \in Seq(Binding) /\ FirstOfItsKind(bindings)
    BY DEF RegistrarInv, TypeOKRegistrar
  <1>1. CASE UNCHANGED registrarVars
    BY <1>1 DEF registrarVars, LastObeyed
  <1>2. ASSUME NEW cmd \in Commands, NEW now \in 0..clock, Register(cmd, now)
        PROVE  LastObeyed'
    <2> DEFINE out == Process(cmd, now, bindings)
    <2>1. cmd \in Command /\ now \in Nat
      BY <1>t, CommandsAssumption
    <2>2. Clear(cmd) =>
            /\ out.kind = "Commit" => Obeyed(cmd, out.set)
            /\ out.kind = "Noop" /\ AllActive(bindings, now) => Obeyed(cmd, bindings)
      BY <1>t, <2>1, ProcessObeys
    <2>3. /\ clock' = clock
          /\ last' = [kind |-> out.kind, cmd |-> cmd, now |-> now, outcome |-> out]
          /\ \/ out.kind = "Commit" /\ bindings' = out.set
             \/ out.kind # "Commit" /\ bindings' = bindings
      BY <1>2 DEF Register, Decided, Install
    <2> HIDE DEF out
    <2>4. last'.kind = out.kind /\ last'.cmd = cmd /\ last'.now = now /\ last'.now \in 0..clock'
      BY <2>3
    <2>5. CASE out.kind = "Commit" /\ bindings' = out.set
      BY <2>1, <2>2, <2>4, <2>5 DEF LastObeyed
    <2>6. CASE out.kind # "Commit" /\ bindings' = bindings
      BY <2>1, <2>2, <2>4, <2>6 DEF LastObeyed
    <2> QED BY <2>3, <2>5, <2>6
  <1>3. CASE Tick
    <2>1. clock' = clock + 1 /\ bindings' = bindings /\ last' = last
      BY <1>3 DEF Tick
    <2>2. last.now \in 0..clock => last.now \in 0..(clock + 1)
      BY <1>t
    <2> QED BY <2>1, <2>2 DEF LastObeyed
  <1> QED BY <1>1, <1>2, <1>3 DEF NextRegistrar

\* B4 and B7 to B9: the REGISTER decided last, delivered again at any instant before a
\* binding expires, is accepted and writes nothing, if its contacts can be told apart.
THEOREM RetransmissionsWriteNothing == SpecRegistrar => []RetransmissionWritesNothing
  <1>1. InitRegistrar => LastObeyed
    BY DEF InitRegistrar, Undecided, LastObeyed
  <1>2. RegistrarInv /\ LastObeyed => RetransmissionWritesNothing
    <2> SUFFICES ASSUME RegistrarInv, LastObeyed, last.kind \in {"Commit", "Noop"},
                        \A k \in DOMAIN last.cmd.ops : Distinguishable(last.cmd.ops[k].contact),
                        \A k \in DOMAIN bindings : IsActive(bindings[k], clock)
                 PROVE  Process(last.cmd, clock, bindings).kind = "Noop"
      BY DEF RetransmissionWritesNothing, RetransmissionIsNoop
    <2>1. /\ clock \in Nat /\ bindings \in Seq(Binding) /\ FirstOfItsKind(bindings)
          /\ ActiveCount(bindings, clock) <= MaxBindings
      BY DEF RegistrarInv, TypeOKRegistrar, QuotaHolds
    <2>2. last.cmd \in Command /\ last.now \in 0..clock /\ Clear(last.cmd)
      BY DEF LastObeyed, Clear
    <2>3. AllActive(bindings, last.now) /\ AllActive(bindings, clock)
      <3>1. \A k \in DOMAIN bindings : bindings[k].expiresAt \in Nat
        <4>1. \A k \in DOMAIN bindings : bindings[k] \in Binding
          BY <2>1
        <4> QED BY <4>1, BindingFields
      <3> QED BY <2>1, <2>2, <3>1 DEF AllActive, IsActive
    <2>4. Obeyed(last.cmd, bindings)
      BY <2>2, <2>3 DEF LastObeyed
    <2> QED BY <2>1, <2>2, <2>3, <2>4, ProcessRepeats
  <1> QED BY <1>1, <1>2, ObeyedStep, RegistrarInvariance, PTL DEF SpecRegistrar

-----------------------------------------------------------------------------
(* The targets of a call *)

\* Where each target of a call stands among the active bindings.
Ordered(at, set, now) ==
    LET found == Active(set, now)
        targets == OrderTargets(set, now)
        n == Len(found)
    IN  /\ n \in Nat /\ DOMAIN found = 1..n /\ DOMAIN targets = 1..n
        /\ at \in [1..n -> 1..n]
        /\ \A r \in 1..n : targets[r].contact = found[at[r]].contact
        /\ \A k \in 1..n : \E r \in 1..n : at[r] = k
        /\ \A r, t \in 1..n : at[r] = at[t] => r = t

\* Preference, recency, contact bytes and, among equals, creation order put every set in
\* one order.
LEMMA AheadOrders ==
  ASSUME NEW found \in Seq(Binding)
  PROVE  Orders([k \in DOMAIN found |-> {j \in DOMAIN found : Ahead(found, j, k)}])
  <1> DEFINE D == DOMAIN found
             before == [k \in D |-> {j \in D : Ahead(found, j, k)}]
             N == 1..Len(found)
  <1>1. D = N /\ Len(found) \in Nat /\ N \subseteq Nat
    OBVIOUS
  <1>2. IsFiniteSet(D)
    BY <1>1, FS_Interval
  <1>3. \A k \in D : /\ found[k].q \in Nat /\ found[k].refreshedAt \in Nat
                     /\ found[k].contact \in Nat /\ k \in Nat
    <2>1. \A k \in D : found[k] \in Binding
      OBVIOUS
    <2> HIDE DEF D
    <2> QED BY <1>1, <2>1, BindingFields
  <1> HIDE DEF D
  <1>4. DOMAIN before = D /\ \A j, k \in D : j \in before[k] <=> Ahead(found, j, k)
    OBVIOUS
  <1>5. \A k \in D : ~Ahead(found, k, k)
    BY <1>3 DEF Ahead, Before
  <1>6. \A j, k \in D : j # k => Ahead(found, j, k) \/ Ahead(found, k, j)
    BY <1>3 DEF Ahead, Before
  <1>7. \A i, j, k \in D : Ahead(found, i, j) /\ Ahead(found, j, k) => Ahead(found, i, k)
    <2> SUFFICES ASSUME NEW i \in D, NEW j \in D, NEW k \in D,
                        Ahead(found, i, j), Ahead(found, j, k)
                 PROVE  Ahead(found, i, k)
      OBVIOUS
    <2> DEFINE a == found[i]
               b == found[j]
               c == found[k]
    <2>1. /\ a.q \in Nat /\ a.refreshedAt \in Nat /\ a.contact \in Nat
          /\ b.q \in Nat /\ b.refreshedAt \in Nat /\ b.contact \in Nat
          /\ c.q \in Nat /\ c.refreshedAt \in Nat /\ c.contact \in Nat
          /\ i \in Nat /\ j \in Nat /\ k \in Nat
      BY <1>3
    <2>2. /\ Before(a, b) \/ (~Before(b, a) /\ i < j)
          /\ Before(b, c) \/ (~Before(c, b) /\ j < k)
      BY DEF Ahead
    <2> HIDE DEF a, b, c
    <2>3. Before(a, c) \/ (~Before(c, a) /\ i < k)
      <3> DEFINE aq == a.q  ar == a.refreshedAt  ac == a.contact
                 bq == b.q  br == b.refreshedAt  bc == b.contact
                 cq == c.q  cr == c.refreshedAt  cc == c.contact
                 Less(xq, xr, xc, l, yq, yr, yc, m) ==
                   \/ xq > yq
                   \/ xq = yq /\ xr > yr
                   \/ xq = yq /\ xr = yr /\ xc < yc
                   \/ xq = yq /\ xr = yr /\ xc = yc /\ l < m
      <3>1. /\ aq \in Nat /\ ar \in Nat /\ ac \in Nat /\ bq \in Nat /\ br \in Nat /\ bc \in Nat
            /\ cq \in Nat /\ cr \in Nat /\ cc \in Nat /\ i \in Nat /\ j \in Nat /\ k \in Nat
        BY <2>1
      <3>2. Less(aq, ar, ac, i, bq, br, bc, j) /\ Less(bq, br, bc, j, cq, cr, cc, k)
        <4>1. /\ Before(a, b) <=> \/ aq > bq
                                  \/ aq = bq /\ ar > br
                                  \/ aq = bq /\ ar = br /\ ac < bc
              /\ Before(b, a) <=> \/ bq > aq
                                  \/ bq = aq /\ br > ar
                                  \/ bq = aq /\ br = ar /\ bc < ac
              /\ Before(b, c) <=> \/ bq > cq
                                  \/ bq = cq /\ br > cr
                                  \/ bq = cq /\ br = cr /\ bc < cc
              /\ Before(c, b) <=> \/ cq > bq
                                  \/ cq = bq /\ cr > br
                                  \/ cq = bq /\ cr = br /\ cc < bc
          BY Zenon DEF Before
        <4> HIDE DEF aq, ar, ac, bq, br, bc, cq, cr, cc
        <4> QED BY <2>2, <3>1, <4>1
      <3>3. Less(aq, ar, ac, i, cq, cr, cc, k)
        <4> HIDE DEF aq, ar, ac, bq, br, bc, cq, cr, cc
        <4> QED BY <3>1, <3>2
      <3> QED BY <2>1, <3>3 DEF Before
    <2> QED BY <2>3 DEF Ahead, a, b, c
  <1>8. \A k \in D : before[k] \subseteq D
    OBVIOUS
  <1> HIDE DEF before
  <1>9. Orders(before)
    BY <1>2, <1>4, <1>5, <1>6, <1>7, <1>8 DEF Orders
  <1> QED BY <1>9 DEF before, D

\* A lookup lists the active bindings, each once.
LEMMA TargetsAreOrdered ==
  ASSUME NEW set \in Seq(Binding), NEW now
  PROVE  \E at : Ordered(at, set, now)
  <1> DEFINE found == Active(set, now)
             n == Len(found)
             before == [k \in DOMAIN found |-> {j \in DOMAIN found : Ahead(found, j, k)}]
             ordered == Listing(found, before)
             targets == OrderTargets(set, now)
  <1>1. found \in Seq(Binding)
    BY ActiveType
  <1>2. targets = [k \in DOMAIN ordered |-> LookupTarget(ordered[k], now)]
    BY DEF OrderTargets, Candidates
  <1> HIDE DEF found, targets
  <1>3. n \in Nat /\ DOMAIN found = 1..n
    BY <1>1
  <1>4. Orders(before)
    BY <1>1, AheadOrders
  <1>5. DOMAIN before = 1..n
    BY <1>3
  <1> HIDE DEF before
  <1>6. PICK at : /\ Arranges(at, before)
                  /\ ordered = [r \in 1..Cardinality(DOMAIN before) |-> found[at[r]]]
    BY <1>4, ListingArranges
  <1>7. Cardinality(DOMAIN before) = n
    <2> HIDE DEF n
    <2> QED BY <1>3, <1>5, FS_Interval
  <1>8. /\ at \in [1..n -> 1..n]
        /\ \A k \in 1..n : \E r \in 1..n : at[r] = k
        /\ \A r, t \in 1..n : at[r] = at[t] => r = t
        /\ ordered = [r \in 1..n |-> found[at[r]]]
    <2> HIDE DEF n, ordered
    <2> QED BY <1>5, <1>6, <1>7 DEF Arranges
  <1> HIDE DEF n, ordered
  <1>9. DOMAIN targets = 1..n /\ \A r \in 1..n : targets[r].contact = found[at[r]].contact
    BY <1>2, <1>8 DEF LookupTarget
  <1> QED BY <1>3, <1>8, <1>9 DEF Ordered, found, n, targets

\* No call is forked twice to one contact, unless the comparison is ambiguous.
THEOREM DistinctTargets == SpecRegistrar => []TargetsAreDistinct
  <1>1. RegistrarInv => TargetsAreDistinct
    <2> SUFFICES ASSUME RegistrarInv PROVE TargetsAreDistinct
      OBVIOUS
    <2> DEFINE found == Active(bindings, clock)
               ordered == OrderTargets(bindings, clock)
               targets == Targets(clock)
               n == Len(found)
    <2>1. bindings \in Seq(Binding) /\ FirstOfItsKind(bindings)
      BY DEF RegistrarInv, TypeOKRegistrar
    <2>2. FirstOfItsKind(found)
      BY <2>1, ActiveApart
    <2>3. PICK at : Ordered(at, bindings, clock)
      BY <2>1, TargetsAreOrdered
    <2>4. /\ n \in Nat /\ DOMAIN found = 1..n /\ DOMAIN ordered = 1..n
          /\ at \in [1..n -> 1..n]
          /\ \A r \in 1..n : ordered[r].contact = found[at[r]].contact
          /\ \A r, t \in 1..n : at[r] = at[t] => r = t
      BY <2>3 DEF Ordered
    <2>5. DOMAIN targets = DOMAIN ordered
          /\ \A r \in DOMAIN ordered : targets[r].uri = ordered[r].contact
      BY DEF Targets, TargetsFromLookup
    <2> HIDE DEF found, ordered, targets, n
    <2> SUFFICES ASSUME NEW j \in DOMAIN targets, NEW k \in DOMAIN targets, j # k,
                        Equivalent(targets[j].uri, targets[k].uri)
                 PROVE  Ambiguous(targets[j].uri) \/ Ambiguous(targets[k].uri)
      BY DEF TargetsAreDistinct, targets
    <2>6. /\ at[j] \in 1..n /\ at[k] \in 1..n /\ at[j] # at[k]
          /\ targets[j].uri = found[at[j]].contact /\ targets[k].uri = found[at[k]].contact
      BY <2>4, <2>5
    <2>7. Equivalent(found[at[j]].contact, found[at[k]].contact)
          /\ Equivalent(found[at[k]].contact, found[at[j]].contact)
      BY <2>6 DEF Equivalent
    <2>8. at[j] < at[k] \/ at[k] < at[j]
      BY <2>4, <2>6, SMTT(40)
    <2> QED BY <2>2, <2>4, <2>6, <2>7, <2>8 DEF FirstOfItsKind
  <1> QED BY <1>1, RegistrarInvariance, PTL

\* The contacts a 200 lists are the ones a call made at that instant would try.
THEOREM AnswersAreCalled == SpecRegistrar => []AnswerIsWhatIsCalled
  <1>1. RegistrarInv => AnswerIsWhatIsCalled
    <2> SUFFICES ASSUME RegistrarInv, last.kind \in {"Commit", "Noop"}
                 PROVE  ContactsOf(last.outcome.told)
                          = ContactsOf(OrderTargets(bindings, last.now))
      BY DEF AnswerIsWhatIsCalled, ContactsOf
    <2>1. PICK at : Ordered(at, bindings, last.now)
      BY TargetsAreOrdered DEF RegistrarInv, TypeOKRegistrar
    <2>2. ContactsOf(OrderTargets(bindings, last.now)) = ContactsOf(Active(bindings, last.now))
      <3> DEFINE found == Active(bindings, last.now)
                 targets == OrderTargets(bindings, last.now)
                 n == Len(found)
      <3>1. /\ DOMAIN found = 1..n /\ DOMAIN targets = 1..n
            /\ at \in [1..n -> 1..n]
            /\ \A r \in 1..n : targets[r].contact = found[at[r]].contact
            /\ \A k \in 1..n : \E r \in 1..n : at[r] = k
        BY <2>1 DEF Ordered
      <3> HIDE DEF found, targets, n
      <3>2. \A x : x \in ContactsOf(targets) <=> x \in ContactsOf(found)
        <4>1. ASSUME NEW r \in 1..n PROVE targets[r].contact \in ContactsOf(found)
          <5>1. at[r] \in DOMAIN found /\ targets[r].contact = found[at[r]].contact
            BY <3>1
          <5> QED BY <5>1 DEF ContactsOf
        <4>2. ASSUME NEW k \in 1..n PROVE found[k].contact \in ContactsOf(targets)
          <5>1. PICK r \in 1..n : at[r] = k
            BY <3>1
          <5>2. r \in DOMAIN targets /\ targets[r].contact = found[k].contact
            BY <3>1, <5>1
          <5> QED BY <5>2 DEF ContactsOf
        <4>3. ASSUME NEW x \in ContactsOf(targets) PROVE x \in ContactsOf(found)
          <5>1. PICK r \in 1..n : x = targets[r].contact
            BY <3>1 DEF ContactsOf
          <5> QED BY <4>1, <5>1
        <4>4. ASSUME NEW x \in ContactsOf(found) PROVE x \in ContactsOf(targets)
          <5>1. PICK r \in 1..n : x = found[r].contact
            BY <3>1 DEF ContactsOf
          <5> QED BY <4>2, <5>1
        <4> QED BY <4>3, <4>4
      <3> QED BY <3>2 DEF found, targets
    <2>3. ContactsOf(last.outcome.told) = ContactsOf(Active(bindings, last.now))
      BY DEF RegistrarInv, LastAnswerHolds
    <2> QED BY <2>2, <2>3
  <1> QED BY <1>1, RegistrarInvariance, PTL

-----------------------------------------------------------------------------
(* The location store: workers that read, decide and commit under the fence *)

\* Every initial state of the store satisfies the invariant.
LEMMA StoreInit == InitStore => StoreInv
  BY StoreAssumption DEF InitStore, InitRegistrar, StoreInv, TypeOKStore, RetriesAreBounded,
     RevisionFences, NoTask, NoPlan

\* Admitting a REGISTER leaves the row and the plans of the other workers alone.
LEMMA AdmitInv ==
  ASSUME StoreInv, NEW w \in Workers, NEW cmd \in Commands, Admit(w, cmd)
  PROVE  StoreInv'
  BY StoreAssumption DEF StoreInv, TypeOKStore, RetriesAreBounded, RevisionFences, Admit,
     registrarVars

\* A worker that reads holds the committed set at its revision.
LEMMA ReadInv ==
  ASSUME StoreInv, NEW w \in Workers, ReadStore(w)
  PROVE  StoreInv'
  <1> DEFINE outcome == Process(task[w].cmd, task[w].now, bindings)
  <1> HIDE DEF outcome
  <1>1. CASE outcome.kind = "Commit" /\ phase' = [phase EXCEPT ![w] = "committing"]
             /\ UNCHANGED <<last, reply>>
    BY <1>1, StoreAssumption DEF StoreInv, TypeOKStore, RetriesAreBounded, RevisionFences,
       ReadStore, outcome
  <1>2. CASE Return(w, Applied(outcome, revision))
    BY <1>2, StoreAssumption DEF StoreInv, TypeOKStore, RetriesAreBounded, RevisionFences,
       ReadStore, Return
  <1> QED BY <1>1, <1>2 DEF ReadStore, outcome

\* Answering ends the loop.
LEMMA ReadFailsInv ==
  ASSUME StoreInv, NEW w \in Workers, ReadFails(w)
  PROVE  StoreInv'
  BY StoreAssumption DEF StoreInv, TypeOKStore, RetriesAreBounded, RevisionFences, ReadFails,
     Return, registrarVars

\* A reported conflict either ends the loop or is one more of the retries.
LEMMA ConflictInv ==
  ASSUME StoreInv, NEW w \in Workers, phase[w] \in {"committing", "refused"}, NEW current,
         Conflict(w, current),
         UNCHANGED <<registrarVars, task, seen, plan, feed, deliveries>>
  PROVE  StoreInv'
  <1>0. conflicts[w] \in 0..Retries
    BY StoreAssumption DEF StoreInv, TypeOKStore, RetriesAreBounded
  <1>1. conflicts' \in [Workers -> 0..(Retries + 1)]
    BY <1>0, StoreAssumption DEF StoreInv, TypeOKStore, Conflict
  <1>2. CASE Return(w, Applied(Unavailable, current))
    BY <1>1, <1>2 DEF StoreInv, TypeOKStore, RetriesAreBounded, RevisionFences,
       Conflict, Return, registrarVars
  <1>3. CASE conflicts[w] + 1 <= Retries /\ phase' = [phase EXCEPT ![w] = "reading"]
             /\ UNCHANGED reply
    BY <1>1, <1>3 DEF StoreInv, TypeOKStore, RetriesAreBounded, RevisionFences,
       Conflict, registrarVars
  <1> QED BY <1>2, <1>3 DEF Conflict

\* After an install no other worker can still hold the new revision, so the fence holds.
LEMMA InstallFences ==
  ASSUME StoreInv, NEW w \in Workers, InstallPlan(w),
         UNCHANGED <<clock, task, seen, plan>>,
         phase'[w] # "committing",
         phase' = [phase EXCEPT ![w] = phase'[w]]
  PROVE  RevisionFences'
  <1>1. revision' = revision + 1 /\ revision \in Nat /\ revision = seen[w]
    BY DEF InstallPlan, Install, StoreInv, TypeOKStore
  <1>2. SUFFICES ASSUME NEW m \in Workers, phase'[m] = "committing"
                 PROVE  /\ seen[m] <= revision + 1
                        /\ seen[m] # revision + 1
                        /\ plan[m].outcome = Process(task[m].cmd, task[m].now, plan[m].held)
                        /\ plan[m].outcome.kind = "Commit"
    BY <1>1 DEF RevisionFences
  <1>3. m # w /\ phase[m] = "committing"
    BY <1>2 DEF StoreInv, TypeOKStore
  <1>4. seen[m] \in Nat /\ seen[m] <= revision
    BY <1>3 DEF StoreInv, TypeOKStore, RevisionFences
  <1> QED BY <1>1, <1>3, <1>4 DEF StoreInv, RevisionFences

\* A commit that succeeds preserves the invariant.
LEMMA SucceedsInv ==
  ASSUME StoreInv, NEW w \in Workers, CommitSucceeds(w)
  PROVE  StoreInv'
  <1>1. RevisionFences'
    BY InstallFences DEF CommitSucceeds, StoreInv, TypeOKStore
  <1>2. revision' \in Nat
    BY DEF CommitSucceeds, InstallPlan, Install, StoreInv, TypeOKStore
  <1>3. TypeOKStore'
    BY <1>2 DEF CommitSucceeds, InstallPlan, StoreInv, TypeOKStore
  <1>4. RetriesAreBounded'
    BY DEF CommitSucceeds, InstallPlan, StoreInv, TypeOKStore, RetriesAreBounded
  <1> QED BY <1>1, <1>3, <1>4 DEF StoreInv

\* Announcing the commit touches the feed of the worker's node and ends the loop.
LEMMA PublishInv ==
  ASSUME StoreInv, NEW w \in Workers, Publish(w)
  PROVE  StoreInv'
  <1>1. feed' \in [Nodes -> Seq(Nat)]
    <2>1. NodeOf[w] \in Nodes /\ seen[w] + 1 \in Nat /\ feed[NodeOf[w]] \in Seq(Nat)
      BY StoreAssumption DEF StoreInv, TypeOKStore
    <2>2. Published(feed[NodeOf[w]], seen[w] + 1) \in Seq(Nat)
      BY <2>1, StoreAssumption DEF Published
    <2> QED BY <2>1, <2>2 DEF Publish, StoreInv, TypeOKStore
  <1>2. TypeOKStore'
    BY <1>1 DEF Publish, Return, StoreInv, TypeOKStore, registrarVars
  <1>3. RetriesAreBounded' /\ RevisionFences'
    BY DEF Publish, Return, StoreInv, TypeOKStore, RetriesAreBounded, RevisionFences, registrarVars
  <1> QED BY <1>2, <1>3 DEF StoreInv

\* So does one whose acknowledgement was lost.
LEMMA UnacknowledgedInv ==
  ASSUME StoreInv, NEW w \in Workers, CommitUnacknowledged(w)
  PROVE  StoreInv'
  <1>0. conflicts[w] \in 0..Retries
    BY StoreAssumption DEF CommitUnacknowledged, InstallPlan, StoreInv, TypeOKStore, RetriesAreBounded
  <1>1. \/ phase' = [phase EXCEPT ![w] = "idle"]
        \/ phase' = [phase EXCEPT ![w] = "reading"] /\ conflicts[w] + 1 <= Retries
    BY DEF CommitUnacknowledged, Conflict, Return
  <1>2. RevisionFences'
    BY <1>1, InstallFences DEF CommitUnacknowledged, StoreInv, TypeOKStore
  <1>3. conflicts' \in [Workers -> 0..(Retries + 1)]
    BY <1>0, StoreAssumption DEF StoreInv, TypeOKStore, CommitUnacknowledged, Conflict
  <1>4. revision' \in Nat /\ DOMAIN reply' = Workers
    BY DEF CommitUnacknowledged, InstallPlan, Install, Conflict, Return, StoreInv, TypeOKStore
  <1>5. TypeOKStore'
    BY <1>1, <1>3, <1>4 DEF CommitUnacknowledged, InstallPlan, StoreInv, TypeOKStore
  <1>6. RetriesAreBounded'
    BY <1>0, <1>1 DEF CommitUnacknowledged, Conflict, StoreInv, TypeOKStore, RetriesAreBounded
  <1> QED BY <1>2, <1>5, <1>6 DEF StoreInv

\* The clock only moves forward, so what was admitted stays in the past.
LEMMA TickInv ==
  ASSUME StoreInv, TickStore
  PROVE  StoreInv'
  BY BoundsAssumption DEF StoreInv, TypeOKStore, RetriesAreBounded, RevisionFences, TickStore, Tick

\* Every step of a worker preserves the invariant.
LEMMA StepInv ==
  ASSUME StoreInv, NEW w \in Workers, Step(w)
  PROVE  StoreInv'
  <1>1. CASE CommitFails(w)
    BY <1>1, ConflictInv DEF CommitFails
  <1>2. CASE CommitRefused(w)
    BY <1>2 DEF StoreInv, TypeOKStore, RetriesAreBounded, RevisionFences, CommitRefused,
       registrarVars
  <1>3. CASE ReportConflict(w)
    BY <1>3, ConflictInv DEF ReportConflict
  <1> QED BY <1>1, <1>2, <1>3, ReadInv, ReadFailsInv, SucceedsInv, PublishInv, UnacknowledgedInv
     DEF Step

\* The revision fence, for every number of workers: a worker about to commit under the
\* current revision decided on the set that is committed.
THEOREM StoreInvariance == SpecStore => []StoreInv
  <1>1. StoreInv /\ [NextStore]_storeVars => StoreInv'
    <2> SUFFICES ASSUME StoreInv, [NextStore]_storeVars PROVE StoreInv'
      OBVIOUS
    <2>1. CASE UNCHANGED storeVars
      BY <2>1 DEF storeVars, registrarVars, StoreInv, TypeOKStore, RetriesAreBounded,
         RevisionFences
    <2>2. CASE NextStore
      BY <2>1, <2>2, AdmitInv, StepInv, TickInv DEF NextStore, AllServed
    <2> QED BY <2>1, <2>2
  <1> QED BY StoreInit, <1>1, PTL DEF SpecStore

\* K3 and K6: RevisionFences itself.
THEOREM Fencing == SpecStore => []RevisionFences
  BY StoreInvariance, PTL DEF StoreInv

\* A commit decided on the committed set is the abstract registrar's step, whether or
\* not its acknowledgement arrives.
LEMMA InstallRegisters ==
  ASSUME StoreInv, NEW w \in Workers, InstallPlan(w), UNCHANGED clock
  PROVE  NextRegistrar
  <1>1. plan[w].outcome = Process(task[w].cmd, task[w].now, bindings)
        /\ plan[w].outcome.kind = "Commit"
    BY DEF InstallPlan, StoreInv, RevisionFences
  <1>2. task[w].cmd \in Commands /\ task[w].now \in 0..clock
    BY DEF InstallPlan, StoreInv, TypeOKStore
  <1>3. Register(task[w].cmd, task[w].now)
    BY <1>1 DEF Register, InstallPlan
  <1> QED BY <1>2, <1>3 DEF NextRegistrar

\* A command that writes nothing is decided, for good, where it reads.
LEMMA ReadRegisters ==
  ASSUME StoreInv, NEW w \in Workers, ReadStore(w)
  PROVE  NextRegistrar \/ UNCHANGED registrarVars
  <1>1. task[w].cmd \in Commands /\ task[w].now \in 0..clock
    BY DEF ReadStore, StoreInv, TypeOKStore
  <1> DEFINE outcome == Process(task[w].cmd, task[w].now, bindings)
  <1>2. CASE outcome.kind # "Commit" /\ last' = Decided(task[w].cmd, task[w].now, outcome)
    <2>1. Register(task[w].cmd, task[w].now)
      BY <1>2 DEF Register, ReadStore
    <2> QED BY <1>1, <2>1 DEF NextRegistrar
  <1>3. CASE UNCHANGED last
    BY <1>3 DEF ReadStore, registrarVars
  <1> QED BY <1>2, <1>3 DEF ReadStore

\* K1, K2, K6: for every number of workers and retries, whatever fails and whichever
\* acknowledgements are lost, the workers implement the registrar that applies commands
\* one at a time.
THEOREM StoreImplementsRegistrar == SpecStore => ActsAsOneRegistrar
  <1>1. InitStore => InitRegistrar
    BY DEF InitStore
  <1>2. StoreInv /\ [NextStore]_storeVars => [NextRegistrar]_registrarVars
    <2> SUFFICES ASSUME StoreInv, [NextStore]_storeVars
                 PROVE  NextRegistrar \/ UNCHANGED registrarVars
      OBVIOUS
    <2>1. CASE UNCHANGED storeVars
      BY <2>1 DEF storeVars
    <2>2. ASSUME NEW w \in Workers, NEW cmd \in Commands, Admit(w, cmd)
          PROVE  UNCHANGED registrarVars
      BY <2>2 DEF Admit
    <2>3. ASSUME NEW w \in Workers, Step(w)
          PROVE  NextRegistrar \/ UNCHANGED registrarVars
      <3>1. CASE ReadStore(w)
        BY <3>1, ReadRegisters
      <3>2. CASE CommitSucceeds(w)
        BY <3>2, InstallRegisters DEF CommitSucceeds
      <3>3. CASE CommitUnacknowledged(w)
        BY <3>3, InstallRegisters DEF CommitUnacknowledged
      <3>4. CASE ReadFails(w) \/ CommitFails(w) \/ CommitRefused(w) \/ ReportConflict(w) \/ Publish(w)
        BY <3>4 DEF ReadFails, CommitFails, CommitRefused, ReportConflict, Publish
      <3> QED BY <2>3, <3>1, <3>2, <3>3, <3>4 DEF Step
    <2>4. CASE TickStore
      BY <2>4 DEF TickStore, NextRegistrar
    <2> QED BY <2>1, <2>2, <2>3, <2>4 DEF NextStore, AllServed
  <1> QED BY <1>1, <1>2, StoreInvariance, PTL DEF SpecStore, ActsAsOneRegistrar, SpecRegistrar

\* What is proved of one registrar is therefore true of the shared row, whichever workers
\* race on it: its quota, the last word of the REGISTER decided last and the truth of that
\* answer, targets that are told apart, and a retransmission that writes nothing.
THEOREM StoreKeepsThePromises ==
  SpecStore => [](/\ QuotaHolds /\ LastWordHolds /\ TargetsAreDistinct /\ AnswerIsWhatIsCalled
                  /\ RetransmissionWritesNothing)
  <1>1. SpecStore => SpecRegistrar
    BY StoreImplementsRegistrar DEF ActsAsOneRegistrar
  <1> QED BY <1>1, QuotaIsKept, LastWordIsKept, DistinctTargets, AnswersAreCalled,
      RetransmissionsWriteNothing, PTL

\* B3 to B5 with several workers: no binding goes back to an older CSeq.
THEOREM StoreKeepsOrder == SpecStore => OrderingTokenAdvances
  BY StoreImplementsRegistrar, OrderingTokens DEF ActsAsOneRegistrar

-----------------------------------------------------------------------------
(***************************************************************************)
(* What a worker answered and what a feed announced stays true, because     *)
(* `writes` only grows: a revision keeps the writer and the set it has.     *)
(***************************************************************************)

\* A sequence, of whatever its elements are.
IsSequence(s) == s \in Seq({s[k] : k \in 1..Len(s)})

\* A worker between its commit and the announcement holds the revision it installed.
HoldsItsCommit(w) ==
    /\ seen[w] + 1 \in 1..revision
    /\ writes[seen[w] + 1].delivery = task[w].delivery
    /\ writes[seen[w] + 1].node = NodeOf[w]
    /\ writes[seen[w] + 1].set = plan[w].outcome.set
    /\ plan[w].outcome.kind = "Commit"

\* The history has one entry for each revision, and the last is the committed set.
HistoryInv ==
    /\ IsSequence(writes)
    /\ Len(writes) = revision
    /\ SetAt(revision) = bindings
    /\ \A w \in Workers : task[w].from \in Nat /\ (phase[w] # "idle" => task[w].from <= revision)
    /\ \A w \in Workers : phase[w] = "publishing" => HoldsItsCommit(w)

\* AcceptanceIsTrue for one worker, with the revision in the history.
AnswerIsTrue(w) ==
    LET answer == reply[w].outcome
    IN  /\ answer.kind = "Commit" =>
              /\ reply[w].revision \in 1..revision
              /\ writes[reply[w].revision].delivery = task[w].delivery
              /\ writes[reply[w].revision].set = answer.set
        /\ answer.kind = "Noop" =>
              /\ reply[w].revision \in task[w].from..revision
              /\ reply[w].revision \in 0..revision
              /\ answer = Process(task[w].cmd, task[w].now, SetAt(reply[w].revision))

\* What a feed holds was installed on its node and is not about to be announced again.
FeedInv(h) ==
    /\ Len(feed[h]) <= FeedCapacity
    /\ \A k \in 1..Len(feed[h]) : feed[h][k] \in 1..revision /\ writes[feed[h][k]].node = h
    /\ \A j, k \in 1..Len(feed[h]) : feed[h][j] = feed[h][k] => j = k
    /\ \A w \in Workers : phase[w] = "publishing" /\ NodeOf[w] = h =>
          \A k \in 1..Len(feed[h]) : feed[h][k] # seen[w] + 1

\* No two workers are about to announce one revision.
OwnRevisions ==
    \A v, w \in Workers : phase[v] = "publishing" /\ phase[w] = "publishing" /\ v # w =>
        seen[v] # seen[w]

TruthInv ==
    /\ HistoryInv
    /\ \A w \in Workers : AnswerIsTrue(w)
    /\ \A h \in Nodes : FeedInv(h)
    /\ OwnRevisions

\* Appending to a sequence leaves what it holds in place.
LEMMA AppendToSequence ==
  ASSUME NEW s, NEW e, IsSequence(s)
  PROVE  /\ IsSequence(Append(s, e))
         /\ Len(s) \in Nat
         /\ Len(Append(s, e)) = Len(s) + 1
         /\ Append(s, e)[Len(s) + 1] = e
         /\ \A k \in 1..Len(s) : Append(s, e)[k] = s[k]
  <1> DEFINE S == {s[k] : k \in 1..Len(s)}
             t == Append(s, e)
  <1>1. s \in Seq(S \cup {e})
    BY DEF IsSequence
  <1>2. /\ t \in Seq(S \cup {e}) /\ Len(s) \in Nat /\ Len(t) = Len(s) + 1
        /\ t[Len(s) + 1] = e /\ \A k \in 1..Len(s) : t[k] = s[k]
    <2> HIDE DEF S
    <2> QED BY <1>1
  <1>3. IsSequence(t)
    <2>1. \A k \in 1..Len(t) : t[k] \in {t[i] : i \in 1..Len(t)}
      OBVIOUS
    <2> QED BY <1>2, <2>1 DEF IsSequence
  <1> QED BY <1>2, <1>3

\* Every initial state satisfies it: nothing was written, answered or announced.
LEMMA TruthInit == InitStore => TruthInv
  <1> SUFFICES ASSUME InitStore PROVE TruthInv
    OBVIOUS
  <1>1. IsSequence(writes) /\ Len(writes) = 0
    BY DEF InitStore, IsSequence
  <1>2. HistoryInv
    BY <1>1 DEF InitStore, InitRegistrar, HistoryInv, SetAt, NoTask
  <1>3. \A w \in Workers : AnswerIsTrue(w)
    BY DEF InitStore, AnswerIsTrue, Unanswered, Applied, Undecided
  <1>4. \A h \in Nodes : FeedInv(h)
    BY StoreAssumption DEF InitStore, FeedInv
  <1>5. OwnRevisions
    BY DEF InitStore, OwnRevisions
  <1> QED BY <1>2, <1>3, <1>4, <1>5 DEF TruthInv

\* An answer stays true while the history grows.
LEMMA AnswerKept ==
  ASSUME revision \in Nat, revision' \in Nat, revision <= revision',
         \A k \in 1..revision : writes'[k] = writes[k],
         NEW w \in Workers, AnswerIsTrue(w), task[w].from \in Nat,
         reply'[w] = reply[w], task'[w] = task[w]
  PROVE  AnswerIsTrue(w)'
  <1> DEFINE rev == reply[w].revision
  <1>1. CASE reply[w].outcome.kind = "Commit"
    <2>1. rev \in 1..revision /\ rev \in 1..revision' /\ writes'[rev] = writes[rev]
      BY <1>1 DEF AnswerIsTrue
    <2> QED BY <1>1, <2>1 DEF AnswerIsTrue
  <1>2. CASE reply[w].outcome.kind = "Noop"
    <2>1. rev \in 0..revision /\ rev \in task[w].from..revision
      BY <1>2 DEF AnswerIsTrue
    <2>2. rev \in 0..revision' /\ rev \in task[w].from..revision'
      BY <2>1
    <2>3. SetAt(rev)' = SetAt(rev)
      BY <2>1 DEF SetAt
    <2> QED BY <1>2, <2>2, <2>3 DEF AnswerIsTrue
  <1> QED BY <1>1, <1>2 DEF AnswerIsTrue

\* A step of worker w concerns no other worker.
OthersAreLeft(w) ==
    \A v \in Workers : v # w =>
        /\ phase'[v] = phase[v] /\ task'[v] = task[v] /\ seen'[v] = seen[v]
        /\ plan'[v] = plan[v] /\ reply'[v] = reply[v]

\* The step of one worker that writes nothing and announces nothing, and neither enters nor
\* leaves the announcement, keeps every part except, perhaps, the answer of that worker.
LEMMA QuietStep ==
  ASSUME StoreInv, TruthInv, NEW w \in Workers,
         UNCHANGED <<bindings, revision, writes, feed>>,
         OthersAreLeft(w),
         phase[w] # "publishing", phase'[w] # "publishing",
         task'[w].from \in Nat, phase'[w] # "idle" => task'[w].from <= revision,
         AnswerIsTrue(w)'
  PROVE  TruthInv'
  <1>1. HistoryInv'
    <2>1. SetAt(revision)' = bindings' /\ IsSequence(writes)' /\ Len(writes') = revision'
      BY DEF TruthInv, HistoryInv, SetAt, IsSequence
    <2>2. \A v \in Workers : task'[v].from \in Nat
                             /\ (phase'[v] # "idle" => task'[v].from <= revision')
      BY DEF OthersAreLeft, TruthInv, HistoryInv
    <2>3. \A v \in Workers : phase'[v] = "publishing" => HoldsItsCommit(v)'
      BY DEF OthersAreLeft, TruthInv, HistoryInv, HoldsItsCommit
    <2> QED BY <2>1, <2>2, <2>3 DEF HistoryInv
  <1>2. \A v \in Workers : AnswerIsTrue(v)'
    <2>1. ASSUME NEW v \in Workers, v # w PROVE AnswerIsTrue(v)'
      BY <2>1, AnswerKept DEF OthersAreLeft, TruthInv, HistoryInv, StoreInv, TypeOKStore
    <2> QED BY <2>1
  <1>3. \A h \in Nodes : FeedInv(h)'
    BY DEF OthersAreLeft, TruthInv, FeedInv
  <1>4. OwnRevisions'
    BY DEF OthersAreLeft, TruthInv, OwnRevisions
  <1> QED BY <1>1, <1>2, <1>3, <1>4 DEF TruthInv

\* Admission begins a new question: the last answer no longer stands for this worker.
LEMMA AdmitTruth ==
  ASSUME StoreInv, TruthInv, NEW w \in Workers, NEW cmd \in Commands, Admit(w, cmd)
  PROVE  TruthInv'
  <1>1. /\ task'[w].from = revision /\ reply'[w] = Unanswered /\ phase'[w] = "reading"
        /\ revision \in Nat
    BY DEF Admit, StoreInv, TypeOKStore
  <1>2. AnswerIsTrue(w)'
    BY <1>1 DEF AnswerIsTrue, Unanswered, Applied, Undecided
  <1> QED BY <1>1, <1>2, QuietStep DEF OthersAreLeft, Admit, registrarVars, StoreInv, TypeOKStore

\* A worker that writes nothing answers about the committed set, at the revision it read.
LEMMA ReadTruth ==
  ASSUME StoreInv, TruthInv, NEW w \in Workers, ReadStore(w)
  PROVE  TruthInv'
  <1> DEFINE outcome == Process(task[w].cmd, task[w].now, bindings)
  <1>1. /\ revision \in Nat /\ task[w].from \in Nat /\ task[w].from <= revision
        /\ bindings = SetAt(revision)
    BY DEF ReadStore, StoreInv, TypeOKStore, TruthInv, HistoryInv
  <1>2. CASE /\ outcome.kind = "Commit"
             /\ phase' = [phase EXCEPT ![w] = "committing"]
             /\ UNCHANGED <<last, reply>>
    <2>1. AnswerIsTrue(w)'
      BY <1>1, <1>2, AnswerKept DEF ReadStore, TruthInv
    <2> QED BY <1>1, <1>2, <2>1, QuietStep DEF OthersAreLeft, ReadStore, StoreInv, TypeOKStore
  <1>3. CASE outcome.kind # "Commit" /\ Return(w, Applied(outcome, revision))
    <2>1. reply'[w] = Applied(outcome, revision) /\ phase'[w] = "idle"
      BY <1>3 DEF Return, StoreInv, TypeOKStore
    <2>2. AnswerIsTrue(w)'
      BY <1>1, <1>3, <2>1 DEF AnswerIsTrue, Applied, ReadStore, SetAt
    <2> QED BY <1>1, <1>3, <2>1, <2>2, QuietStep DEF OthersAreLeft, ReadStore, Return, StoreInv, TypeOKStore
  <1> QED BY <1>2, <1>3 DEF ReadStore

\* A worker that gives up, or tries again, claims nothing.
LEMMA ReadFailsTruth ==
  ASSUME StoreInv, TruthInv, NEW w \in Workers, ReadFails(w)
  PROVE  TruthInv'
  <1>1. reply'[w] = Applied(Unavailable, Absent) /\ phase'[w] = "idle"
    BY DEF ReadFails, Return, StoreInv, TypeOKStore
  <1>2. AnswerIsTrue(w)'
    BY <1>1 DEF AnswerIsTrue, Applied, Unavailable, Reject
  <1> QED BY <1>1, <1>2, QuietStep DEF OthersAreLeft, ReadFails, Return, registrarVars, StoreInv, TypeOKStore,
             TruthInv, HistoryInv

LEMMA ConflictAnswer ==
  ASSUME StoreInv, NEW w \in Workers, NEW current, Conflict(w, current)
  PROVE  \/ reply'[w] = Applied(Unavailable, current) /\ phase'[w] = "idle"
         \/ UNCHANGED reply /\ phase'[w] = "reading"
  BY DEF Conflict, Return, StoreInv, TypeOKStore

LEMMA ConflictTruth ==
  ASSUME StoreInv, TruthInv, NEW w \in Workers, phase[w] \in {"committing", "refused"},
         NEW current, Conflict(w, current),
         UNCHANGED <<registrarVars, task, seen, plan, feed, writes>>
  PROVE  TruthInv'
  <1>1. OthersAreLeft(w) /\ phase'[w] # "publishing"
    BY DEF OthersAreLeft, Conflict, Return, StoreInv, TypeOKStore
  <1>2. AnswerIsTrue(w)'
    <2>1. CASE reply'[w] = Applied(Unavailable, current)
      BY <2>1 DEF AnswerIsTrue, Applied, Unavailable, Reject
    <2>2. CASE UNCHANGED reply
      BY <2>2, AnswerKept DEF registrarVars, StoreInv, TypeOKStore, TruthInv, HistoryInv
    <2> QED BY <2>1, <2>2, ConflictAnswer
  <1>3. task[w].from \in Nat /\ task[w].from <= revision
    BY DEF TruthInv, HistoryInv
  <1> QED BY <1>1, <1>2, <1>3, QuietStep DEF registrarVars, StoreInv, TypeOKStore

LEMMA RefusedTruth ==
  ASSUME StoreInv, TruthInv, NEW w \in Workers, CommitRefused(w)
  PROVE  TruthInv'
  <1>1. AnswerIsTrue(w)'
    BY AnswerKept DEF CommitRefused, registrarVars, StoreInv, TypeOKStore, TruthInv, HistoryInv
  <1> QED BY <1>1, QuietStep DEF OthersAreLeft, CommitRefused, registrarVars, StoreInv, TypeOKStore,
             TruthInv, HistoryInv

\* The commit adds the next revision to the history, and leaves the others what they were.
LEMMA InstallGrows ==
  ASSUME StoreInv, TruthInv, NEW w \in Workers, InstallPlan(w)
  PROVE  /\ revision \in Nat /\ revision' = revision + 1 /\ seen[w] = revision
         /\ IsSequence(writes') /\ Len(writes') = revision'
         /\ \A k \in 1..revision : writes'[k] = writes[k]
         /\ writes'[revision + 1].delivery = task[w].delivery
         /\ writes'[revision + 1].node = NodeOf[w]
         /\ writes'[revision + 1].set = plan[w].outcome.set
         /\ bindings' = SetAt(revision)'
  <1>1. revision \in Nat /\ revision' = revision + 1 /\ seen[w] = revision
        /\ bindings' = plan[w].outcome.set
    BY DEF InstallPlan, Install, StoreInv, TypeOKStore
  <1>2. IsSequence(writes) /\ Len(writes) = revision
    BY DEF TruthInv, HistoryInv
  <1> DEFINE entry == [delivery |-> task[w].delivery, node |-> NodeOf[w],
                       cmd |-> task[w].cmd, set |-> plan[w].outcome.set]
  <1>3. writes' = Append(writes, entry)
    BY DEF InstallPlan
  <1>4. /\ IsSequence(writes') /\ Len(writes') = revision + 1
        /\ \A k \in 1..revision : writes'[k] = writes[k]
        /\ writes'[revision + 1] = entry
    <2> HIDE DEF entry
    <2> QED BY <1>2, <1>3, AppendToSequence
  <1>5. bindings' = SetAt(revision)'
    BY <1>1, <1>4 DEF SetAt
  <1> QED BY <1>1, <1>4, <1>5

\* A commit that takes effect: whatever becomes of its acknowledgement, nothing that was
\* answered or announced names the new revision.
LEMMA InstallTruth ==
  ASSUME StoreInv, TruthInv, NEW w \in Workers, InstallPlan(w),
         UNCHANGED <<task, seen, plan, feed>>, OthersAreLeft(w), AnswerIsTrue(w)'
  PROVE  TruthInv'
  <1>1. /\ revision \in Nat /\ revision' = revision + 1 /\ seen[w] = revision
        /\ IsSequence(writes') /\ Len(writes') = revision'
        /\ \A k \in 1..revision : writes'[k] = writes[k]
        /\ writes'[revision + 1].delivery = task[w].delivery
        /\ writes'[revision + 1].node = NodeOf[w]
        /\ writes'[revision + 1].set = plan[w].outcome.set
        /\ bindings' = SetAt(revision)'
    BY InstallGrows
  <1>2. phase[w] = "committing" /\ plan[w].outcome.kind = "Commit"
    BY DEF InstallPlan, StoreInv, RevisionFences
  <1>3. \A v \in Workers : v # w /\ phase'[v] = "publishing" =>
           phase[v] = "publishing" /\ HoldsItsCommit(v)
    BY DEF OthersAreLeft, TruthInv, HistoryInv
  <1>4. HistoryInv'
    <2>1. ASSUME NEW v \in Workers, phase'[v] = "publishing" PROVE HoldsItsCommit(v)'
      <3>1. CASE v = w
        BY <1>1, <1>2, <3>1 DEF HoldsItsCommit
      <3>2. CASE v # w
        <4>1. HoldsItsCommit(v) /\ seen[v] \in Nat
          BY <1>3, <2>1, <3>2 DEF StoreInv, TypeOKStore
        <4>2. seen[v] + 1 \in 1..revision /\ seen[v] + 1 \in 1..revision'
          BY <1>1, <4>1 DEF HoldsItsCommit
        <4> QED BY <1>1, <4>1, <4>2 DEF HoldsItsCommit
      <3> QED BY <3>1, <3>2
    <2>2. \A v \in Workers : task'[v].from \in Nat
                             /\ (phase'[v] # "idle" => task'[v].from <= revision')
      BY <1>1, <1>2 DEF OthersAreLeft, TruthInv, HistoryInv
    <2> QED BY <1>1, <2>1, <2>2 DEF HistoryInv
  <1>5. \A v \in Workers : AnswerIsTrue(v)'
    <2>1. ASSUME NEW v \in Workers, v # w PROVE AnswerIsTrue(v)'
      BY <1>1, <2>1, AnswerKept DEF OthersAreLeft, TruthInv, HistoryInv
    <2> QED BY <2>1
  <1>6. ASSUME NEW h \in Nodes PROVE FeedInv(h)'
    <2>1. \A k \in 1..Len(feed[h]) : /\ feed[h][k] \in 1..revision
                                     /\ feed[h][k] \in 1..revision'
                                     /\ writes'[feed[h][k]].node = h
                                     /\ feed[h][k] # revision + 1
      BY <1>1 DEF TruthInv, FeedInv
    <2>2. \A v \in Workers : phase'[v] = "publishing" /\ NodeOf[v] = h =>
             \A k \in 1..Len(feed[h]) : feed[h][k] # seen[v] + 1
      BY <1>1, <1>3, <2>1 DEF TruthInv, FeedInv
    <2> QED BY <2>1, <2>2 DEF TruthInv, FeedInv
  <1>7. OwnRevisions'
    <2>1. ASSUME NEW v \in Workers, v # w, phase'[v] = "publishing" PROVE seen[v] # seen[w]
      <3>1. seen[v] \in Nat /\ seen[v] + 1 \in 1..revision
        BY <1>3, <2>1 DEF HoldsItsCommit, StoreInv, TypeOKStore
      <3> QED BY <1>1, <3>1
    <2>2. \A u, v \in Workers : u # w /\ v # w /\ u # v
             /\ phase'[u] = "publishing" /\ phase'[v] = "publishing" => seen[u] # seen[v]
      BY <1>3 DEF TruthInv, OwnRevisions
    <2> QED BY <2>1, <2>2 DEF OwnRevisions
  <1> QED BY <1>4, <1>5, <1>6, <1>7 DEF TruthInv

LEMMA SucceedsTruth ==
  ASSUME StoreInv, TruthInv, NEW w \in Workers, CommitSucceeds(w)
  PROVE  TruthInv'
  <1>1. AnswerIsTrue(w)'
    BY InstallGrows, AnswerKept DEF CommitSucceeds, TruthInv, HistoryInv
  <1> QED BY <1>1, InstallTruth DEF OthersAreLeft, CommitSucceeds, StoreInv, TypeOKStore

LEMMA UnacknowledgedTruth ==
  ASSUME StoreInv, TruthInv, NEW w \in Workers, CommitUnacknowledged(w)
  PROVE  TruthInv'
  <1>1. OthersAreLeft(w)
    BY DEF OthersAreLeft, CommitUnacknowledged, Conflict, Return, StoreInv, TypeOKStore
  <1>2. AnswerIsTrue(w)'
    <2>1. CASE reply'[w] = Applied(Unavailable, seen[w])
      BY <2>1 DEF AnswerIsTrue, Applied, Unavailable, Reject
    <2>2. CASE UNCHANGED reply
      BY <2>2, InstallGrows, AnswerKept DEF CommitUnacknowledged, TruthInv, HistoryInv
    <2> QED BY <2>1, <2>2, ConflictAnswer DEF CommitUnacknowledged
  <1> QED BY <1>1, <1>2, InstallTruth DEF CommitUnacknowledged

\* What the feed holds after an announcement: what it held, and the new revision.
LEMMA PublishedHolds ==
  ASSUME NEW changes \in Seq(Nat), NEW rev \in Nat, Len(changes) <= FeedCapacity,
         \A j, k \in 1..Len(changes) : changes[j] = changes[k] => j = k,
         \A k \in 1..Len(changes) : changes[k] # rev
  PROVE  /\ Len(Published(changes, rev)) <= FeedCapacity
         /\ \A k \in 1..Len(Published(changes, rev)) :
               \/ Published(changes, rev)[k] = rev
               \/ \E j \in 1..Len(changes) : Published(changes, rev)[k] = changes[j]
         /\ \A j, k \in 1..Len(Published(changes, rev)) :
               Published(changes, rev)[j] = Published(changes, rev)[k] => j = k
  <1> DEFINE grown == Append(changes, rev)
             short == Tail(grown)
  <1>1. /\ grown \in Seq(Nat) /\ Len(grown) = Len(changes) + 1 /\ Len(changes) \in Nat
        /\ \A k \in 1..Len(grown) :
              IF k = Len(grown) THEN grown[k] = rev
              ELSE k \in 1..Len(changes) /\ grown[k] = changes[k]
    OBVIOUS
  <1>2. \A j, k \in 1..Len(grown) : grown[j] = grown[k] => j = k
    BY <1>1
  <1>3. \A k \in 1..Len(grown) : grown[k] = rev \/ \E j \in 1..Len(changes) : grown[k] = changes[j]
    BY <1>1
  <1>4. CASE Len(grown) > FeedCapacity
    <2>1. Published(changes, rev) = short
      BY <1>4 DEF Published
    <2>2. /\ Len(short) = Len(changes)
          /\ \A k \in 1..Len(short) : k + 1 \in 1..Len(grown) /\ short[k] = grown[k + 1]
      BY <1>1, <1>4, StoreAssumption
    <2> HIDE DEF short, grown
    <2>3. ASSUME NEW j \in 1..Len(short), NEW k \in 1..Len(short), short[j] = short[k]
          PROVE  j = k
      <3>1. grown[j + 1] = grown[k + 1] /\ j + 1 \in 1..Len(grown) /\ k + 1 \in 1..Len(grown)
        BY <2>2, <2>3
      <3>2. j + 1 = k + 1
        BY <1>2, <3>1
      <3> QED BY <3>2
    <2>4. \A k \in 1..Len(short) : short[k] = rev \/ \E j \in 1..Len(changes) : short[k] = changes[j]
      BY <1>3, <2>2
    <2> QED BY <2>1, <2>2, <2>3, <2>4
  <1>5. CASE ~(Len(grown) > FeedCapacity)
    <2>1. Published(changes, rev) = grown
      BY <1>5 DEF Published
    <2>2. Len(grown) <= FeedCapacity
      BY <1>1, <1>5, StoreAssumption
    <2> HIDE DEF grown
    <2> QED BY <1>2, <1>3, <2>1, <2>2
  <1> QED BY <1>4, <1>5

\* The announcement names the revision its worker installed, for the first time on its node.
LEMMA PublishTruth ==
  ASSUME StoreInv, TruthInv, NEW w \in Workers, Publish(w)
  PROVE  TruthInv'
  <1> DEFINE rev == seen[w] + 1
             home == NodeOf[w]
  <1>1. /\ HoldsItsCommit(w) /\ rev \in 1..revision /\ rev \in Nat /\ home \in Nodes
        /\ phase[w] = "publishing" /\ revision \in Nat
    BY StoreAssumption DEF Publish, TruthInv, HistoryInv, HoldsItsCommit, StoreInv, TypeOKStore
  <1>2. /\ reply'[w] = Applied(plan[w].outcome, rev) /\ phase'[w] = "idle"
        /\ OthersAreLeft(w)
        /\ UNCHANGED <<bindings, revision, writes, task, seen, plan>>
        /\ feed' = [feed EXCEPT ![home] = Published(feed[home], rev)]
    BY DEF OthersAreLeft, Publish, Return, registrarVars, StoreInv, TypeOKStore
  <1> HIDE DEF rev, home
  <1>3. HistoryInv'
    <2>1. SetAt(revision)' = bindings' /\ IsSequence(writes)' /\ Len(writes') = revision'
      BY <1>2 DEF TruthInv, HistoryInv, SetAt, IsSequence
    <2>2. \A v \in Workers : task'[v].from \in Nat
                             /\ (phase'[v] # "idle" => task'[v].from <= revision')
      BY <1>2 DEF OthersAreLeft, TruthInv, HistoryInv
    <2>3. \A v \in Workers : phase'[v] = "publishing" => HoldsItsCommit(v)'
      BY <1>2 DEF OthersAreLeft, TruthInv, HistoryInv, HoldsItsCommit
    <2> QED BY <2>1, <2>2, <2>3 DEF HistoryInv
  <1>4. ASSUME NEW v \in Workers PROVE AnswerIsTrue(v)'
    <2>1. CASE v = w
      BY <1>1, <1>2, <2>1 DEF AnswerIsTrue, HoldsItsCommit, Applied, rev
    <2>2. CASE v # w
      BY <1>1, <1>2, <2>2, AnswerKept DEF OthersAreLeft, TruthInv, HistoryInv
    <2> QED BY <2>1, <2>2
  <1>5. ASSUME NEW h \in Nodes PROVE FeedInv(h)'
    <2>1. CASE h # home
      <3>1. feed'[h] = feed[h]
        BY <1>2, <2>1 DEF StoreInv, TypeOKStore
      <3>2. \A v \in Workers : phase'[v] = "publishing" => phase[v] = "publishing"
        BY <1>2 DEF OthersAreLeft
      <3> QED BY <1>2, <3>1, <3>2 DEF TruthInv, FeedInv
    <2>2. CASE h = home
      <3> DEFINE old == feed[home]
                 new == Published(old, rev)
      <3>1. /\ old \in Seq(Nat) /\ Len(old) <= FeedCapacity
            /\ \A j, k \in 1..Len(old) : old[j] = old[k] => j = k
            /\ \A k \in 1..Len(old) : old[k] # rev
            /\ \A k \in 1..Len(old) : old[k] \in 1..revision /\ writes[old[k]].node = home
        BY <1>1 DEF TruthInv, FeedInv, StoreInv, TypeOKStore, rev, home
      <3>2. /\ Len(new) <= FeedCapacity
            /\ \A k \in 1..Len(new) : new[k] = rev \/ \E j \in 1..Len(old) : new[k] = old[j]
            /\ \A j, k \in 1..Len(new) : new[j] = new[k] => j = k
        BY <1>1, <3>1, PublishedHolds
      <3>3. feed'[h] = new
        BY <1>1, <1>2, <2>2 DEF StoreInv, TypeOKStore
      <3>4. writes[rev].node = home
        BY <1>1 DEF HoldsItsCommit, rev, home
      <3>5. ASSUME NEW v \in Workers, phase'[v] = "publishing", NodeOf[v] = home
            PROVE  seen[v] + 1 # rev /\ \A k \in 1..Len(old) : old[k] # seen[v] + 1
        <4>1. v # w /\ phase[v] = "publishing"
          BY <1>2, <3>5 DEF OthersAreLeft
        <4>2. seen[v] # seen[w] /\ seen[v] \in Nat /\ seen[w] \in Nat
          BY <1>1, <4>1 DEF TruthInv, OwnRevisions, StoreInv, TypeOKStore
        <4>3. \A k \in 1..Len(old) : old[k] # seen[v] + 1
          BY <1>1, <3>5, <4>1 DEF TruthInv, FeedInv
        <4> QED BY <4>2, <4>3 DEF rev
      <3> HIDE DEF old, new
      <3>6. \A k \in 1..Len(new) : new[k] \in 1..revision /\ writes[new[k]].node = home
        BY <1>1, <3>1, <3>2, <3>4, SMTT(40)
      <3>7. \A v \in Workers : phase'[v] = "publishing" /\ NodeOf[v] = home =>
               \A k \in 1..Len(new) : new[k] # seen[v] + 1
        BY <3>2, <3>5
      <3> QED BY <1>2, <2>2, <3>2, <3>3, <3>6, <3>7 DEF FeedInv
    <2> QED BY <2>1, <2>2
  <1>6. OwnRevisions'
    BY <1>2 DEF OthersAreLeft, TruthInv, OwnRevisions
  <1> QED BY <1>3, <1>4, <1>5, <1>6 DEF TruthInv

LEMMA TickTruth ==
  ASSUME StoreInv, TruthInv, TickStore
  PROVE  TruthInv'
  BY DEF TickStore, Tick, TruthInv, HistoryInv, IsSequence, SetAt, HoldsItsCommit,
     AnswerIsTrue, FeedInv, OwnRevisions

\* Every step of a worker keeps answers and feeds true.
LEMMA StepTruth ==
  ASSUME StoreInv, TruthInv, NEW w \in Workers, Step(w)
  PROVE  TruthInv'
  <1>1. CASE CommitFails(w)
    BY <1>1, ConflictTruth DEF CommitFails
  <1>2. CASE ReportConflict(w)
    BY <1>2, ConflictTruth DEF ReportConflict
  <1> QED BY <1>1, <1>2, ReadTruth, ReadFailsTruth, SucceedsTruth, PublishTruth,
             UnacknowledgedTruth, RefusedTruth DEF Step

\* The inductive invariant behind the two theorems below.
LEMMA TruthInvariance == SpecStore => []TruthInv
  <1>1. StoreInv /\ TruthInv /\ [NextStore]_storeVars => TruthInv'
    <2> SUFFICES ASSUME StoreInv, TruthInv, [NextStore]_storeVars PROVE TruthInv'
      OBVIOUS
    <2>1. CASE UNCHANGED storeVars
      BY <2>1 DEF storeVars, registrarVars, TruthInv, HistoryInv, IsSequence, SetAt,
         HoldsItsCommit, AnswerIsTrue, FeedInv, OwnRevisions
    <2>2. CASE NextStore
      BY <2>1, <2>2, AdmitTruth, StepTruth, TickTruth DEF NextStore, AllServed
    <2> QED BY <2>1, <2>2
  <1> QED BY TruthInit, StoreInvariance, <1>1, PTL DEF SpecStore

\* K7, 5.1, 5.6: for any number of workers, retries and lost acknowledgements, a 200 that
\* reports a commit names the revision this very delivery installed, and one that reports
\* none was decided on a set that was committed while the delivery was being served.
THEOREM AcceptanceTruth == SpecStore => []AcceptanceIsTrue
  <1>1. StoreInv /\ TruthInv => AcceptanceIsTrue
    <2> SUFFICES ASSUME StoreInv, TruthInv, NEW w \in Workers, AnswerIsTrue(w)
                 PROVE  LET answer == reply[w].outcome
                        IN  /\ answer.kind = "Commit" =>
                                  /\ writes[reply[w].revision].delivery = task[w].delivery
                                  /\ SetAt(reply[w].revision) = answer.set
                            /\ answer.kind = "Noop" =>
                                  /\ reply[w].revision \in task[w].from..revision
                                  /\ answer = Process(task[w].cmd, task[w].now,
                                                      SetAt(reply[w].revision))
      BY DEF TruthInv, AcceptanceIsTrue
    <2>1. reply[w].revision \in 1..revision => reply[w].revision # 0
      BY DEF StoreInv, TypeOKStore
    <2> QED BY <2>1 DEF AnswerIsTrue, SetAt
  <1> QED BY <1>1, TruthInvariance, StoreInvariance, PTL

\* K4: whichever workers commit, lose acknowledgements and announce in whatever order, a
\* node's feed names only revisions installed on that node, each once, within its capacity.
THEOREM FeedTruth == SpecStore => []FeedIsTrue
  <1>1. StoreInv /\ TruthInv => FeedIsTrue
    <2> SUFFICES ASSUME StoreInv, TruthInv, NEW h \in Nodes
                 PROVE  /\ Len(feed[h]) <= FeedCapacity
                        /\ \A k \in DOMAIN feed[h] :
                              feed[h][k] \in DOMAIN writes /\ writes[feed[h][k]].node = h
                        /\ \A j, k \in DOMAIN feed[h] : feed[h][j] = feed[h][k] => j = k
      BY DEF FeedIsTrue
    <2>1. DOMAIN feed[h] = 1..Len(feed[h])
      BY DEF StoreInv, TypeOKStore
    <2>2. DOMAIN writes = 1..revision
      BY DEF TruthInv, HistoryInv, IsSequence
    <2> QED BY <2>1, <2>2 DEF TruthInv, FeedInv
  <1> QED BY <1>1, TruthInvariance, StoreInvariance, PTL
=============================================================================
