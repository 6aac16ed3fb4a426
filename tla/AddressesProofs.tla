---- MODULE AddressesProofs ----
(***************************************************************************)
(* What the search of createIPAddress and createTCPAddress returns, for    *)
(* every finite set of numbers in use: the least number that is free.      *)
(***************************************************************************)
EXTENDS Addresses, FiniteSetTheorems, WellFoundedInduction, TLAPS

\* Every non-empty set of naturals has a least element.
LEMMA LeastNatural ==
  ASSUME NEW T \in SUBSET Nat, T # {}
  PROVE  \E x \in T : \A y \in T : x <= y
<1>1. PICK x \in T : \A y \in T : ~ (<<y, x>> \in OpToRel(<, Nat))
  BY NatLessThanWellFounded, WFMin
<1>2. \A y \in T : ~ (y < x)
  BY <1>1 DEF OpToRel
<1> QED
  BY <1>2

\* Min of a non-empty set of naturals is its least element.
LEMMA MinIsLeast ==
  ASSUME NEW T \in SUBSET Nat, NEW m \in T, \A y \in T : m <= y
  PROVE  Min(T) = m
<1>1. \A x \in T : (\A y \in T : x <= y) => x = m
  OBVIOUS
<1> QED
  BY <1>1 DEF Min

\* A set with exactly the naturals below k is an interval.
LEMMA NaturalsBelow ==
  ASSUME NEW T, NEW k \in Nat, T \subseteq Nat,
         \A i \in Nat : i \in T <=> i < k
  PROVE  T = 0 .. (k - 1)
<1>1. ASSUME NEW i \in T PROVE i \in 0 .. (k - 1)
  OBVIOUS
<1>2. ASSUME NEW i \in 0 .. (k - 1) PROVE i \in T
  <2>1. i \in Nat /\ i < k
    OBVIOUS
  <2> QED
    BY <2>1
<1> QED
  BY <1>1, <1>2

\* Some natural is missing from every finite set of naturals, and there is a
\* first one.
LEMMA FirstMissing ==
  ASSUME NEW S \in SUBSET Nat, IsFiniteSet(S)
  PROVE  \E k \in Nat : k \notin S /\ \A i \in Nat : i < k => i \in S
<1> DEFINE n == Cardinality(S)
           T == Nat \ S
<1>1. n \in Nat
  BY FS_CardinalityType
<1>2. T # {}
  <2>1. IsFiniteSet(0 .. n) /\ Cardinality(0 .. n) = n + 1
    BY <1>1, FS_Interval
  <2>2. ASSUME 0 .. n \subseteq S PROVE FALSE
    <3>1. Cardinality(0 .. n) <= Cardinality(S)
      BY <2>2, FS_Subset
    <3> QED
      BY <1>1, <2>1, <3>1
  <2> QED
    BY <2>2, <1>1
<1>3. PICK k \in T : \A y \in T : k <= y
  BY <1>2, LeastNatural
<1>4. ASSUME NEW i \in Nat, i < k PROVE i \in S
  <2>1. k \in Nat /\ ~ (k <= i)
    BY <1>4
  <2> QED
    BY <1>3, <2>1
<1> QED
  BY <1>3, <1>4

\* THEOREM FirstGapIsLeastFree: the number the code's loop over the sorted
\* array resolves with is not in use, and every smaller number is.
THEOREM FirstGapIsLeastFree ==
  ASSUME NEW S \in SUBSET Nat, IsFiniteSet(S)
  PROVE  /\ FirstGap(S) \in Nat
         /\ FirstGap(S) \notin S
         /\ \A i \in Nat : i < FirstGap(S) => i \in S
<1>1. PICK k \in Nat : k \notin S /\ \A i \in Nat : i < k => i \in S
  BY FirstMissing
<1> DEFINE Below(x) == {y \in S : y < x}
<1>2. \A x \in Nat : IsFiniteSet(0 .. (x - 1)) /\ Cardinality(0 .. (x - 1)) = x
  BY FS_Interval
<1>3. ASSUME NEW x \in S PROVE Index(S, x) \in Nat /\ IsFiniteSet(Below(x))
  BY FS_Subset, FS_CardinalityType DEF Index
<1>4. ASSUME NEW x \in S, x < k PROVE Index(S, x) = x
  <2>1. \A i \in Nat : i \in Below(x) <=> i < x
    BY <1>1, <1>4
  <2>2. Below(x) = 0 .. (x - 1)
    BY <2>1, NaturalsBelow
  <2> QED
    BY <1>2, <2>2 DEF Index
<1>5. ASSUME NEW x \in S, x > k PROVE k <= Index(S, x)
  <2>1. 0 .. (k - 1) \in SUBSET Below(x)
    BY <1>1, <1>5
  <2>2. Cardinality(0 .. (k - 1)) <= Cardinality(Below(x))
    BY <1>3, <2>1, FS_Subset
  <2> QED
    BY <1>2, <2>2 DEF Index
<1>6. CASE \E x \in S : x > k
  <2> DEFINE A == {x \in S : x > k}
  <2>1. PICK z \in A : \A y \in A : z <= y
    BY <1>6, LeastNatural
  <2>2. Below(z) = 0 .. (k - 1)
    <3>1. ASSUME NEW i \in Nat, i \in Below(z) PROVE i < k
      <4>1. i \in S /\ i < z /\ z \in S
        BY <2>1, <3>1
      <4>2. i \notin A
        BY <2>1, <4>1
      <4> QED
        BY <1>1, <4>1, <4>2
    <3>2. ASSUME NEW i \in Nat, i < k PROVE i \in Below(z)
      BY <1>1, <2>1, <3>2
    <3> QED
      BY <3>1, <3>2, NaturalsBelow
  <2>3. Index(S, z) = k
    BY <1>2, <2>2 DEF Index
  <2>4. k \in Mismatches(S)
    BY <2>1, <2>3 DEF Mismatches
  <2>5. \A m \in Mismatches(S) : m \in Nat /\ k <= m
    <3>1. ASSUME NEW x \in S, x # Index(S, x)
          PROVE  Index(S, x) \in Nat /\ k <= Index(S, x)
      <4>1. x # k /\ x \in Nat
        BY <1>1
      <4>2. CASE x < k
        BY <1>4, <3>1, <4>2
      <4>3. CASE x > k
        BY <1>3, <1>5, <4>3
      <4> QED
        BY <4>1, <4>2, <4>3
    <3> QED
      BY <3>1 DEF Mismatches
  <2>6. Min(Mismatches(S)) = k
    BY <2>4, <2>5, MinIsLeast
  <2>7. FirstGap(S) = k
    BY <2>4, <2>6 DEF FirstGap
  <2> QED
    BY <1>1, <2>7
<1>7. CASE \A x \in S : ~ (x > k)
  <2>1. S = 0 .. (k - 1)
    <3>1. \A i \in Nat : i \in S <=> i < k
      BY <1>1, <1>7
    <3> QED
      BY <3>1, NaturalsBelow
  <2>2. Mismatches(S) = {}
    BY <1>1, <1>4, <1>7 DEF Mismatches
  <2>3. FirstGap(S) = k
    BY <1>2, <2>1, <2>2 DEF FirstGap
  <2> QED
    BY <1>1, <2>3
<1> QED
  BY <1>6, <1>7

\* The numbers of finitely many members and ports are finite sets of naturals,
\* and so have a first gap.
LEMMA NumbersInUse ==
  ASSUME NEW M \in SUBSET IPAddresses, IsFiniteSet(M),
         NEW P \in SUBSET TCPAddresses, IsFiniteSet(P),
         NEW subnet, NEW ip
  PROVE  /\ Suffixes(M, subnet) \in SUBSET Nat
         /\ IsFiniteSet(Suffixes(M, subnet))
         /\ PortsOf(P, ip) \in SUBSET Nat
         /\ IsFiniteSet(PortsOf(P, ip))
<1> DEFINE A == {x \in M : x.subnet = subnet}
           f == [m \in A |-> m.suffix]
           B == {x \in P : parseIPAddress(x) = ip}
           g == [p \in B |-> p.port]
<1>1. IsFiniteSet(A) /\ IsFiniteSet(B)
  BY FS_Subset
<1>2. f \in Surjection(A, Suffixes(M, subnet))
  BY DEF Surjection, Suffixes
<1>3. g \in Surjection(B, PortsOf(P, ip))
  BY DEF Surjection, PortsOf
<1>4. Suffixes(M, subnet) \in SUBSET Nat /\ PortsOf(P, ip) \in SUBSET Nat
  BY DEF Suffixes, PortsOf, IPAddresses, TCPAddresses
<1> HIDE DEF A, B, f, g
<1> QED
  BY <1>1, <1>2, <1>3, <1>4, FS_Surjection

====
