----------------------------- MODULE PagesProofs -----------------------------
(* Lemmas about pages of a listing, for any finite listing and page size: the  *)
(* pages up to one hold every message whose rank they reach (PageReaches), and *)
(* a page that is not full is the last one (ShortPageEnds). A full page needs  *)
(* a message of every rank, which RanksTaken finds by a least counterexample.  *)
EXTENDS Pages, FiniteSetTheorems, WellFoundedInduction, TLAPS

LEMMA Least ==
  ASSUME NEW S, S \subseteq Nat, S # {}
  PROVE  \E m \in S : \A k \in S : m <= k
<1>1. PICK x \in S : \A y \in S : ~ (<<y, x>> \in OpToRel(<, Nat))
  BY ONLY S \subseteq Nat, S # {}, NatLessThanWellFounded, WFMin
<1>2. \A y \in S : ~ (y < x)
  BY <1>1 DEF OpToRel
<1>3. x \in Nat /\ \A y \in S : y \in Nat
  BY SMT
<1>4. \A y \in S : x <= y
  BY <1>2, <1>3
<1> QED
  BY <1>4

LEMMA NewerFinite ==
  ASSUME NEW S, S \subseteq Nat, IsFiniteSet(S), NEW m
  PROVE  IsFiniteSet(Newer(S, m)) /\ Cardinality(Newer(S, m)) \in Nat
<1>1. IsFiniteSet(Newer(S, m))
  BY FS_Subset DEF Newer
<1> QED
  BY <1>1, FS_CardinalityType

\* An older message has at least as many above it.
LEMMA OlderRank ==
  ASSUME NEW S, S \subseteq Nat, IsFiniteSet(S), NEW m \in S, NEW n \in S, n <= m
  PROVE  Cardinality(Newer(S, m)) <= Cardinality(Newer(S, n))
<1>1. m \in Nat /\ n \in Nat /\ \A x \in S : x \in Nat
  BY SMT
<1>2. ASSUME NEW x \in S, x > m PROVE x > n
  BY <1>1, <1>2
<1>3. Newer(S, m) \subseteq Newer(S, n)
  BY <1>2 DEF Newer
<1> QED
  BY <1>3, NewerFinite, FS_Subset

\* The message just above another has one fewer above it.
LEMMA NextRank ==
  ASSUME NEW S, S \subseteq Nat, IsFiniteSet(S), NEW m \in S, Cardinality(Newer(S, m)) # 0
  PROVE  \E n \in S : Cardinality(Newer(S, n)) + 1 = Cardinality(Newer(S, m))
<1>1. Newer(S, m) # {} /\ Newer(S, m) \subseteq Nat
  BY FS_EmptySet DEF Newer
<1>2. PICK n \in Newer(S, m) : \A k \in Newer(S, m) : n <= k
  BY <1>1, Least
<1>3. n \in S /\ n \notin Newer(S, n) /\ Newer(S, m) = Newer(S, n) \cup {n}
  <2>1. n \in S /\ n > m /\ \A k \in S : k > m => n <= k
    BY <1>2 DEF Newer
  <2>2. m \in Nat /\ n \in Nat /\ \A k \in S : k \in Nat
    BY <2>1
  <2>3. \A k \in S : k > m <=> k > n \/ k = n
    BY <2>1, <2>2
  <2>4. n \notin Newer(S, n)
    BY <2>2 DEF Newer
  <2> QED
    BY <2>1, <2>3, <2>4 DEF Newer
<1>4. IsFiniteSet(Newer(S, n)) /\ Cardinality(Newer(S, n)) \in Nat
  BY NewerFinite
<1>5. Cardinality(Newer(S, n) \cup {n}) = Cardinality(Newer(S, n)) + 1
  BY <1>3, <1>4, FS_AddElement
<1> QED
  BY <1>3, <1>5

\* Every rank up to that of a message is the rank of some message.
LEMMA RanksTaken ==
  ASSUME NEW S, S \subseteq Nat, IsFiniteSet(S), NEW m \in S, NEW r \in Nat,
         r <= Cardinality(Newer(S, m))
  PROVE  \E n \in S : Cardinality(Newer(S, n)) = r
<1> DEFINE rank(n) == Cardinality(Newer(S, n))
           T == {x \in Nat : r <= x /\ \E n \in S : rank(n) = x}
<1>1. \A n \in S : rank(n) \in Nat
  BY NewerFinite
<1>2. T \subseteq Nat /\ rank(m) \in T
  BY <1>1
<1>3. PICK x \in T : \A y \in T : x <= y
  BY <1>2, Least
<1>4. PICK n \in S : rank(n) = x
  BY <1>3
<1>5. CASE x # r
  <2>1. PICK k \in S : rank(k) + 1 = rank(n)
    <3>1. rank(n) \in Nat /\ r <= rank(n) /\ rank(n) # 0
      BY <1>1, <1>3, <1>4, <1>5
    <3> QED
      BY <3>1, NextRank
  <2>2. rank(k) \in T /\ rank(k) < x
    BY <1>1, <1>3, <1>4, <1>5, <2>1
  <2> QED
    BY <1>1, <1>3, <2>2
<1> QED
  BY <1>4, <1>5

\* A short page is the last one: what it does not reach does not exist.
LEMMA ShortPageEnds ==
  ASSUME NEW S, S \subseteq Nat, IsFiniteSet(S), NEW p \in Nat \ {0}, NEW size \in Nat \ {0},
         Cardinality(PageOf(S, p, size)) < size, NEW m \in S
  PROVE  Cardinality(Newer(S, m)) < p * size
<1> SUFFICES ASSUME Cardinality(Newer(S, m)) >= p * size PROVE FALSE
  <2>1. Cardinality(Newer(S, m)) \in Nat
    BY NewerFinite
  <2>2. p * size \in Nat
    BY SMT
  <2> QED
    BY <2>1, <2>2
<1> DEFINE lo == (p - 1) * size
           hi == p * size
           rank == [n \in PageOf(S, p, size) |-> Cardinality(Newer(S, n))]
<1>1. lo \in Nat /\ hi \in Nat /\ hi = lo + size
  BY SMT
<1> HIDE DEF lo, hi
<1>2. \A n \in S : Cardinality(Newer(S, n)) \in Nat
  BY NewerFinite
<1>3. PageOf(S, p, size) = {n \in S : lo <= Cardinality(Newer(S, n)) /\ Cardinality(Newer(S, n)) < hi}
  BY DEF PageOf, lo, hi
<1>4. IsFiniteSet(PageOf(S, p, size))
  BY <1>3, FS_Subset
<1>5. rank \in [PageOf(S, p, size) -> lo..hi - 1]
  <2>1. ASSUME NEW n \in PageOf(S, p, size) PROVE Cardinality(Newer(S, n)) \in lo..hi - 1
    <3>1. /\ Cardinality(Newer(S, n)) \in Nat
          /\ lo <= Cardinality(Newer(S, n)) /\ Cardinality(Newer(S, n)) < hi
      BY <1>2, <1>3
    <3> QED
      BY <1>1, <3>1
  <2> QED
    BY <2>1
<1>6. ASSUME NEW r \in lo..hi - 1 PROVE \E n \in PageOf(S, p, size) : rank[n] = r
  <2>1. r \in Nat /\ r <= Cardinality(Newer(S, m))
    BY <1>1, <1>2, <1>6 DEF hi
  <2>2. PICK n \in S : Cardinality(Newer(S, n)) = r
    BY <2>1, RanksTaken
  <2> QED
    BY <1>1, <1>3, <2>2
<1>7. rank \in Surjection(PageOf(S, p, size), lo..hi - 1)
  BY <1>5, <1>6 DEF Surjection
<1>8. Cardinality(lo..hi - 1) <= Cardinality(PageOf(S, p, size))
  BY <1>4, <1>7, FS_Surjection
<1>9. Cardinality(lo..hi - 1) = size
  BY <1>1, FS_Interval
<1>10. Cardinality(PageOf(S, p, size)) \in Nat
  BY <1>4, FS_CardinalityType
<1> QED
  BY <1>8, <1>9, <1>10

\* The first n pages hold every message whose rank they reach.
LEMMA PageReaches ==
  ASSUME NEW S, S \subseteq Nat, IsFiniteSet(S), NEW n \in Nat \ {0}, NEW size \in Nat \ {0},
         NEW m \in S, Cardinality(Newer(S, m)) < n * size
  PROVE  \E k \in 1..n : m \in PageOf(S, k, size)
<1> DEFINE rank == Cardinality(Newer(S, m))
           T == {k \in Nat : k > 0 /\ rank < k * size}
<1>1. T \subseteq Nat /\ n \in T
  BY SMT
<1>5. rank \in Nat
  BY NewerFinite
<1>2. PICK k \in T : \A j \in T : k <= j
  BY <1>1, Least
<1>3. k \in 1..n /\ k - 1 \in Nat
  BY <1>1, <1>2
<1>4. (k - 1) * size <= rank
  <2>1. CASE k = 1
    BY <1>5, <2>1
  <2>2. CASE k # 1
    <3>1. k - 1 \notin T /\ k - 1 > 0
      BY <1>2, <1>3, <2>2
    <3>2. (k - 1) * size \in Nat
      BY <1>3
    <3> QED
      BY <1>5, <1>3, <3>1, <3>2
  <2> QED
    BY <2>1, <2>2
<1> QED
  BY <1>2, <1>3, <1>4 DEF PageOf
=============================================================================
