---------------------------- MODULE ListingProofs ----------------------------
(***************************************************************************)
(* Proofs about Listing, for every set of ids and times, every page size   *)
(* and every number of concurrent writes.                                  *)
(*                                                                         *)
(* The argument is about ranks: the rank of a row is the number of rows    *)
(* that the ORDER BY puts before it.  A page holds the rows of a range of  *)
(* ranks, and a row that enters or leaves the list shifts ranks by one, so *)
(* it carries at most one other row across the end of the last page read.  *)
(***************************************************************************)
EXTENDS Listing, FunctionTheorems, FiniteSetTheorems, TLAPS

-----------------------------------------------------------------------------
(* Finite sets.                                                            *)

\* Every set of ids is finite.
LEMMA IdsFinite ==
    ASSUME NEW S, S \subseteq Ids
    PROVE  IsFiniteSet(S) /\ Cardinality(S) \in Nat /\ Cardinality(S) <= Cardinality(Ids)
BY ListingAssumption, FS_Subset, FS_CardinalityType

\* A part of a finite set is no larger.
LEMMA Smaller ==
    ASSUME NEW S, IsFiniteSet(S), NEW T, T \subseteq S
    PROVE  /\ IsFiniteSet(T)
           /\ Cardinality(T) \in Nat /\ Cardinality(S) \in Nat
           /\ Cardinality(T) <= Cardinality(S)
BY FS_Subset, FS_CardinalityType

\* One more element at most.
LEMMA OneMore ==
    ASSUME NEW S, IsFiniteSet(S), NEW x, NEW T, T \subseteq S \cup {x}
    PROVE  /\ IsFiniteSet(T)
           /\ Cardinality(T) \in Nat /\ Cardinality(S) \in Nat
           /\ Cardinality(T) <= Cardinality(S) + 1
<1>1. Cardinality(S) \in Nat
  BY FS_CardinalityType
<1>2. IsFiniteSet(S \cup {x}) /\ Cardinality(S \cup {x}) <= Cardinality(S) + 1
  BY <1>1, FS_AddElement
<1>3. /\ IsFiniteSet(T) /\ Cardinality(T) \in Nat /\ Cardinality(S \cup {x}) \in Nat
      /\ Cardinality(T) <= Cardinality(S \cup {x})
  BY <1>2, Smaller
<1> QED
  BY <1>1, <1>2, <1>3

\* What can be told apart by natural numbers from a to b-1 is at most b-a.
LEMMA AtMost ==
    ASSUME NEW S, NEW a \in Int, NEW b \in Int, a <= b, NEW f \in [S -> a..(b - 1)],
           \A x, y \in S : f[x] = f[y] => x = y
    PROVE  IsFiniteSet(S) /\ Cardinality(S) \in Nat /\ Cardinality(S) <= b - a
<1>1. IsFiniteSet(a..(b - 1)) /\ Cardinality(a..(b - 1)) = b - a
  BY FS_Interval
<1>2. f \in Injection(S, a..(b - 1))
  BY Fun_IsInj
<1> QED
  BY <1>1, <1>2, FS_Injection, FS_CardinalityType

\* A set that a one-to-one function from 1..n covers has n elements.
LEMMA Counted ==
    ASSUME NEW S, NEW n \in Nat, NEW f \in [1..n -> S],
           \A x, y \in 1..n : f[x] = f[y] => x = y,
           \A s \in S : \E x \in 1..n : f[x] = s
    PROVE  Cardinality(S) = n
<1>1. f \in Bijection(1..n, S)
  BY Fun_IsBij
<1>2. ExistsBijection(1..n, S)
  BY <1>1 DEF ExistsBijection
<1> QED
  BY <1>2, FS_CountingElements

-----------------------------------------------------------------------------
(* Ranks.                                                                  *)

\* O puts the ids of M one before the other.
Strict(M, O) ==
    /\ \A i \in M : <<i, i>> \notin O
    /\ \A i, k \in M : i # k => (<<i, k>> \in O <=> <<k, i>> \notin O)
    /\ \A i, j, k \in M : <<i, j>> \in O /\ <<j, k>> \in O => <<i, k>> \in O

Before(M, O, i) == {k \in M : <<k, i>> \in O}
RankIn(M, O, i) == Cardinality(Before(M, O, i))

\* Ranks are natural numbers below the number of rows, one for each row, and
\* follow the order.
LEMMA Ranks ==
    ASSUME NEW M, M \subseteq Ids, NEW O, Strict(M, O)
    PROVE  /\ \A i \in M : RankIn(M, O, i) \in 0..(Cardinality(M) - 1)
           /\ \A i, k \in M : <<i, k>> \in O => RankIn(M, O, i) < RankIn(M, O, k)
           /\ \A i, k \in M : RankIn(M, O, i) = RankIn(M, O, k) => i = k
<1>1. ASSUME NEW i \in M
      PROVE  RankIn(M, O, i) \in Nat /\ RankIn(M, O, i) < Cardinality(M)
  <2>1. IsFiniteSet(M) /\ IsFiniteSet(M \ {i}) /\ Cardinality(M \ {i}) = Cardinality(M) - 1
        /\ Cardinality(M) \in Nat
    BY IdsFinite, FS_RemoveElement
  <2>2. Before(M, O, i) \subseteq M \ {i}
    BY DEF Before, Strict
  <2> QED
    BY <2>1, <2>2, Smaller DEF RankIn
<1>2. ASSUME NEW i \in M, NEW k \in M, <<i, k>> \in O
      PROVE  RankIn(M, O, i) < RankIn(M, O, k)
  <2>1. Before(M, O, i) \cup {i} \subseteq Before(M, O, k) /\ i \notin Before(M, O, i)
    BY <1>2 DEF Before, Strict
  <2>2. IsFiniteSet(Before(M, O, i)) /\ IsFiniteSet(Before(M, O, k))
    BY IdsFinite DEF Before
  <2>3. Cardinality(Before(M, O, i) \cup {i}) = Cardinality(Before(M, O, i)) + 1
    BY <2>1, <2>2, FS_AddElement
  <2> QED
    BY <1>1, <2>1, <2>2, <2>3, Smaller DEF RankIn
<1>3. ASSUME NEW i \in M, NEW k \in M, i # k
      PROVE  RankIn(M, O, i) # RankIn(M, O, k)
  <2>1. <<i, k>> \in O \/ <<k, i>> \in O
    BY <1>3 DEF Strict
  <2>2. RankIn(M, O, i) < RankIn(M, O, k) \/ RankIn(M, O, k) < RankIn(M, O, i)
    BY <1>2, <2>1
  <2> QED
    BY <1>1, <2>2
<1>4. \A i \in M : Cardinality(M) \in Nat
  BY IdsFinite
<1> QED
  BY <1>1, <1>2, <1>3, <1>4

\* At most n - a of n rows have a rank of a or more.
LEMMA HighRanks ==
    ASSUME NEW M, M \subseteq Ids, NEW O, Strict(M, O), NEW a \in Nat, a <= Cardinality(M),
           NEW S, S \subseteq {i \in M : RankIn(M, O, i) >= a}
    PROVE  Cardinality(S) <= Cardinality(M) - a
<1> DEFINE f == [i \in S |-> RankIn(M, O, i)]
           n == Cardinality(M)
<1>1. \A i \in S : i \in M /\ RankIn(M, O, i) \in a..(n - 1)
  BY Ranks
<1>2. n \in Nat
  BY IdsFinite
<1>3. f \in [S -> a..(n - 1)] /\ \A x, y \in S : f[x] = f[y] => x = y
  BY <1>1, Ranks
<1> HIDE DEF f
<1>4. a \in Int /\ n \in Int /\ a <= n
  BY <1>2
<1> QED
  BY <1>3, <1>4, AtMost

\* N is M and one more row, x; rows of M keep their order.
Joined(M, O, N, P, x) ==
    /\ N \subseteq Ids /\ Strict(M, O) /\ Strict(N, P)
    /\ x \in N /\ M = N \ {x}
    /\ \A i, k \in M : <<i, k>> \in O <=> <<i, k>> \in P

\* The new row moves those behind it by one, and no other.
LEMMA Shift ==
    ASSUME NEW M, NEW O, NEW N, NEW P, NEW x, Joined(M, O, N, P, x), NEW i \in M
    PROVE  RankIn(N, P, i) = RankIn(M, O, i) + (IF <<x, i>> \in P THEN 1 ELSE 0)
<1>1. IsFiniteSet(Before(M, O, i)) /\ x \notin Before(M, O, i)
  BY IdsFinite DEF Joined, Before
<1>2. CASE <<x, i>> \in P
  <2>1. Before(N, P, i) = Before(M, O, i) \cup {x}
    BY <1>2 DEF Joined, Before
  <2> QED
    BY <1>1, <1>2, <2>1, FS_AddElement DEF RankIn
<1>3. CASE <<x, i>> \notin P
  <2>1. Before(N, P, i) = Before(M, O, i)
    BY <1>3 DEF Joined, Before
  <2>2. RankIn(M, O, i) \in Nat
    BY <1>1, FS_CardinalityType DEF RankIn
  <2> QED
    BY <1>3, <2>1, <2>2 DEF RankIn
<1> QED
  BY <1>2, <1>3

\* So it carries at most one row across a given rank, and none when it is
\* itself beyond that rank.
LEMMA Crossing ==
    ASSUME NEW M, NEW O, NEW N, NEW P, NEW x, Joined(M, O, N, P, x), NEW a \in Int
    PROVE  \E y : \A i \in N :
              RankIn(N, P, i) >= a /\ (i = x \/ RankIn(M, O, i) < a) => i = y
<1>1. \A i \in M : i \in N /\ RankIn(M, O, i) \in Nat /\ RankIn(N, P, i) \in Nat
  <2>1. M \subseteq Ids /\ N \subseteq Ids /\ Strict(M, O) /\ Strict(N, P) /\ M \subseteq N
    BY DEF Joined
  <2> QED
    BY <2>1, Ranks
<1>2. x \in N /\ RankIn(N, P, x) \in Nat /\ N = M \cup {x} /\ x \notin M
  BY Ranks DEF Joined
<1>3. CASE RankIn(N, P, x) >= a
  <2>1. ASSUME NEW i \in M, RankIn(N, P, i) >= a, RankIn(M, O, i) < a
        PROVE  FALSE
    <3>1. <<x, i>> \in P /\ RankIn(N, P, i) = RankIn(M, O, i) + 1
      BY <1>1, <2>1, Shift
    <3>2. RankIn(N, P, x) < RankIn(N, P, i)
      BY <1>2, <3>1, Ranks DEF Joined
    <3> QED
      BY <1>1, <1>2, <1>3, <2>1, <3>1, <3>2
  <2> QED
    BY <1>2, <2>1
<1>4. CASE RankIn(N, P, x) < a
  <2>1. ASSUME NEW i \in M, RankIn(N, P, i) >= a, RankIn(M, O, i) < a
        PROVE  RankIn(N, P, i) = a
    <3>1. RankIn(N, P, i) = RankIn(M, O, i) + (IF <<x, i>> \in P THEN 1 ELSE 0)
      BY Shift
    <3> QED
      BY <1>1, <2>1, <3>1
  <2>2. ASSUME NEW i \in M, NEW k \in M, RankIn(N, P, i) = RankIn(N, P, k)
        PROVE  i = k
    <3>1. i \in N /\ k \in N /\ N \subseteq Ids /\ Strict(N, P)
      BY <1>2 DEF Joined
    <3> QED
      BY <2>2, <3>1, Ranks
  <2>3. ASSUME NEW i \in M, RankIn(N, P, i) >= a, RankIn(M, O, i) < a,
               NEW k \in M, RankIn(N, P, k) >= a, RankIn(M, O, k) < a
        PROVE  i = k
    <3>1. RankIn(N, P, i) = a
      BY <2>1, <2>3
    <3>2. RankIn(N, P, k) = a
      BY <2>1, <2>3
    <3> QED
      BY <2>2, <3>1, <3>2
  <2>4. ~(RankIn(N, P, x) >= a)
    BY <1>2, <1>4
  <2> QED
    BY <1>2, <2>3, <2>4
<1> QED
  BY <1>2, <1>3, <1>4

-----------------------------------------------------------------------------
(* The order of a list, and what is on its pages.                          *)

\* The ORDER BY of the list that is read.
Order == IF list = "users" THEN ById
         ELSE IF list \in {"projects", "tasks"} THEN LastId ELSE Latest

\* Every list is ordered by its id in the last place, so no two rows tie.
LEMMA OrderStrict == row \in [Ids -> Rows] => Strict(Ids, Order)
<1> SUFFICES ASSUME row \in [Ids -> Rows]
             PROVE  Strict(Ids, Order)
  OBVIOUS
<1>1. \A i \in Ids : i \in Nat /\ row[i].time \in Nat
  BY ListingAssumption DEF Rows
<1>2. Strict(Ids, ById)
  BY <1>1 DEF Strict, ById
<1>3. Strict(Ids, LastId)
  BY <1>1 DEF Strict, LastId
<1>4. Strict(Ids, Latest)
  <2>1. \A i, k \in Ids : <<i, k>> \in Latest <=>
           \/ row[i].time > row[k].time
           \/ row[i].time = row[k].time /\ i > k
    BY DEF Latest, LastId
  <2>2. \A i \in Ids : <<i, i>> \notin Latest
    BY <1>1, <2>1
  <2>3. \A i, k \in Ids : i # k => (<<i, k>> \in Latest <=> <<k, i>> \notin Latest)
    BY <1>1, <2>1
  <2>4. \A i, j, k \in Ids : <<i, j>> \in Latest /\ <<j, k>> \in Latest => <<i, k>> \in Latest
    BY <1>1, <2>1
  <2> QED
    BY <2>2, <2>3, <2>4 DEF Strict
<1> QED
  BY <1>2, <1>3, <1>4 DEF Order

LEMMA OrderStrictAfter == (row \in [Ids -> Rows])' => Strict(Ids, Order')
<1>1. (row \in [Ids -> Rows] => Strict(Ids, Order))'
  BY OrderStrict, PTL
<1> QED
  BY <1>1

\* The same for the rows that match.
LEMMA OrderOfMatching ==
    ASSUME row \in [Ids -> Rows]
    PROVE  Matching \subseteq Ids /\ Strict(Matching, Order)
BY OrderStrict DEF Strict, Matching

rank(i) == RankIn(Matching, Order, i)

\* The n-th row of a sorted sequence is the one of rank n-1.
LEMMA Positions ==
    ASSUME row \in [Ids -> Rows], NEW s \in Sorted(Order)
    PROVE  /\ s \in [1..Cardinality(Matching) -> Matching]
           /\ \A m, n \in 1..Cardinality(Matching) : s[m] = s[n] => m = n
           /\ \A i \in Matching : \E n \in 1..Cardinality(Matching) : s[n] = i
           /\ \A n \in 1..Cardinality(Matching) : rank(s[n]) = n - 1
<1> DEFINE N == Cardinality(Matching)
           M == Matching
<1>0. IsFiniteSet(M) /\ N \in Nat /\ M \subseteq Ids /\ Strict(M, Order)
  BY OrderOfMatching, IdsFinite
<1>1. s \in [1..N -> M] /\ \A m, n \in 1..N : m # n => s[m] # s[n]
  BY DEF Sorted, SetToSeqs
<1>2. \A m, n \in 1..N : m < n => <<s[n], s[m]>> \notin Order
  BY <1>1 DEF Sorted
<1> HIDE DEF N, M
<1>3. \A i \in M : \E n \in 1..N : s[n] = i
  <2>1. s \in Injection(1..N, M)
    BY <1>1, Fun_IsInj
  <2>2. Cardinality(1..N) = Cardinality(M)
    BY <1>0, FS_Interval DEF N, M
  <2>3. s \in Surjection(1..N, M)
    BY <1>0, <2>1, <2>2, FS_Injection
  <2> QED
    BY <2>3 DEF Surjection
<1>4. \A m, n \in 1..N : <<s[m], s[n]>> \in Order <=> m < n
  <2>1. ASSUME NEW m \in 1..N, NEW n \in 1..N, m < n
        PROVE  <<s[m], s[n]>> \in Order
    <3>1. s[m] \in M /\ s[n] \in M /\ s[m] # s[n] /\ <<s[n], s[m]>> \notin Order
      BY <1>0, <1>1, <1>2, <2>1
    <3> QED
      BY <1>0, <3>1 DEF Strict
  <2>2. ASSUME NEW m \in 1..N, NEW n \in 1..N, ~(m < n)
        PROVE  <<s[m], s[n]>> \notin Order
    BY <1>0, <1>1, <1>2, <2>2 DEF Strict
  <2> QED
    BY <2>1, <2>2
<1>5. ASSUME NEW n \in 1..N
      PROVE  RankIn(M, Order, s[n]) = n - 1
  <2> DEFINE g == [m \in 1..(n - 1) |-> s[m]]
             B == Before(M, Order, s[n])
  <2>1. n \in 1..N /\ N \in Nat /\ n - 1 \in Nat /\ \A m \in 1..(n - 1) : m \in 1..N /\ m < n
    BY <1>0
  <2>2. g \in [1..(n - 1) -> B]
    BY <1>1, <1>4, <2>1 DEF Before
  <2>3. \A x, y \in 1..(n - 1) : g[x] = g[y] => x = y
    BY <1>1, <2>1
  <2>4. \A b \in B : \E x \in 1..(n - 1) : g[x] = b
    <3> SUFFICES ASSUME NEW b \in B
                 PROVE  \E x \in 1..(n - 1) : g[x] = b
      OBVIOUS
    <3>1. PICK x \in 1..N : s[x] = b
      BY <1>3 DEF Before
    <3>2. x < n
      BY <1>4, <3>1 DEF Before
    <3>3. x \in 1..(n - 1)
      BY <2>1, <3>1, <3>2
    <3> QED
      BY <3>1, <3>3
  <2> HIDE DEF g, B
  <2>5. Cardinality(B) = n - 1
    BY <2>1, <2>2, <2>3, <2>4, Counted
  <2> QED
    BY <2>5 DEF B, RankIn
<1> QED
  BY <1>1, <1>3, <1>5 DEF N, M, rank

\* A page holds the rows of PageSize ranks; it is full if and only if there
\* are that many rows.
LEMMA PageHolds ==
    ASSUME row \in [Ids -> Rows], NEW s \in Sorted(Order), NEW p \in Nat \ {0}
    PROVE  LET a == Offset(p)
               page == Page(s, p)
           IN  /\ a \in Nat
               /\ page = {i \in Matching : rank(i) >= a /\ rank(i) < a + PageSize}
               /\ Cardinality(page) \in Nat
               /\ Cardinality(page) = PageSize <=> a + PageSize <= Cardinality(Matching)
<1> DEFINE N == Cardinality(Matching)
           M == Matching
           a == Offset(p)
           page == Page(s, p)
<1>0. IsFiniteSet(M) /\ N \in Nat /\ M \subseteq Ids /\ Strict(M, Order)
  BY OrderOfMatching, IdsFinite
<1>1. a \in Nat /\ PageSize \in Nat /\ PageSize > 0
  <2>1. p - 1 \in Nat /\ PageSize \in Nat /\ PageSize > 0
    BY ListingAssumption
  <2> QED
    BY <2>1 DEF Offset
<1>2. /\ s \in [1..N -> M]
      /\ \A m, n \in 1..N : s[m] = s[n] => m = n
      /\ \A i \in M : \E n \in 1..N : s[n] = i
      /\ \A n \in 1..N : rank(s[n]) = n - 1
  BY Positions
<1>3. page = {s[n] : n \in {m \in 1..N : a < m /\ m <= a + PageSize}}
  BY <1>2 DEF Page
<1> HIDE DEF N, M, a, page
<1>4. page = {i \in M : rank(i) >= a /\ rank(i) < a + PageSize}
  <2>1. ASSUME NEW i \in page
        PROVE  i \in M /\ rank(i) >= a /\ rank(i) < a + PageSize
    <3>1. PICK n \in 1..N : i = s[n] /\ a < n /\ n <= a + PageSize
      BY <1>3
    <3>2. i \in M /\ rank(i) = n - 1
      BY <1>2, <3>1
    <3> QED
      BY <1>0, <1>1, <3>1, <3>2
  <2>2. ASSUME NEW i \in M, rank(i) >= a, rank(i) < a + PageSize
        PROVE  i \in page
    <3>1. PICK n \in 1..N : i = s[n] /\ rank(i) = n - 1
      BY <1>2
    <3>2. a < n /\ n <= a + PageSize
      BY <1>0, <1>1, <2>2, <3>1
    <3> QED
      BY <1>3, <3>1, <3>2
  <2> QED
    BY <2>1, <2>2
<1>5. Cardinality(page) \in Nat /\ (Cardinality(page) = PageSize <=> a + PageSize <= N)
  <2>1. CASE a + PageSize <= N
    <3> DEFINE g == [m \in 1..PageSize |-> s[a + m]]
    <3>1. \A m \in 1..PageSize : a + m \in 1..N /\ a < a + m /\ a + m <= a + PageSize
      BY <1>0, <1>1, <2>1
    <3>2. g \in [1..PageSize -> page]
      BY <1>3, <3>1
    <3>3. ASSUME NEW x \in 1..PageSize, NEW y \in 1..PageSize, g[x] = g[y]
          PROVE  x = y
      <4>1. a + x = a + y
        BY <1>2, <3>1, <3>3
      <4> QED
        BY <1>1, <4>1
    <3>4. ASSUME NEW i \in page
          PROVE  \E x \in 1..PageSize : g[x] = i
      <4>1. PICK n \in 1..N : i = s[n] /\ a < n /\ n <= a + PageSize
        BY <1>3
      <4>2. n - a \in 1..PageSize /\ a + (n - a) = n
        BY <1>0, <1>1, <4>1
      <4> QED
        BY <4>1, <4>2
    <3> HIDE DEF g
    <3>5. Cardinality(page) = PageSize
      BY <1>1, <3>2, <3>3, <3>4, Counted
    <3> QED
      BY <1>1, <2>1, <3>5
  <2>2. CASE ~(a + PageSize <= N)
    <3> DEFINE b == IF a <= N THEN N ELSE a
               f == [i \in page |-> rank(i)]
    <3>1. \A i \in page : i \in M /\ rank(i) \in a..(N - 1)
      BY <1>0, <1>1, <1>4, Ranks DEF M, N, rank
    <3>2. a \in Int /\ b \in Int /\ a <= b /\ b - a < PageSize
      BY <1>0, <1>1, <2>2
    <3>3. f \in [page -> a..(b - 1)]
      BY <1>0, <1>1, <3>1
    <3>4. \A x, y \in page : f[x] = f[y] => x = y
      BY <1>0, <3>1, Ranks DEF M, rank
    <3> HIDE DEF b, f
    <3>5. Cardinality(page) \in Nat /\ Cardinality(page) <= b - a
      BY <3>2, <3>3, <3>4, AtMost
    <3> QED
      BY <1>1, <2>2, <3>2, <3>5
  <2> QED
    BY <2>1, <2>2
<1> QED
  BY <1>1, <1>4, <1>5 DEF N, M, a, page

-----------------------------------------------------------------------------
(* The inductive invariant.                                                *)

PageFirst == {"users", "problems", "inspections"}

\* Ranks below this one have been read: the pages before this one, and this
\* one too once its SELECT is done.
ReadRows ==
    IF reader.pc \in {"reply", "done"} \/ (reader.pc = "second" /\ list \in PageFirst)
    THEN reader.page * PageSize
    ELSE Offset(reader.page)

\* Where a reading can be.
ReaderInv ==
    /\ reader.pc = "closed" => shown = Unseen /\ stayed = {}
    /\ reader.pc # "closed" => reader.page # 0
    /\ reader.pc = "second" /\ list \in Exports => reader.page = 1
    /\ reader.pc = "done" => ~More
    /\ reader.total <= Cardinality(Ids)
    /\ reader.pc = "reply" /\ list \in Exports /\ reader.got = PageSize =>
          reader.page * PageSize <= Cardinality(Ids)

\* Rows that were passed over: there all along, read past, and not shown.
Missed == {i \in stayed : shown[i] = 0}
PassedOver == {i \in Missed : rank(i) < ReadRows}

MissInv == Cardinality(PassedOver) <= left

\* The projects counted and those that have come since are all there are.
CountInv ==
    list = "projects" /\ reader.pc = "second" => Cardinality(Matching) <= reader.total + came

\* The pages have ended, and nothing but what was passed over is missing.
EndInv ==
    reader.pc \in {"reply", "done"} /\ ~More /\ list # "tasks" =>
        Cardinality(Missed) <= left + (IF list = "projects" THEN came ELSE 0)

\* Rows that are still to be read and have been shown already.
Again == {i \in Matching : shown[i] # 0 /\ rank(i) >= ReadRows}

RepeatInv ==
    /\ IsFiniteSet(Repeats)
    /\ Cardinality(Repeats) + Cardinality(Again) <= came

IInv ==
    /\ TypeOK
    /\ ReaderInv
    /\ MissInv
    /\ CountInv
    /\ EndInv
    /\ RepeatInv

-----------------------------------------------------------------------------
(* Every step keeps the invariant.                                         *)

\* The sets the invariant counts are sets of ids.
LEMMA Parts ==
    ASSUME TypeOK
    PROVE  /\ Matching \subseteq Ids /\ stayed \subseteq Matching
           /\ Missed \subseteq Ids /\ PassedOver \subseteq Missed /\ Again \subseteq Ids
           /\ \A i \in Matching : rank(i) \in Nat /\ rank(i) < Cardinality(Matching)
           /\ Cardinality(Matching) \in Nat /\ Cardinality(Matching) <= Cardinality(Ids)
           /\ PageSize \in Nat /\ PageSize > 0
           /\ row \in [Ids -> Rows] /\ shown \in [Ids -> Nat]
           /\ left \in Nat /\ came \in Nat /\ reader.page \in Nat /\ reader.total \in Nat
<1>1. row \in [Ids -> Rows]
  BY DEF TypeOK
<1>2. Matching \subseteq Ids /\ stayed \subseteq Matching
  BY DEF TypeOK, Matching
<1>3. Cardinality(Matching) \in Nat /\ Cardinality(Matching) <= Cardinality(Ids)
  BY <1>2, IdsFinite
<1>4. \A i \in Matching : rank(i) \in 0..(Cardinality(Matching) - 1)
  BY <1>1, OrderOfMatching, Ranks DEF rank
<1>5. left \in Nat /\ came \in Nat /\ shown \in [Ids -> Nat]
  BY DEF TypeOK
<1>6. reader.page \in Nat /\ reader.total \in Nat /\ PageSize \in Nat /\ PageSize > 0
  BY ListingAssumption DEF TypeOK, Readers
<1> QED
  BY <1>1, <1>2, <1>3, <1>4, <1>5, <1>6 DEF Missed, PassedOver, Again

LEMMA RankIsNat == TypeOK => \A i \in Matching : rank(i) \in Nat
BY Parts

LEMMA RankIsNatAfter == TypeOK' => \A i \in Matching' : rank(i)' \in Nat
<1>1. (TypeOK => \A i \in Matching : rank(i) \in Nat)'
  BY RankIsNat, PTL
<1> QED
  BY <1>1

\* The rows that were shown again, taken apart.
LEMMA Pairs ==
    ASSUME NEW f \in [Ids -> Nat]
    PROVE  \A p : p \in UNION {{i} \X (2..f[i]) : i \in Ids}
                    <=> \E i \in Ids : \E n \in 2..f[i] : p = <<i, n>>
OBVIOUS

\* A reading that has shown nothing yet repeats nothing.
LEMMA NothingShown ==
    ASSUME shown = Unseen
    PROVE  Repeats = {} /\ Again = {}
BY DEF Repeats, Again, Unseen, Matching

LEMMA NothingShownAfter ==
    ASSUME shown' = Unseen
    PROVE  Repeats' = {} /\ Again' = {}
<1>1. (shown = Unseen => Repeats = {} /\ Again = {})'
  BY NothingShown, PTL
<1> QED
  BY <1>1 DEF Unseen

\* There is a first page.
LEMMA FirstPage == LastPage \in Nat \ {0}
<1>1. Cardinality(Ids) \in Nat \ {0}
  BY ListingAssumption, FS_CardinalityType, FS_EmptySet
<1>2. PageSize \in Nat \ {0}
  BY ListingAssumption
<1>3. \A a \in Nat, d \in Nat \ {0} : a \div d \in Nat
  OBVIOUS
<1>4. \A a \in Nat, d \in Nat \ {0} : a >= d => a \div d # 0
  OBVIOUS
<1> QED
  BY <1>1, <1>2, <1>3, <1>4 DEF LastPage

\* A page that can be filled, or after which there are more rows, is not the
\* last there can be.
LEMMA NextPageExists ==
    ASSUME NEW p \in Nat,
           list \in Exports => p * PageSize <= Cardinality(Ids),
           list \notin Exports => p * PageSize < Cardinality(Ids)
    PROVE  p + 1 <= LastPage
<1>1. Cardinality(Ids) \in Nat /\ PageSize \in Nat \ {0}
  BY ListingAssumption, FS_CardinalityType
<1>2. \A a \in Nat, d \in Nat \ {0}, q \in Nat : q * d <= a => q <= a \div d
  OBVIOUS
<1>3. CASE list \in Exports
  BY <1>1, <1>2, <1>3 DEF LastPage
<1>4. CASE list \notin Exports
  <2>1. (p + 1) * PageSize = p * PageSize + PageSize
    BY <1>1
  <2>2. p * PageSize \in Nat /\ (p + 1) * PageSize <= Cardinality(Ids) + PageSize - 1
    BY <1>1, <1>4, <2>1
  <2> QED
    BY <1>1, <1>2, <1>4, <2>2 DEF LastPage
<1> QED
  BY <1>3, <1>4

\* The initial state satisfies the invariant.
LEMMA InitInv == Init => IInv
<1> SUFFICES ASSUME Init
             PROVE  IInv
  OBVIOUS
<1>1. TypeOK
  BY ListingAssumption, FirstPage DEF Init, TypeOK, NoReading, Readers, Unseen
<1>2. Missed = {} /\ PassedOver = {}
  BY DEF Init, Missed, PassedOver
<1>3. Repeats = {} /\ Again = {}
  BY NothingShown DEF Init
<1>4. ReaderInv
  BY <1>1, Parts, FS_CardinalityType, ListingAssumption DEF Init, ReaderInv, NoReading
<1>5. MissInv /\ RepeatInv
  BY <1>2, <1>3, FS_EmptySet DEF Init, MissInv, RepeatInv
<1>6. CountInv /\ EndInv
  BY DEF Init, NoReading, CountInv, EndInv
<1> QED
  BY <1>1, <1>4, <1>5, <1>6 DEF IInv

LEMMA OpenStep ==
    ASSUME IInv, Open
    PROVE  IInv'
<1>0. reader' = [pc |-> "ask", page |-> 1, got |-> 0, total |-> 0]
  BY DEF Open, NoReading
<1>1. TypeOK'
  <2>1. reader' \in Readers /\ reader'.page = 1
    BY <1>0 DEF Readers
  <2>2. LastPage' = LastPage /\ 1 \in 0..LastPage
    BY FirstPage DEF Open, LastPage
  <2>3. list' \in Lists /\ row' \in [Ids -> Rows] /\ shown' \in [Ids -> Nat]
    BY DEF IInv, TypeOK, Open, Unseen
  <2>4. stayed' \in SUBSET Matching'
    BY DEF Open, Matching
  <2>5. came' \in 0..MaxWrites /\ left' \in 0..MaxWrites
    BY ListingAssumption DEF Open
  <2> QED
    BY <2>1, <2>2, <2>3, <2>4, <2>5 DEF TypeOK
<1>2. PassedOver' = {}
  <2>1. reader' = [pc |-> "ask", page |-> 1, got |-> 0, total |-> 0]
    BY <1>0
  <2>2. ReadRows' = 0
    BY <2>1, ListingAssumption DEF ReadRows, Offset
  <2>3. stayed' \subseteq Matching'
    BY <1>1 DEF TypeOK
  <2>4. \A i \in Matching' : rank(i)' \in Nat
    BY <1>1, RankIsNatAfter
  <2> QED
    BY <2>2, <2>3, <2>4 DEF PassedOver, Missed
<1>3. Repeats' = {} /\ Again' = {}
  BY NothingShownAfter DEF Open
<1>4. ReaderInv'
  BY Parts, FS_CardinalityType, ListingAssumption DEF Open, ReaderInv, NoReading
<1>5. MissInv' /\ RepeatInv'
  BY <1>2, <1>3, FS_EmptySet DEF Open, MissInv, RepeatInv
<1>6. CountInv' /\ EndInv'
  BY DEF Open, NoReading, CountInv, EndInv
<1> QED
  BY <1>1, <1>4, <1>5, <1>6 DEF IInv

\* What a SELECT and a count leave alone.
LEMMA Frame ==
    ASSUME UNCHANGED <<list, row>>
    PROVE  Matching' = Matching /\ Order' = Order /\ \A i \in Ids : rank(i)' = rank(i)
BY DEF Matching, Order, ById, LastId, Latest, rank

\* When each list counts its rows.
CountsRows(next) ==
    \/ list \in PageFirst /\ reader.pc = "second" /\ next = "reply"
    \/ list \in {"projects", "tasks"} /\ reader.pc = "ask" /\ next = "second"
    \/ list \in Exports /\ reader.pc = "ask" /\ reader.page = 1 /\ next = "second"

\* When it reads the page.
ReadsPage(next) ==
    \/ list \in PageFirst /\ reader.pc = "ask" /\ next = "second"
    \/ list \in {"projects", "tasks"} /\ reader.pc = "second" /\ next = "reply"
    \/ list \in Exports /\ reader.pc \in {"ask", "second"} /\ next = "reply"

\* Every request is one of the two.
LEMMA RequestForms ==
    ASSUME Request
    PROVE  \E next \in {"second", "reply"} :
              \/ CountsRows(next) /\ Count(next)
              \/ ReadsPage(next) /\ SelectPage(Order, next)
<1>1. CASE ListUsers \/ ListProblems \/ ListInspections
  BY <1>1 DEF ListUsers, ListProblems, ListInspections, ListThenCount, CountsRows, ReadsPage,
              PageFirst, Order
<1>2. CASE ListProjects \/ ListTasks
  BY <1>2 DEF ListProjects, ListTasks, CountThenList, CountsRows, ReadsPage, Order
<1>3. CASE buildInspectionRecords \/ buildProblemList
  BY <1>3 DEF buildInspectionRecords, buildProblemList, ExportPages, CountsRows, ReadsPage,
              Exports, Order
<1> QED
  BY <1>1, <1>2, <1>3 DEF Request

\* The lists are of different kinds.
LEMMA Kinds ==
    /\ PageFirst \cap Exports = {} /\ PageFirst \cap {"projects", "tasks"} = {}
    /\ Exports \cap {"projects", "tasks"} = {}
BY DEF PageFirst, Exports

LEMMA CountStep ==
    ASSUME IInv, NEW next \in {"second", "reply"}, CountsRows(next), Count(next)
    PROVE  IInv'
<1> DEFINE N == Cardinality(Matching)
<1>1. /\ reader' = [reader EXCEPT !.pc = next, !.total = N]
      /\ UNCHANGED <<list, row, stayed, came, left, shown>>
  BY DEF Count, Go
<1>2. Matching' = Matching /\ Order' = Order /\ \A i \in Ids : rank(i)' = rank(i)
  BY <1>1, Frame
<1>3. TypeOK
  BY DEF IInv
<1>4. N \in Nat /\ N <= Cardinality(Ids) /\ reader \in Readers
  BY <1>3, Parts DEF TypeOK
<1>5. /\ reader' \in Readers /\ reader'.pc = next /\ reader'.total = N
      /\ reader'.page = reader.page /\ reader'.got = reader.got
  BY <1>1, <1>4 DEF Readers
<1>6. TypeOK'
  BY <1>1, <1>2, <1>3, <1>5 DEF TypeOK, LastPage
<1>7. ReadRows' = ReadRows
  BY <1>1, <1>5, Kinds DEF ReadRows, CountsRows
<1>8. Missed' = Missed /\ PassedOver' = PassedOver /\ Again' = Again /\ Repeats' = Repeats
  <2>1. Missed \subseteq Ids /\ Matching \subseteq Ids
    BY <1>3, Parts
  <2> QED
    BY <1>1, <1>2, <1>7, <2>1 DEF Missed, PassedOver, Again, Repeats
<1>9. ReaderInv'
  BY <1>1, <1>4, <1>5, Kinds DEF IInv, ReaderInv, CountsRows
<1>10. MissInv' /\ RepeatInv'
  BY <1>1, <1>8 DEF IInv, MissInv, RepeatInv
<1>11. CountInv'
  BY <1>1, <1>2, <1>3, <1>4, <1>5, Parts DEF CountInv
<1>12. EndInv'
  <2> SUFFICES ASSUME next = "reply", ~More'
               PROVE  Cardinality(Missed) <= left /\ list # "projects"
    BY <1>1, <1>3, <1>5, <1>8, Parts DEF EndInv
  <2>1. list \in PageFirst
    BY DEF CountsRows
  <2>2. list \notin Exports /\ list # "tasks" /\ list # "projects"
    BY <2>1, Kinds
  <2>3. ~(reader.page * PageSize < N)
    BY <1>1, <1>5, <2>2 DEF More
  <2>4. ReadRows = reader.page * PageSize
    BY <2>1 DEF ReadRows, CountsRows
  <2>5. reader.page * PageSize \in Nat
    BY <1>3, Parts
  <2>6. \A i \in Missed : rank(i) < ReadRows
    <3> SUFFICES ASSUME NEW i \in Missed
                 PROVE  rank(i) < ReadRows
      OBVIOUS
    <3>1. i \in Matching
      BY <1>3, Parts DEF Missed
    <3>2. rank(i) \in Nat /\ rank(i) < N
      BY <1>3, <3>1, Parts
    <3> QED
      BY <1>4, <2>3, <2>4, <2>5, <3>2
  <2>7. PassedOver = Missed
    BY <2>6 DEF PassedOver
  <2> QED
    BY <2>2, <2>7 DEF IInv, MissInv
<1> QED
  BY <1>6, <1>9, <1>10, <1>11, <1>12 DEF IInv

\* A page that is read: what it holds is shown once more, and the rows of its
\* ranks are behind the reader.
LEMMA SelectStep ==
    ASSUME IInv, NEW next \in {"second", "reply"}, ReadsPage(next), SelectPage(Order, next)
    PROVE  IInv'
<1> DEFINE N == Cardinality(Matching)
           a == Offset(reader.page)
           b == reader.page * PageSize
<1>1. PICK s \in Sorted(Order) :
         /\ shown' = [i \in Ids |-> IF i \in Page(s, reader.page) THEN shown[i] + 1 ELSE shown[i]]
         /\ reader' = [reader EXCEPT !.pc = next, !.got = Cardinality(Page(s, reader.page))]
         /\ UNCHANGED <<list, row, stayed, came, left>>
  BY DEF SelectPage, Go
<1> DEFINE page == Page(s, reader.page)
           got == Cardinality(page)
<1>2. Matching' = Matching /\ Order' = Order /\ \A i \in Ids : rank(i)' = rank(i)
  BY <1>1, Frame
<1>3. TypeOK
  BY DEF IInv
<1>4. /\ N \in Nat /\ N <= Cardinality(Ids) /\ reader \in Readers
      /\ PageSize \in Nat /\ PageSize > 0
      /\ row \in [Ids -> Rows] /\ shown \in [Ids -> Nat]
      /\ Matching \subseteq Ids /\ stayed \subseteq Matching
      /\ \A i \in Matching : rank(i) \in Nat /\ rank(i) < N
      /\ left \in Nat /\ came \in Nat /\ reader.total \in Nat
  BY <1>3, Parts DEF TypeOK
<1>5. reader.page \in Nat \ {0}
  BY <1>4 DEF IInv, ReaderInv, ReadsPage, Readers
<1>6. /\ a \in Nat
      /\ page = {i \in Matching : rank(i) >= a /\ rank(i) < a + PageSize}
      /\ got \in Nat
      /\ got = PageSize <=> a + PageSize <= N
  BY <1>4, <1>5, PageHolds
<1> HIDE DEF page, got
<1>7. b = a + PageSize /\ b \in Nat
  <2>1. b = (reader.page - 1) * PageSize + PageSize
    BY <1>4, <1>5
  <2> QED
    BY <1>4, <1>6, <2>1 DEF Offset
<1>8. /\ reader' \in Readers /\ reader'.pc = next /\ reader'.total = reader.total
      /\ reader'.page = reader.page /\ reader'.got = got
  BY <1>1, <1>4, <1>6 DEF Readers, got, page
<1>9. /\ shown' \in [Ids -> Nat]
      /\ \A i \in page : shown'[i] = shown[i] + 1
      /\ \A i \in Ids \ page : shown'[i] = shown[i]
  BY <1>1, <1>4, <1>6 DEF page
<1>10. TypeOK'
  BY <1>1, <1>2, <1>3, <1>8, <1>9 DEF TypeOK, LastPage
<1>11. ReadRows = a /\ ReadRows' = b
  BY <1>1, <1>8, Kinds DEF ReadRows, ReadsPage
<1> HIDE DEF a, b, N
<1>12. ReaderInv'
  <2>1. got = PageSize => b <= Cardinality(Ids)
    <3>1. Cardinality(Ids) \in Nat
      BY ListingAssumption, FS_CardinalityType
    <3> QED
      BY <1>4, <1>6, <1>7, <3>1
  <2> QED
    BY <1>1, <1>5, <1>8, <2>1, Kinds DEF IInv, ReaderInv, ReadsPage, b
<1>13. PassedOver' \subseteq PassedOver
  <2> SUFFICES ASSUME NEW i \in PassedOver'
               PROVE  i \in PassedOver
    OBVIOUS
  <2>1. i \in stayed /\ shown'[i] = 0 /\ rank(i)' < b
    BY <1>1, <1>11 DEF PassedOver, Missed
  <2>2. i \in Matching /\ i \in Ids /\ rank(i) \in Nat /\ rank(i) < b
    BY <1>2, <1>4, <2>1
  <2>3. i \notin page /\ shown[i] = 0
    BY <1>4, <1>9, <2>1, <2>2
  <2>4. rank(i) < a
    BY <1>6, <1>7, <2>2, <2>3
  <2> QED
    BY <1>11, <2>1, <2>3, <2>4 DEF PassedOver, Missed
<1>14. IsFiniteSet(PassedOver) /\ IsFiniteSet(Again) /\ IsFiniteSet(Missed)
  BY <1>3, Parts, IdsFinite
<1>15. MissInv'
  BY <1>1, <1>4, <1>13, <1>14, Smaller DEF IInv, MissInv
<1>16. CountInv'
  BY <1>1, <1>8, Kinds DEF CountInv, ReadsPage
<1>17. EndInv'
  <2> SUFFICES ASSUME next = "reply", ~More', list # "tasks"
               PROVE  Cardinality(Missed') <= left + (IF list = "projects" THEN came ELSE 0)
    BY <1>1, <1>8 DEF EndInv
  <2>1. \A i \in Missed' : i \in Matching /\ i \in Ids /\ rank(i)' = rank(i) /\ rank(i) \in Nat
    BY <1>1, <1>2, <1>4 DEF Missed
  <2>2. PassedOver' = {i \in Missed' : rank(i) < b}
    BY <1>11, <2>1 DEF PassedOver
  <2>3. Cardinality(PassedOver') <= left /\ Cardinality(PassedOver') \in Nat
        /\ IsFiniteSet(PassedOver')
    BY <1>1, <1>13, <1>14, <1>15, Smaller DEF MissInv
  <2>4. CASE list \in Exports
    <3>1. got # PageSize
      BY <1>1, <1>8, <2>4 DEF More
    <3>2. N < b
      BY <1>4, <1>6, <1>7, <3>1
    <3>3. \A i \in Missed' : rank(i) < b
      BY <1>4, <1>7, <2>1, <3>2
    <3>4. PassedOver' = Missed'
      BY <2>2, <3>3
    <3> QED
      BY <1>4, <2>3, <2>4, <3>4 DEF Exports
  <2>5. CASE list = "projects"
    <3>1. ~(b < reader.total)
      BY <1>1, <1>8, <2>5, Kinds DEF More, b
    <3>2. N <= reader.total + came
      BY <2>5, Kinds DEF IInv, CountInv, ReadsPage, N, PageFirst, Exports
    <3> DEFINE high == {i \in Matching : rank(i) >= b}
    <3>3. IsFiniteSet(high) /\ Cardinality(high) \in Nat
      BY <1>4, IdsFinite
    <3>4. Cardinality(high) <= came
      <4>1. CASE b <= N
        <5>1. Cardinality(high) <= N - b
          BY <1>4, <1>7, <4>1, HighRanks, OrderOfMatching DEF rank, N
        <5> HIDE DEF high
        <5> QED
          BY <1>4, <1>7, <3>1, <3>2, <3>3, <5>1
      <4>2. CASE ~(b <= N)
        <5>1. high = {}
          BY <1>4, <1>7, <4>2
        <5> HIDE DEF high
        <5> QED
          BY <1>4, <5>1, FS_EmptySet
      <4> QED
        BY <4>1, <4>2
    <3>5. Missed' \subseteq PassedOver' \cup high
      BY <1>7, <2>1, <2>2
    <3> HIDE DEF high
    <3>6. /\ IsFiniteSet(PassedOver' \cup high)
          /\ Cardinality(PassedOver' \cap high) \in Nat
          /\ Cardinality(PassedOver' \cup high) =
               Cardinality(PassedOver') + Cardinality(high) - Cardinality(PassedOver' \cap high)
      BY <2>3, <3>3, FS_Union, FS_Intersection, FS_CardinalityType
    <3>7. Cardinality(Missed') \in Nat
          /\ Cardinality(Missed') <= Cardinality(PassedOver' \cup high)
          /\ Cardinality(PassedOver' \cup high) \in Nat
      BY <3>5, <3>6, Smaller
    <3> QED
      BY <1>4, <2>3, <2>5, <3>3, <3>4, <3>6, <3>7
  <2> QED
    BY <2>4, <2>5, Kinds DEF ReadsPage, PageFirst
<1>18. RepeatInv'
  <2> DEFINE A == {i \in page : shown[i] # 0}
             new == {p \in Repeats' : p \notin Repeats}
             g == [p \in new |-> p[1]]
  <2>1. A \subseteq Again /\ Again' \subseteq Again \ A
    <3>1. A \subseteq Again
      BY <1>6, <1>11 DEF Again
    <3>2. ASSUME NEW i \in Again'
          PROVE  i \in Again \ A
      <4>1. i \in Matching /\ shown'[i] # 0 /\ rank(i) >= b
        BY <1>2, <1>4, <1>11, <3>2 DEF Again
      <4>2. i \notin page /\ i \in Ids /\ rank(i) >= a
        BY <1>4, <1>6, <1>7, <4>1
      <4> QED
        BY <1>9, <1>11, <4>1, <4>2 DEF Again
    <3> QED
      BY <3>1, <3>2
  <2>2. \A p : p \in Repeats <=> \E i \in Ids : \E n \in 2..shown[i] : p = <<i, n>>
    BY <1>4, Pairs DEF Repeats
  <2>3. \A p : p \in Repeats' <=> \E i \in Ids : \E n \in 2..shown'[i] : p = <<i, n>>
    BY <1>9, Pairs DEF Repeats
  <2>4. ASSUME NEW p \in new
        PROVE  \E i \in A : p = <<i, shown[i] + 1>>
    <3>0. PICK i \in Ids : \E n \in 2..shown'[i] : p = <<i, n>>
      BY <2>3
    <3>1. PICK n \in 2..shown'[i] : p = <<i, n>>
      BY <3>0
    <3>2. n \notin 2..shown[i]
      BY <2>2, <3>1
    <3>3. i \in page /\ n = shown[i] + 1 /\ shown[i] # 0
      BY <1>4, <1>9, <3>1, <3>2
    <3> QED
      BY <3>1, <3>3
  <2> HIDE DEF A
  <2>5. g \in [new -> A] /\ \A p, q \in new : g[p] = g[q] => p = q
    BY <2>4
  <2>6. Repeats' \subseteq Repeats \cup new
    OBVIOUS
  <2>7. IsFiniteSet(A) /\ Cardinality(A) \in Nat /\ Cardinality(Again) \in Nat
        /\ Cardinality(Again \ A) = Cardinality(Again) - Cardinality(A)
    <3>1. IsFiniteSet(A) /\ Again \cap A = A
      BY <1>14, <2>1, Smaller
    <3> QED
      BY <1>14, <3>1, FS_Difference, FS_CardinalityType
  <2> HIDE DEF new, g
  <2>8. IsFiniteSet(new) /\ Cardinality(new) <= Cardinality(A)
    BY <2>5, <2>7, Fun_IsInj, FS_Injection
  <2>9. IsFiniteSet(Repeats) /\ Cardinality(Repeats) + Cardinality(Again) <= came
    BY DEF IInv, RepeatInv
  <2>10. /\ IsFiniteSet(Repeats \cup new)
         /\ Cardinality(Repeats \cap new) \in Nat
         /\ Cardinality(Repeats) \in Nat /\ Cardinality(new) \in Nat
         /\ Cardinality(Repeats \cup new) =
              Cardinality(Repeats) + Cardinality(new) - Cardinality(Repeats \cap new)
    BY <2>8, <2>9, FS_Union, FS_Intersection, FS_CardinalityType
  <2>11. /\ IsFiniteSet(Repeats') /\ Cardinality(Repeats') \in Nat
         /\ Cardinality(Repeats') <= Cardinality(Repeats \cup new)
    BY <2>6, <2>10, Smaller
  <2>12. Cardinality(Again') \in Nat /\ Cardinality(Again') <= Cardinality(Again \ A)
    BY <1>14, <2>1, FS_Difference, Smaller
  <2> QED
    BY <1>1, <1>4, <2>7, <2>8, <2>9, <2>10, <2>11, <2>12 DEF RepeatInv
<1> QED
  BY <1>10, <1>12, <1>15, <1>16, <1>17, <1>18 DEF IInv

\* On to the next page, or done.
LEMMA NextPageStep ==
    ASSUME IInv, NextPage
    PROVE  IInv'
<1>1. /\ reader.pc = "reply"
      /\ reader' = IF More THEN [reader EXCEPT !.pc = "ask", !.page = @ + 1]
                           ELSE [reader EXCEPT !.pc = "done"]
      /\ UNCHANGED <<list, row, stayed, came, left, shown>>
  BY DEF NextPage, Go
<1>2. Matching' = Matching /\ Order' = Order /\ \A i \in Ids : rank(i)' = rank(i)
  BY <1>1, Frame
<1>3. TypeOK
  BY DEF IInv
<1>4. /\ reader \in Readers /\ reader.page \in Nat \ {0} /\ PageSize \in Nat /\ reader.total \in Nat
      /\ Matching \subseteq Ids /\ Missed \subseteq Ids
  BY <1>1, <1>3, Parts DEF TypeOK, IInv, ReaderInv
<1>5. Cardinality(Ids) \in Nat /\ reader.total <= Cardinality(Ids)
  BY ListingAssumption, FS_CardinalityType DEF IInv, ReaderInv
<1>6. CASE More
  <2>1. /\ reader' \in Readers /\ reader'.pc = "ask" /\ reader'.page = reader.page + 1
        /\ reader'.total = reader.total
    <3>1. reader' = [reader EXCEPT !.pc = "ask", !.page = reader.page + 1]
      BY <1>1, <1>4, <1>6 DEF Readers
    <3>2. reader.page + 1 \in Nat
      BY <1>4
    <3> QED
      BY <1>4, <3>1, <3>2 DEF Readers
  <2>2. reader.page + 1 \in 0..LastPage
    <3>1. list \in Exports => reader.page * PageSize <= Cardinality(Ids)
      BY <1>1, <1>6 DEF IInv, ReaderInv, More
    <3>2. list \notin Exports => reader.page * PageSize < Cardinality(Ids)
      <4>1. reader.page * PageSize \in Nat
        BY <1>4
      <4> QED
        BY <1>4, <1>5, <1>6, <4>1 DEF More
    <3> QED
      BY <1>4, <3>1, <3>2, NextPageExists, FirstPage
  <2>3. TypeOK'
    BY <1>1, <1>2, <1>3, <2>1, <2>2 DEF TypeOK, LastPage
  <2>4. ReadRows' = ReadRows
    <3>1. (reader.page + 1) - 1 = reader.page
      BY <1>4
    <3> QED
      BY <1>1, <2>1, <3>1 DEF ReadRows, Offset
  <2>5. ReaderInv'
    BY <1>1, <1>4, <1>5, <2>1 DEF ReaderInv
  <2>6. CountInv' /\ EndInv'
    BY <2>1 DEF CountInv, EndInv
  <2>7. Missed' = Missed /\ PassedOver' = PassedOver /\ Again' = Again /\ Repeats' = Repeats
    BY <1>1, <1>2, <1>4, <2>4 DEF Missed, PassedOver, Again, Repeats
  <2> QED
    BY <1>1, <2>3, <2>5, <2>6, <2>7 DEF IInv, MissInv, RepeatInv
<1>7. CASE ~More
  <2>1. /\ reader' \in Readers /\ reader'.pc = "done" /\ reader'.page = reader.page
        /\ reader'.total = reader.total /\ reader'.got = reader.got
    BY <1>1, <1>4, <1>7 DEF Readers
  <2>2. TypeOK'
    BY <1>1, <1>2, <1>3, <2>1 DEF TypeOK, LastPage
  <2>3. ReadRows' = ReadRows
    BY <1>1, <2>1 DEF ReadRows
  <2>4. ~More'
    BY <1>1, <1>7, <2>1 DEF More
  <2>5. ReaderInv'
    BY <1>1, <1>4, <1>5, <2>1, <2>4 DEF ReaderInv
  <2>6. Missed' = Missed /\ PassedOver' = PassedOver /\ Again' = Again /\ Repeats' = Repeats
    BY <1>1, <1>2, <1>4, <2>3 DEF Missed, PassedOver, Again, Repeats
  <2>7. CountInv' /\ EndInv'
    BY <1>1, <1>7, <2>1, <2>6 DEF IInv, CountInv, EndInv
  <2> QED
    BY <1>1, <2>2, <2>5, <2>6, <2>7 DEF IInv, MissInv, RepeatInv
<1> QED
  BY <1>6, <1>7

\* The rows as they are after one of them came or left keep their order.
LEMMA OrderKept ==
    ASSUME TypeOK, NEW i \in Ids, NEW r \in Rows, row' = [row EXCEPT ![i] = r], list' = list
    PROVE  \A j, k \in Ids \ {i} : <<j, k>> \in Order' <=> <<j, k>> \in Order
<1>1. \A j \in Ids \ {i} : row'[j] = row[j]
  BY DEF TypeOK
<1>2. \A j, k \in Ids \ {i} : <<j, k>> \in Latest' <=> <<j, k>> \in Latest
  BY <1>1 DEF Latest, LastId
<1>3. ById' = ById /\ LastId' = LastId
  BY DEF ById, LastId
<1> QED
  BY <1>2, <1>3 DEF Order

\* A write leaves the reading where it is.
LEMMA ReadingStays ==
    ASSUME UNCHANGED <<list, reader>>
    PROVE  ReadRows' = ReadRows /\ (More' <=> More) /\ LastPage' = LastPage
BY DEF ReadRows, Offset, More, LastPage

\* A row that comes may push one that was read already to the next page, or
\* be one that was read already itself.
LEMMA EnterStep ==
    ASSUME IInv, NEW i \in Ids, NEW r \in Rows, r.state = "in", row[i].state # "in",
           Write(i, r), came' = came + 1, UNCHANGED <<stayed, left>>
    PROVE  IInv'
<1> DEFINE M == Matching
           N == Matching'
<1>1. /\ reader.pc \notin {"closed", "done"} /\ came + left < MaxWrites
      /\ row' = [row EXCEPT ![i] = r] /\ UNCHANGED <<list, reader, shown>>
  BY DEF Write
<1>2. ReadRows' = ReadRows /\ (More' <=> More) /\ LastPage' = LastPage
  BY <1>1, ReadingStays
<1>3. TypeOK
  BY DEF IInv
<1>4. /\ row \in [Ids -> Rows] /\ row' \in [Ids -> Rows]
      /\ M \subseteq Ids /\ Strict(M, Order) /\ stayed \subseteq M
      /\ came \in Nat /\ left \in Nat /\ Cardinality(M) \in Nat
      /\ Missed \subseteq Ids /\ PassedOver \subseteq Missed /\ Again \subseteq Ids
  BY <1>1, <1>3, Parts, OrderOfMatching
<1>5. N = M \cup {i} /\ i \notin M
  BY <1>1, <1>4 DEF Matching
<1>6. TypeOK'
  <2>1. came + 1 \in 0..MaxWrites
    BY <1>1, <1>4, ListingAssumption
  <2> QED
    BY <1>1, <1>2, <1>3, <1>4, <1>5, <2>1 DEF TypeOK
<1>7. Joined(M, Order, N, Order', i)
  <2>1. Strict(N, Order')
    BY <1>4, <1>5, OrderStrictAfter DEF Strict
  <2>2. \A j, k \in M : <<j, k>> \in Order <=> <<j, k>> \in Order'
    BY <1>1, <1>3, <1>4, <1>5, OrderKept
  <2> QED
    BY <1>4, <1>5, <2>1, <2>2 DEF Joined
<1>8. \A k \in M : rank(k)' >= rank(k) /\ rank(k) \in Nat /\ rank(k)' \in Nat
  <2> SUFFICES ASSUME NEW k \in M
               PROVE  rank(k)' >= rank(k) /\ rank(k) \in Nat /\ rank(k)' \in Nat
    OBVIOUS
  <2>1. rank(k)' = rank(k) + (IF <<i, k>> \in Order' THEN 1 ELSE 0)
    BY <1>7, Shift DEF rank
  <2>2. rank(k) \in Nat
    BY <1>3, RankIsNat
  <2> QED
    BY <2>1, <2>2
<1>9. ReadRows \in Int
  BY <1>3, Parts DEF ReadRows, Offset
<1>10. Missed' = Missed /\ PassedOver' \subseteq PassedOver
  <2>1. Missed' = Missed
    BY <1>1 DEF Missed
  <2>2. ASSUME NEW k \in PassedOver'
        PROVE  k \in PassedOver
    <3>1. k \in Missed /\ k \in M /\ rank(k)' < ReadRows
      BY <1>2, <1>4, <2>1, <2>2 DEF PassedOver, Missed
    <3>2. rank(k) < ReadRows
      BY <1>8, <1>9, <3>1
    <3> QED
      BY <3>1, <3>2 DEF PassedOver
  <2> QED
    BY <2>1, <2>2
<1>11. MissInv'
  BY <1>3, <1>4, <1>10, IdsFinite, Smaller DEF IInv, MissInv
<1>12. CountInv'
  BY <1>1, <1>3, <1>4, <1>5, Parts, IdsFinite, FS_AddElement DEF IInv, CountInv
<1>13. EndInv'
  BY <1>1, <1>2, <1>4, <1>10, IdsFinite DEF IInv, EndInv
<1>14. RepeatInv'
  <2>1. Repeats' = Repeats
    BY <1>1 DEF Repeats
  <2>2. PICK y : \A k \in N :
            RankIn(N, Order', k) >= ReadRows /\ (k = i \/ RankIn(M, Order, k) < ReadRows) => k = y
    BY <1>7, <1>9, Crossing
  <2>3. Again' \subseteq Again \cup {y}
    <3> SUFFICES ASSUME NEW k \in Again', k # y
                 PROVE  k \in Again
      OBVIOUS
    <3>1. k \in N /\ shown[k] # 0 /\ RankIn(N, Order', k) >= ReadRows
      BY <1>1, <1>2 DEF Again, rank
    <3>2. k # i /\ ~(rank(k) < ReadRows)
      BY <2>2, <3>1 DEF rank
    <3>3. k \in M /\ rank(k) >= ReadRows
      BY <1>5, <1>8, <1>9, <3>1, <3>2
    <3> QED
      BY <3>1, <3>3 DEF Again
  <2>4. /\ Cardinality(Again') \in Nat /\ Cardinality(Again) \in Nat
        /\ Cardinality(Again') <= Cardinality(Again) + 1
    BY <1>4, <2>3, IdsFinite, OneMore
  <2>5. Cardinality(Repeats) \in Nat
    BY FS_CardinalityType DEF IInv, RepeatInv
  <2> QED
    BY <1>4, <2>1, <2>4, <2>5 DEF IInv, RepeatInv
<1>15. ReaderInv'
  BY <1>1, <1>2 DEF IInv, ReaderInv
<1> QED
  BY <1>6, <1>11, <1>12, <1>13, <1>14, <1>15 DEF IInv

\* A row that leaves may pull one that is still to be read to a page that was
\* read already.
LEMMA LeaveStep ==
    ASSUME IInv, NEW i \in Ids, Leave(i)
    PROVE  IInv'
<1> DEFINE N == Matching
           M == Matching'
           r == [row[i] EXCEPT !.state = "out"]
<1>1. /\ reader.pc \notin {"closed", "done"} /\ came + left < MaxWrites
      /\ row' = [row EXCEPT ![i] = r] /\ UNCHANGED <<list, reader, shown, came>>
      /\ left' = left + 1 /\ stayed' = stayed \ {i} /\ row[i].state = "in"
  BY DEF Leave, Write
<1>2. ReadRows' = ReadRows /\ (More' <=> More) /\ LastPage' = LastPage
  BY <1>1, ReadingStays
<1>3. TypeOK
  BY DEF IInv
<1>4. /\ row \in [Ids -> Rows] /\ row' \in [Ids -> Rows] /\ r \in Rows /\ r.state = "out"
      /\ N \subseteq Ids /\ Strict(N, Order) /\ stayed \subseteq N
      /\ came \in Nat /\ left \in Nat /\ Cardinality(N) \in Nat
      /\ Missed \subseteq Ids /\ PassedOver \subseteq Missed /\ Again \subseteq Ids
  <2>1. row \in [Ids -> Rows]
    BY <1>3, Parts
  <2>2. r \in Rows /\ r.state = "out"
    BY <2>1 DEF Rows
  <2> QED
    BY <1>1, <1>3, <2>1, <2>2, Parts, OrderOfMatching
<1> HIDE DEF r
<1>5. M = N \ {i} /\ i \in N
  BY <1>1, <1>4 DEF Matching
<1>6. TypeOK'
  <2>1. left + 1 \in 0..MaxWrites
    BY <1>1, <1>4, ListingAssumption
  <2>2. stayed' \in SUBSET M
    BY <1>1, <1>4, <1>5
  <2> QED
    BY <1>1, <1>2, <1>3, <1>4, <2>1, <2>2 DEF TypeOK
<1>7. Joined(M, Order', N, Order, i)
  <2>1. \A j, k \in M : <<j, k>> \in Order' <=> <<j, k>> \in Order
    BY <1>1, <1>3, <1>4, <1>5, OrderKept
  <2>2. Strict(M, Order')
    BY <1>4, <1>5, <2>1 DEF Strict
  <2> QED
    BY <1>4, <1>5, <2>1, <2>2 DEF Joined
<1>8. \A k \in M : rank(k) >= rank(k)' /\ rank(k) \in Nat /\ rank(k)' \in Nat
  <2> SUFFICES ASSUME NEW k \in M
               PROVE  rank(k) >= rank(k)' /\ rank(k) \in Nat /\ rank(k)' \in Nat
    OBVIOUS
  <2>1. rank(k) = rank(k)' + (IF <<i, k>> \in Order THEN 1 ELSE 0)
    BY <1>7, Shift DEF rank
  <2>2. rank(k) \in Nat
    BY <1>3, <1>5, RankIsNat
  <2>3. rank(k)' \in Nat
    BY <1>6, RankIsNatAfter
  <2> QED
    BY <2>1, <2>2, <2>3
<1>9. ReadRows \in Int
  BY <1>3, Parts DEF ReadRows, Offset
<1>10. /\ Missed' \subseteq Missed /\ IsFiniteSet(Missed) /\ Cardinality(Missed) \in Nat
       /\ Cardinality(Missed') \in Nat /\ Cardinality(Missed') <= Cardinality(Missed)
  <2>1. Missed' \subseteq Missed
    BY <1>1 DEF Missed
  <2>2. IsFiniteSet(Missed)
    BY <1>4, IdsFinite
  <2> QED
    BY <2>1, <2>2, Smaller
<1>11. MissInv'
  <2>1. PICK y : \A k \in N :
            RankIn(N, Order, k) >= ReadRows /\ (k = i \/ RankIn(M, Order', k) < ReadRows) => k = y
    BY <1>7, <1>9, Crossing
  <2>2. PassedOver' \subseteq PassedOver \cup {y}
    <3> SUFFICES ASSUME NEW k \in PassedOver', k # y
                 PROVE  k \in PassedOver
      OBVIOUS
    <3>1. k \in Missed /\ k \in M /\ k \in N /\ RankIn(M, Order', k) < ReadRows
      BY <1>1, <1>2, <1>4, <1>5, <1>10 DEF PassedOver, Missed, rank
    <3>2. ~(rank(k) >= ReadRows)
      BY <2>1, <3>1 DEF rank
    <3>3. rank(k) < ReadRows
      BY <1>8, <1>9, <3>1, <3>2
    <3> QED
      BY <3>1, <3>3 DEF PassedOver
  <2>3. /\ Cardinality(PassedOver') \in Nat /\ Cardinality(PassedOver) \in Nat
        /\ Cardinality(PassedOver') <= Cardinality(PassedOver) + 1
    BY <1>4, <2>2, IdsFinite, OneMore
  <2> QED
    BY <1>1, <1>4, <2>3 DEF IInv, MissInv
<1>12. CountInv'
  <2>1. Cardinality(M) \in Nat /\ Cardinality(M) <= Cardinality(N)
    BY <1>4, <1>5, IdsFinite, Smaller
  <2>2. reader.total \in Nat
    BY <1>3, Parts
  <2> QED
    BY <1>1, <1>4, <2>1, <2>2 DEF IInv, CountInv
<1>13. EndInv'
  BY <1>1, <1>2, <1>4, <1>10 DEF IInv, EndInv
<1>14. RepeatInv'
  <2>1. Repeats' = Repeats
    BY <1>1 DEF Repeats
  <2>2. Again' \subseteq Again
    <3> SUFFICES ASSUME NEW k \in Again'
                 PROVE  k \in Again
      OBVIOUS
    <3>1. k \in M /\ k \in N /\ shown[k] # 0 /\ rank(k)' >= ReadRows
      BY <1>1, <1>2, <1>5 DEF Again
    <3> QED
      BY <1>8, <1>9, <3>1 DEF Again
  <2>3. /\ Cardinality(Again') \in Nat /\ Cardinality(Again) \in Nat
        /\ Cardinality(Again') <= Cardinality(Again)
    BY <1>4, <2>2, IdsFinite, Smaller
  <2>4. Cardinality(Repeats) \in Nat
    BY FS_CardinalityType DEF IInv, RepeatInv
  <2> QED
    BY <1>1, <1>4, <2>1, <2>3, <2>4 DEF IInv, RepeatInv
<1>15. ReaderInv'
  BY <1>1, <1>2 DEF IInv, ReaderInv
<1> QED
  BY <1>6, <1>11, <1>12, <1>13, <1>14, <1>15 DEF IInv

\* Every step keeps the invariant.
LEMMA Inductive ==
    ASSUME IInv, [Next]_vars
    PROVE  IInv'
<1>1. CASE Open
  BY <1>1, OpenStep
<1>2. CASE Request
  BY <1>2, RequestForms, CountStep, SelectStep
<1>3. CASE NextPage
  BY <1>3, NextPageStep
<1>4. ASSUME NEW i \in Ids, NEW t \in Times, Create(i, t)
      PROVE  IInv'
  <2> DEFINE r == [state |-> "in", time |-> t]
  <2>1. r \in Rows /\ r.state = "in"
    BY DEF Rows
  <2>2. row[i].state # "in" /\ Write(i, r) /\ came' = came + 1 /\ UNCHANGED <<stayed, left>>
    BY <1>4 DEF Create
  <2> HIDE DEF r
  <2> QED
    BY <2>1, <2>2, EnterStep
<1>5. ASSUME NEW i \in Ids, Match(i)
      PROVE  IInv'
  <2> DEFINE r == [row[i] EXCEPT !.state = "in"]
  <2>1. row[i] \in Rows
    BY DEF IInv, TypeOK
  <2>2. r \in Rows /\ r.state = "in"
    BY <2>1 DEF Rows
  <2>3. row[i].state # "in" /\ Write(i, r) /\ came' = came + 1 /\ UNCHANGED <<stayed, left>>
    BY <1>5 DEF Match
  <2> HIDE DEF r
  <2> QED
    BY <2>2, <2>3, EnterStep
<1>6. ASSUME NEW i \in Ids, Leave(i)
      PROVE  IInv'
  BY <1>6, LeaveStep
<1>7. CASE UNCHANGED vars
  <2>1. UNCHANGED <<list, row, reader, shown, stayed, came, left>>
    BY <1>7 DEF vars
  <2>2. Matching' = Matching /\ Order' = Order /\ \A i \in Ids : rank(i)' = rank(i)
    BY <2>1, Frame
  <2>3. ReadRows' = ReadRows /\ (More' <=> More) /\ LastPage' = LastPage
    BY <2>1, ReadingStays
  <2>4. Matching \subseteq Ids /\ Missed \subseteq Ids
    BY Parts DEF IInv
  <2>5. Missed' = Missed /\ PassedOver' = PassedOver /\ Again' = Again /\ Repeats' = Repeats
    BY <2>1, <2>2, <2>3, <2>4 DEF Missed, PassedOver, Again, Repeats
  <2> QED
    BY <2>1, <2>2, <2>3, <2>5
       DEF IInv, TypeOK, ReaderInv, MissInv, CountInv, EndInv, RepeatInv
<1> QED
  BY <1>1, <1>2, <1>3, <1>4, <1>5, <1>6, <1>7 DEF Next

-----------------------------------------------------------------------------
(* The theorems.                                                           *)

(* The inductive invariant holds in every reachable state.                 *)
THEOREM Invariance == Spec => []IInv
<1>1. Init => IInv
  BY InitInv
<1>2. IInv /\ [Next]_vars => IInv'
  BY Inductive
<1> QED
  BY <1>1, <1>2, PTL DEF Spec

(* Every variable keeps its type, and no reading goes past the last page    *)
(* there can be, however the number of rows changes between its requests.  *)
THEOREM TypeCorrect == Spec => []TypeOK
<1>1. IInv => TypeOK
  BY DEF IInv
<1> QED
  BY <1>1, Invariance, PTL

(* A reading to the last page misses at most one row for each row that left *)
(* (or, of the projects, came) while it was read.                          *)
THEOREM FewMissed == Spec => []MissedAtMostLeft
<1>1. IInv => MissedAtMostLeft
  BY DEF IInv, ReaderInv, EndInv, MissedAtMostLeft, Missed
<1> QED
  BY <1>1, Invariance, PTL

(* At most one row is read twice for each row that came.                    *)
THEOREM FewRepeated == Spec => []RepeatedAtMostCame
<1>1. IInv => RepeatedAtMostCame
  <2> SUFFICES ASSUME IInv
               PROVE  Cardinality(Repeats) <= came
    BY DEF RepeatedAtMostCame
  <2>1. IsFiniteSet(Repeats) /\ Cardinality(Repeats) + Cardinality(Again) <= came
    BY DEF IInv, RepeatInv
  <2>2. Again \subseteq Ids /\ came \in Nat
    BY Parts DEF IInv
  <2>3. Cardinality(Again) \in Nat /\ Cardinality(Repeats) \in Nat
    BY <2>1, <2>2, IdsFinite, FS_CardinalityType
  <2> QED
    BY <2>1, <2>2, <2>3
<1> QED
  BY <1>1, Invariance, PTL
=============================================================================
