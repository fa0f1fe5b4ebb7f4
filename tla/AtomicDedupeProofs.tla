------------------------- MODULE AtomicDedupeProofs -------------------------
(***************************************************************************)
(* What a scan of AtomicDedupe makes of a region, for regions of any       *)
(* length and pages of any contents.                                       *)
(***************************************************************************)
EXTENDS AtomicDedupe, FiniteSets, FiniteSetTheorems, FunctionTheorems, WellFoundedInduction, TLAPS

\* Regions of n pages with data from D and homes from H.
RegionsOf(n, D, H) == [1 .. n -> [data : D, homeIndex : H, shared : BOOLEAN]]

Unshared(region) == {i \in DOMAIN region : ~region[i].shared}
SharedPages(region) == {i \in DOMAIN region : region[i].shared}
DataOf(region, S) == {region[i].data : i \in S}

-----------------------------------------------------------------------------
\* A set of numbers that is not empty has a least element.
LEMMA LeastExists ==
    ASSUME NEW S, S \subseteq Nat, S # {}
    PROVE  \E m \in S : \A k \in S : m <= k
  <1> DEFINE R == OpToRel(<, Nat)
  <1>1. IsWellFoundedOn(R, Nat)
    BY NatLessThanWellFounded
  <1>2. \A x, y \in Nat : x < y => <<x, y>> \in R
    BY DEF OpToRel
  <1> HIDE DEF R
  <1>3. PICK m \in S : \A k \in S : ~ (<<k, m>> \in R)
    BY <1>1, WFMin
  <1>4. ASSUME NEW k \in S
        PROVE  m <= k
    <2>1. k \in Nat /\ m \in Nat
      OBVIOUS
    <2>2. ~ (k < m)
      BY <1>2, <1>3, <2>1
    <2> QED
      BY <2>1, <2>2
  <1> QED
    BY <1>4

\* A scan, page by page: duplicates become shared, no page's data changes.
LEMMA ScannedPage ==
    ASSUME NEW n \in Nat, NEW D, NEW H, NEW r \in RegionsOf(n, D, H)
    PROVE  /\ DOMAIN Scanned(r) = 1 .. n
           /\ \A i \in 1 .. n :
                 /\ Scanned(r)[i].data = r[i].data
                 /\ Scanned(r)[i].shared = (r[i].shared \/ Duplicate(r, i))
                 /\ ~Duplicate(r, i) => Scanned(r)[i] = r[i]
  <1>1. DOMAIN r = 1 .. n
    BY DEF RegionsOf
  <1>2. ASSUME NEW i \in 1 .. n
        PROVE  /\ Scanned(r)[i].data = r[i].data
               /\ Scanned(r)[i].shared = (r[i].shared \/ Duplicate(r, i))
               /\ ~Duplicate(r, i) => Scanned(r)[i] = r[i]
    <2>1. r[i].shared \in BOOLEAN
      BY DEF RegionsOf
    <2>2. CASE Duplicate(r, i)
      BY <1>1, <2>1, <2>2 DEF Scanned
    <2>3. CASE ~Duplicate(r, i)
      BY <1>1, <2>1, <2>3 DEF Scanned
    <2> QED
      BY <2>2, <2>3
  <1> QED
    BY <1>1, <1>2 DEF Scanned

\* What stays unshared are the first unshared pages of their content.
LEMMA ScanKeepsFirst ==
    ASSUME NEW n \in Nat, NEW D, NEW H, NEW r \in RegionsOf(n, D, H)
    PROVE  Unshared(Scanned(r)) = {i \in Unshared(r) : Earlier(r, i) = {}}
  <1>1. DOMAIN r = 1 .. n
    BY DEF RegionsOf
  <1> QED
    BY <1>1, ScannedPage DEF Unshared, Duplicate

\* A second scan of a region finds nothing: engine.scanRegion may be repeated at will, as
\* the scheduler's worker does with the region it ranks first.
THEOREM ScanIdempotent ==
    ASSUME NEW n \in Nat, NEW D, NEW H, NEW r \in RegionsOf(n, D, H)
    PROVE  /\ \A i \in 1 .. n : ~Duplicate(Scanned(r), i)
           /\ Scanned(Scanned(r)) = Scanned(r)
  <1> DEFINE s == Scanned(r)
  <1>1. ASSUME NEW i \in 1 .. n, Duplicate(s, i)
        PROVE  FALSE
    <2>1. ~s[i].shared /\ Earlier(s, i) # {}
      BY <1>1 DEF Duplicate
    <2>2. PICK j \in 1 .. i - 1 : ~s[j].shared /\ s[j].data = s[i].data
      BY <2>1 DEF Earlier
    <2>3. j \in 1 .. n
      BY <2>2
    <2>4. /\ ~r[j].shared /\ ~r[i].shared /\ r[j].data = r[i].data
          /\ ~Duplicate(r, i)
      <3>1. \A k \in {i, j} : /\ s[k].data = r[k].data
                              /\ s[k].shared = (r[k].shared \/ Duplicate(r, k))
        BY <2>3, ScannedPage
      <3> HIDE DEF s
      <3> QED
        BY <2>1, <2>2, <3>1
    <2>5. j \in Earlier(r, i)
      BY <2>2, <2>4 DEF Earlier
    <2> QED
      BY <2>4, <2>5 DEF Duplicate
  <1>2. DOMAIN s = 1 .. n
    BY ScannedPage
  <1> HIDE DEF s
  <1>3. Scanned(s) = [i \in 1 .. n |-> s[i]]
    BY <1>1, <1>2 DEF Scanned
  <1>4. s = [i \in 1 .. n |-> s[i]]
    BY <1>2, ScannedPage DEF s, Scanned
  <1> QED
    BY <1>1, <1>3, <1>4 DEF s

\* A scan keeps one page of each content: as many pages stay unshared as the unshared
\* pages had different contents, whatever their order.
THEOREM ScanKeepsOneOfEach ==
    ASSUME NEW n \in Nat, NEW D, NEW H, NEW r \in RegionsOf(n, D, H)
    PROVE  /\ IsFiniteSet(Unshared(Scanned(r)))
           /\ Cardinality(Unshared(Scanned(r))) = Cardinality(DataOf(r, Unshared(r)))
  <1> DEFINE K == Unshared(Scanned(r))
             C == DataOf(r, Unshared(r))
             f == [i \in K |-> r[i].data]
  <1>1. DOMAIN r = 1 .. n
    BY DEF RegionsOf
  <1>2. /\ K \subseteq Unshared(r) /\ Unshared(r) \subseteq 1 .. n
        /\ \A i \in K : Earlier(r, i) = {}
    BY <1>1, ScanKeepsFirst DEF Unshared
  <1>3. IsFiniteSet(K)
    BY <1>2, FS_Interval, FS_Subset
  <1>4. f \in [K -> C]
    BY <1>2 DEF DataOf
  <1>5. ASSUME NEW a \in K, NEW b \in K, f[a] = f[b]
        PROVE  a = b
    <2>1. a \in 1 .. n /\ b \in 1 .. n /\ ~r[a].shared /\ ~r[b].shared
          /\ r[a].data = r[b].data
      BY <1>2, <1>5 DEF Unshared
    <2>2. CASE a < b
      BY <1>2, <2>1, <2>2 DEF Earlier
    <2>3. CASE b < a
      BY <1>2, <2>1, <2>3 DEF Earlier
    <2> QED
      BY <2>1, <2>2, <2>3
  <1>6. ASSUME NEW d \in C
        PROVE  \E i \in K : f[i] = d
    <2> DEFINE S == {i \in Unshared(r) : r[i].data = d}
    <2>1. S # {} /\ S \subseteq Nat
      BY <1>2, <1>6 DEF DataOf
    <2>2. PICK m \in S : \A k \in S : m <= k
      BY <2>1, LeastExists
    <2>3. m \in 1 .. n /\ m \in Unshared(r) /\ r[m].data = d
      BY <1>2, <2>2
    <2>4. ASSUME NEW j \in Earlier(r, m)
          PROVE  FALSE
      <3>1. j \in 1 .. m - 1 /\ ~r[j].shared /\ r[j].data = d
        BY <2>3, <2>4 DEF Earlier
      <3>2. j \in S
        BY <1>1, <2>3, <3>1 DEF Unshared
      <3> QED
        BY <2>2, <2>3, <3>1, <3>2
    <2>5. m \in K
      BY <2>3, <2>4, ScanKeepsFirst
    <2> QED
      BY <2>3, <2>5
  <1>7. f \in Bijection(K, C)
    BY <1>4, <1>5, <1>6, Fun_IsBij
  <1>8. ExistsBijection(K, C)
    BY <1>7 DEF ExistsBijection
  <1> QED
    BY <1>3, <1>8, FS_Bijection

\* The saving of a scan is exact: of a region without shared pages as many pages become
\* shared as it holds beyond one of each content.
THEOREM ScanSaves ==
    ASSUME NEW n \in Nat, NEW D, NEW H, NEW r \in RegionsOf(n, D, H),
           \A i \in 1 .. n : ~r[i].shared
    PROVE  /\ Cardinality(SharedPages(Scanned(r))) = n - Cardinality(DataOf(r, DOMAIN r))
           /\ SharedPages(Scanned(r)) = {i \in 1 .. n : Duplicate(r, i)}
  <1> DEFINE U == Unshared(Scanned(r))
             S == SharedPages(Scanned(r))
  <1>1. DOMAIN r = 1 .. n /\ Unshared(r) = DOMAIN r
    BY DEF RegionsOf, Unshared
  <1>2. DOMAIN Scanned(r) = 1 .. n
    BY ScannedPage
  <1>3. S = {i \in 1 .. n : Duplicate(r, i)}
    BY <1>2, ScannedPage DEF SharedPages
  <1>4. U \cap S = {} /\ U \cup S = 1 .. n
    BY <1>2 DEF Unshared, SharedPages
  <1>5. /\ IsFiniteSet(U) /\ Cardinality(U) = Cardinality(DataOf(r, DOMAIN r))
    BY <1>1, ScanKeepsOneOfEach
  <1>6. IsFiniteSet(1 .. n) /\ Cardinality(1 .. n) = n
    BY FS_Interval
  <1>7. IsFiniteSet(S)
    BY <1>4, <1>6, FS_Subset
  <1>8. Cardinality(1 .. n) = Cardinality(U) + Cardinality(S)
    <2>1. Cardinality(U \cup S) = Cardinality(U) + Cardinality(S) - Cardinality(U \cap S)
      BY <1>5, <1>7, FS_Union
    <2>2. Cardinality(U \cap S) = 0 /\ Cardinality(U) \in Nat /\ Cardinality(S) \in Nat
      BY <1>4, <1>5, <1>7, FS_EmptySet, FS_CardinalityType
    <2> HIDE DEF U, S
    <2>3. Cardinality(U \cup S) = Cardinality(U) + Cardinality(S)
      BY ONLY <2>1, <2>2
    <2> QED
      BY <1>4, <2>3
  <1> QED
    BY <1>3, <1>5, <1>6, <1>7, <1>8, FS_CardinalityType
=============================================================================
