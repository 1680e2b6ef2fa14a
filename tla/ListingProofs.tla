----------------------------- MODULE ListingProofs ----------------------------
(* For every finite set of names, every page size and every order of changes: *)
(* a listing that follows its markers is complete and repeats nothing.        *)
EXTENDS Listing, FiniteSetTheorems, WellFoundedInduction, TLAPS

-------------------------------------------------------------------------------
(* Finite sets of numbers, and what First and Last return. *)

LEMMA LeastExists ==
    ASSUME NEW T \in SUBSET Nat, T # {}
    PROVE  \E x \in T : \A y \in T : x <= y
<1>1. PICK x \in T : \A y \in T : ~(<<y, x>> \in OpToRel(<, Nat))
  BY NatLessThanWellFounded, WFMin
<1>2. \A y \in T : ~(y < x)
  BY <1>1 DEF OpToRel
<1> QED
  BY <1>2

LEMMA SmallerSet ==
    ASSUME NEW S, IsFiniteSet(S), NEW A \in SUBSET S, NEW B \in SUBSET A, NEW x \in A, x \notin B
    PROVE  Cardinality(B) \in Nat /\ Cardinality(A) \in Nat /\ Cardinality(B) < Cardinality(A)
<1>1. IsFiniteSet(A) /\ IsFiniteSet(B)
  BY FS_Subset
<1>2. Cardinality(A) \in Nat /\ Cardinality(B) \in Nat
  BY <1>1, FS_CardinalityType
<1>3. Cardinality(B) <= Cardinality(A) /\ (Cardinality(A) = Cardinality(B) => A = B)
  BY <1>1, FS_Subset
<1> QED
  BY <1>2, <1>3

(* A set of numbers and what of it is above n. *)
LEMMA GreatestExists ==
    ASSUME NEW S \in SUBSET Nat, IsFiniteSet(S), S # {}
    PROVE  \E x \in S : \A y \in S : y <= x
<1> DEFINE Above(n) == {m \in S : m > n}
           T == {Cardinality(Above(n)) : n \in S}
<1>1. \A n \in S : Cardinality(Above(n)) \in Nat
  BY FS_Subset, FS_CardinalityType
<1>2. T \in SUBSET Nat /\ T # {}
  BY <1>1
<1>3. PICK c \in T : \A d \in T : c <= d
  BY <1>2, LeastExists
<1>4. PICK x \in S : c = Cardinality(Above(x))
  BY <1>3
<1>5. ASSUME NEW y \in S, y > x PROVE FALSE
  <2>0. ~(y > y) /\ \A m \in S : m > y => m > x
    BY <1>5
  <2>1. /\ Above(x) \in SUBSET S /\ Above(y) \in SUBSET Above(x)
        /\ y \in Above(x) /\ y \notin Above(y)
    BY <1>5, <2>0
  <2>2. Cardinality(Above(y)) < Cardinality(Above(x))
    <3> HIDE DEF Above
    <3> QED
      BY <2>1, SmallerSet
  <2>3. Cardinality(Above(x)) <= Cardinality(Above(y))
    BY <1>3, <1>4
  <2> QED
    BY <2>2, <2>3, <1>1
<1> QED
  BY <1>5

LEMMA LastIsGreatest ==
    ASSUME NEW S \in SUBSET Nat, IsFiniteSet(S), S # {}
    PROVE  Last(S) \in S /\ \A m \in S : m <= Last(S)
  BY GreatestExists DEF Last

LEMMA FirstSubset == ASSUME NEW k, NEW S PROVE First(k, S) \subseteq S
  BY DEF First

LEMMA BelowIsFinite ==
    ASSUME NEW S \in SUBSET Nat, IsFiniteSet(S), NEW n
    PROVE  LET B == {m \in S : m < n} IN IsFiniteSet(B) /\ Cardinality(B) \in Nat
  BY FS_Subset, FS_CardinalityType

(* First(k, S) contains with a number every smaller one of S. *)
LEMMA FirstDown ==
    ASSUME NEW S \in SUBSET Nat, IsFiniteSet(S), NEW k \in Nat,
           NEW n \in First(k, S), NEW m \in S, m <= n
    PROVE  m \in First(k, S)
<1> DEFINE B(j) == {i \in S : i < j}
<1>1. n \in S /\ Cardinality(B(n)) < k
  BY DEF First
<1>0. \A i \in S : i < m => i < n
  BY <1>1
<1>2. B(m) \in SUBSET B(n)
  BY <1>0
<1>3. IsFiniteSet(B(n)) /\ Cardinality(B(n)) \in Nat /\ Cardinality(B(m)) \in Nat
  BY BelowIsFinite
<1>4. Cardinality(B(m)) <= Cardinality(B(n))
  <2> HIDE DEF B
  <2> QED
    BY <1>2, <1>3, FS_Subset
<1>5. Cardinality(B(m)) < k
  BY <1>1, <1>3, <1>4
<1> QED
  BY <1>5 DEF First

(* A page that is not full has everything. *)
LEMMA FirstShort ==
    ASSUME NEW S \in SUBSET Nat, IsFiniteSet(S), NEW k \in Nat, Cardinality(First(k, S)) < k
    PROVE  First(k, S) = S
<1> DEFINE R == S \ First(k, S)
<1>1. SUFFICES ASSUME R # {} PROVE FALSE
  BY FirstSubset
<1>2. PICK x \in R : \A y \in R : x <= y
  BY <1>1, LeastExists
<1> DEFINE B == {m \in S : m < x}
<1>0. \A m \in S : m < x => m \notin R
  BY <1>2
<1>3. B \in SUBSET First(k, S)
  BY <1>0
<1>4. IsFiniteSet(First(k, S)) /\ Cardinality(First(k, S)) \in Nat /\ Cardinality(B) \in Nat
  BY FirstSubset, BelowIsFinite, FS_Subset, FS_CardinalityType
<1>5. Cardinality(B) <= Cardinality(First(k, S))
  <2> HIDE DEF B
  <2> QED
    BY <1>3, <1>4, FS_Subset
<1>6. Cardinality(B) < k
  BY <1>4, <1>5
<1> QED
  BY <1>2, <1>6 DEF First

(* A page that is large enough has everything. *)
LEMMA FirstFull ==
    ASSUME NEW S \in SUBSET Nat, IsFiniteSet(S), NEW k \in Nat, Cardinality(S) <= k
    PROVE  First(k, S) = S
<1>1. ASSUME NEW n \in S PROVE Cardinality({m \in S : m < n}) < k
  <2> DEFINE B == {m \in S : m < n}
  <2>1. B \in SUBSET S /\ n \notin B
    OBVIOUS
  <2>2. Cardinality(B) \in Nat /\ Cardinality(S) \in Nat /\ Cardinality(B) < Cardinality(S)
    <3> HIDE DEF B
    <3> QED
      BY <2>1, SmallerSet
  <2> QED
    BY <2>2
<1> QED
  BY <1>1 DEF First

LEMMA FirstNonempty ==
    ASSUME NEW S \in SUBSET Nat, IsFiniteSet(S), S # {}, NEW k \in Nat, k > 0
    PROVE  First(k, S) # {}
<1>1. PICK x \in S : \A y \in S : x <= y
  BY LeastExists
<1>0. \A m \in S : ~(m < x)
  BY <1>1
<1>2. {m \in S : m < x} = {}
  BY <1>0
<1>3. Cardinality({m \in S : m < x}) = 0
  BY <1>2, FS_EmptySet
<1> QED
  BY <1>3 DEF First

-------------------------------------------------------------------------------
(* The inductive invariant. *)

(* What a complete listing owes a row. *)
Covered(n) == IF is_folded(n) THEN Dir[n] \in dirs ELSE listed[n] > 0

(* Nothing beyond the marker has been listed. *)
ListedBeforeMarker ==
    marker # None => \A n \in Names : listed[n] > 0 => n <= marker

(* Every steady row up to the marker has been listed or folded. *)
CoveredBeforeMarker ==
    marker # None /\ Sane => \A n \in steady \cap Matching : n <= marker => Covered(n)

LInv ==
    /\ TypeOK
    /\ ListedOnce
    /\ ListedBeforeMarker
    /\ CoveredBeforeMarker
    /\ ListingIsComplete

USE NamesAssumption, MatchingAssumption, DirAssumption, NoneAssumption, PageSizesAssumption

LEMMA InitLInv == Init => LInv
<1> SUFFICES ASSUME Init PROVE LInv
  OBVIOUS
<1>1. TypeOK /\ marker = 0 /\ marker # None /\ \A n \in Names : listed[n] = 0 /\ ~(n <= 0)
  BY DEF Init, TypeOK
<1> QED
  BY <1>1 DEF LInv, ListedOnce, ListedBeforeMarker, CoveredBeforeMarker, ListingIsComplete, TypeOK

(* The rows of a page and its marker, given the rows beyond the old marker. *)
LEMMA PageFacts ==
    ASSUME TypeOK, marker # None,
           NEW T, T = {n \in table \cap Matching : n > marker},
           NEW page, page = First(size, query_rows),
           NEW mark, mark = next_marker(query_rows)
    PROVE  /\ page \subseteq T
           /\ mark = None \/ (mark \in page /\ \A n \in page : n <= mark)
           /\ Sane /\ mark = None => page = T
           /\ Sane /\ mark # None => \A n \in T : n <= mark => n \in page
<1> DEFINE rows == query_rows
<1>1. T \in SUBSET Nat /\ IsFiniteSet(T) /\ T \subseteq Names
  <2>1. T \in SUBSET Names
    BY DEF TypeOK
  <2> QED
    BY <2>1, FS_Subset
<1>2. rows = First(row_limit, T) /\ size \in Nat /\ size < U32
  BY DEF query_rows, TypeOK
<1>3. rows \in SUBSET T /\ rows \in SUBSET Nat /\ IsFiniteSet(rows) /\ Cardinality(rows) \in Nat
  BY <1>1, <1>2, FirstSubset, FS_Subset, FS_CardinalityType
<1>4. page \in SUBSET rows /\ page \in SUBSET Nat /\ IsFiniteSet(page)
  BY <1>3, FirstSubset, FS_Subset
<1>5. Sane => row_limit = size + 1 /\ size > 0
  <2>1. ASSUME size + 1 < U32 PROVE (size + 1) % U32 = size + 1
    BY <2>1, <1>2
  <2> QED
    BY <2>1, <1>2 DEF Sane, row_limit
<1> HIDE DEF rows
<1>6. CASE Cardinality(rows) > size /\ size > 0
  <2>1. mark = Last(page)
    BY <1>6 DEF next_marker, rows
  <2>2. rows # {}
    BY <1>6, <1>2, FS_EmptySet
  <2>3. page # {}
    BY <2>2, <1>2, <1>3, <1>6, FirstNonempty DEF rows
  <2>4. mark \in page /\ mark \in Nat /\ \A n \in page : n <= mark
    BY <2>1, <2>3, <1>4, LastIsGreatest
  <2>5. ASSUME Sane, NEW n \in T, n <= mark PROVE n \in page
    <3>1. row_limit \in Nat /\ mark \in First(row_limit, T)
      BY <2>4, <2>5, <1>2, <1>4, <1>5
    <3>2. n \in rows
      BY <3>1, <2>5, <1>1, <1>2, FirstDown
    <3> QED
      BY <3>2, <2>4, <2>5, <1>2, <1>3, FirstDown DEF rows
  <2>6. mark # None
    BY <2>4
  <2> QED
    BY <2>4, <2>5, <2>6, <1>3, <1>4
<1>7. CASE ~(Cardinality(rows) > size /\ size > 0)
  <2>1. mark = None
    BY <1>7 DEF next_marker, rows
  <2>2. ASSUME Sane PROVE page = T
    <3>1. Cardinality(rows) <= size /\ row_limit = size + 1
      BY <2>2, <1>7, <1>2, <1>3, <1>5
    <3>2. rows = T
      BY <3>1, <1>1, <1>2, <1>3, FirstShort
    <3>3. page = rows
      BY <3>1, <1>2, <1>3, FirstFull DEF rows
    <3> QED
      BY <3>2, <3>3
  <2> QED
    BY <2>1, <2>2, <1>3, <1>4
<1> QED
  BY <1>6, <1>7

LEMMA ListPageLInv == ASSUME LInv, list_page PROVE LInv'
<1> DEFINE T == {n \in table \cap Matching : n > marker}
           page == First(size, query_rows)
           mark == next_marker(query_rows)
<1>0. TypeOK /\ marker # None /\ marker \in Nat
  BY DEF LInv, list_page, TypeOK
<1>1. /\ page \subseteq T
      /\ mark = None \/ (mark \in page /\ \A n \in page : n <= mark)
      /\ Sane /\ mark = None => page = T
      /\ Sane /\ mark # None => \A n \in T : n <= mark => n \in page
  <2>1. T = {n \in table \cap Matching : n > marker} /\ page = First(size, query_rows)
        /\ mark = next_marker(query_rows)
    OBVIOUS
  <2> HIDE DEF T, page, mark
  <2> QED
    BY <1>0, <2>1, PageFacts
<1>2. /\ listed' = [n \in Names |->
                     IF n \in page /\ ~is_folded(n) THEN listed[n] + 1 ELSE listed[n]]
      /\ dirs' = dirs \cup {Dir[n] : n \in {m \in page : is_folded(m)}}
      /\ marker' = mark
      /\ table' = table /\ what' = what /\ size' = size /\ steady' = steady
  BY DEF list_page
<1> HIDE DEF page, mark
<1>3. page \subseteq Names /\ \A n \in page : n > marker /\ n \in Nat
  BY <1>0, <1>1 DEF TypeOK
<1>4. \A n \in Names : listed[n] \in Nat /\ listed'[n] \in Nat
  BY <1>0, <1>2 DEF TypeOK
<1>5. \A n \in Names : listed'[n] = IF n \in page /\ ~is_folded(n) THEN listed[n] + 1 ELSE listed[n]
  BY <1>2
<1>6. TypeOK'
  <2>0. marker' \in Nat \cup {None}
    BY <1>1, <1>2, <1>3
  <2>1. listed' \in [Names -> Nat]
    BY <1>2, <1>4
  <2>2. dirs' \subseteq {Dir[n] : n \in Names}
    BY <1>0, <1>2, <1>3 DEF TypeOK
  <2> QED
    BY <1>0, <1>2, <2>0, <2>1, <2>2 DEF TypeOK
<1>7. \A n \in page : listed[n] = 0
  BY <1>0, <1>3, <1>4 DEF LInv, ListedBeforeMarker
<1>8. ListedOnce'
  BY <1>4, <1>5, <1>7 DEF LInv, ListedOnce
<1>9. ListedBeforeMarker'
  <2> SUFFICES ASSUME mark # None, NEW n \in Names, listed'[n] > 0 PROVE n <= mark
    BY <1>2 DEF ListedBeforeMarker
  <2>1. CASE n \in page
    BY <2>1, <1>1
  <2>2. CASE n \notin page
    <3>1. n \in Nat /\ mark \in Nat /\ mark > marker
      BY <1>1, <1>3
    <3>2. n <= marker
      BY <2>2, <1>0, <1>5 DEF LInv, ListedBeforeMarker
    <3> QED
      BY <3>1, <3>2, <1>0
  <2> QED
    BY <2>1, <2>2
<1>10. Sane' <=> Sane
  BY <1>2 DEF Sane
<1>11. ASSUME NEW n \in page PROVE Covered(n)'
  BY <1>11, <1>2, <1>3, <1>4, <1>5 DEF Covered, is_folded
<1>12. ASSUME NEW n \in Names, Covered(n) PROVE Covered(n)'
  BY <1>12, <1>2, <1>4, <1>5 DEF Covered, is_folded
<1>13. ASSUME NEW n \in steady \cap Matching, Sane, n \notin page PROVE n <= marker => Covered(n)'
  BY <1>0, <1>12, <1>13 DEF LInv, CoveredBeforeMarker, TypeOK
<1>14. \A n \in steady \cap Matching : n \in Nat /\ n \in Names /\ (n > marker => n \in T)
  BY <1>0 DEF TypeOK
<1>15. CoveredBeforeMarker'
  <2> SUFFICES ASSUME mark # None, Sane, NEW n \in steady \cap Matching, n <= mark PROVE Covered(n)'
    BY <1>2, <1>10 DEF CoveredBeforeMarker
  <2> QED
    BY <1>0, <1>1, <1>11, <1>13, <1>14
<1>16. ListingIsComplete'
  <2> SUFFICES ASSUME mark = None, Sane, NEW n \in steady \cap Matching PROVE Covered(n)'
    BY <1>2, <1>10 DEF ListingIsComplete, Covered
  <2> QED
    BY <1>0, <1>1, <1>11, <1>13, <1>14
<1> QED
  BY <1>6, <1>8, <1>9, <1>15, <1>16 DEF LInv

LEMMA NextLInv == LInv /\ [Next]_vars => LInv'
<1> SUFFICES ASSUME LInv, [Next]_vars PROVE LInv'
  OBVIOUS
<1> USE DEF LInv, TypeOK, ListedOnce, ListedBeforeMarker, CoveredBeforeMarker, ListingIsComplete,
        Covered, is_folded, Sane
<1>1. CASE list_page
  BY <1>1, ListPageLInv
<1>2. ASSUME NEW n \in Names, add_row(n) PROVE LInv'
  BY <1>2 DEF add_row
<1>3. ASSUME NEW n \in Names, remove_row(n) PROVE LInv'
  BY <1>3 DEF remove_row
<1>4. CASE UNCHANGED vars
  BY <1>4 DEF vars
<1> QED
  BY <1>1, <1>2, <1>3, <1>4 DEF Next

(* No listing, of blobs or of containers, folded or not, has a name twice,   *)
(* whatever is uploaded and deleted between its pages.                       *)
THEOREM NothingIsRepeated == Spec => []ListedOnce
<1>1. LInv => ListedOnce
  BY DEF LInv
<1> QED
  BY <1>1, InitLInv, NextLInv, PTL DEF Spec

(* A listing that came to its end misses no row that was there all along,   *)
(* for every page size from 1 up, short of the u32 limit for containers.     *)
THEOREM NothingIsMissed == Spec => []ListingIsComplete
<1>1. LInv => ListingIsComplete
  BY DEF LInv
<1> QED
  BY <1>1, InitLInv, NextLInv, PTL DEF Spec
===============================================================================
