-------------------------------- MODULE Listing -------------------------------
(***************************************************************************)
(* List Blobs and List Containers, page by page: the query of              *)
(* metadata_db.rs with its marker and its limit, the folding of            *)
(* fs_backend.rs, and a client that follows NextMarker while rows come and *)
(* go under it.                                                            *)
(*                                                                         *)
(* A name is its place in the order of SQLite's BINARY collation, and the  *)
(* empty marker is 0.  Which names the LIKE pattern of the prefix accepts, *)
(* and the virtual directory in which the delimiter folds a name, are      *)
(* functions of the request and the name, so they are constants.           *)
(***************************************************************************)
EXTENDS Integers, FiniteSets

CONSTANTS
    Names,       \* the names rows may have
    Matching,    \* those the prefix accepts
    Dir,         \* the BlobPrefix a name is folded into, or None
    None,        \* not folded; no next marker
    PageSizes,   \* the maxresults clients ask for
    U32          \* the number of values of a u32

ASSUME NamesAssumption == Names \subseteq Nat \ {0} /\ IsFiniteSet(Names)
ASSUME MatchingAssumption == Matching \subseteq Names
ASSUME DirAssumption == DOMAIN Dir = Names
ASSUME NoneAssumption == None \notin Nat
ASSUME PageSizesAssumption == U32 \in Nat \ {0} /\ PageSizes \subseteq 0 .. (U32 - 1)

VARIABLES
    table,    \* the names that have a row
    what,     \* what is listed: "blobs", "folded" (with a delimiter), "containers"
    size,     \* the maxresults of the listing
    marker,   \* the marker of the next page, None when the listing has ended
    listed,   \* the names the client has been given, each with its count
    dirs,     \* the BlobPrefix entries it has been given
    steady    \* history: the names that have had a row since the listing began

vars == <<table, what, size, marker, listed, dirs, steady>>

TypeOK ==
    /\ table \subseteq Names
    /\ what \in {"blobs", "folded", "containers"}
    /\ size \in PageSizes
    /\ marker \in Nat \cup {None}
    /\ listed \in [Names -> Nat]
    /\ dirs \subseteq {Dir[n] : n \in Names}
    /\ steady \subseteq table

Init ==
    /\ table \in SUBSET Names
    /\ what \in {"blobs", "folded", "containers"}
    /\ size \in PageSizes
    /\ marker = 0
    /\ listed = [n \in Names |-> 0]
    /\ dirs = {}
    /\ steady = table

-------------------------------------------------------------------------------
(* The k least members of S. *)
First(k, S) == {n \in S : Cardinality({m \in S : m < n}) < k}

(* The greatest member of S. *)
Last(S) == CHOOSE n \in S : \A m \in S : m <= n

(* LIMIT is one more than a page.  list_containers adds in u32, list_blobs *)
(* in i64.  In a release build the u32 sum wraps.                          *)
row_limit == IF what = "containers" THEN (size + 1) % U32 ELSE size + 1

(* MUTANT of query_rows: the page begins with the row of the marker. *)
query_rows_from == First(row_limit, {n \in table \cap Matching : n >= marker})

(* SELECT ... LIKE prefix AND name > marker ORDER BY name LIMIT row_limit. *)
query_rows == First(row_limit, {n \in table \cap Matching : n > marker})

(* MUTANT of next_marker: the first row that was cut off, which `>` then   *)
(* skips.                                                                  *)
next_marker_after(rows) ==
    IF Cardinality(rows) > size /\ size > 0 THEN Last(rows) ELSE None

(* MUTANT of next_marker: the last page has a marker too. *)
next_marker_kept(rows) ==
    IF First(size, rows) = {} THEN marker ELSE Last(First(size, rows))

(* The last row of a page that was cut; an empty page has no last row. *)
next_marker(rows) ==
    IF Cardinality(rows) > size /\ size > 0 THEN Last(First(size, rows)) ELSE None

(* With a delimiter, a name that has it after the prefix is folded. *)
is_folded(n) == what = "folded" /\ Dir[n] # None

(* One request, and the client's bookkeeping of its answer.  A request that *)
(* is refused, the container being gone, changes nothing here.             *)
list_page ==
    /\ marker # None
    /\ LET rows == query_rows
           page == First(size, rows)
       IN  /\ listed' = [n \in Names |->
                           IF n \in page /\ ~is_folded(n) THEN listed[n] + 1 ELSE listed[n]]
           /\ dirs' = dirs \cup {Dir[n] : n \in {m \in page : is_folded(m)}}
           /\ marker' = next_marker(rows)
    /\ UNCHANGED <<table, what, size, steady>>

(* Uploads and deletions by other clients, at any time. *)
add_row(n) ==
    /\ n \notin table
    /\ table' = table \cup {n}
    /\ UNCHANGED <<what, size, marker, listed, dirs, steady>>

remove_row(n) ==
    /\ n \in table
    /\ table' = table \ {n}
    /\ steady' = steady \ {n}
    /\ UNCHANGED <<what, size, marker, listed, dirs>>

Next == list_page \/ \E n \in Names : add_row(n) \/ remove_row(n)

Spec == Init /\ [][Next]_vars

(* The client goes on asking while it is given markers. *)
FairSpec == Spec /\ WF_vars(list_page)

-------------------------------------------------------------------------------
(* maxresults = 0 yields an empty page without a marker, and u32::MAX wraps *)
(* the limit of list_containers to 0.  Elsewhere the protocol is sound.    *)
Sane == size > 0 /\ (what = "containers" => size + 1 < U32)

(* A complete listing has every row that was there all the time, as an     *)
(* entry or in the BlobPrefix it is folded into, whatever other rows were  *)
(* added or removed between its pages.                                     *)
ListingIsComplete ==
    marker = None /\ Sane =>
        \A n \in steady \cap Matching :
            IF is_folded(n) THEN Dir[n] \in dirs ELSE listed[n] > 0

(* No name is listed twice, not even when its row is deleted and uploaded  *)
(* again between two pages.                                                *)
ListedOnce == \A n \in Names : listed[n] <= 1

(* Following markers comes to an end, although rows are added all along.   *)
ListingEnds == <>(marker = None)
===============================================================================
