------------------------------- MODULE ByteRange -------------------------------
(***************************************************************************)
(* Which bytes a Get Blob answers with: the choice between the two range   *)
(* headers (blob_get in blobs.rs), parse_range (helpers.rs), the clamping  *)
(* and the cut in fs_backend.rs, and the length the answer announces.      *)
(*                                                                         *)
(* A header value is a record: form "span" is one bytes=first-last, where  *)
(* last may be missing; form "other" is everything the parser has no use   *)
(* for (suffix ranges, lists of ranges, anything malformed).  Numbers are  *)
(* u64: MaxU64 is u64::MAX, and a greater number in a header is no number. *)
(***************************************************************************)
EXTENDS Integers

CONSTANTS MaxU64, None

U64 == 0 .. MaxU64
Span64 == [start : U64, end : U64]

ASSUME MaxU64Assumption == MaxU64 \in Nat
ASSUME NoRangeAssumption == None \notin Int /\ None \notin Span64

(* The values a range header can have. *)
RangeHeader ==
    [form : {"span"}, first : Nat, last : Nat \cup {None}]
    \cup [form : {"other"}, first : {0}, last : {None}]

(* u64 arithmetic of one operation, as a release build wraps it. *)
Wrap(n) == IF n < 0 THEN n + MaxU64 + 1 ELSE IF n > MaxU64 THEN n - MaxU64 - 1 ELSE n

saturating_sub(m, n) == IF m > n THEN m - n ELSE 0

(* x-ms-range, even if it cannot be parsed, hides Range. *)
range_header(xms, range) == IF xms # None THEN xms ELSE range

(* None: no header, or none that is understood. *)
parse_range(h) ==
    IF h # None /\ h.form = "span" /\ h.first \in U64 /\ h.last \in U64 \cup {None}
    THEN [start |-> h.first, end |-> IF h.last = None THEN MaxU64 ELSE h.last]
    ELSE None

(* MUTANT of resolve_range: an empty blob is not told apart. *)
resolve_range_empty(r, total) ==
    LET end == IF r.end < saturating_sub(total, 1) THEN r.end ELSE saturating_sub(total, 1)
    IN  IF r.start > end THEN None ELSE [start |-> r.start, end |-> end]

(* The range within a blob of total bytes; None is InvalidRange. *)
resolve_range(r, total) ==
    LET last == saturating_sub(total, 1)
        end == IF r.end < last THEN r.end ELSE last
    IN  IF r.start > end \/ r.start >= total THEN None ELSE [start |-> r.start, end |-> end]

span_length(r) == Wrap(Wrap(r.end - r.start) + 1)

(* The answer: where the file is read from, how much of it is taken, and   *)
(* the Content-Length announced.                                           *)
range_answer(h, total) ==
    LET r == parse_range(h)
        s == resolve_range(r, total)
    IN  IF r = None THEN [status |-> 200, from |-> 0, take |-> total, length |-> total]
        ELSE IF s = None THEN [status |-> 416, from |-> 0, take |-> 0, length |-> 0]
        ELSE [status |-> 206, from |-> s.start, take |-> span_length(s), length |-> span_length(s)]

-------------------------------------------------------------------------------
(* Positions, the reference. *)

(* The positions sent: the file is read from `from`, cut after `take` bytes. *)
Sent(a, total) == {p \in 0 .. total - 1 : a.from <= p /\ p < a.from + a.take}

(* The positions a header asks for. *)
Asked(h, total) ==
    IF h = None \/ h.form # "span" \/ h.first > MaxU64 \/ (h.last # None /\ h.last > MaxU64)
    THEN 0 .. total - 1
    ELSE {p \in 0 .. total - 1 : h.first <= p /\ (h.last # None => p <= h.last)}

(* The bytes sent are the bytes asked for, the length announced is theirs,  *)
(* and the answer is InvalidRange exactly when a range asks for nothing.     *)
Exact(a, h, total) ==
    /\ a.status # 416 => /\ Sent(a, total) = Asked(h, total)
                         /\ a.from + a.length <= total
                         /\ a.length = a.take
    /\ a.status = 416 <=> parse_range(h) # None /\ Asked(h, total) = {}
===============================================================================
