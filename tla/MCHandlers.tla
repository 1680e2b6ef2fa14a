------------------------------ MODULE MCHandlers -------------------------------
(* One container with one blob; range headers around the ends of a blob and   *)
(* of u64; block lists with every shape of child; symmetric requests.        *)
EXTENDS Handlers, TLC

CONSTANTS c1, b1, i1, i2, r1, r2

MCHome == (b1 :> c1)

Span(first, last) == [form |-> "span", first |-> first, last |-> last]
Other == [form |-> "other", first |-> 0, last |-> None]

(* Every span around the ends of a blob of 3 bytes, with numbers that are no  *)
(* u64; and pairs in which x-ms-range, of use or not, hides Range.           *)
Headers == {None, Other} \cup {Span(m, n) : m \in 0 .. 4, n \in (0 .. 4) \cup {None}}

MCRanges ==
    {<<h, None>> : h \in Headers} \cup {<<h, Span(1, 1)>> : h \in {None, Other, Span(0, 0)}}

Child(tag, shape, id) == [tag |-> tag, shape |-> shape, id |-> id]

(* An entry, a child of each shape after it, and an entry last; and children *)
(* that are no entries.                                                      *)
MCDocuments ==
    {<<Child("Latest", "text", i2), c, Child("Uncommitted", "text", i1)>> :
        c \in {Child("Committed", shape, i1) : shape \in Shapes}
              \cup {Child("Other", shape, i1) : shape \in {"text", "entity"}}}
    \cup {<<Child("Committed", "empty", i1), Child("Other", "text", i2)>>}

MCOmissions == {{}, {"type"}}

(* Requests are interchangeable.                                             *)
Symm == Permutations(Requests)
===============================================================================
