----------------------------- MODULE ParsingProofs -----------------------------
(* What is read from a request is what it says: ranges are served exactly, for *)
(* every header, every length and every width of the integers, and a block    *)
(* list yields its entries in order, for every document.                       *)
EXTENDS ByteRange, BlockListXml, SequenceTheorems, WellFoundedInduction, TLAPS

(* A header that parses gives two u64, and one that does not is a header from *)
(* which nothing is asked but the whole blob.                                 *)
LEMMA ParsedRange ==
    ASSUME NEW h \in RangeHeader \cup {None}
    PROVE  /\ parse_range(h) \in Span64 \cup {None}
           /\ parse_range(h) = None <=>
                \/ h = None
                \/ h.form # "span"
                \/ h.first > MaxU64
                \/ h.last # None /\ h.last > MaxU64
           /\ parse_range(h) # None =>
                /\ h \in RangeHeader
                /\ parse_range(h).start = h.first
                /\ parse_range(h).end = IF h.last = None THEN MaxU64 ELSE h.last
  <1>1. CASE h = None
    BY <1>1, NoRangeAssumption DEF parse_range
  <1>2. CASE h # None
    <2>1. h \in RangeHeader
      BY <1>2
    <2>2. /\ h.first \in Nat
          /\ h.last \in Nat \cup {None}
      BY <2>1 DEF RangeHeader
    <2> DEFINE fits == h.form = "span" /\ h.first \in U64 /\ h.last \in U64 \cup {None}
               span == [start |-> h.first, end |-> IF h.last = None THEN MaxU64 ELSE h.last]
    <2>3. parse_range(h) = IF fits THEN span ELSE None
      BY <1>2 DEF parse_range
    <2>4. fits => span \in Span64
      BY MaxU64Assumption, <2>2 DEF U64, Span64
    <2>5. fits <=> ~(h.form # "span" \/ h.first > MaxU64 \/ (h.last # None /\ h.last > MaxU64))
      BY <2>2, MaxU64Assumption, NoRangeAssumption DEF U64
    <2>6. fits => span # None
      BY <2>4, NoRangeAssumption
    <2> HIDE DEF fits
    <2> QED
      BY <1>2, <2>1, <2>3, <2>4, <2>5, <2>6
  <1> QED
    BY <1>1, <1>2

(* A range within a blob is a pair of its positions, and there is none exactly *)
(* when no position is in the range.                                           *)
LEMMA ResolvedRange ==
    ASSUME NEW r \in Span64, NEW total \in U64
    PROVE  LET s == resolve_range(r, total) IN
           /\ s \in Span64 \cup {None}
           /\ s = None <=> ~\E p \in 0 .. total - 1 : r.start <= p /\ p <= r.end
           /\ s # None => /\ s.start = r.start
                          /\ s.start <= s.end
                          /\ s.end < total
                          /\ \A p \in 0 .. total - 1 :
                                (s.start <= p /\ p <= s.end) <=> (r.start <= p /\ p <= r.end)
  <1> DEFINE last == saturating_sub(total, 1)
             end == IF r.end < last THEN r.end ELSE last
             none == r.start > end \/ r.start >= total
             span == [start |-> r.start, end |-> end]
  <1>1. /\ r.start \in U64 /\ r.end \in U64
        /\ MaxU64 \in Nat /\ total \in Nat /\ total <= MaxU64
    BY MaxU64Assumption DEF Span64, U64
  <1>2. /\ last \in Nat
        /\ total > 0 => last = total - 1
        /\ total = 0 => last = 0
    BY <1>1 DEF saturating_sub
  <1>3. end \in Nat /\ end <= last /\ end <= r.end /\ (end = last \/ end = r.end)
    BY <1>1, <1>2 DEF U64
  <1>4. resolve_range(r, total) = IF none THEN None ELSE span
    BY DEF resolve_range
  <1>5. ~none => span \in Span64 /\ span # None
    BY <1>1, <1>2, <1>3, NoRangeAssumption DEF Span64, U64
  <1> HIDE DEF last, end
  <1>6. none => ~\E p \in 0 .. total - 1 : r.start <= p /\ p <= r.end
    BY <1>1, <1>2, <1>3 DEF U64
  <1>7. ~none => r.start \in 0 .. total - 1 /\ r.start <= r.end
    BY <1>1, <1>2, <1>3 DEF U64
  <1>8. ~none => r.start <= end /\ end < total
    BY <1>1, <1>2, <1>3 DEF U64
  <1>9. ~none => \A p \in 0 .. total - 1 : p <= end <=> p <= r.end
    BY <1>1, <1>2, <1>3 DEF U64
  <1>10. ~none => \E p \in 0 .. total - 1 : r.start <= p /\ p <= r.end
    BY <1>1, <1>7 DEF U64
  <1>11. CASE none
    BY <1>4, <1>6, <1>11
  <1>12. CASE ~none
    <2>1. resolve_range(r, total) = span /\ span \in Span64 /\ span # None
      BY <1>4, <1>5, <1>12
    <2>2. span.start = r.start /\ span.end = end
      OBVIOUS
    <2> HIDE DEF none, span
    <2> QED
      BY <1>8, <1>9, <1>10, <1>12, <2>1, <2>2
  <1> QED
    BY <1>11, <1>12

(* The length of a range within a blob does not wrap. *)
LEMMA LengthDoesNotWrap ==
    ASSUME NEW s \in Span64, NEW total \in U64, s.start <= s.end, s.end < total
    PROVE  /\ span_length(s) = s.end - s.start + 1
           /\ s.start + span_length(s) <= total
  <1>1. /\ s.start \in Nat /\ s.end \in Nat /\ total \in Nat
        /\ total <= MaxU64 /\ MaxU64 \in Nat
    BY MaxU64Assumption DEF Span64, U64
  <1>2. Wrap(s.end - s.start) = s.end - s.start
    BY <1>1 DEF Wrap
  <1>3. Wrap(s.end - s.start + 1) = s.end - s.start + 1
    BY <1>1 DEF Wrap
  <1> QED
    BY <1>1, <1>2, <1>3 DEF span_length

(* What blob_get and get_blob answer to any range header, for a blob of any   *)
(* length: the bytes sent are those asked for, Content-Length is their number *)
(* (no subtraction underflows, no addition wraps), and InvalidRange is the    *)
(* answer exactly when the range has no byte of the blob.                     *)
THEOREM AnswersAreExact ==
    ASSUME NEW h \in RangeHeader \cup {None}, NEW total \in U64
    PROVE  Exact(range_answer(h, total), h, total)
  <1> DEFINE r == parse_range(h)
             s == resolve_range(r, total)
             a == range_answer(h, total)
  <1>1. total \in Nat /\ total <= MaxU64 /\ MaxU64 \in Nat
    BY MaxU64Assumption DEF U64
  <1>2. CASE r = None
    <2>1. a = [status |-> 200, from |-> 0, take |-> total, length |-> total]
      BY <1>2 DEF range_answer
    <2>2. Asked(h, total) = 0 .. total - 1
      BY <1>2, ParsedRange DEF Asked
    <2>3. Sent(a, total) = 0 .. total - 1
      BY <1>1, <2>1 DEF Sent
    <2> QED
      BY <1>1, <1>2, <2>1, <2>2, <2>3 DEF Exact
  <1>3. CASE r # None
    <2>1. /\ r \in Span64
          /\ h \in RangeHeader
          /\ h # None /\ h.form = "span" /\ ~(h.first > MaxU64) /\ ~(h.last # None /\ h.last > MaxU64)
          /\ r.start = h.first
          /\ r.end = IF h.last = None THEN MaxU64 ELSE h.last
      BY <1>3, ParsedRange
    <2>2. h.first \in Nat /\ h.last \in Nat \cup {None}
      BY <2>1 DEF RangeHeader
    <2>3. Asked(h, total) = {p \in 0 .. total - 1 : r.start <= p /\ p <= r.end}
      BY <1>1, <2>1, <2>2 DEF Asked
    <2>4. CASE s = None
      <3>1. a = [status |-> 416, from |-> 0, take |-> 0, length |-> 0]
        BY <1>3, <2>4 DEF range_answer
      <3>2. Asked(h, total) = {}
        BY <2>1, <2>3, <2>4, ResolvedRange
      <3> QED
        BY <1>3, <3>1, <3>2 DEF Exact
    <2>5. CASE s # None
      <3>1. /\ s \in Span64
            /\ s.start = r.start /\ s.start <= s.end /\ s.end < total
            /\ \A p \in 0 .. total - 1 : (s.start <= p /\ p <= s.end) <=> (r.start <= p /\ p <= r.end)
            /\ \E p \in 0 .. total - 1 : r.start <= p /\ p <= r.end
        BY <2>1, <2>5, ResolvedRange
      <3>2. /\ span_length(s) = s.end - s.start + 1
            /\ s.start + span_length(s) <= total
        BY <3>1, LengthDoesNotWrap
      <3>3. a = [status |-> 206, from |-> s.start, take |-> span_length(s), length |-> span_length(s)]
        BY <1>3, <2>5 DEF range_answer
      <3>4. s.start \in Nat /\ s.end \in Nat
        BY <3>1 DEF Span64, U64
      <3>5. Sent(a, total) = {p \in 0 .. total - 1 : s.start <= p /\ p <= s.end}
        BY <1>1, <3>2, <3>3, <3>4 DEF Sent
      <3>6. Sent(a, total) = Asked(h, total)
        BY <2>3, <3>1, <3>5
      <3>7. Asked(h, total) # {}
        BY <2>3, <3>1
      <3> QED
        BY <1>3, <3>2, <3>3, <3>6, <3>7 DEF Exact
    <2> QED
      BY <2>4, <2>5
  <1> QED
    BY <1>2, <1>3

-------------------------------------------------------------------------------
(* Induction and recursion over 0 .. N.  The induction is over a set of        *)
(* numbers, which the provers can instantiate, rather than over a predicate.   *)

LEMMA NatSetInduction ==
    ASSUME NEW N \in Nat, NEW S, 0 \in S, \A n \in 0 .. N - 1 : n \in S => n + 1 \in S
    PROVE  0 .. N \subseteq S
  <1> DEFINE T == {n \in 0 .. N : n \notin S}
             R == OpToRel(<, Nat)
  <1>1. SUFFICES ASSUME T # {} PROVE FALSE
    OBVIOUS
  <1>2. T \subseteq Nat
    OBVIOUS
  <1>3. IsWellFoundedOn(R, Nat)
    BY NatLessThanWellFounded
  <1>4. \A y, x \in Nat : y < x => <<y, x>> \in R
    BY DEF OpToRel
  <1> HIDE DEF R
  <1>5. PICK x \in T : \A y \in T : ~(<<y, x>> \in R)
    <2> HIDE DEF T
    <2> QED
      BY <1>1, <1>2, <1>3, WFMin
  <1>6. x \in Nat /\ x # 0 /\ x \in 0 .. N
    OBVIOUS
  <1>7. x - 1 \in 0 .. N - 1 /\ x - 1 + 1 = x /\ x - 1 \in Nat /\ x - 1 < x
    BY <1>6
  <1>8. x - 1 \in T
    BY <1>7
  <1> HIDE DEF T
  <1> QED
    BY <1>4, <1>5, <1>6, <1>7, <1>8

(* What a recursion over 0 .. N can mean, and that it means something. *)
Solutions(N, S, s0, F) ==
    {f \in [0 .. N -> S] : f[0] = s0 /\ \A n \in 1 .. N : f[n] = F[<<n, f[n - 1]>>]}

LEMMA RecursionHasSolution ==
    ASSUME NEW N \in Nat, NEW S, NEW s0 \in S, NEW F,
           \A n \in 1 .. N : \A s \in S : F[<<n, s>>] \in S
    PROVE  Solutions(N, S, s0, F) # {}
  <1> DEFINE Solves(f, m) == f[0] = s0 /\ \A n \in 1 .. m : f[n] = F[<<n, f[n - 1]>>]
             Sol == {m \in 0 .. N : \E f \in [0 .. m -> S] : Solves(f, m)}
  <1>1. 0 \in Sol
    <2> DEFINE f == [n \in 0 .. 0 |-> s0]
    <2>1. f \in [0 .. 0 -> S] /\ Solves(f, 0)
      OBVIOUS
    <2> HIDE DEF f, Solves
    <2> QED
      BY <2>1
  <1>2. ASSUME NEW m \in 0 .. N - 1, m \in Sol
        PROVE  m + 1 \in Sol
    <2>1. PICK f \in [0 .. m -> S] : Solves(f, m)
      BY <1>2
    <2>2. m \in Nat /\ m + 1 \in 1 .. N
      OBVIOUS
    <2>3. f[m] \in S /\ F[<<m + 1, f[m]>>] \in S
      BY <2>2
    <2> DEFINE g == [n \in 0 .. m + 1 |-> IF n = m + 1 THEN F[<<m + 1, f[m]>>] ELSE f[n]]
    <2>4. g \in [0 .. m + 1 -> S]
      BY <2>2, <2>3
    <2>5. g[0] = s0
      BY <2>1, <2>2
    <2>6. \A n \in 1 .. m + 1 : g[n] = F[<<n, g[n - 1]>>]
      <3> SUFFICES ASSUME NEW n \in 1 .. m + 1 PROVE g[n] = F[<<n, g[n - 1]>>]
        OBVIOUS
      <3>1. g[n - 1] = f[n - 1]
        BY <2>2
      <3>2. CASE n = m + 1
        BY <3>1, <3>2, <2>2
      <3>3. CASE n # m + 1
        <4>1. n \in 1 .. m /\ g[n] = f[n]
          BY <3>3, <2>2
        <4> QED
          BY <4>1, <3>1, <2>1
      <3> QED
        BY <3>2, <3>3
    <2>7. Solves(g, m + 1)
      BY <2>5, <2>6
    <2> HIDE DEF g, Solves
    <2> QED
      BY <2>2, <2>4, <2>7
  <1> HIDE DEF Sol
  <1>3. 0 .. N \subseteq Sol
    BY <1>1, <1>2, NatSetInduction
  <1>4. N \in Sol
    BY <1>3
  <1> QED
    BY <1>4 DEF Sol, Solutions

-------------------------------------------------------------------------------
(* The parser's loop and the reader's events satisfy their recursions. *)

EventTypes == {"start", "text", "end", "comment", "empty", "badtext", "error"}
Event(V) == [type : EventTypes, val : V]
LoopState(V) ==
    [kind : BlockKinds \cup {NoKind}, blocks : Seq([id : V, kind : BlockKinds]), failed : BOOLEAN]

(* One turn of the loop keeps the types of its state. *)
LEMMA ReadEventType ==
    ASSUME NEW V, NEW s \in LoopState(V), NEW e \in Event(V)
    PROVE  read_event(s, e) \in LoopState(V)
  <1>1. /\ e.type \in EventTypes /\ e.val \in V
        /\ s.kind \in BlockKinds \cup {NoKind} /\ s.blocks \in Seq([id : V, kind : BlockKinds])
        /\ s.failed \in BOOLEAN
    BY DEF Event, LoopState
  <1>2. \A k \in BlockKinds \cup {NoKind} : [s EXCEPT !.kind = k] \in LoopState(V)
    BY DEF LoopState
  <1>3. [s EXCEPT !.failed = TRUE] \in LoopState(V)
    BY DEF LoopState
  <1>4. s.kind # NoKind =>
          [s EXCEPT !.kind = NoKind, !.blocks = Append(@, [id |-> e.val, kind |-> s.kind])] \in LoopState(V)
    <2> DEFINE x == [id |-> e.val, kind |-> s.kind]
               B == [id : V, kind : BlockKinds]
    <2>1. SUFFICES ASSUME s.kind # NoKind
                   PROVE  [s EXCEPT !.kind = NoKind, !.blocks = Append(@, x)] \in LoopState(V)
      OBVIOUS
    <2>2. x \in B
      BY <1>1, <2>1
    <2> HIDE DEF x
    <2>3. Append(s.blocks, x) \in Seq(B)
      BY <1>1, <2>2
    <2> QED
      BY <2>3, <1>1 DEF LoopState
  <1> QED
    BY <1>1, <1>2, <1>3, <1>4 DEF read_event

LEMMA LoopRecursion ==
    ASSUME NEW V, NEW events \in Seq(Event(V))
    PROVE  LET after == LoopAfter(events) IN
           /\ after \in [0 .. Len(events) -> LoopState(V)]
           /\ after[0] = [kind |-> NoKind, blocks |-> <<>>, failed |-> FALSE]
           /\ \A n \in 1 .. Len(events) :
                after[n] = IF after[n - 1].failed THEN after[n - 1]
                           ELSE read_event(after[n - 1], events[n])
  <1> DEFINE N == Len(events)
             S == LoopState(V)
             s0 == [kind |-> NoKind, blocks |-> <<>>, failed |-> FALSE]
             F == [p \in (1 .. N) \X S |->
                     IF p[2].failed THEN p[2] ELSE read_event(p[2], events[p[1]])]
             Rec(f) == f = [n \in 0 .. N |->
                              IF n = 0 THEN s0
                              ELSE LET s == f[n - 1] IN IF s.failed THEN s ELSE read_event(s, events[n])]
             after == LoopAfter(events)
  <1>1. N \in Nat /\ \A n \in 1 .. N : events[n] \in Event(V)
    OBVIOUS
  <1>2. s0 \in S
    BY DEF LoopState
  <1>3. ASSUME NEW n \in 1 .. N, NEW s \in S
        PROVE  F[<<n, s>>] \in S
    <2>1. events[n] \in Event(V)
      BY <1>1
    <2> QED
      BY <2>1, ReadEventType
  <1>4. \A n \in 1 .. N : \A s \in S : F[<<n, s>>] = IF s.failed THEN s ELSE read_event(s, events[n])
    OBVIOUS
  <1> HIDE DEF F, S, s0
  <1>5. PICK f \in [0 .. N -> S] : f[0] = s0 /\ \A n \in 1 .. N : f[n] = F[<<n, f[n - 1]>>]
    <2>1. N \in Nat
      BY <1>1
    <2> HIDE DEF N
    <2>2. Solutions(N, S, s0, F) # {}
      BY <2>1, <1>2, <1>3, RecursionHasSolution
    <2> QED
      BY <2>2 DEF Solutions
  <1>6. Rec(f)
    <2> HIDE DEF N
    <2>1. ASSUME NEW n \in 0 .. N, n # 0
          PROVE  f[n] = IF f[n - 1].failed THEN f[n - 1] ELSE read_event(f[n - 1], events[n])
      <3>1. n \in 1 .. N /\ n - 1 \in 0 .. N
        BY <2>1, <1>1
      <3>2. f[n - 1] \in S
        BY <3>1
      <3> QED
        BY <1>4, <1>5, <3>1, <3>2
    <2> DEFINE h == [n \in 0 .. N |->
                       IF n = 0 THEN s0
                       ELSE LET s == f[n - 1] IN IF s.failed THEN s ELSE read_event(s, events[n])]
    <2>2. \A n \in 0 .. N : h[n] = f[n]
      BY <1>5, <2>1
    <2>3. DOMAIN h = 0 .. N /\ h = [n \in 0 .. N |-> h[n]] /\ f = [n \in 0 .. N |-> f[n]]
      OBVIOUS
    <2>4. f = h
      <3> HIDE DEF h
      <3> QED
        BY <2>2, <2>3
    <2> QED
      BY <2>4
  <1>7. after = CHOOSE g : Rec(g)
    BY DEF LoopAfter, s0
  <1>8. Rec(after)
    <2> HIDE DEF Rec, after
    <2> QED
      BY <1>6, <1>7
  <1> HIDE DEF after
  <1>9. /\ DOMAIN after = 0 .. N
        /\ after[0] = s0
        /\ \A n \in 1 .. N : after[n] = IF after[n - 1].failed THEN after[n - 1]
                                         ELSE read_event(after[n - 1], events[n])
    <2> HIDE DEF N
    <2> QED
      BY <1>1, <1>8
  <1> DEFINE Typed == {n \in 0 .. N : after[n] \in S}
  <1>10. 0 .. N \subseteq Typed
    <2>1. 0 \in Typed
      BY <1>1, <1>2, <1>9
    <2>2. ASSUME NEW n \in 0 .. N - 1, n \in Typed
          PROVE  n + 1 \in Typed
      <3>1. n + 1 \in 1 .. N /\ n + 1 - 1 = n
        BY <1>1
      <3>2. after[n + 1] = IF after[n].failed THEN after[n] ELSE read_event(after[n], events[n + 1])
        BY <3>1, <1>9
      <3>3. events[n + 1] \in Event(V)
        BY <3>1, <1>1
      <3>4. after[n + 1] \in S
        BY <2>2, <3>2, <3>3, ReadEventType DEF S
      <3> QED
        BY <3>1, <3>4
    <2> HIDE DEF Typed, N
    <2> QED
      BY <1>1, <2>1, <2>2, NatSetInduction
  <1>11. after \in [0 .. N -> S]
    BY <1>9, <1>10 DEF LoopAfter, Rec
  <1> QED
    BY <1>9, <1>11 DEF S, s0, after

Child(V) == [tag : V, shape : Shapes, id : V]

LEMMA ChildEventsType ==
    ASSUME NEW V, NEW c \in Child(V)
    PROVE  ChildEvents(c) \in Seq(Event(V))
  <1> DEFINE start == [type |-> "start", val |-> c.tag]
             end == [type |-> "end", val |-> c.tag]
             empty == [type |-> "empty", val |-> c.tag]
             Id(t) == [type |-> t, val |-> c.id]
  <1>1. c.tag \in V /\ c.id \in V /\ c.shape \in Shapes
    BY DEF Child
  <1>2. {start, end, empty} \subseteq Event(V)
    BY <1>1 DEF Event, EventTypes
  <1>3. {Id("text"), Id("comment"), Id("badtext"), Id("error")} \subseteq Event(V)
    BY <1>1 DEF Event, EventTypes
  <1>4. ChildEvents(c) \in {<<start, Id("text"), end>>, <<start, Id("comment"), Id("text"), end>>,
                            <<start, end>>, <<empty>>, <<start, Id("badtext"), end>>, <<start, Id("error")>>}
    BY <1>1 DEF ChildEvents, Shapes
  <1> DEFINE E == Event(V)
             text == Id("text")
             comment == Id("comment")
             badtext == Id("badtext")
             error == Id("error")
  <1>5. {start, end, empty, text, comment, badtext, error} \subseteq E
    BY <1>2, <1>3
  <1>6. ChildEvents(c) \in {<<start, text, end>>, <<start, comment, text, end>>,
                            <<start, end>>, <<empty>>, <<start, badtext, end>>, <<start, error>>}
    BY <1>4
  <1> HIDE DEF E, start, end, empty, Id, text, comment, badtext, error
  <1>7. /\ <<start, text, end>> \in Seq(E)
        /\ <<start, comment, text, end>> \in Seq(E)
        /\ <<start, end>> \in Seq(E)
        /\ <<empty>> \in Seq(E)
        /\ <<start, badtext, end>> \in Seq(E)
        /\ <<start, error>> \in Seq(E)
    BY <1>5
  <1> QED
    BY <1>6, <1>7 DEF E

LEMMA EventsRecursion ==
    ASSUME NEW V, "BlockList" \in V, NEW doc \in Seq(Child(V))
    PROVE  LET upto == EventsUpto(doc) IN
           /\ upto \in [0 .. Len(doc) -> Seq(Event(V))]
           /\ upto[0] = <<[type |-> "start", val |-> "BlockList"]>>
           /\ \A n \in 1 .. Len(doc) : upto[n] = upto[n - 1] \o ChildEvents(doc[n])
  <1> DEFINE N == Len(doc)
             S == Seq(Event(V))
             s0 == <<[type |-> "start", val |-> "BlockList"]>>
             F == [p \in (1 .. N) \X S |-> p[2] \o ChildEvents(doc[p[1]])]
             Rec(f) == f = [n \in 0 .. N |-> IF n = 0 THEN s0 ELSE f[n - 1] \o ChildEvents(doc[n])]
             upto == EventsUpto(doc)
  <1>1. N \in Nat
    OBVIOUS
  <1>2. s0 \in S
    <2>1. [type |-> "start", val |-> "BlockList"] \in Event(V)
      BY DEF Event, EventTypes
    <2> QED
      BY <2>1
  <1>3. \A n \in 1 .. N : ChildEvents(doc[n]) \in S
    BY ChildEventsType
  <1>4. \A n \in 1 .. N : \A s \in S : s \o ChildEvents(doc[n]) \in S
    BY <1>3
  <1>5. \A n \in 1 .. N : \A s \in S : F[<<n, s>>] = s \o ChildEvents(doc[n])
    OBVIOUS
  <1>6. \A n \in 1 .. N : \A s \in S : F[<<n, s>>] \in S
    BY <1>4, <1>5
  <1> HIDE DEF F, S, s0
  <1>7. PICK f \in [0 .. N -> S] : f[0] = s0 /\ \A n \in 1 .. N : f[n] = F[<<n, f[n - 1]>>]
    <2> HIDE DEF N
    <2>1. Solutions(N, S, s0, F) # {}
      BY <1>1, <1>2, <1>6, RecursionHasSolution
    <2> QED
      BY <2>1 DEF Solutions
  <1>8. Rec(f)
    <2> HIDE DEF N
    <2>1. ASSUME NEW n \in 0 .. N, n # 0
          PROVE  f[n] = f[n - 1] \o ChildEvents(doc[n])
      <3>1. n \in 1 .. N /\ n - 1 \in 0 .. N
        BY <2>1, <1>1
      <3>2. f[n - 1] \in S
        BY <3>1
      <3> QED
        BY <1>5, <1>7, <3>1, <3>2
    <2> DEFINE h == [n \in 0 .. N |-> IF n = 0 THEN s0 ELSE f[n - 1] \o ChildEvents(doc[n])]
    <2>2. \A n \in 0 .. N : h[n] = f[n]
      BY <1>7, <2>1
    <2>3. DOMAIN h = 0 .. N /\ h = [n \in 0 .. N |-> h[n]] /\ f = [n \in 0 .. N |-> f[n]]
      OBVIOUS
    <2>4. f = h
      <3> HIDE DEF h
      <3> QED
        BY <2>2, <2>3
    <2> QED
      BY <2>4
  <1>9. upto = CHOOSE g : Rec(g)
    BY DEF EventsUpto, s0
  <1>10. Rec(upto)
    <2> HIDE DEF Rec, upto
    <2> QED
      BY <1>8, <1>9
  <1> HIDE DEF upto
  <1>11. /\ DOMAIN upto = 0 .. N
         /\ upto[0] = s0
         /\ \A n \in 1 .. N : upto[n] = upto[n - 1] \o ChildEvents(doc[n])
    <2> HIDE DEF N
    <2> QED
      BY <1>1, <1>10
  <1> DEFINE Typed == {n \in 0 .. N : upto[n] \in S}
  <1>12. 0 .. N \subseteq Typed
    <2>1. 0 \in Typed
      BY <1>1, <1>2, <1>11
    <2>2. ASSUME NEW n \in 0 .. N - 1, n \in Typed
          PROVE  n + 1 \in Typed
      <3>1. n + 1 \in 1 .. N /\ n + 1 - 1 = n
        BY <1>1
      <3>2. upto[n + 1] = upto[n] \o ChildEvents(doc[n + 1])
        BY <3>1, <1>11
      <3>3. upto[n + 1] \in S
        BY <2>2, <3>1, <3>2, <1>4
      <3> QED
        BY <3>1, <3>3
    <2> HIDE DEF Typed, N
    <2> QED
      BY <1>1, <2>1, <2>2, NatSetInduction
  <1>13. upto = [n \in 0 .. N |-> upto[n]]
    BY <1>10
  <1>14. upto \in [0 .. N -> S]
    BY <1>12, <1>13
  <1> QED
    BY <1>11, <1>14 DEF S, s0, upto

(***************************************************************************)
(* Reading one child.                                                      *)
(***************************************************************************)
Spoils(c) == c.shape = "broken" \/ (c.shape = "entity" /\ c.tag \in BlockKinds)
Enters(c) == c.tag \in BlockKinds /\ c.shape \in {"text", "comment"}

LEMMA ReadChild ==
    ASSUME NEW V, NEW c \in Child(V), NEW events \in Seq(Event(V)), NEW p \in Nat,
           p + Len(ChildEvents(c)) <= Len(events),
           \A j \in 1 .. Len(ChildEvents(c)) : events[p + j] = ChildEvents(c)[j]
    PROVE  LET s == LoopAfter(events)[p]
               t == LoopAfter(events)[p + Len(ChildEvents(c))]
           IN  /\ t.failed <=> s.failed \/ Spoils(c)
               /\ ~t.failed =>
                    t.blocks = IF Enters(c) THEN Append(s.blocks, [id |-> c.id, kind |-> c.tag])
                               ELSE s.blocks
  <1> DEFINE after == LoopAfter(events)
             m == Len(ChildEvents(c))
             s == after[p]
             start == [type |-> "start", val |-> c.tag]
             text == [type |-> "text", val |-> c.id]
             end == [type |-> "end", val |-> c.tag]
             kind == IF c.tag \in BlockKinds THEN c.tag ELSE NoKind
             opened == [s EXCEPT !.kind = kind]
             block == [id |-> c.id, kind |-> c.tag]
             pushed == [opened EXCEPT !.kind = NoKind, !.blocks = Append(@, block)]
             spoilt == [opened EXCEPT !.failed = TRUE]
  <1>1. /\ after \in [0 .. Len(events) -> LoopState(V)]
        /\ \A n \in 1 .. Len(events) :
             after[n] = IF after[n - 1].failed THEN after[n - 1]
                        ELSE read_event(after[n - 1], events[n])
    BY LoopRecursion
  <1>2. m \in Nat /\ Len(events) \in Nat
    BY ChildEventsType
  <1> HIDE DEF after
  <1>3. \A j \in 1 .. m : after[p + j] = IF after[p + j - 1].failed THEN after[p + j - 1]
                                        ELSE read_event(after[p + j - 1], ChildEvents(c)[j])
    <2> TAKE j \in 1 .. m
    <2>1. p + j \in 1 .. Len(events)
      BY <1>2 DEF m
    <2> QED
      BY <1>1, <2>1 DEF m
  <1>4. s \in LoopState(V)
    <2>1. p \in 0 .. Len(events)
      BY <1>2 DEF m
    <2> QED
      BY <1>1, <2>1
  <1>5. /\ s.failed \in BOOLEAN /\ s.kind \in BlockKinds \cup {NoKind}
        /\ s = [kind |-> s.kind, blocks |-> s.blocks, failed |-> s.failed]
    BY <1>4 DEF LoopState
  <1>6. c.shape \in Shapes
    BY DEF Child
  <1> DEFINE t == after[p + m]
             Goal == /\ t.failed <=> s.failed \/ Spoils(c)
                     /\ ~t.failed => t.blocks = IF Enters(c) THEN Append(s.blocks, block) ELSE s.blocks
  <1> HIDE DEF s, block
  <1>7. /\ opened.kind = kind /\ opened.blocks = s.blocks /\ opened.failed = s.failed
        /\ pushed.kind = NoKind /\ pushed.blocks = Append(s.blocks, block) /\ pushed.failed = s.failed
        /\ spoilt.failed = TRUE
    BY <1>4 DEF LoopState
  <1>9. NoKind \notin BlockKinds /\ (kind # NoKind <=> c.tag \in BlockKinds)
    BY DEF NoKind, BlockKinds
  <1> DEFINE comment == [type |-> "comment", val |-> c.id]
             badtext == [type |-> "badtext", val |-> c.id]
             error == [type |-> "error", val |-> c.id]
             empty == [type |-> "empty", val |-> c.tag]
  <1>10. /\ read_event(s, start) = opened
         /\ read_event(s, empty) = s
         /\ read_event(opened, end) = opened
         /\ read_event(opened, comment) = opened
         /\ read_event(opened, error) = spoilt
         /\ read_event(pushed, end) = pushed
    BY DEF read_event
  <1>11. /\ kind # NoKind => read_event(opened, text) = pushed /\ read_event(opened, badtext) = spoilt
         /\ kind = NoKind => read_event(opened, text) = opened /\ read_event(opened, badtext) = opened
    <2>1. kind # NoKind => kind = c.tag
      OBVIOUS
    <2> HIDE DEF kind, opened
    <2> QED
      BY <1>7, <2>1 DEF read_event, block
  <1> DEFINE from == [j \in 0 .. m |-> after[p + j]]
  <1>13. /\ from[0] = s /\ from[m] = t
         /\ \A j \in 1 .. m : from[j] = IF from[j - 1].failed THEN from[j - 1]
                                       ELSE read_event(from[j - 1], ChildEvents(c)[j])
    <2>1. p + 0 = p /\ 0 \in 0 .. m /\ m \in 0 .. m
      BY <1>2
    <2>2. \A j \in 1 .. m : from[j] = after[p + j] /\ from[j - 1] = after[p + j - 1]
      BY <1>2
    <2>3. from[0] = s /\ from[m] = t
      BY <2>1 DEF s
    <2> HIDE DEF from, m
    <2> QED
      BY <1>3, <2>2, <2>3
  <1> HIDE DEF from, s, t, m, opened, pushed, spoilt, kind, start, text, end, comment, badtext, error, empty, block
  <1>14. ASSUME s.failed PROVE Goal
    <2>1. m \in 1 .. 4
      BY <1>6 DEF m, ChildEvents, Shapes
    <2>2. from[1] = s /\ (m >= 2 => from[2] = s) /\ (m >= 3 => from[3] = s) /\ (m >= 4 => from[4] = s)
      BY <1>13, <1>14, <2>1
    <2>3. t = s
      BY <1>13, <2>1, <2>2
    <2> QED
      BY <1>14, <2>3
  <1>15. ASSUME ~s.failed PROVE Goal
    <2>1. CASE c.shape = "text"
      <3>1. ChildEvents(c) = <<start, text, end>> /\ m = 3
        BY <2>1 DEF ChildEvents, m, start, text, end, comment, badtext, error, empty
      <3>2. from[1] = opened
        BY <1>13, <1>15, <3>1, <1>10, <1>11
      <3>3. from[2] = IF kind # NoKind THEN pushed ELSE opened
        BY <1>13, <1>15, <3>1, <3>2, <1>10, <1>11, <1>7
      <3>4. t = IF kind # NoKind THEN pushed ELSE opened
        BY <1>13, <1>15, <3>1, <3>3, <1>10, <1>11, <1>7
      <3> QED
        BY <2>1, <3>4, <1>7, <1>9, <1>15 DEF Spoils, Enters
    <2>2. CASE c.shape = "comment"
      <3>1. ChildEvents(c) = <<start, comment, text, end>> /\ m = 4
        BY <2>2 DEF ChildEvents, m, start, text, end, comment, badtext, error, empty
      <3>2. from[1] = opened
        BY <1>13, <1>15, <3>1, <1>10, <1>11
      <3>3. from[2] = opened
        BY <1>13, <1>15, <3>1, <3>2, <1>10, <1>11, <1>7
      <3>4. from[3] = IF kind # NoKind THEN pushed ELSE opened
        BY <1>13, <1>15, <3>1, <3>3, <1>10, <1>11, <1>7
      <3>5. t = IF kind # NoKind THEN pushed ELSE opened
        BY <1>13, <1>15, <3>1, <3>4, <1>10, <1>11, <1>7
      <3> QED
        BY <2>2, <3>5, <1>7, <1>9, <1>15 DEF Spoils, Enters
    <2>3. CASE c.shape = "empty"
      <3>1. ChildEvents(c) = <<start, end>> /\ m = 2
        BY <2>3 DEF ChildEvents, m, start, text, end, comment, badtext, error, empty
      <3>2. from[1] = opened
        BY <1>13, <1>15, <3>1, <1>10, <1>11
      <3>3. t = opened
        BY <1>13, <1>15, <3>1, <3>2, <1>10, <1>11, <1>7
      <3> QED
        BY <2>3, <3>3, <1>7, <1>15 DEF Spoils, Enters
    <2>4. CASE c.shape = "selfclosed"
      <3>1. ChildEvents(c) = <<empty>> /\ m = 1
        BY <2>4 DEF ChildEvents, m, start, text, end, comment, badtext, error, empty
      <3>2. t = s
        BY <1>13, <1>15, <3>1, <1>10, <1>11
      <3> QED
        BY <2>4, <3>2, <1>15 DEF Spoils, Enters
    <2>5. CASE c.shape = "entity"
      <3>1. ChildEvents(c) = <<start, badtext, end>> /\ m = 3
        BY <2>5 DEF ChildEvents, m, start, text, end, comment, badtext, error, empty
      <3>2. from[1] = opened
        BY <1>13, <1>15, <3>1, <1>10, <1>11
      <3>3. from[2] = IF kind # NoKind THEN spoilt ELSE opened
        BY <1>13, <1>15, <3>1, <3>2, <1>10, <1>11, <1>7
      <3>4. t = IF kind # NoKind THEN spoilt ELSE opened
        BY <1>13, <1>15, <3>1, <3>3, <1>10, <1>11, <1>7
      <3> QED
        BY <2>5, <3>4, <1>9, <1>7, <1>15 DEF Spoils, Enters
    <2>6. CASE c.shape = "broken"
      <3>1. ChildEvents(c) = <<start, error>> /\ m = 2
        BY <2>6 DEF ChildEvents, m, start, text, end, comment, badtext, error, empty
      <3>2. from[1] = opened
        BY <1>13, <1>15, <3>1, <1>10, <1>11
      <3>3. t = spoilt
        BY <1>13, <1>15, <3>1, <3>2, <1>10, <1>11, <1>7
      <3> QED
        BY <2>6, <3>3, <1>7, <1>15 DEF Spoils, Enters
    <2> QED
      BY <1>6, <2>1, <2>2, <2>3, <2>4, <2>5, <2>6 DEF Shapes
  <1> QED
    BY <1>5, <1>14, <1>15 DEF s, t, m, after, block

-------------------------------------------------------------------------------
(* Reading a document. *)

(* The events of the first children stay the first events. *)
LEMMA EventsPrefix ==
    ASSUME NEW V, "BlockList" \in V, NEW doc \in Seq(Child(V)), NEW n \in 0 .. Len(doc)
    PROVE  LET upto == EventsUpto(doc) IN
           /\ Len(upto[n]) \in Nat
           /\ Len(upto[n]) <= Len(upto[Len(doc)])
           /\ \A i \in 1 .. Len(upto[n]) : upto[Len(doc)][i] = upto[n][i]
  <1> DEFINE upto == EventsUpto(doc)
             N == Len(doc)
             E == Event(V)
             Keeps(m) == /\ Len(upto[n]) <= Len(upto[m])
                         /\ \A i \in 1 .. Len(upto[n]) : upto[m][i] = upto[n][i]
             Kept == {m \in 0 .. N : m >= n => Keeps(m)}
  <1>1. /\ upto \in [0 .. N -> Seq(E)]
        /\ \A m \in 1 .. N : upto[m] = upto[m - 1] \o ChildEvents(doc[m])
    BY EventsRecursion
  <1>2. \A m \in 1 .. N : ChildEvents(doc[m]) \in Seq(E)
    BY ChildEventsType
  <1>3. N \in Nat /\ n \in 0 .. N
    OBVIOUS
  <1> HIDE DEF upto, N, E
  <1>4. upto[n] \in Seq(E) /\ Len(upto[n]) \in Nat
    BY <1>1, <1>3
  <1>5. 0 \in Kept
    BY <1>3, <1>4
  <1>6. ASSUME NEW m \in 0 .. N - 1, m \in Kept
        PROVE  m + 1 \in Kept
    <2>1. m + 1 \in 1 .. N /\ m + 1 - 1 = m /\ m \in 0 .. N
      BY <1>3
    <2>2. upto[m + 1] = upto[m] \o ChildEvents(doc[m + 1])
      <3> DEFINE k == m + 1
      <3>1. k \in 1 .. N /\ k - 1 = m
        BY <2>1
      <3> HIDE DEF k
      <3>2. upto[k] = upto[k - 1] \o ChildEvents(doc[k])
        BY <1>1, <3>1
      <3> QED
        BY <3>1, <3>2 DEF k
    <2>3. upto[m] \in Seq(E) /\ ChildEvents(doc[m + 1]) \in Seq(E)
      BY <1>1, <1>2, <2>1
    <2>4. /\ Len(upto[m]) \in Nat /\ Len(upto[m + 1]) \in Nat
          /\ Len(upto[m]) <= Len(upto[m + 1])
          /\ \A i \in 1 .. Len(upto[m]) : upto[m + 1][i] = upto[m][i]
      <3> DEFINE a == upto[m]
                 b == ChildEvents(doc[m + 1])
      <3> HIDE DEF a, b
      <3>1. a \in Seq(E) /\ b \in Seq(E) /\ upto[m + 1] = a \o b
        BY <2>2, <2>3 DEF a, b
      <3>2. /\ Len(a) \in Nat /\ Len(b) \in Nat /\ Len(a \o b) = Len(a) + Len(b)
            /\ \A i \in 1 .. Len(a) : (a \o b)[i] = a[i]
        BY <3>1
      <3> QED
        BY <3>1, <3>2 DEF a
    <2>5. CASE m >= n
      <3>1. Keeps(m)
        BY <1>6, <2>5
      <3>2. Keeps(m + 1)
        BY <3>1, <2>4, <1>4
      <3> QED
        BY <2>1, <3>2
    <2>6. CASE m + 1 = n
      <3>1. Keeps(n)
        BY <1>4
      <3> HIDE DEF Keeps
      <3> QED
        BY <2>1, <2>6, <3>1
    <2>7. CASE m + 1 < n
      BY <2>1, <2>7, <1>3
    <2> QED
      BY <1>3, <2>5, <2>6, <2>7
  <1>7. 0 .. N \subseteq Kept
    <2>1. N \in Nat
      BY <1>3
    <2> HIDE DEF Kept
    <2> QED
      BY <2>1, <1>5, <1>6, NatSetInduction
  <1>8. Keeps(N)
    BY <1>3, <1>7
  <1> QED
    BY <1>4, <1>8 DEF upto, N

(* The entries among the first n children, and a list of them. *)
EntriesUpto(doc, n) == {m \in 1 .. n : Enters(doc[m])}

ListsUpto(blocks, doc, n) ==
    \E at \in [DOMAIN blocks -> EntriesUpto(doc, n)] :
        /\ \A m \in EntriesUpto(doc, n) : \E k \in DOMAIN blocks : at[k] = m
        /\ \A j, k \in DOMAIN blocks : j < k => at[j] < at[k]
        /\ \A k \in DOMAIN blocks : blocks[k] = [id |-> doc[at[k]].id, kind |-> doc[at[k]].tag]

LEMMA ListGrows ==
    ASSUME NEW doc, NEW n \in Nat, NEW B, NEW blocks \in Seq(B),
           Enters(doc[n + 1]) => [id |-> doc[n + 1].id, kind |-> doc[n + 1].tag] \in B,
           ListsUpto(blocks, doc, n)
    PROVE  ListsUpto(IF Enters(doc[n + 1])
                     THEN Append(blocks, [id |-> doc[n + 1].id, kind |-> doc[n + 1].tag])
                     ELSE blocks, doc, n + 1)
  <1> DEFINE Old == EntriesUpto(doc, n)
             New == EntriesUpto(doc, n + 1)
             D == DOMAIN blocks
  <1>1. PICK at \in [D -> Old] :
          /\ \A m \in Old : \E k \in D : at[k] = m
          /\ \A j, k \in D : j < k => at[j] < at[k]
          /\ \A k \in D : blocks[k] = [id |-> doc[at[k]].id, kind |-> doc[at[k]].tag]
    BY DEF ListsUpto
  <1>2. New = IF Enters(doc[n + 1]) THEN Old \cup {n + 1} ELSE Old
    BY DEF EntriesUpto
  <1>3. Old \subseteq 1 .. n
    BY DEF EntriesUpto
  <1>4. CASE ~Enters(doc[n + 1])
    <2>1. ListsUpto(blocks, doc, n + 1)
      BY <1>2, <1>4 DEF ListsUpto
    <2> QED
      BY <1>4, <2>1
  <1>5. CASE Enters(doc[n + 1])
    <2> DEFINE x == [id |-> doc[n + 1].id, kind |-> doc[n + 1].tag]
               l == Len(blocks)
               more == Append(blocks, x)
               at2 == [k \in 1 .. l + 1 |-> IF k = l + 1 THEN n + 1 ELSE at[k]]
    <2>1. l \in Nat /\ D = 1 .. l /\ x \in B
      BY <1>5
    <2> HIDE DEF x
    <2>2. /\ DOMAIN more = 1 .. l + 1
          /\ \A k \in 1 .. l : more[k] = blocks[k]
          /\ more[l + 1] = x
      BY <2>1
    <2> HIDE DEF l, D, more, Old, New
    <2>3. New = Old \cup {n + 1}
      BY <1>2, <1>5
    <2>4. \A k \in 1 .. l : at[k] \in Old /\ at[k] \in 1 .. n
      BY <1>3, <2>1
    <2>5. /\ \A k \in 1 .. l : at2[k] = at[k]
          /\ at2[l + 1] = n + 1
          /\ at2 \in [1 .. l + 1 -> New]
      BY <2>1, <2>3, <2>4
    <2> HIDE DEF at2
    <2>6. \A m \in New : \E k \in 1 .. l + 1 : at2[k] = m
      <3> TAKE m \in New
      <3>1. CASE m = n + 1
        BY <2>1, <2>5, <3>1
      <3>2. CASE m \in Old
        <4>1. PICK k \in 1 .. l : at[k] = m
          BY <1>1, <2>1, <3>2
        <4>2. k \in 1 .. l + 1
          BY <2>1
        <4> QED
          BY <4>1, <4>2, <2>5
      <3> QED
        BY <2>3, <3>1, <3>2
    <2>7. \A j, k \in 1 .. l + 1 : j < k => at2[j] < at2[k]
      <3> SUFFICES ASSUME NEW j \in 1 .. l + 1, NEW k \in 1 .. l + 1, j < k
                   PROVE  at2[j] < at2[k]
        OBVIOUS
      <3>1. j \in 1 .. l
        BY <2>1
      <3>2. CASE k = l + 1
        BY <2>4, <2>5, <3>1, <3>2
      <3>3. CASE k \in 1 .. l
        BY <1>1, <2>1, <2>5, <3>1, <3>3
      <3> QED
        BY <2>1, <3>2, <3>3
    <2>8. \A k \in 1 .. l + 1 : more[k] = [id |-> doc[at2[k]].id, kind |-> doc[at2[k]].tag]
      <3> TAKE k \in 1 .. l + 1
      <3>1. CASE k = l + 1
        BY <2>2, <2>5, <3>1 DEF x
      <3>2. CASE k \in 1 .. l
        BY <1>1, <2>1, <2>2, <2>5, <3>2
      <3> QED
        BY <2>1, <3>1, <3>2
    <2>9. ListsUpto(more, doc, n + 1)
      <3>1. \E a \in [1 .. l + 1 -> New] :
              /\ \A m \in New : \E k \in 1 .. l + 1 : a[k] = m
              /\ \A j, k \in 1 .. l + 1 : j < k => a[j] < a[k]
              /\ \A k \in 1 .. l + 1 : more[k] = [id |-> doc[a[k]].id, kind |-> doc[a[k]].tag]
        BY <2>5, <2>6, <2>7, <2>8
      <3>2. \E a \in [DOMAIN more -> New] :
              /\ \A m \in New : \E k \in DOMAIN more : a[k] = m
              /\ \A j, k \in DOMAIN more : j < k => a[j] < a[k]
              /\ \A k \in DOMAIN more : more[k] = [id |-> doc[a[k]].id, kind |-> doc[a[k]].tag]
        <4> DEFINE K == 1 .. l + 1
                   P(M) == \E a \in [M -> New] :
                             /\ \A m \in New : \E k \in M : a[k] = m
                             /\ \A j, k \in M : j < k => a[j] < a[k]
                             /\ \A k \in M : more[k] = [id |-> doc[a[k]].id, kind |-> doc[a[k]].tag]
        <4>1. P(K) /\ DOMAIN more = K
          BY <3>1, <2>2, Zenon
        <4> HIDE DEF K, P
        <4>2. P(DOMAIN more)
          BY <4>1
        <4> QED
          BY <4>2, Zenon DEF P
      <3> QED
        BY <3>2, Zenon DEF ListsUpto, New
    <2> QED
      BY <1>5, <2>9 DEF more, x
  <1> QED
    BY <1>4, <1>5

(* The loop has, after the events of the first n children, what they hold. *)
LEMMA ReadDocument ==
    ASSUME NEW V, "BlockList" \in V, NEW doc \in Seq(Child(V))
    PROVE  LET events == Events(doc)
               read == LoopAfter(events)[Len(events)]
           IN  /\ read.failed <=> \E m \in 1 .. Len(doc) : Spoils(doc[m])
               /\ ~read.failed => ListsUpto(read.blocks, doc, Len(doc))
               /\ read.blocks \in Seq([id : V, kind : BlockKinds])
  <1> DEFINE events == Events(doc)
             upto == EventsUpto(doc)
             N == Len(doc)
             E == Event(V)
             L(n) == Len(upto[n])
             end == [type |-> "end", val |-> "BlockList"]
             start == [type |-> "start", val |-> "BlockList"]
             after == LoopAfter(events)
             Failed(n) == \E m \in 1 .. n : Spoils(doc[m])
             Holds(s, n) == /\ s.failed <=> Failed(n)
                            /\ ~s.failed => ListsUpto(s.blocks, doc, n)
             Read == {n \in 0 .. N : Holds(after[L(n)], n)}
  <1>1. N \in Nat /\ \A n \in 1 .. N : doc[n] \in Child(V)
    OBVIOUS
  <1>2. /\ upto \in [0 .. N -> Seq(E)]
        /\ upto[0] = <<start>>
        /\ \A n \in 1 .. N : upto[n] = upto[n - 1] \o ChildEvents(doc[n])
    BY EventsRecursion
  <1>3. start \in E /\ end \in E
    BY DEF Event, EventTypes
  <1>4. \A n \in 0 .. N : /\ L(n) \in Nat /\ L(n) <= L(N)
                          /\ \A i \in 1 .. L(n) : upto[N][i] = upto[n][i]
    BY EventsPrefix
  <1>5. events = Append(upto[N], end)
    BY DEF Events
  <1> HIDE DEF events, upto, N, E, start, end
  <1>6. upto[N] \in Seq(E) /\ N \in 0 .. N /\ 0 \in 0 .. N
    BY <1>1, <1>2
  <1>7. /\ events \in Seq(E) /\ Len(events) = L(N) + 1 /\ L(N) \in Nat
        /\ \A i \in 1 .. L(N) : events[i] = upto[N][i]
        /\ events[L(N) + 1] = end
    BY <1>3, <1>5, <1>6
  <1>8. \A n \in 0 .. N : \A i \in 1 .. L(n) : i \in 1 .. L(N) /\ events[i] = upto[n][i]
    BY <1>4, <1>7
  <1>9. /\ after \in [0 .. Len(events) -> LoopState(V)]
        /\ after[0] = [kind |-> NoKind, blocks |-> <<>>, failed |-> FALSE]
        /\ \A n \in 1 .. Len(events) :
             after[n] = IF after[n - 1].failed THEN after[n - 1]
                        ELSE read_event(after[n - 1], events[n])
    BY <1>7, LoopRecursion DEF E
  <1> HIDE DEF after
  <1>10. 0 \in Read
    <2>1. L(0) = 1
      BY <1>2
    <2>2. events[1] = start
      <3>1. 1 \in 1 .. L(0)
        BY <2>1
      <3>2. events[1] = upto[0][1]
        BY <3>1, <1>6, <1>8
      <3> QED
        BY <3>2, <1>2
    <2>3. 1 \in 1 .. Len(events) /\ 1 - 1 = 0
      BY <1>4, <1>6, <1>7, <2>1
    <2>4. after[1] = IF after[0].failed THEN after[0] ELSE read_event(after[0], start)
      BY <1>9, <2>2, <2>3
    <2>5. after[1].failed = FALSE /\ after[1].blocks = <<>>
      <3> DEFINE s0 == [kind |-> NoKind, blocks |-> <<>>, failed |-> FALSE]
      <3>1. read_event(s0, start) = [s0 EXCEPT !.kind = NoKind]
        BY DEF read_event, start, BlockKinds
      <3>2. after[1] = [s0 EXCEPT !.kind = NoKind]
        BY <1>9, <2>4, <3>1
      <3> QED
        BY <3>2
    <2>6. EntriesUpto(doc, 0) = {} /\ ~Failed(0)
      BY DEF EntriesUpto
    <2>7. ListsUpto(<<>>, doc, 0)
      <3> DEFINE at == [k \in DOMAIN << >> |-> 0]
      <3>1. DOMAIN << >> = {}
        OBVIOUS
      <3>2. at \in [DOMAIN << >> -> EntriesUpto(doc, 0)]
        BY <3>1
      <3> QED
        BY <2>6, <3>1, <3>2 DEF ListsUpto
    <2> QED
      BY <1>6, <2>1, <2>5, <2>6, <2>7
  <1>11. ASSUME NEW n \in 0 .. N - 1, n \in Read
         PROVE  n + 1 \in Read
    <2> DEFINE k == n + 1
               c == doc[k]
               evs == ChildEvents(c)
               p == L(n)
    <2>1. k \in 1 .. N /\ k - 1 = n /\ n \in 0 .. N /\ k \in 0 .. N /\ n \in Nat
      BY <1>1
    <2>2. c \in Child(V)
      BY <1>1, <2>1
    <2>3. evs \in Seq(E)
      BY <2>2, ChildEventsType DEF E
    <2>4. upto[n] \in Seq(E) /\ p \in Nat
      BY <1>2, <1>4, <2>1
    <2> HIDE DEF k
    <2>5. upto[k] = upto[n] \o evs
      BY <1>2, <2>1
    <2> HIDE DEF c, evs
    <2>6. /\ L(k) = p + Len(evs) /\ Len(evs) \in Nat
          /\ \A j \in 1 .. Len(evs) : upto[k][p + j] = evs[j] /\ p + j \in 1 .. L(k)
      <3> DEFINE a == upto[n]
      <3>1. a \in Seq(E)
        BY <2>4
      <3>2. p = Len(a)
        OBVIOUS
      <3> HIDE DEF a, p
      <3>3. /\ Len(a) \in Nat /\ Len(evs) \in Nat /\ Len(a \o evs) = Len(a) + Len(evs)
            /\ \A j \in 1 .. Len(evs) : (a \o evs)[Len(a) + j] = evs[j]
        BY <2>3, <3>1
      <3>4. upto[k] = a \o evs
        BY <2>5 DEF a
      <3> QED
        BY <3>2, <3>3, <3>4
    <2>7. \A j \in 1 .. Len(evs) : events[p + j] = evs[j]
      BY <1>8, <2>1, <2>6
    <2>8. p + Len(evs) <= Len(events)
      BY <1>4, <1>7, <2>1, <2>4, <2>6
    <2> DEFINE s == after[p]
               t == after[L(k)]
               x == [id |-> c.id, kind |-> c.tag]
    <2>9. /\ t.failed <=> s.failed \/ Spoils(c)
          /\ ~t.failed => t.blocks = IF Enters(c) THEN Append(s.blocks, x) ELSE s.blocks
      <3> HIDE DEF p
      <3> QED
        BY <1>7, <2>2, <2>4, <2>6, <2>7, <2>8, ReadChild DEF evs, after, E
    <2>10. Holds(s, n)
      BY <1>11
    <2>11. Failed(k) <=> Failed(n) \/ Spoils(c)
      <3>1. 1 .. k = (1 .. n) \cup {k}
        BY <2>1
      <3> QED
        BY <3>1 DEF c
    <2>12. s \in LoopState(V)
      BY <1>9, <2>4, <2>8, <2>6, <1>7
    <2>13. ~t.failed => ListsUpto(t.blocks, doc, k)
      <3> SUFFICES ASSUME ~t.failed PROVE ListsUpto(t.blocks, doc, k)
        OBVIOUS
      <3> DEFINE B == [id : V, kind : BlockKinds]
      <3>1. Enters(c) => x \in B
        BY <2>2 DEF Child, Enters
      <3>3. s.blocks \in Seq(B)
        BY <2>12 DEF LoopState
      <3>4. ListsUpto(s.blocks, doc, n)
        BY <2>9, <2>10
      <3> HIDE DEF B, s, t
      <3>5. ListsUpto(IF Enters(c) THEN Append(s.blocks, x) ELSE s.blocks, doc, k)
        <4>1. Enters(doc[n + 1]) => [id |-> doc[n + 1].id, kind |-> doc[n + 1].tag] \in B
          BY <3>1 DEF c, k
        <4> DEFINE bl == s.blocks
        <4>2. bl \in Seq(B) /\ ListsUpto(bl, doc, n)
          BY <3>3, <3>4
        <4> HIDE DEF bl
        <4>3. ListsUpto(IF Enters(doc[n + 1])
                        THEN Append(bl, [id |-> doc[n + 1].id, kind |-> doc[n + 1].tag])
                        ELSE bl, doc, n + 1)
          BY <2>1, <4>1, <4>2, ListGrows
        <4> QED
          BY <4>3 DEF c, k, bl
      <3> QED
        BY <2>9, <3>5
    <2>14. Holds(t, k)
      BY <2>9, <2>10, <2>11, <2>13
    <2> HIDE DEF Holds
    <2> QED
      BY <2>1, <2>14 DEF k
  <1>12. N \in Read
    <2> HIDE DEF Read
    <2>1. 0 .. N \subseteq Read
      BY <1>1, <1>10, <1>11, NatSetInduction
    <2> QED
      BY <2>1, <1>6
  <1>13. Holds(after[L(N)], N)
    BY <1>12
  <1> DEFINE m == L(N)
             read == after[m + 1]
  <1>14. m + 1 \in 1 .. Len(events) /\ m + 1 - 1 = m /\ m \in 0 .. Len(events)
    BY <1>7
  <1>15. after[m] \in LoopState(V) /\ read \in LoopState(V)
    BY <1>9, <1>14
  <1>16. read = after[m]
    <2>1. read = IF after[m].failed THEN after[m] ELSE read_event(after[m], end)
      BY <1>7, <1>9, <1>14
    <2>2. read_event(after[m], end) = after[m]
      BY DEF read_event, end
    <2> QED
      BY <2>1, <2>2
  <1>17. read.blocks \in Seq([id : V, kind : BlockKinds])
    BY <1>15 DEF LoopState
  <1> QED
    BY <1>7, <1>13, <1>16, <1>17 DEF after, events, N

(* Whatever the document, parse_block_list_request yields its entries, each    *)
(* once and in document order, or refuses it for the reason it has.            *)
THEOREM DocumentIsReadInOrder ==
    ASSUME NEW doc, IsDocument(doc)
    PROVE  InOrder(parse_block_list_request(Events(doc)), doc)
  <1> DEFINE V == Words(doc) \cup {"BlockList"}
             events == Events(doc)
             read == LoopAfter(events)[Len(events)]
             parsed == parse_block_list_request(events)
             B == [id : V, kind : BlockKinds]
             N == Len(doc)
  <1>1. doc \in Seq(Child(V))
    <2> DEFINE C == [tag : Words(doc), shape : Shapes, id : Words(doc)]
    <2>1. doc \in Seq(C)
      BY DEF IsDocument
    <2>2. C \subseteq Child(V)
      BY DEF Child
    <2> HIDE DEF C, V
    <2> QED
      BY <2>1, <2>2, SeqMonotonic
  <1>2. N \in Nat /\ DOMAIN doc = 1 .. N
    BY <1>1
  <1>3. "BlockList" \in V
    OBVIOUS
  <1> HIDE DEF V
  <1>4. /\ read.failed <=> \E m \in 1 .. N : Spoils(doc[m])
        /\ ~read.failed => ListsUpto(read.blocks, doc, N)
        /\ read.blocks \in Seq(B)
    BY <1>1, <1>3, ReadDocument
  <1>5. parsed = [error |-> IF read.failed THEN "InvalidXmlDocument"
                            ELSE IF read.blocks = <<>> THEN "InvalidBlockList" ELSE "none",
                  blocks |-> read.blocks]
    BY DEF parse_block_list_request
  <1> HIDE DEF read, parsed, B, N
  <1>6. Unreadable(doc) <=> read.failed
    BY <1>2, <1>4 DEF Unreadable, Spoils
  <1>7. Entries(doc) = EntriesUpto(doc, N)
    BY <1>2 DEF Entries, EntriesUpto, Enters
  <1>8. CASE read.failed
    BY <1>5, <1>6, <1>8 DEF InOrder, parsed
  <1>9. CASE ~read.failed
    <2> DEFINE blocks == read.blocks
    <2>1. ListsUpto(blocks, doc, N)
      BY <1>4, <1>9
    <2>2. ListsEntries(blocks, doc)
      BY <2>1, <1>7 DEF ListsEntries, ListsUpto
    <2>3. blocks = <<>> <=> Entries(doc) = {}
      <3>1. PICK at \in [DOMAIN blocks -> Entries(doc)] :
              \A n \in Entries(doc) : \E k \in DOMAIN blocks : at[k] = n
        BY <2>2 DEF ListsEntries
      <3>2. blocks \in Seq(B)
        BY <1>4
      <3>3. blocks = <<>> <=> DOMAIN blocks = {}
        BY <3>2
      <3>4. DOMAIN blocks = {} <=> Entries(doc) = {}
        BY <3>1
      <3> QED
        BY <3>3, <3>4
    <2>4. parsed.blocks = blocks
      BY <1>5
    <2>5. parsed.error = IF Entries(doc) = {} THEN "InvalidBlockList" ELSE "none"
      BY <1>5, <1>9, <2>3
    <2> QED
      BY <1>6, <1>9, <2>2, <2>4, <2>5 DEF InOrder, parsed
  <1> QED
    BY <1>8, <1>9
================================================================================
