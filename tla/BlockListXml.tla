----------------------------- MODULE BlockListXml ------------------------------
(***************************************************************************)
(* parse_block_list_request of crates/blobstore-xml/src/block_list.rs: a    *)
(* loop over the reader's events that remembers the kind of the element it *)
(* is in.  The order of the entries is the order of the blob's bytes.       *)
(*                                                                         *)
(* A document is the sequence of the children of <BlockList>.  A child has *)
(* a tag, an id, and a shape: "text" <T>id</T>, "comment" <T><!-- -->id</T>, *)
(* "empty" <T></T>, "selfclosed" <T/>, "entity" <T>id</T> whose text cannot *)
(* be unescaped, and "broken", at which the reader gives up.                *)
(***************************************************************************)
EXTENDS Integers, Sequences

BlockKinds == {"Committed", "Uncommitted", "Latest"}
NoKind == "none"
Shapes == {"text", "comment", "empty", "selfclosed", "entity", "broken"}

Words(doc) == {doc[n].tag : n \in DOMAIN doc} \cup {doc[n].id : n \in DOMAIN doc}
IsDocument(doc) == doc \in Seq([tag : Words(doc), shape : Shapes, id : Words(doc)])

(* What quick_xml reports for a child. *)
ChildEvents(c) ==
    LET start == [type |-> "start", val |-> c.tag]
        text == [type |-> "text", val |-> c.id]
        end == [type |-> "end", val |-> c.tag]
    IN  CASE c.shape = "text" -> <<start, text, end>>
          [] c.shape = "comment" -> <<start, [type |-> "comment", val |-> c.id], text, end>>
          [] c.shape = "empty" -> <<start, end>>
          [] c.shape = "selfclosed" -> <<[type |-> "empty", val |-> c.tag]>>
          [] c.shape = "entity" -> <<start, [type |-> "badtext", val |-> c.id], end>>
          [] c.shape = "broken" -> <<start, [type |-> "error", val |-> c.id]>>

(* What it has reported after each number of children, and in all. *)
EventsUpto(doc) ==
    LET upto[n \in 0 .. Len(doc)] ==
          IF n = 0 THEN <<[type |-> "start", val |-> "BlockList"]>>
          ELSE upto[n - 1] \o ChildEvents(doc[n])
    IN  upto

Events(doc) == Append(EventsUpto(doc)[Len(doc)], [type |-> "end", val |-> "BlockList"])

(* MUTANT of read_event: an element of another name keeps the kind. *)
read_event_keeps_kind(s, e) ==
    CASE e.type = "start" -> [s EXCEPT !.kind = IF e.val \in BlockKinds THEN e.val ELSE @]
      [] e.type = "text" /\ s.kind # NoKind ->
           [s EXCEPT !.kind = NoKind, !.blocks = Append(@, [id |-> e.val, kind |-> s.kind])]
      [] e.type = "error" \/ (e.type = "badtext" /\ s.kind # NoKind) -> [s EXCEPT !.failed = TRUE]
      [] OTHER -> s

(* One turn of the loop: current_kind, and the blocks pushed so far. *)
read_event(s, e) ==
    CASE e.type = "start" -> [s EXCEPT !.kind = IF e.val \in BlockKinds THEN e.val ELSE NoKind]
      [] e.type = "text" /\ s.kind # NoKind ->
           [s EXCEPT !.kind = NoKind, !.blocks = Append(@, [id |-> e.val, kind |-> s.kind])]
      [] e.type = "error" \/ (e.type = "badtext" /\ s.kind # NoKind) -> [s EXCEPT !.failed = TRUE]
      [] OTHER -> s

(* The loop's state after each number of events; an error leaves the loop. *)
LoopAfter(events) ==
    LET after[n \in 0 .. Len(events)] ==
          IF n = 0 THEN [kind |-> NoKind, blocks |-> <<>>, failed |-> FALSE]
          ELSE LET s == after[n - 1] IN IF s.failed THEN s ELSE read_event(s, events[n])
    IN  after

(* The blocks in order, or why there are none. *)
parse_block_list_request(events) ==
    LET read == LoopAfter(events)[Len(events)]
    IN  [error |-> IF read.failed THEN "InvalidXmlDocument"
                   ELSE IF read.blocks = <<>> THEN "InvalidBlockList" ELSE "none",
         blocks |-> read.blocks]

-------------------------------------------------------------------------------
(* The entries a document has: its children that name a kind and hold an   *)
(* id.                                                                      *)
Entries(doc) ==
    {n \in DOMAIN doc : doc[n].tag \in BlockKinds /\ doc[n].shape \in {"text", "comment"}}

(* Whether the document is refused as no XML: not well-formed, or with an   *)
(* id that cannot be unescaped.                                             *)
Unreadable(doc) ==
    \E n \in DOMAIN doc : doc[n].shape = "broken" \/ (doc[n].shape = "entity" /\ doc[n].tag \in BlockKinds)

(* The blocks are the entries, each once and in document order: at is the   *)
(* child each block was read from.                                          *)
ListsEntries(blocks, doc) ==
    \E at \in [DOMAIN blocks -> Entries(doc)] :
        /\ \A n \in Entries(doc) : \E k \in DOMAIN blocks : at[k] = n
        /\ \A j, k \in DOMAIN blocks : j < k => at[j] < at[k]
        /\ \A k \in DOMAIN blocks : blocks[k] = [id |-> doc[at[k]].id, kind |-> doc[at[k]].tag]

(* A document that can be read yields its entries, all and in order, and is *)
(* refused when it has none.                                                *)
InOrder(parsed, doc) ==
    IF Unreadable(doc) THEN parsed.error = "InvalidXmlDocument"
    ELSE /\ parsed.error = (IF Entries(doc) = {} THEN "InvalidBlockList" ELSE "none")
         /\ ListsEntries(parsed.blocks, doc)
===============================================================================
