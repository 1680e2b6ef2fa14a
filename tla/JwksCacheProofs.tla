---------------------------- MODULE JwksCacheProofs ---------------------------
(* For every set of keys and requests, every cache_ttl and every lag: the    *)
(* key cache never refuses a published key and forgets a retired one in time. *)
EXTENDS JwksCache, TLAPS

(* Ages of published keys are 0. *)
PublishedIsRecent == \A k \in published : gone[k] = 0

(* An answer on its way is no older than its lag. *)
AnswerIsRecent ==
    \A r \in Requests : req[r].pc = "fetched" => \A k \in req[r].keys : gone[k] <= req[r].lag

(* What the entry holds was published within a lag of its being stored. *)
EntryIsRecent ==
    cache.age < TTL => \A k \in cache.keys : gone[k] <= cache.age + MaxLag

(* A key published all along is published before the answer and in it. *)
AnswerHasKey ==
    \A r \in steady :
        /\ req[r].pc = "fetching" => req[r].kid \in published
        /\ req[r].pc = "fetched" /\ req[r].kid \in Usable => req[r].kid \in req[r].keys

Recent == PublishedIsRecent /\ AnswerIsRecent /\ EntryIsRecent

IInv == TypeOK /\ Recent /\ AnswerHasKey /\ NoSpuriousReject /\ RetiredKeysExpire

USE TimeAssumption, UsableAssumption

LEMMA InitIInv == Init => IInv
<1> SUFFICES ASSUME Init PROVE IInv
  OBVIOUS
<1>1. TypeOK
  BY DEF Init, TypeOK, Horizon
<1>2. \A r \in Requests : req[r].pc = "idle"
  BY DEF Init
<1> QED
  BY <1>1, <1>2 DEF Init, IInv, Recent, PublishedIsRecent, AnswerIsRecent, EntryIsRecent, AnswerHasKey,
     NoSpuriousReject, RetiredKeysExpire

LEMMA Zeros == {} \in SUBSET Usable /\ 0 \in 0 .. MaxLag /\ 0 \in 0 .. Horizon
  BY DEF Horizon

(* The updates of a request's state keep its type. *)
LEMMA EndType ==
    ASSUME NEW q \in Request, NEW pc \in PCs
    PROVE  [q EXCEPT !.pc = pc, !.keys = {}, !.lag = 0] \in Request
<1>1. \A ks \in SUBSET Usable, l \in 0 .. MaxLag :
        [q EXCEPT !.pc = pc, !.keys = ks, !.lag = l] \in Request
  BY DEF Request, PCs
<1> QED
  BY <1>1, Zeros

LEMMA AcceptType ==
    ASSUME NEW q \in Request, NEW a \in 0 .. Horizon
    PROVE  [q EXCEPT !.pc = "accepted", !.keys = {}, !.lag = 0, !.age = a] \in Request
<1>1. \A ks \in SUBSET Usable, l \in 0 .. MaxLag :
        [q EXCEPT !.pc = "accepted", !.keys = ks, !.lag = l, !.age = a] \in Request
  BY DEF Request, PCs
<1> QED
  BY <1>1, Zeros

LEMMA BeginType ==
    ASSUME NEW q \in Request, NEW k \in Kids
    PROVE  [q EXCEPT !.pc = "fetching", !.kid = k, !.keys = {}, !.lag = 0, !.age = 0] \in Request
<1>1. \A ks \in SUBSET Usable, l \in 0 .. MaxLag, a \in 0 .. Horizon :
        [q EXCEPT !.pc = "fetching", !.kid = k, !.keys = ks, !.lag = l, !.age = a] \in Request
  BY DEF Request, PCs
<1> QED
  BY <1>1, Zeros

(* What the new state q of request r must satisfy, after the step. *)
Fits(r, q) ==
    /\ q.pc = "fetched" => \A k \in q.keys : gone[k] <= q.lag
    /\ r \in steady' =>
         /\ q.pc = "fetching" => q.kid \in published
         /\ q.pc = "fetched" /\ q.kid \in Usable => q.kid \in q.keys
         /\ q.pc = "unknown" => q.kid \notin Usable
    /\ q.pc = "accepted" => q.age < TTL + MaxLag

(* The steps of one request leave the other requests and the issuer alone. *)
LEMMA LocalStep ==
    ASSUME IInv, NEW r \in Requests, NEW q \in Request, Goto(r, q), Fits(r, q),
           published' = published, gone' = gone,
           steady' \subseteq Requests, steady' \ {r} = steady \ {r},
           cache' = cache \/ (req[r].pc = "fetched" /\ cache' = [keys |-> req[r].keys, age |-> 0])
    PROVE  IInv'
<1> USE DEF IInv, Recent
<1>0. req' = [req EXCEPT ![r] = q] /\ req \in [Requests -> Request]
  BY DEF Goto, TypeOK
<1>1. \A s \in Requests : req'[s] = IF s = r THEN q ELSE req[s]
  BY <1>0
<1>2. req[r] \in Request /\ \A k \in Kids : gone[k] \in 0 .. Horizon
  BY <1>0 DEF TypeOK
<1>3. TypeOK'
  BY <1>0, <1>2 DEF TypeOK, Request
<1>4. PublishedIsRecent' /\ AnswerIsRecent' /\ AnswerHasKey'
  BY <1>1 DEF Fits, PublishedIsRecent, AnswerIsRecent, AnswerHasKey
<1>5. EntryIsRecent'
  <2>1. CASE cache' = cache
    BY <2>1 DEF EntryIsRecent
  <2>2. CASE req[r].pc = "fetched" /\ cache' = [keys |-> req[r].keys, age |-> 0]
    <3>1. \A k \in req[r].keys : gone[k] <= req[r].lag /\ k \in Kids
      BY <2>2, <1>2 DEF AnswerIsRecent, Request
    <3>2. req[r].lag \in 0 .. MaxLag
      BY <1>2 DEF Request
    <3> QED
      BY <2>2, <3>1, <3>2, <1>2 DEF EntryIsRecent, Horizon
  <2> QED
    BY <2>1, <2>2
<1>6. NoSpuriousReject' /\ RetiredKeysExpire'
  BY <1>1 DEF Fits, NoSpuriousReject, RetiredKeysExpire
<1> QED
  BY <1>3, <1>4, <1>5, <1>6

LEMMA NextIInv == IInv /\ [Next]_vars => IInv'
<1> SUFFICES ASSUME IInv, [Next]_vars PROVE IInv'
  OBVIOUS
<1>t. /\ req \in [Requests -> Request]
      /\ gone \in [Kids -> 0 .. Horizon]
      /\ cache \in [keys : SUBSET Usable, age : 0 .. TTL]
      /\ published \subseteq Kids
      /\ steady \subseteq Requests
  BY DEF IInv, TypeOK
<1>h. Horizon = TTL + MaxLag /\ Horizon \in Nat
  BY DEF Horizon
<1>1. ASSUME NEW r \in Requests, get_key(r) PROVE IInv'
  <2>0. req[r] \in Request /\ published' = published /\ gone' = gone /\ cache' = cache
    BY <1>1, <1>t DEF get_key
  <2>1. PICK k \in Kids :
          LET q == [req[r] EXCEPT !.pc = "fetching", !.kid = k, !.keys = {}, !.lag = 0, !.age = 0]
          IN  /\ IF lookup(k) THEN Accept(r, q) ELSE Goto(r, q)
              /\ steady' = IF k \in published THEN steady \cup {r} ELSE steady \ {r}
    BY <1>1 DEF get_key
  <2> DEFINE q == [req[r] EXCEPT !.pc = "fetching", !.kid = k, !.keys = {}, !.lag = 0, !.age = 0]
             a == [q EXCEPT !.pc = "accepted", !.keys = {}, !.lag = 0, !.age = gone[q.kid]]
  <2>2. q \in Request /\ q.pc = "fetching" /\ q.kid = k
    <3>1. q \in Request
      BY <2>0, BeginType
    <3>2. q.pc = "fetching" /\ q.kid = k
      BY <2>0 DEF Request
    <3> QED
      BY <3>1, <3>2
  <2>3. steady' \subseteq Requests /\ steady' \ {r} = steady \ {r} /\ (r \in steady' => k \in published)
    BY <2>1, <1>t
  <2>4. CASE lookup(k)
    <3>1. Goto(r, a)
      BY <2>1, <2>4 DEF Accept
    <3>2. gone[k] \in 0 .. Horizon /\ gone[k] < TTL + MaxLag
      BY <2>4, <1>t, <1>h DEF lookup, IInv, Recent, EntryIsRecent
    <3> HIDE DEF q
    <3>3. a \in Request /\ a.pc = "accepted" /\ a.age = gone[k]
      <4>1. a \in Request
        BY <2>2, <3>2, AcceptType
      <4>2. a.pc = "accepted" /\ a.age = gone[k]
        BY <2>2 DEF Request
      <4> QED
        BY <4>1, <4>2
    <3> HIDE DEF a
    <3>4. Fits(r, a)
      BY <3>2, <3>3 DEF Fits
    <3> QED
      BY <3>1, <3>3, <3>4, <2>0, <2>3, LocalStep
  <2>5. CASE ~lookup(k)
    <3>1. Goto(r, q)
      BY <2>1, <2>5
    <3> HIDE DEF q
    <3>2. Fits(r, q)
      BY <2>2, <2>3 DEF Fits
    <3> QED
      BY <3>1, <3>2, <2>0, <2>2, <2>3, LocalStep
  <2> QED
    BY <2>4, <2>5
<1>2. ASSUME NEW r \in Requests, fetch_keys(r) PROVE IInv'
  <2> DEFINE q == [req[r] EXCEPT !.pc = "fetched", !.keys = published \cap Usable]
  <2>0. /\ req[r] \in Request /\ req[r].pc = "fetching" /\ Goto(r, q)
        /\ published' = published /\ gone' = gone /\ cache' = cache /\ steady' = steady
    BY <1>2, <1>t DEF fetch_keys
  <2>1. /\ q \in Request /\ q.pc = "fetched" /\ q.keys = published \cap Usable
        /\ q.kid = req[r].kid /\ q.lag \in 0 .. MaxLag
    BY <2>0 DEF Request, Horizon, PCs
  <2> HIDE DEF q
  <2>2. \A k \in q.keys : gone[k] <= q.lag
    BY <2>1 DEF IInv, Recent, PublishedIsRecent
  <2>3. r \in steady /\ q.kid \in Usable => q.kid \in q.keys
    BY <2>0, <2>1 DEF IInv, AnswerHasKey
  <2>4. Fits(r, q)
    BY <2>0, <2>1, <2>2, <2>3 DEF Fits
  <2> QED
    BY <2>0, <2>1, <2>4, <1>t, LocalStep
<1>3. ASSUME NEW r \in Requests, NEW pc \in {"idle", "unavailable"}, Reject(r, pc),
             UNCHANGED <<published, gone, cache, steady>>
      PROVE  IInv'
  <2> DEFINE q == [req[r] EXCEPT !.pc = pc, !.keys = {}, !.lag = 0]
  <2>0. /\ req[r] \in Request /\ Goto(r, q)
        /\ published' = published /\ gone' = gone /\ cache' = cache /\ steady' = steady
    BY <1>3, <1>t DEF Reject
  <2>1. q \in Request /\ q.pc = pc
    <3>1. q \in Request
      BY <2>0, EndType DEF PCs
    <3>2. q.pc = pc
      BY <2>0 DEF Request
    <3> QED
      BY <3>1, <3>2
  <2> HIDE DEF q
  <2>2. Fits(r, q)
    BY <2>1 DEF Fits
  <2> QED
    BY <2>0, <2>1, <2>2, <1>t, LocalStep
<1>4. ASSUME NEW r \in Requests, store_keys(r) PROVE IInv'
  <2>0. /\ req[r].pc = "fetched" /\ cache' = [keys |-> req[r].keys, age |-> 0]
        /\ published' = published /\ gone' = gone /\ steady' = steady /\ req[r] \in Request
    BY <1>4, <1>t DEF store_keys
  <2>1. CASE req[r].kid \in req[r].keys
    <3> DEFINE a == [req[r] EXCEPT !.pc = "accepted", !.keys = {}, !.lag = 0,
                                   !.age = gone[req[r].kid]]
    <3>1. Goto(r, a)
      BY <1>4, <2>1 DEF store_keys, Accept
    <3>2. gone[req[r].kid] <= req[r].lag /\ req[r].lag \in 0 .. MaxLag
          /\ gone[req[r].kid] \in 0 .. Horizon
      BY <2>0, <2>1, <1>t DEF IInv, Recent, AnswerIsRecent, Request
    <3>3. a \in Request /\ a.pc = "accepted" /\ a.age = gone[req[r].kid]
      <4>1. a \in Request
        BY <2>0, <3>2, AcceptType
      <4>2. a.pc = "accepted" /\ a.age = gone[req[r].kid]
        BY <2>0 DEF Request
      <4> QED
        BY <4>1, <4>2
    <3> HIDE DEF a
    <3>4. Fits(r, a)
      BY <3>2, <3>3, <1>h DEF Fits
    <3> QED
      BY <3>1, <3>3, <3>4, <2>0, <1>t, LocalStep
  <2>2. CASE req[r].kid \notin req[r].keys
    <3> DEFINE q == [req[r] EXCEPT !.pc = "unknown", !.keys = {}, !.lag = 0]
    <3>1. Goto(r, q)
      BY <1>4, <2>2 DEF store_keys, Reject
    <3>2. q \in Request /\ q.pc = "unknown" /\ q.kid = req[r].kid
      <4>1. q \in Request
        BY <2>0, EndType DEF PCs
      <4>2. q.pc = "unknown" /\ q.kid = req[r].kid
        BY <2>0 DEF Request
      <4> QED
        BY <4>1, <4>2
    <3> HIDE DEF q
    <3>3. r \in steady => q.kid \notin Usable
      BY <2>0, <2>2, <3>2 DEF IInv, AnswerHasKey
    <3>4. Fits(r, q)
      BY <3>2, <3>3, <2>0 DEF Fits
    <3> QED
      BY <3>1, <3>2, <3>4, <2>0, <1>t, LocalStep
  <2> QED
    BY <2>1, <2>2
<1>5. ASSUME NEW k \in Kids, publish(k) PROVE IInv'
  <2>1. /\ UNCHANGED <<cache, req, steady>> /\ published' = published \cup {k}
        /\ gone' = [gone EXCEPT ![k] = 0]
    BY <1>5 DEF publish
  <2>2. \A j \in Kids : gone'[j] = (IF j = k THEN 0 ELSE gone[j]) /\ gone[j] \in 0 .. Horizon
    BY <2>1, <1>t
  <2>3. TypeOK'
    BY <2>1, <1>t, <1>h DEF TypeOK
  <2>4. PublishedIsRecent'
    BY <2>1, <2>2, <1>t DEF IInv, Recent, PublishedIsRecent
  <2>5. AnswerIsRecent'
    BY <2>1, <2>2, <1>t DEF IInv, Recent, AnswerIsRecent, Request
  <2>6. EntryIsRecent'
    BY <2>1, <2>2, <1>t DEF IInv, Recent, EntryIsRecent
  <2> QED
    BY <2>1, <2>3, <2>4, <2>5, <2>6 DEF IInv, Recent, AnswerHasKey, NoSpuriousReject, RetiredKeysExpire
<1>6. ASSUME NEW k \in Kids, retire(k) PROVE IInv'
  <2>1. /\ UNCHANGED <<gone, cache, req>> /\ published' = published \ {k}
        /\ steady' = {r \in steady : req[r].kid # k}
    BY <1>6 DEF retire
  <2> QED
    BY <2>1 DEF IInv, Recent, TypeOK, PublishedIsRecent, AnswerIsRecent, EntryIsRecent,
       AnswerHasKey, NoSpuriousReject, RetiredKeysExpire
<1>7. ASSUME Tick PROVE IInv'
  <2>1. /\ \A k \in Kids : gone'[k] = IF k \in published \/ gone[k] = Horizon THEN gone[k] ELSE gone[k] + 1
        /\ \A k \in Kids : gone[k] \in 0 .. Horizon /\ gone'[k] \in 0 .. Horizon /\ gone'[k] <= gone[k] + 1
        /\ gone' \in [Kids -> 0 .. Horizon]
    BY <1>7, <1>t, <1>h DEF Tick
  <2>2. /\ cache'.keys = cache.keys /\ cache' \in [keys : SUBSET Usable, age : 0 .. TTL]
        /\ cache'.age = IF cache.age = TTL THEN TTL ELSE cache.age + 1
        /\ cache.age \in 0 .. TTL /\ cache.keys \subseteq Usable
    BY <1>7, <1>t DEF Tick
  <2>3. \A r \in Requests :
          /\ req'[r] \in Request /\ req'[r].pc = req[r].pc /\ req'[r].kid = req[r].kid
          /\ req'[r].keys = req[r].keys /\ req'[r].age = req[r].age
          /\ req[r].pc = "fetched" => req'[r].lag = req[r].lag + 1
          /\ req[r].lag \in Nat /\ req[r].keys \subseteq Usable
    <3> TAKE r \in Requests
    <3>1. req'[r] = (IF req[r].pc = "fetched" THEN [req[r] EXCEPT !.lag = @ + 1] ELSE req[r])
          /\ req[r] \in Request /\ (req[r].pc = "fetched" => req[r].lag < MaxLag)
      BY <1>7, <1>t DEF Tick
    <3> QED
      BY <3>1 DEF Request
  <2>4. published' = published /\ steady' = steady /\ req' \in [Requests -> Request]
    BY <1>7, <2>3 DEF Tick
  <2>5. TypeOK'
    BY <2>1, <2>2, <2>4, <1>t DEF TypeOK, Horizon
  <2>6. PublishedIsRecent'
    BY <2>1, <2>4, <1>t DEF IInv, Recent, PublishedIsRecent
  <2>7. AnswerIsRecent'
    BY <2>1, <2>3 DEF IInv, Recent, AnswerIsRecent
  <2>8. EntryIsRecent'
    BY <2>1, <2>2 DEF IInv, Recent, EntryIsRecent
  <2>9. AnswerHasKey' /\ NoSpuriousReject' /\ RetiredKeysExpire'
    BY <2>3, <2>4, <1>t DEF IInv, AnswerHasKey, NoSpuriousReject, RetiredKeysExpire
  <2> QED
    BY <2>5, <2>6, <2>7, <2>8, <2>9 DEF IInv, Recent
<1>8. CASE UNCHANGED vars
  BY <1>8 DEF vars, IInv, Recent, TypeOK, PublishedIsRecent, AnswerIsRecent, EntryIsRecent, AnswerHasKey,
     NoSpuriousReject, RetiredKeysExpire
<1> QED
  BY <1>1, <1>2, <1>3, <1>4, <1>5, <1>6, <1>7, <1>8 DEF Next, fetch_fails, drop

(* The locals of every request, the entry and the ages have their types. *)
THEOREM TypeCorrect == Spec => []TypeOK
<1>1. IInv => TypeOK
  BY DEF IInv
<1> QED
  BY <1>1, InitIInv, NextIInv, PTL DEF Spec

(* get_key never answers UnknownSigningKey for a usable key published during *)
(* the whole request, for any number of concurrent refreshes.                *)
THEOREM PublishedKeysAreFound == Spec => []NoSpuriousReject
<1>1. IInv => NoSpuriousReject
  BY DEF IInv
<1> QED
  BY <1>1, InitIInv, NextIInv, PTL DEF Spec

(* get_key never accepts a key retired cache_ttl plus the lag of an answer    *)
(* ago, whichever request stored its answer last.                            *)
THEOREM RetiredKeysAreRefused == Spec => []RetiredKeysExpire
<1>1. IInv => RetiredKeysExpire
  BY DEF IInv
<1> QED
  BY <1>1, InitIInv, NextIInv, PTL DEF Spec
===============================================================================
