------------------------------- MODULE JwksCache ------------------------------
(***************************************************************************)
(* The cache of signing keys of blobstore-auth/src/bearer.rs: requests     *)
(* that look a key id up under the read lock, fetch the issuer's key set   *)
(* without any lock on a miss, and store what they got under the write     *)
(* lock, while the issuer rotates its keys.                                *)
(*                                                                         *)
(* Time is kept as ages that stop growing once they make no difference, so *)
(* that it may go on for ever.  A key is its id.                           *)
(***************************************************************************)
EXTENDS Integers, FiniteSets

CONSTANTS
    Kids,       \* the key ids the issuer uses
    Usable,     \* those of RSA keys whose components decode
    Requests,   \* requests with bearer tokens
    TTL,        \* cache_ttl, in ticks
    MaxLag      \* the ticks an answer may take from the issuer to the cache

ASSUME UsableAssumption == Usable \subseteq Kids

(* main.rs keeps cache_ttl at 60 seconds or more. *)
ASSUME TimeAssumption == TTL \in Nat \ {0} /\ MaxLag \in Nat

VARIABLES
    published,  \* the key ids in the issuer's JWKS
    gone,       \* per key id, the time since it was last published
    cache,      \* the CacheEntry: its keys and its age; empty and old at first
    req,        \* per request, where it is and what it holds
    steady      \* history: the requests whose key has been published since they began

vars == <<published, gone, cache, req, steady>>

(* An age from which on a key counts as gone for good. *)
Horizon == TTL + MaxLag

PCs == {"idle", "fetching", "fetched", "accepted", "unknown", "unavailable"}

Request == [
    pc : PCs,
    kid : Kids,
    keys : SUBSET Usable,     \* the answer of the issuer
    lag : 0 .. MaxLag,        \* the age of that answer
    age : 0 .. Horizon]       \* history: gone[kid] when the token was accepted

TypeOK ==
    /\ published \subseteq Kids
    /\ gone \in [Kids -> 0 .. Horizon]
    /\ cache \in [keys : SUBSET Usable, age : 0 .. TTL]
    /\ req \in [Requests -> Request]
    /\ steady \subseteq Requests

Idle == {"idle", "accepted", "unknown", "unavailable"}

(* None is an entry too old to be used. *)
Init ==
    /\ published \in SUBSET Kids
    /\ gone = [k \in Kids |-> IF k \in published THEN 0 ELSE Horizon]
    /\ cache = [keys |-> {}, age |-> TTL]
    /\ req \in [Requests -> {q \in Request : /\ q.pc = "idle"
                                            /\ q.keys = {}
                                            /\ q.lag = 0
                                            /\ q.age = 0}]
    /\ steady = {}

-------------------------------------------------------------------------------
Goto(r, q) == req' = [req EXCEPT ![r] = q]

Accept(r, q) ==
    Goto(r, [q EXCEPT !.pc = "accepted", !.keys = {}, !.lag = 0, !.age = gone[q.kid]])

Reject(r, pc) ==
    Goto(r, [req[r] EXCEPT !.pc = pc, !.keys = {}, !.lag = 0])

(* MUTANT of lookup: an entry is used whatever its age. *)
lookup_unexpired(kid) == kid \in cache.keys

(* fetched_at.elapsed() < cache_ttl and the key is there. *)
lookup(kid) == cache.age < TTL /\ kid \in cache.keys

(* A token arrives with a kid in its header: the block under the read lock. *)
get_key(r) ==
    /\ req[r].pc \in Idle
    /\ \E k \in Kids :
         LET q == [req[r] EXCEPT !.pc = "fetching", !.kid = k, !.keys = {}, !.lag = 0, !.age = 0]
         IN  /\ IF lookup(k) THEN Accept(r, q) ELSE Goto(r, q)
             /\ steady' = IF k \in published THEN steady \cup {r} ELSE steady \ {r}
    /\ UNCHANGED <<published, gone, cache>>

(* The issuer answers with what it publishes; keys that are not RSA, have   *)
(* no id or do not decode are left out.                                     *)
fetch_keys(r) ==
    /\ req[r].pc = "fetching"
    /\ Goto(r, [req[r] EXCEPT !.pc = "fetched", !.keys = published \cap Usable])
    /\ UNCHANGED <<published, gone, cache, steady>>

(* send() or json() fails, at once or after an answer was under way. *)
fetch_fails(r) ==
    /\ req[r].pc \in {"fetching", "fetched"}
    /\ Reject(r, "unavailable")
    /\ UNCHANGED <<published, gone, cache, steady>>

(* MUTANT of store_keys: what another request stored meanwhile is kept, and *)
(* the key is taken from it.                                               *)
store_keys_coalesced(r) ==
    /\ req[r].pc = "fetched"
    /\ cache' = IF cache.age < TTL THEN cache ELSE [keys |-> req[r].keys, age |-> 0]
    /\ IF req[r].kid \in cache'.keys
       THEN Accept(r, req[r])
       ELSE Reject(r, "unknown")
    /\ UNCHANGED <<published, gone, steady>>

(* The key is taken from this request's own answer, and the answer replaces *)
(* the entry, whichever request stored it and whenever, as if new.          *)
store_keys(r) ==
    /\ req[r].pc = "fetched"
    /\ cache' = [keys |-> req[r].keys, age |-> 0]
    /\ IF req[r].kid \in req[r].keys
       THEN Accept(r, req[r])
       ELSE Reject(r, "unknown")
    /\ UNCHANGED <<published, gone, steady>>

(* The client disconnects and the handler's future is dropped at an await. *)
drop(r) ==
    /\ req[r].pc \in {"fetching", "fetched"}
    /\ Reject(r, "idle")
    /\ UNCHANGED <<published, gone, cache, steady>>

-------------------------------------------------------------------------------
(* The issuer, and the clock. *)

publish(k) ==
    /\ k \notin published
    /\ published' = published \cup {k}
    /\ gone' = [gone EXCEPT ![k] = 0]
    /\ UNCHANGED <<cache, req, steady>>

retire(k) ==
    /\ k \in published
    /\ published' = published \ {k}
    /\ steady' = {r \in steady : req[r].kid # k}
    /\ UNCHANGED <<gone, cache, req>>

(* An answer is stored, lost or dropped before it is older than MaxLag. *)
Tick ==
    /\ \A r \in Requests : req[r].pc = "fetched" => req[r].lag < MaxLag
    /\ gone' = [k \in Kids |->
                  IF k \in published \/ gone[k] = Horizon THEN gone[k] ELSE gone[k] + 1]
    /\ cache' = [cache EXCEPT !.age = IF @ = TTL THEN TTL ELSE @ + 1]
    /\ req' = [r \in Requests |->
                 IF req[r].pc = "fetched" THEN [req[r] EXCEPT !.lag = @ + 1] ELSE req[r]]
    /\ UNCHANGED <<published, steady>>

Next ==
    \/ \E r \in Requests : \/ get_key(r)
                           \/ fetch_keys(r)
                           \/ fetch_fails(r)
                           \/ store_keys(r)
                           \/ drop(r)
    \/ \E k \in Kids : publish(k) \/ retire(k)
    \/ Tick

Spec == Init /\ [][Next]_vars

-------------------------------------------------------------------------------
(* A token signed with a key that is usable and published from the request's *)
(* beginning to its answer is never refused as UnknownSigningKey, however    *)
(* the refreshes of other requests interleave and whatever they store.       *)
NoSpuriousReject ==
    \A r \in Requests :
        req[r].pc = "unknown" /\ r \in steady => req[r].kid \notin Usable

(* A retired key is refused once cache_ttl and the lag of one answer have     *)
(* passed.  Overlapping refreshes may store an older answer over a newer one  *)
(* as if it were fresh, but never stretch the life of a key beyond this.      *)
RetiredKeysExpire ==
    \A r \in Requests :
        req[r].pc = "accepted" => req[r].age < TTL + MaxLag
===============================================================================
