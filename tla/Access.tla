-------------------------------- MODULE Access --------------------------------
(***************************************************************************)
(* From the wire to the handler: account_resolve.rs works out the account, *)
(* auth.rs chooses one of the four schemes and verifies it, and only then  *)
(* the handler runs, while access levels change and time goes on.          *)
(*                                                                         *)
(* A request is what a client means (account, container, blob) together    *)
(* with how it says it: in the path, in the host name, or by relying on    *)
(* the default account.  A path is the sequence of its segments, each a    *)
(* name as a URI writes it: some names need percent-escapes, the handlers' *)
(* Path extractor undoes them and the two middlewares do not.  A signature *)
(* is the key and the text it was made from; two are equal exactly when    *)
(* both are, and a request or token changed since it was signed (not       *)
(* intact) gives a text that no server computes.                           *)
(***************************************************************************)
EXTENDS Integers, Sequences

CONSTANTS
    Accounts,     \* the accounts provisioned at start-up
    TwoKeys,      \* those with a key2
    Default,      \* server.default_account, or None
    None,
    Escape,       \* the segment a URI has for each name
    Clients,      \* the requests clients make
    Containers,   \* the <<account, container>> pairs whose level changes
    MaxTime       \* bound of the clock

ASSUME EscapeAssumption ==
    /\ Accounts \subseteq DOMAIN Escape
    /\ \A a \in Accounts : Escape[a] = a
    /\ \A m, n \in DOMAIN Escape : Escape[m] = Escape[n] => m = n

Levels == {"absent", "off", "blob", "container"}
Styles == {"path", "host", "default"}

ASSUME NoneAssumption ==
    /\ None \notin DOMAIN Escape \cup Clients
    /\ \A n \in DOMAIN Escape : Escape[n] # None
    /\ None \notin Seq(DOMAIN Escape \cup {Escape[n] : n \in DOMAIN Escape})

ASSUME ContainersAssumption == Containers \subseteq Accounts \X DOMAIN Escape

(* A blob is in a container, and a token is made for names. *)
ASSUME ClientsAssumption ==
    \A q \in Clients :
        /\ q.account \in Accounts
        /\ q.container \in DOMAIN Escape \cup {None}
        /\ q.blob \in (IF q.container = None THEN {None} ELSE DOMAIN Escape \cup {None})
        /\ q.style \in Styles
        /\ q.header.kind \in {"none", "shared", "bearer"}
        /\ q.sas # None => /\ q.sas.container \in DOMAIN Escape
                           /\ q.sas.blob \in DOMAIN Escape \cup {None}

VARIABLES
    acl,      \* the containers' public_access_level
    now,      \* the clock of check_validity_window
    rq,       \* the request, None before it arrives
    pc,       \* "wait", "resolve", "auth", "handler", "served", "denied"
    path,     \* the path of the URI, after account_resolve
    failed,   \* history: a query of the middlewares failed
    ever,     \* history: the credential has opened the target at some time
    always    \* history: it has covered what the client meant all the time

vars == <<acl, now, rq, pc, path, failed, ever, always>>

-------------------------------------------------------------------------------
(* The client's side. *)

Segments(n) == IF n = None THEN <<>> ELSE <<n>>

Meant(q) == <<q.account>> \o Segments(q.container) \o Segments(q.blob)

SentPath(q) ==
    LET written == [i \in 1 .. Len(Meant(q)) |-> Escape[Meant(q)[i]]]
    IN  IF q.style = "path" THEN written ELSE Tail(written)

(* Shared Key: the header's account name, then the path exactly as sent. *)
SharedKeySignature(h, q) ==
    [key |-> h.key, text |-> IF h.intact THEN <<h.name>> \o SentPath(q) ELSE None]

(* A service SAS is made for a container or for one blob of it, by name. *)
SasSignature(s) ==
    [key |-> s.key,
     text |-> IF ~s.intact THEN None
              ELSE <<s.key[1], s.container>> \o (IF s.sr = "c" THEN <<>> ELSE Segments(s.blob))]

-------------------------------------------------------------------------------
(* account_resolve.rs *)

(* MUTANT of resolve: the host is asked before the path. *)
resolve_host_first(q, first_segment_known, host_label_known) ==
    CASE q.host \in Accounts -> <<q.host>> \o SentPath(q)
      [] q.host \notin Accounts /\ first_segment_known -> SentPath(q)
      [] OTHER -> IF Default = None THEN SentPath(q) ELSE <<Default>> \o SentPath(q)

(* Path first, then the host's label, then the default account. *)
resolve(q, first_segment_known, host_label_known) ==
    IF first_segment_known THEN SentPath(q)
    ELSE IF host_label_known THEN <<q.host>> \o SentPath(q)
    ELSE IF Default # None THEN <<Default>> \o SentPath(q)
    ELSE SentPath(q)

(* account_keys answers whether there is such an account; a query that      *)
(* fails answers no.                                                        *)
account_keys(known) == {known, FALSE}

FirstKnown(q) == SentPath(q) # <<>> /\ SentPath(q)[1] \in Accounts
HostKnown(q) == q.host \in Accounts

(* The Path extractor: the names the handler is called with. *)
Extracted(p) == [i \in 1 .. Len(p) |-> CHOOSE n \in DOMAIN Escape : Escape[n] = p[i]]

-------------------------------------------------------------------------------
(* auth.rs *)

account == path[1]
container == IF Len(path) >= 2 THEN path[2] ELSE None
blob == IF Len(path) >= 3 THEN SubSeq(path, 3, Len(path)) ELSE None

required_permission(q) ==
    IF q.list THEN "l" ELSE IF q.method = "GET" THEN "r" ELSE IF q.method = "DELETE" THEN "d" ELSE "w"

(* key1, and key2 where there is one. *)
keys(a) == {<<a, 1>>} \cup (IF a \in TwoKeys THEN {<<a, 2>>} ELSE {})

(* MUTANT of canonical_path: the path of the URI after it was rewritten. *)
canonical_path_rewritten == path

(* SignedPath, or the URI's path when it was not rewritten. *)
canonical_path == SentPath(rq)

verify_shared_key ==
    /\ rq.header.name = account
    /\ \E k \in keys(account) :
         SharedKeySignature(rq.header, rq) = [key |-> k, text |-> <<account>> \o canonical_path]

(* A container SAS is signed over the container only. *)
signed_blob == IF rq.sas.sr = "c" \/ blob = None THEN <<>> ELSE blob

(* MUTANT of check_validity_window: only the expiry is looked at. *)
check_validity_window_end == rq.sas.se = None \/ now <= rq.sas.se

(* An expiry or a start that is empty does not limit. *)
check_validity_window ==
    /\ rq.sas.se = None \/ now <= rq.sas.se
    /\ rq.sas.st = None \/ rq.sas.st <= now

(* The names compared are the path's segments, as the URI writes them. *)
verify_sas ==
    /\ container # None
    /\ \E k \in keys(account) :
         SasSignature(rq.sas) = [key |-> k, text |-> <<account, container>> \o signed_blob]
    /\ check_validity_window
    /\ rq.sas.sr = "c" \/ (rq.sas.sr = "b" /\ blob # None)
    /\ required_permission(rq) \in rq.sas.sp

Level(a, c) == IF <<a, c>> \in Containers THEN acl[<<a, c>>] ELSE "absent"

(* What a level lets anyone do. *)
allows(level, q, isBlob) ==
    q.method = "GET" /\ level \in (IF isBlob THEN {"blob", "container"} ELSE {"container"})

(* One read of the container's row decides; the handler reads it again.    *)
verify_anonymous ==
    container # None /\ allows(Level(account, container), rq, blob # None)

(* The first credential that is there decides, valid or not. *)
authenticate ==
    CASE rq.header.kind = "shared" -> verify_shared_key
      [] rq.header.kind = "bearer" -> rq.header.valid
      [] rq.header.kind = "none" /\ rq.sas # None -> verify_sas
      [] OTHER -> verify_anonymous

-------------------------------------------------------------------------------
(* The handlers.  Only container_get looks for comp=list; the others take  *)
(* it for a comp they do not know and do what the method says.             *)

handled_op(q, target) ==
    CASE q.method = "GET" -> IF q.list /\ Len(target) <= 2 THEN "l" ELSE "r"
      [] q.method = "DELETE" -> "d"
      [] OTHER -> "w"

(* comp=list on a request that lists nothing; no operation of the API has it. *)
StrayList(q, target) == q.list /\ handled_op(q, target) # "l"

-------------------------------------------------------------------------------
(* What a credential is good for, told without the server's steps: whether  *)
(* the client of q may, with levels acl and at time now, have done what the *)
(* handler does on the target, a path that begins with an account.          *)
Covers(q, target) ==
    LET a == target[1]
        c == IF Len(target) >= 2 THEN target[2] ELSE None
        b == IF Len(target) >= 3 THEN SubSeq(target, 3, Len(target)) ELSE None
        s == q.sas
    IN  /\ target # <<>>
        /\ a \in Accounts
        /\ CASE q.header.kind = "shared" -> /\ q.header.name = a
                                            /\ q.header.key \in keys(a)
                                            /\ q.header.intact
             [] q.header.kind = "bearer" -> q.header.valid
             [] q.header.kind = "none" /\ s # None ->
                  /\ s.key \in keys(a)
                  /\ c # None /\ s.container = c
                  /\ s.sr = "c" \/ (s.sr = "b" /\ b # None /\ Segments(s.blob) = b)
                  /\ s.intact
                  /\ s.st = None \/ s.st <= now
                  /\ s.se # None /\ now <= s.se
                  /\ handled_op(q, target) \in s.sp
             [] OTHER -> /\ c # None
                         /\ handled_op(q, target) \in {"r", "l"}
                         /\ Level(a, c) \in IF b = None THEN {"container"}
                                            ELSE {"blob", "container"}

(* Where auth.rs and sas.rs let through more than was granted.  The names  *)
(* of a token or a public container are compared with the path as the URI  *)
(* spells it, so what is granted on `a%20b` opens `a b`; a token without   *)
(* an expiry never expires; and comp=list makes `l` the permission asked   *)
(* for, whatever the handler does.                                         *)
Respelled(p) == Extracted(p) # p

SasDeviation(q, p) ==
    LET s == q.sas
        op == handled_op(q, p)
    IN  /\ q.header.kind = "none" /\ s # None
        /\ Len(p) >= 2
        /\ s.intact /\ s.key \in keys(p[1])
        /\ s.container = p[2]
        /\ s.sr = "c" \/ (s.sr = "b" /\ Len(p) >= 3 /\ Segments(s.blob) = SubSeq(p, 3, Len(p)))
        /\ s.st = None \/ s.st <= now
        /\ s.se = None \/ now <= s.se
        /\ op \in s.sp \/ (q.list /\ "l" \in s.sp)
        /\ Respelled(p) \/ s.se = None \/ op \notin s.sp

AnonymousDeviation(q, p) ==
    /\ q.header.kind = "none" /\ q.sas = None
    /\ Len(p) >= 2 /\ Extracted(p)[2] # p[2]
    /\ handled_op(q, p) \in {"r", "l"}
    /\ Level(p[1], p[2]) \in IF Len(p) = 2 THEN {"container"} ELSE {"blob", "container"}

KnownDeviation(q, p) == SasDeviation(q, p) \/ AnonymousDeviation(q, p)

Opens(q, p) == Covers(q, Extracted(p)) \/ KnownDeviation(q, p)

(* A request that says less than its client means: without the account in   *)
(* its path, it begins with the name of an account, or relies on the        *)
(* default account although its host names one, or there is no default.     *)
Ambiguous(q) ==
    \/ q.style # "path" /\ FirstKnown(q)
    \/ q.style = "host" /\ q.host # q.account
    \/ q.style = "default" /\ (HostKnown(q) \/ q.account # Default)

-------------------------------------------------------------------------------
Init ==
    /\ acl \in [Containers -> Levels]
    /\ now = 0
    /\ rq = None
    /\ pc = "wait"
    /\ path = <<>>
    /\ failed = FALSE
    /\ ever = FALSE
    /\ always = TRUE

Remember ==
    /\ ever' = (ever \/ (path # <<>> /\ Opens(rq, path)'))
    /\ always' = (always /\ (rq # None => Covers(rq, Meant(rq))'))

arrive ==
    /\ pc = "wait"
    /\ \E q \in Clients :
         /\ rq' = q
         /\ always' = Covers(q, Meant(q))
    /\ pc' = "resolve"
    /\ UNCHANGED <<acl, now, path, failed, ever>>

(* The host's label is looked up only if the first segment is not known. *)
account_resolve_middleware ==
    /\ pc = "resolve"
    /\ \E first \in account_keys(FirstKnown(rq)), label \in account_keys(HostKnown(rq)) :
         /\ path' = resolve(rq, first, label)
         /\ failed' = (first # FirstKnown(rq) \/ (~first /\ label # HostKnown(rq)))
    /\ ever' = Opens(rq, path')
    /\ pc' = "auth"
    /\ UNCHANGED <<acl, now, rq, always>>

(* No account in the path, an unknown one, or a credential that fails; or   *)
(* the account, or for an anonymous request the container, cannot be read.  *)
auth_middleware ==
    /\ pc = "auth"
    /\ \/ /\ pc' = IF path # <<>> /\ account \in Accounts /\ authenticate THEN "handler" ELSE "denied"
          /\ UNCHANGED failed
       \/ /\ pc' = "denied"
          /\ failed' = TRUE
    /\ UNCHANGED <<acl, now, rq, path, ever, always>>

(* next.run(req): the handler starts. *)
run_handler ==
    /\ pc = "handler"
    /\ pc' = "served"
    /\ UNCHANGED <<acl, now, rq, path, failed, ever, always>>

(* Set Container ACL, Create Container and Delete Container by others. *)
set_level(c, level) ==
    /\ acl' = [acl EXCEPT ![c] = level]
    /\ acl' # acl
    /\ UNCHANGED <<now, rq, pc, path, failed>>
    /\ Remember

Tick ==
    /\ now < MaxTime
    /\ now' = now + 1
    /\ UNCHANGED <<acl, rq, pc, path, failed>>
    /\ Remember

Next ==
    \/ arrive
    \/ account_resolve_middleware
    \/ auth_middleware
    \/ run_handler
    \/ \E c \in Containers, level \in Levels : set_level(c, level)
    \/ Tick

Spec == Init /\ [][Next]_vars

-------------------------------------------------------------------------------
(* The handler runs on the account, container and blob the client meant,     *)
(* whatever its host name says, unless the request is ambiguous or an        *)
(* account could not be looked up: account_resolve takes a failed query for  *)
(* an unknown account and goes on to the next rule.                          *)
ReachesItsTarget ==
    pc \in {"handler", "served"} /\ ~Ambiguous(rq) /\ ~failed => Extracted(path) = Meant(rq)

(* The handler runs only if, at some time since the account was resolved,    *)
(* the credential was good for what the handler is about to do, on the       *)
(* target it does it to: a level or a window may close between the check and *)
(* the handler, never before both, and no failed query opens anything, not   *)
(* even when it makes the request be about another account.  The exceptions  *)
(* are those of KnownDeviation.                                              *)
ServedIsEntitled == pc \in {"handler", "served"} => ever

(* A request that is not ambiguous and whose credential is good during the   *)
(* whole request is not denied, unless a query failed: signatures over the   *)
(* path as sent, either key, container SAS used on blobs, levels that change *)
(* but allow enough.  The README's "will work the same way it would against  *)
(* real Azure".  A SAS request with a stray comp=list is not asked about.    *)
RightfulIsServed ==
    pc = "denied" /\ ~Ambiguous(rq) /\ ~failed /\ (rq.sas # None => ~StrayList(rq, Meant(rq)))
      => ~always
===============================================================================
