----------------------------- MODULE AccessProofs -----------------------------
(***************************************************************************)
(* Theorems about Access for any accounts, names, access levels, clients   *)
(* and length of time: a request that is served was entitled to it, is     *)
(* about what its client meant, and a rightful request is served.          *)
(***************************************************************************)
EXTENDS Access, SequenceTheorems, TLAPS

USE EscapeAssumption, NoneAssumption

Names == DOMAIN Escape
Segment == {Escape[n] : n \in Names}

(* The whole path of what a client means, as a URI writes it. *)
Written(q) == [i \in 1 .. Len(Meant(q)) |-> Escape[Meant(q)[i]]]

-------------------------------------------------------------------------------
(* Sequences of at most four. *)

LEMMA Prefixed ==
    ASSUME NEW S, NEW a \in S, NEW s \in Seq(S)
    PROVE  /\ <<a>> \o s \in Seq(S)
           /\ Len(<<a>> \o s) = Len(s) + 1
           /\ (<<a>> \o s)[1] = a
           /\ \A i \in 1 .. Len(s) : (<<a>> \o s)[i + 1] = s[i]
<1>1. <<a>> \in Seq(S) /\ Len(<<a>>) = 1 /\ <<a>>[1] = a
  OBVIOUS
<1>2. Len(s) \in Nat
  BY LenProperties
<1>3. /\ <<a>> \o s \in Seq(S) /\ Len(<<a>> \o s) = 1 + Len(s)
      /\ \A i \in 1 .. 1 + Len(s) :
           (<<a>> \o s)[i] = IF i <= 1 THEN <<a>>[i] ELSE s[i - 1]
  BY <1>1, <1>2, ConcatProperties
<1> QED
  BY <1>1, <1>2, <1>3

-------------------------------------------------------------------------------
(* Paths and names. *)

LEMMA MeantIsPath ==
    ASSUME NEW q \in Clients
    PROVE  /\ Meant(q) \in Seq(Names)
           /\ Meant(q)[1] = q.account /\ q.account \in Accounts
           /\ \/ Len(Meant(q)) = 1 /\ q.container = None /\ q.blob = None
              \/ Len(Meant(q)) = 2 /\ Meant(q)[2] = q.container /\ q.container # None /\ q.blob = None
              \/ /\ Len(Meant(q)) = 3 /\ Meant(q)[2] = q.container /\ Meant(q)[3] = q.blob
                 /\ q.container # None /\ q.blob # None
<1> DEFINE a == q.account
           c == q.container
           b == q.blob
<1>1. /\ a \in Accounts /\ a \in Names
      /\ c \in Names \cup {None} /\ b \in Names \cup {None} /\ (c = None => b = None)
  BY ClientsAssumption DEF Names
<1>2. Meant(q) = <<a>> \o Segments(c) \o Segments(b)
  BY DEF Meant
<1>n. None \notin Names
  BY DEF Names
<1> HIDE DEF a, b, c
<1>3. CASE c = None
  BY <1>1, <1>2, <1>3 DEF Segments, a, b, c
<1>4. CASE c # None /\ b = None
  BY <1>1, <1>2, <1>4 DEF Segments, a, b, c
<1>5. CASE c # None /\ b # None
  BY <1>1, <1>2, <1>5 DEF Segments, a, b, c
<1> QED
  BY <1>1, <1>3, <1>4, <1>5

LEMMA WrittenIsPath ==
    ASSUME NEW q \in Clients
    PROVE  /\ Written(q) \in Seq(Segment)
           /\ Len(Written(q)) = Len(Meant(q)) /\ Len(Written(q)) \in 1 .. 3
           /\ \A i \in 1 .. Len(Meant(q)) : Written(q)[i] = Escape[Meant(q)[i]]
           /\ Written(q)[1] = q.account
<1>1. /\ Meant(q) \in Seq(Names) /\ Len(Meant(q)) \in 1 .. 3 /\ Meant(q)[1] = q.account
      /\ q.account \in Accounts
  BY MeantIsPath
<1>2. \A i \in 1 .. Len(Meant(q)) : Meant(q)[i] \in Names
  BY <1>1, ElementOfSeq
<1>3. Written(q) \in [1 .. Len(Meant(q)) -> Segment]
  BY <1>2 DEF Written, Segment
<1>4. Written(q) \in Seq(Segment) /\ DOMAIN Written(q) = 1 .. Len(Meant(q))
  BY <1>1, <1>3
<1>5. DOMAIN Written(q) = 1 .. Len(Written(q)) /\ Len(Written(q)) \in Nat
  BY <1>4, LenProperties
<1>6. Len(Written(q)) = Len(Meant(q))
  BY <1>1, <1>4, <1>5
<1>7. \A i \in 1 .. Len(Meant(q)) : Written(q)[i] = Escape[Meant(q)[i]]
  BY DEF Written
<1> QED
  BY <1>1, <1>4, <1>6, <1>7

LEMMA SentIsPath ==
    ASSUME NEW q \in Clients
    PROVE  /\ SentPath(q) \in Seq(Segment)
           /\ q.style = "path" => SentPath(q) = Written(q)
           /\ q.style # "path" => SentPath(q) = Tail(Written(q))
<1>1. SentPath(q) = IF q.style = "path" THEN Written(q) ELSE Tail(Written(q))
  BY DEF SentPath, Written
<1>2. Written(q) \in Seq(Segment) /\ Len(Written(q)) \in 1 .. 3
  BY WrittenIsPath
<1>3. Written(q) # <<>>
  BY <1>2
<1>4. Tail(Written(q)) \in Seq(Segment)
  BY <1>2, <1>3, HeadTailProperties
<1> QED
  BY <1>1, <1>2, <1>4

(* What the extractor undoes is what the escapes did. *)
LEMMA ExtractedIsPath ==
    ASSUME NEW p \in Seq(Segment)
    PROVE  /\ Extracted(p) \in Seq(Names)
           /\ Len(Extracted(p)) = Len(p) /\ Len(p) \in Nat
           /\ \A i \in 1 .. Len(p) : /\ Extracted(p)[i] \in Names
                                     /\ Escape[Extracted(p)[i]] = p[i]
<1> DEFINE E(s) == CHOOSE n \in DOMAIN Escape : Escape[n] = s
<1>1. Len(p) \in Nat /\ \A i \in 1 .. Len(p) : p[i] \in Segment
  BY LenProperties, ElementOfSeq
<1>2. ASSUME NEW s \in Segment PROVE E(s) \in Names /\ Escape[E(s)] = s
  BY DEF Segment, Names
<1>3. Extracted(p) = [i \in 1 .. Len(p) |-> E(p[i])]
  BY DEF Extracted
<1> HIDE DEF E
<1>4. /\ Extracted(p) \in [1 .. Len(p) -> Names]
      /\ \A i \in 1 .. Len(p) : Extracted(p)[i] = E(p[i])
  BY <1>1, <1>2, <1>3
<1>5. Extracted(p) \in Seq(Names) /\ DOMAIN Extracted(p) = 1 .. Len(p)
  BY <1>1, <1>4
<1>6. DOMAIN Extracted(p) = 1 .. Len(Extracted(p)) /\ Len(Extracted(p)) \in Nat
  BY <1>5, LenProperties
<1>7. Len(Extracted(p)) = Len(p)
  BY <1>1, <1>5, <1>6
<1> QED
  BY <1>1, <1>2, <1>4, <1>5, <1>7

LEMMA ExtractedWritten ==
    ASSUME NEW q \in Clients
    PROVE  Extracted(Written(q)) = Meant(q)
<1> DEFINE p == Written(q)
           e == Extracted(p)
<1>1. /\ p \in Seq(Segment) /\ Len(p) = Len(Meant(q))
      /\ \A i \in 1 .. Len(p) : p[i] = Escape[Meant(q)[i]]
  BY WrittenIsPath
<1>2. Meant(q) \in Seq(Names) /\ \A i \in 1 .. Len(Meant(q)) : Meant(q)[i] \in Names
  BY MeantIsPath, ElementOfSeq
<1>3. /\ e \in Seq(Names) /\ Len(e) = Len(p)
      /\ \A i \in 1 .. Len(p) : e[i] \in Names /\ Escape[e[i]] = p[i]
  BY <1>1, ExtractedIsPath
<1>4. \A i \in 1 .. Len(e) : e[i] = Meant(q)[i]
  BY <1>1, <1>2, <1>3 DEF Names
<1> HIDE DEF e
<1> QED
  BY <1>1, <1>2, <1>3, <1>4, SeqEqual DEF e

-------------------------------------------------------------------------------
(* Account resolution. *)

After == pc \in {"auth", "handler", "served", "denied"}

Routed == path = SentPath(rq) \/ \E h : path = <<h>> \o SentPath(rq)

RouteInv ==
    /\ pc \in {"wait", "resolve"} \/ After
    /\ pc # "wait" => rq \in Clients
    /\ pc = "wait" => rq = None
    /\ pc \in {"wait", "resolve"} => path = <<>>
    /\ After => Routed
    /\ After /\ ~Ambiguous(rq) /\ ~failed => path = Written(rq)

(* An account before the rest of the path is the whole path. *)
LEMMA AccountFirst ==
    ASSUME NEW q \in Clients
    PROVE  <<q.account>> \o Tail(Written(q)) = Written(q)
<1> DEFINE w == Written(q)
           t == Tail(w)
           p == <<q.account>> \o t
<1>1. w \in Seq(Segment) /\ Len(w) \in 1 .. 3 /\ w[1] = q.account
  BY WrittenIsPath
<1>2. w # <<>>
  BY <1>1
<1>3. /\ t \in Seq(Segment) /\ Len(t) = Len(w) - 1
      /\ \A i \in 1 .. Len(t) : t[i] = w[i + 1]
  BY <1>1, <1>2, HeadTailProperties
<1>4. q.account \in Segment
  BY <1>1, ElementOfSeq
<1> HIDE DEF w, t
<1>5. /\ p \in Seq(Segment) /\ Len(p) = Len(t) + 1 /\ p[1] = q.account
      /\ \A i \in 1 .. Len(t) : p[i + 1] = t[i]
  BY <1>3, <1>4, Prefixed
<1> HIDE DEF p
<1>6. ASSUME NEW i \in 1 .. Len(p) PROVE p[i] = w[i]
  <2>1. i = 1 \/ (i - 1 \in 1 .. Len(t) /\ i = (i - 1) + 1)
    BY <1>1, <1>3, <1>5
  <2> QED
    BY <1>1, <1>3, <1>5, <2>1
<1>7. Len(p) = Len(w)
  BY <1>1, <1>3, <1>5
<1> QED
  BY <1>1, <1>5, <1>6, <1>7, SeqEqual DEF p, w, t

(* Without a failed query, a request that is not ambiguous gets the path   *)
(* its client meant.                                                       *)
LEMMA ResolvesToMeant ==
    ASSUME NEW q \in Clients, ~Ambiguous(q)
    PROVE  resolve(q, FirstKnown(q), HostKnown(q)) = Written(q)
<1>1. q.account \in Accounts /\ q.style \in Styles
  BY ClientsAssumption
<1>2. q.account # None
  BY <1>1
<1>3. CASE q.style = "path"
  <2>1. SentPath(q) = Written(q) /\ Written(q)[1] = q.account /\ Len(Written(q)) \in 1 .. 3
    BY <1>3, SentIsPath, WrittenIsPath
  <2>2. SentPath(q) # <<>>
    BY <2>1
  <2>3. FirstKnown(q)
    BY <1>1, <2>1, <2>2 DEF FirstKnown
  <2> QED
    BY <2>1, <2>3 DEF resolve
<1>4. CASE q.style # "path"
  <2>1. ~FirstKnown(q)
    BY <1>4 DEF Ambiguous
  <2>2. <<q.account>> \o SentPath(q) = Written(q)
    BY <1>4, SentIsPath, AccountFirst
  <2>3. CASE q.style = "host"
    <3>1. HostKnown(q) /\ q.host = q.account
      BY <1>1, <2>3 DEF Ambiguous, HostKnown
    <3> QED
      BY <2>1, <2>2, <3>1 DEF resolve
  <2>4. CASE q.style = "default"
    <3>1. ~HostKnown(q) /\ Default = q.account
      BY <2>4 DEF Ambiguous
    <3> QED
      BY <1>2, <2>1, <2>2, <3>1 DEF resolve
  <2> QED
    BY <1>1, <1>4, <2>3, <2>4 DEF Styles
<1> QED
  BY <1>3, <1>4

LEMMA RouteInvInductive == RouteInv /\ [Next]_vars => RouteInv'
<1> SUFFICES ASSUME RouteInv, [Next]_vars PROVE RouteInv'
  OBVIOUS
<1> USE DEF After
<1>s. ASSUME UNCHANGED <<rq, path, failed>>, pc # "wait", pc' # "wait", After <=> After', After'
      PROVE  RouteInv'
  BY <1>s DEF RouteInv, Routed, Ambiguous, Written
<1>1. CASE arrive
  BY <1>1 DEF arrive, RouteInv
<1>2. CASE account_resolve_middleware
  <2>1. PICK first \in account_keys(FirstKnown(rq)), label \in account_keys(HostKnown(rq)) :
          /\ path' = resolve(rq, first, label)
          /\ failed' = (first # FirstKnown(rq) \/ (~first /\ label # HostKnown(rq)))
    BY <1>2 DEF account_resolve_middleware
  <2>2. pc = "resolve" /\ pc' = "auth" /\ rq' = rq /\ rq \in Clients
    BY <1>2 DEF account_resolve_middleware, RouteInv
  <2>3. Routed'
    BY <2>1, <2>2 DEF Routed, resolve
  <2>4. ASSUME ~Ambiguous(rq), ~failed' PROVE path' = Written(rq)
    <3>1. first = FirstKnown(rq) /\ (first \/ label = HostKnown(rq))
      BY <2>1, <2>4
    <3>2. resolve(rq, first, label) = resolve(rq, FirstKnown(rq), HostKnown(rq))
      BY <3>1 DEF resolve
    <3> QED
      BY <2>1, <2>2, <2>4, <3>2, ResolvesToMeant
  <2> QED
    BY <2>2, <2>3, <2>4 DEF RouteInv
<1>3. CASE auth_middleware
  <2>1. pc = "auth" /\ pc' \in {"handler", "denied"} /\ UNCHANGED <<rq, path>>
    BY <1>3 DEF auth_middleware
  <2>2. UNCHANGED failed \/ failed'
    BY <1>3 DEF auth_middleware
  <2> QED
    BY <2>1, <2>2 DEF RouteInv, Routed
<1>4. CASE run_handler
  BY <1>4, <1>s DEF run_handler
<1>5. CASE \/ \E c \in Containers, level \in Levels : set_level(c, level)
           \/ Tick \/ UNCHANGED vars
  <2>1. UNCHANGED <<rq, pc, path, failed>>
    BY <1>5 DEF set_level, Tick, vars
  <2> QED
    BY <2>1 DEF RouteInv, Routed
<1> QED
  BY <1>1, <1>2, <1>3, <1>4, <1>5 DEF Next

LEMMA RouteInvInvariant == Spec => []RouteInv
<1>1. Init => RouteInv
  BY DEF Init, RouteInv, After
<1> QED
  BY <1>1, RouteInvInductive, PTL DEF Spec

(* For any accounts, names and clients: a handler runs on the account,      *)
(* container and blob its client meant, whether the account was in the      *)
(* path, in the host name or the default, and whatever else the host says,  *)
(* unless the request is ambiguous or the look-up of an account failed.     *)
THEOREM RequestsReachTheirTarget == Spec => []ReachesItsTarget
<1>1. RouteInv => ReachesItsTarget
  BY ExtractedWritten DEF RouteInv, ReachesItsTarget, After
<1> QED
  BY <1>1, RouteInvInvariant, PTL

-------------------------------------------------------------------------------
(* Authentication: what it accepts, the credential covers, but for the     *)
(* known deviations.  Signatures and access levels are looked up by the    *)
(* segments of the path, the handlers get names.                           *)

LEMMA RoutedPath ==
    ASSUME RouteInv, After, path # <<>>, path[1] \in Accounts
    PROVE  path \in Seq(Segment)
<1> DEFINE s == SentPath(rq)
<1>1. rq \in Clients /\ Routed
  BY DEF RouteInv, After
<1>2. s \in Seq(Segment)
  BY <1>1, SentIsPath
<1> HIDE DEF s
<1>3. ASSUME NEW h, path = <<h>> \o s PROVE path \in Seq(Segment)
  <2>1. s \in Seq(Segment \cup {h})
    BY <1>2, SeqMonotonic
  <2>2. path[1] = h
    BY <1>3, <2>1, Prefixed
  <2>3. h \in Segment
    BY <2>2 DEF Segment, Names
  <2> QED
    BY <1>2, <1>3, <2>3, Prefixed
<1> QED
  BY <1>1, <1>2, <1>3 DEF Routed, s

(* The handler's names, told from the middleware's segments. *)
LEMMA HandlersNames ==
    ASSUME NEW p \in Seq(Segment), p # <<>>, p[1] \in Accounts
    PROVE  /\ Extracted(p) # <<>> /\ Extracted(p)[1] = p[1]
           /\ Len(Extracted(p)) = Len(p)
<1> DEFINE e == Extracted(p)
<1>1. /\ e \in Seq(Names) /\ Len(e) = Len(p)
      /\ \A i \in 1 .. Len(p) : e[i] \in Names /\ Escape[e[i]] = p[i]
  BY ExtractedIsPath
<1>2. Len(p) \in Nat \ {0}
  BY EmptySeq
<1> HIDE DEF e
<1>3. e # <<>>
  BY <1>1, <1>2
<1>4. e[1] = p[1]
  BY <1>1, <1>2 DEF Names
<1> QED
  BY <1>1, <1>3, <1>4 DEF e

(* Of two equal texts the parts are equal. *)
LEMMA TextParts ==
    ASSUME NEW S, NEW a, NEW c, NEW s \in Seq(S), NEW b, NEW d, NEW t \in Seq(S),
           <<a, c>> \o s = <<b, d>> \o t
    PROVE  a = b /\ c = d /\ s = t
<1> DEFINE R == S \cup {a, b, c, d}
           u == <<a, c>> \o s
           v == <<b, d>> \o t
<1>1. s \in Seq(R) /\ t \in Seq(R) /\ <<a, c>> \in Seq(R) /\ <<b, d>> \in Seq(R)
  <2>1. Seq(S) \subseteq Seq(R)
    BY SeqMonotonic
  <2> QED
    BY <2>1
<1>2. Len(s) \in Nat /\ Len(t) \in Nat
  BY LenProperties
<1>3. /\ Len(u) = 2 + Len(s)
      /\ \A i \in 1 .. 2 + Len(s) : u[i] = IF i <= 2 THEN <<a, c>>[i] ELSE s[i - 2]
  BY <1>1, ConcatProperties
<1>4. /\ Len(v) = 2 + Len(t)
      /\ \A i \in 1 .. 2 + Len(t) : v[i] = IF i <= 2 THEN <<b, d>>[i] ELSE t[i - 2]
  BY <1>1, ConcatProperties
<1>5. u = v
  OBVIOUS
<1> HIDE DEF u, v
<1>6. Len(s) = Len(t)
  BY <1>2, <1>3, <1>4, <1>5
<1>7. a = b /\ c = d
  BY <1>2, <1>3, <1>4, <1>5
<1>8. ASSUME NEW i \in 1 .. Len(s) PROVE s[i] = t[i]
  <2>1. i + 2 \in 1 .. 2 + Len(s) /\ ~(i + 2 <= 2) /\ (i + 2) - 2 = i
    BY <1>2
  <2> QED
    BY <1>2, <1>3, <1>4, <1>5, <1>6, <2>1
<1>9. s = t
  BY <1>6, <1>8, SeqEqual
<1> QED
  BY <1>7, <1>9

(* There is no path that is None. *)
LEMMA PathsAreSome ==
    /\ None \notin Seq(Segment) /\ None \notin Seq(Names) /\ None \notin Segment /\ None \notin Names
<1>1. None \notin Seq(Names \cup Segment) /\ None \notin Segment /\ None \notin Names
  BY DEF Segment, Names
<1>2. Seq(Segment) \subseteq Seq(Names \cup Segment) /\ Seq(Names) \subseteq Seq(Names \cup Segment)
  BY SeqMonotonic
<1> QED
  BY <1>1, <1>2

(* The blob part of a path. *)
LEMMA BlobPart ==
    ASSUME NEW S, None \notin Seq(S), NEW p \in Seq(S), Len(p) >= 3
    PROVE  /\ SubSeq(p, 3, Len(p)) \in Seq(S) /\ SubSeq(p, 3, Len(p)) # None
           /\ Len(SubSeq(p, 3, Len(p))) = Len(p) - 2
           /\ \A i \in 1 .. Len(p) - 2 : SubSeq(p, 3, Len(p))[i] = p[i + 2]
<1>1. Len(p) \in Nat
  BY LenProperties
<1>2. /\ SubSeq(p, 3, Len(p)) \in Seq(S)
      /\ Len(SubSeq(p, 3, Len(p))) = Len(p) - 3 + 1
      /\ \A i \in 1 .. Len(p) - 3 + 1 : SubSeq(p, 3, Len(p))[i] = p[3 + i - 1]
  BY <1>1, SubSeqProperties
<1> DEFINE b == SubSeq(p, 3, Len(p))
<1> HIDE DEF b
<1>3. b \in Seq(S) /\ b # None /\ Len(b) = Len(p) - 2
  <2>1. b \in Seq(S) /\ Len(b) = Len(p) - 3 + 1
    BY <1>2 DEF b
  <2>2. b # None
    BY <2>1
  <2> QED
    BY <1>1, <2>1, <2>2
<1>4. ASSUME NEW i \in 1 .. Len(p) - 2 PROVE b[i] = p[i + 2]
  <2>1. i \in 1 .. Len(p) - 3 + 1 /\ 3 + i - 1 = i + 2
    BY <1>1
  <2> QED
    BY <1>2, <2>1 DEF b
<1> QED
  BY <1>3, <1>4 DEF b

(* One segment, compared with the blob part of a path. *)
LEMMA BlobPartIs ==
    ASSUME NEW S, None \notin Seq(S), NEW p \in Seq(S), Len(p) >= 3, NEW n
    PROVE  SubSeq(p, 3, Len(p)) = <<n>> <=> Len(p) = 3 /\ p[3] = n
<1> DEFINE b == SubSeq(p, 3, Len(p))
<1>1. Len(p) \in Nat
  BY LenProperties
<1>2. b \in Seq(S) /\ Len(b) = Len(p) - 2 /\ \A i \in 1 .. Len(p) - 2 : b[i] = p[i + 2]
  BY BlobPart
<1> HIDE DEF b
<1>3. b = <<n>> => Len(p) = 3 /\ p[3] = n
  <2> SUFFICES ASSUME b = <<n>> PROVE Len(p) = 3 /\ p[3] = n
    OBVIOUS
  <2>1. Len(b) = 1 /\ b[1] = n
    OBVIOUS
  <2> QED
    BY <1>1, <1>2, <2>1
<1>4. Len(p) = 3 /\ p[3] = n => b = <<n>>
  <2> SUFFICES ASSUME Len(p) = 3, p[3] = n PROVE b = <<n>>
    OBVIOUS
  <2>1. Len(b) = 1 /\ b[1] = n
    BY <1>2
  <2>2. n \in S
    BY <1>2, <2>1, ElementOfSeq
  <2>3. <<n>> \in Seq(S) /\ Len(<<n>>) = 1 /\ \A i \in 1 .. 1 : <<n>>[i] = b[i]
    BY <2>1, <2>2
  <2> QED
    BY <1>2, <2>1, <2>3, SeqEqual
<1> QED
  BY <1>3, <1>4 DEF b

(* A credential that authenticate accepts is good for the names that the   *)
(* handler is called with, or deviates in a known way.                     *)
LEMMA AuthenticOpens ==
    ASSUME RouteInv, After, path # <<>>, account \in Accounts, authenticate
    PROVE  Opens(rq, path)
<1> DEFINE e == Extracted(path)
           a == e[1]
           c == IF Len(e) >= 2 THEN e[2] ELSE None
           b == IF Len(e) >= 3 THEN SubSeq(e, 3, Len(e)) ELSE None
           s == rq.sas
<1>q. rq \in Clients
  BY DEF RouteInv, After
<1>p. path \in Seq(Segment) /\ Len(path) \in Nat
  BY RoutedPath, LenProperties DEF account
<1>e. /\ e \in Seq(Names) /\ Len(e) = Len(path) /\ e # <<>> /\ a = account
      /\ \A i \in 1 .. Len(path) : e[i] \in Names /\ path[i] \in Segment
  BY <1>p, HandlersNames, ExtractedIsPath, ElementOfSeq DEF account
<1>t. <<account>> \o canonical_path # None
  <2>1. account \in Segment /\ SentPath(rq) \in Seq(Segment)
    BY <1>q, SentIsPath DEF Segment, Names
  <2>2. <<account>> \o SentPath(rq) \in Seq(Segment)
    BY <2>1, Prefixed
  <2> QED
    BY <2>2, PathsAreSome DEF canonical_path
<1> HIDE DEF e
<1>c. container # None => Len(path) >= 2 /\ container = path[2] /\ c = e[2] /\ c # None
  BY <1>e, <1>p, PathsAreSome DEF container
<1>o. handled_op(rq, e) = handled_op(rq, path)
  BY <1>e DEF handled_op
<1>b. (blob # None <=> b # None) /\ (blob # None <=> Len(path) >= 3)
  <2>1. CASE Len(path) >= 3
    <3>1. SubSeq(path, 3, Len(path)) # None
      BY <1>p, <2>1, BlobPart, PathsAreSome
    <3>2. SubSeq(e, 3, Len(e)) # None
      BY <1>e, <2>1, BlobPart, PathsAreSome
    <3> QED
      BY <1>e, <2>1, <3>1, <3>2 DEF blob
  <2>2. CASE ~(Len(path) >= 3)
    BY <1>e, <2>2 DEF blob
  <2> QED
    BY <2>1, <2>2
<1> HIDE DEF a, b, c
<1>1. CASE rq.header.kind = "shared"
  <2>1. verify_shared_key
    BY <1>1 DEF authenticate
  <2>2. PICK k \in keys(account) :
          SharedKeySignature(rq.header, rq) = [key |-> k, text |-> <<account>> \o canonical_path]
    BY <2>1 DEF verify_shared_key
  <2>3. rq.header.key = k /\ rq.header.intact
    BY <1>t, <2>2 DEF SharedKeySignature
  <2>4. rq.header.name = a /\ rq.header.key \in keys(a) /\ a \in Accounts
    BY <1>e, <2>1, <2>3 DEF verify_shared_key
  <2> QED
    BY <1>1, <1>e, <2>3, <2>4 DEF Opens, Covers, e, a
<1>2. CASE rq.header.kind = "bearer"
  BY <1>2, <1>e DEF authenticate, Opens, Covers, e, a
<1>3. CASE rq.header.kind = "none" /\ rq.sas # None
  <2>1. verify_sas
    BY <1>3 DEF authenticate
  <2>2. PICK k \in keys(account) :
          SasSignature(s) = [key |-> k, text |-> <<account, container>> \o signed_blob]
    BY <2>1 DEF verify_sas
  <2>3. container # None /\ check_validity_window /\ required_permission(rq) \in s.sp
        /\ (s.sr = "c" \/ (s.sr = "b" /\ blob # None))
    BY <2>1 DEF verify_sas
  <2>4. s.container \in Names /\ s.blob \in Names \cup {None}
    BY <1>3, <1>q, ClientsAssumption DEF Names
  <2>5. signed_blob \in Seq(Segment)
    <3>1. blob # None => blob \in Seq(Segment)
      BY <1>p, <1>b, BlobPart, PathsAreSome DEF blob
    <3> QED
      BY <3>1, EmptySeq DEF signed_blob
  <2>6. <<account, container>> \o signed_blob # None
    <3>1. account \in Segment /\ container \in Segment
      BY <1>c, <1>e, <1>p, <2>3 DEF Segment, Names
    <3>2. <<account, container>> \in Seq(Segment)
      BY <3>1
    <3>3. <<account, container>> \o signed_blob \in Seq(Segment)
      BY <2>5, <3>2, ConcatProperties
    <3> QED
      BY <3>3, PathsAreSome
  <2> DEFINE sb == IF s.sr = "c" THEN <<>> ELSE Segments(s.blob)
  <2>7. s.key = k /\ s.intact /\ <<s.key[1], s.container>> \o sb = <<account, container>> \o signed_blob
    BY <2>2, <2>6 DEF SasSignature
  <2>8. sb \in Seq(Names)
    BY <2>4 DEF Segments
  <2>9. s.container = container /\ sb = signed_blob
    <3>1. sb \in Seq(Names \cup Segment) /\ signed_blob \in Seq(Names \cup Segment)
      BY <2>5, <2>8, SeqMonotonic
    <3> DEFINE u == s.key[1]
               v == s.container
               sig == signed_blob
               S == Names \cup Segment
    <3>2. sb \in Seq(S) /\ sig \in Seq(S) /\ <<u, v>> \o sb = <<account, container>> \o sig
      BY <2>7, <3>1
    <3> HIDE DEF sb, u, v, sig, S
    <3>3. v = container /\ sb = sig
      BY <3>2, TextParts
    <3> QED
      BY <3>3 DEF v, sig
  <2> DEFINE op == handled_op(rq, path)
  <2>10. s.intact /\ s.key \in keys(path[1])
    BY <2>2, <2>7 DEF account
  <2>11. Len(path) >= 2 /\ s.container = path[2]
    BY <1>c, <2>3, <2>9
  <2>12. \/ s.sr = "c"
         \/ s.sr = "b" /\ Len(path) >= 3 /\ Segments(s.blob) = SubSeq(path, 3, Len(path))
    BY <1>b, <2>3, <2>9 DEF signed_blob, blob
  <2>13. (s.st = None \/ s.st <= now) /\ (s.se = None \/ now <= s.se)
    BY <2>3 DEF check_validity_window
  <2>14. op \in s.sp \/ (rq.list /\ "l" \in s.sp)
    BY <2>3 DEF required_permission, handled_op
  <2> HIDE DEF op
  <2>15. CASE Respelled(path) \/ s.se = None \/ op \notin s.sp
    BY <1>3, <2>10, <2>11, <2>12, <2>13, <2>14, <2>15
    DEF Opens, KnownDeviation, SasDeviation, op
  <2>16. CASE ~Respelled(path) /\ s.se # None /\ op \in s.sp
    <3>1. e = path
      BY <2>16 DEF Respelled, e
    <3>2. a = path[1] /\ a \in Accounts /\ s.key \in keys(a) /\ s.intact
      BY <1>e, <2>10 DEF account
    <3>3. c # None /\ s.container = c
      BY <1>c, <2>3, <2>11, <3>1
    <3>4. s.sr = "c" \/ (s.sr = "b" /\ b # None /\ Segments(s.blob) = b)
      BY <1>b, <2>3, <2>12, <3>1 DEF b
    <3>5. handled_op(rq, e) \in s.sp /\ now <= s.se
      BY <1>o, <2>13, <2>16 DEF op
    <3> QED
      BY <1>3, <1>e, <2>13, <2>16, <3>2, <3>3, <3>4, <3>5 DEF Opens, Covers, e, a, b, c
  <2> QED
    BY <2>15, <2>16
<1>4. CASE rq.header.kind \notin {"shared", "bearer"} /\ ~(rq.header.kind = "none" /\ rq.sas # None)
  <2>1. verify_anonymous
    BY <1>4 DEF authenticate
  <2>2. container # None /\ allows(Level(account, container), rq, blob # None)
    BY <2>1 DEF verify_anonymous
  <2>3. /\ handled_op(rq, path) \in {"r", "l"}
        /\ Level(account, container) \in IF blob = None THEN {"container"} ELSE {"blob", "container"}
    BY <2>2 DEF allows, handled_op
  <2>4. Len(path) >= 2 /\ container = path[2] /\ c = e[2] /\ c # None
    BY <1>c, <2>2
  <2>5. CASE e[2] = path[2]
    <3>1. Level(a, c) \in IF b = None THEN {"container"} ELSE {"blob", "container"}
      BY <1>b, <1>e, <2>3, <2>4, <2>5
    <3> QED
      BY <1>4, <1>e, <1>o, <2>3, <2>4, <3>1 DEF Opens, Covers, e, a, b, c
  <2>6. CASE e[2] # path[2]
    <3>1. rq.header.kind = "none" /\ rq.sas = None
      BY <1>4, <1>q, ClientsAssumption
    <3>2. Level(path[1], path[2]) \in IF Len(path) = 2 THEN {"container"} ELSE {"blob", "container"}
      <4>1. blob = None <=> Len(path) = 2
        <5> DEFINE l == Len(path)
        <5>1. l \in Nat /\ l >= 2
          BY <1>p, <2>4
        <5> HIDE DEF l
        <5>2. l = 2 <=> ~(l >= 3)
          BY <5>1
        <5> QED
          BY <1>b, <5>2 DEF l
      <4>2. Level(path[1], path[2]) = Level(account, container)
        BY <2>4 DEF account, Level
      <4> QED
        BY <2>3, <4>1, <4>2
    <3> QED
      BY <2>3, <2>4, <2>6, <3>1, <3>2 DEF Opens, KnownDeviation, AnonymousDeviation, e
  <2> QED
    BY <2>5, <2>6
<1> QED
  BY <1>1, <1>2, <1>3, <1>4

EntitledInv ==
    /\ pc = "auth" /\ path # <<>> /\ Opens(rq, path) => ever
    /\ ServedIsEntitled

LEMMA EntitledInvInductive == RouteInv /\ EntitledInv /\ [Next]_vars => EntitledInv'
<1> SUFFICES ASSUME RouteInv, EntitledInv, [Next]_vars PROVE EntitledInv'
  OBVIOUS
<1> USE DEF EntitledInv, ServedIsEntitled
<1>1. CASE arrive
  BY <1>1 DEF arrive
<1>2. CASE account_resolve_middleware
  <2>1. pc' = "auth" /\ rq' = rq /\ acl' = acl /\ now' = now /\ ever' = Opens(rq, path')
    BY <1>2 DEF account_resolve_middleware
  <2>2. Opens(rq, path)' <=> Opens(rq, path')
    BY <2>1 DEF Opens, KnownDeviation, SasDeviation, AnonymousDeviation, Covers, Level
  <2> QED
    BY <2>1, <2>2
<1>3. CASE auth_middleware
  <2>1. pc = "auth" /\ pc' \in {"handler", "denied"} /\ ever' = ever
    BY <1>3 DEF auth_middleware
  <2>2. ASSUME pc' = "handler" PROVE ever
    <3>1. path # <<>> /\ account \in Accounts /\ authenticate
      BY <1>3, <2>2 DEF auth_middleware
    <3>2. Opens(rq, path)
      BY <2>1, <3>1, AuthenticOpens DEF After
    <3> QED
      BY <2>1, <3>1, <3>2
  <2> QED
    BY <2>1, <2>2
<1>4. CASE run_handler
  BY <1>4 DEF run_handler
<1>5. CASE \/ \E c \in Containers, level \in Levels : set_level(c, level)
           \/ Tick
  <2>1. UNCHANGED <<pc, path>> /\ Remember
    BY <1>5 DEF set_level, Tick
  <2> QED
    BY <2>1 DEF Remember
<1>6. CASE UNCHANGED vars
  <2>1. UNCHANGED <<acl, now, rq, pc, path, ever>>
    BY <1>6 DEF vars
  <2>2. Opens(rq, path)' <=> Opens(rq, path)
    BY <2>1 DEF Opens, KnownDeviation, SasDeviation, AnonymousDeviation, Covers, Level
  <2> QED
    BY <2>1, <2>2
<1> QED
  BY <1>1, <1>2, <1>3, <1>4, <1>5, <1>6 DEF Next

(* Whatever queries fail, whichever account the request ends up with,       *)
(* however its names are spelled and however levels and time change in      *)
(* between, a handler runs only if at some time since the account was       *)
(* resolved the credential was good for what the handler does, on the very  *)
(* names it is called with, or was one of the known deviations.             *)
THEOREM ServedRequestsAreEntitled == Spec => []ServedIsEntitled
<1>1. Init => EntitledInv
  BY DEF Init, EntitledInv, ServedIsEntitled
<1>2. EntitledInv => ServedIsEntitled
  BY DEF EntitledInv
<1> QED
  BY <1>1, <1>2, EntitledInvInductive, RouteInvInvariant, PTL DEF Spec

-------------------------------------------------------------------------------
(* Authentication: what the credential covers, it accepts. *)

(* Names that signatures and access levels are compared with are the same  *)
(* in a URI: the container's, and with a blob SAS the blob's.              *)
PlainNames ==
    \A q \in Clients : q.header.kind \notin {"shared", "bearer"} =>
        /\ q.container # None => Escape[q.container] = q.container
        /\ q.sas # None /\ q.sas.sr = "b" /\ q.blob # None => Escape[q.blob] = q.blob

LEMMA CoveredIsAuthentic ==
    ASSUME PlainNames, rq \in Clients, path = Written(rq), Covers(rq, Meant(rq)),
           rq.sas # None => ~StrayList(rq, Meant(rq))
    PROVE  path # <<>> /\ account \in Accounts /\ authenticate
<1> DEFINE m == Meant(rq)
           a == m[1]
           c == IF Len(m) >= 2 THEN m[2] ELSE None
           b == IF Len(m) >= 3 THEN SubSeq(m, 3, Len(m)) ELSE None
           s == rq.sas
<1>m. /\ m \in Seq(Names) /\ a = rq.account /\ a \in Accounts
      /\ \/ Len(m) = 1 /\ rq.container = None /\ rq.blob = None
         \/ Len(m) = 2 /\ m[2] = rq.container /\ rq.container # None /\ rq.blob = None
         \/ /\ Len(m) = 3 /\ m[2] = rq.container /\ m[3] = rq.blob
            /\ rq.container # None /\ rq.blob # None
  BY MeantIsPath
<1>p. /\ path \in Seq(Segment) /\ Len(path) = Len(m) /\ Len(path) \in 1 .. 3
      /\ \A i \in 1 .. Len(m) : path[i] = Escape[m[i]]
      /\ path[1] = a
  BY <1>m, WrittenIsPath
<1>0. path # <<>> /\ account = a /\ account \in Accounts
  BY <1>m, <1>p DEF account
<1> HIDE DEF m
<1>b. (blob # None <=> b # None) /\ (blob # None <=> Len(path) = 3)
  <2>1. CASE Len(path) >= 3
    <3>1. SubSeq(path, 3, Len(path)) # None
      BY <1>p, <2>1, BlobPart, PathsAreSome
    <3>2. SubSeq(m, 3, Len(m)) # None
      BY <1>m, <1>p, <2>1, BlobPart, PathsAreSome
    <3> QED
      BY <1>p, <2>1, <3>1, <3>2 DEF blob
  <2>2. CASE ~(Len(path) >= 3)
    BY <1>p, <2>2 DEF blob
  <2> QED
    BY <2>1, <2>2
<1>c. c = rq.container /\ (c # None => Len(path) >= 2 /\ container = Escape[c])
  BY <1>m, <1>p DEF container
<1> HIDE DEF a, b, c
<1>1. CASE rq.header.kind = "shared"
  <2>1. rq.header.name = a /\ rq.header.key \in keys(a) /\ rq.header.intact
    BY <1>1 DEF Covers, m, a
  <2>2. SharedKeySignature(rq.header, rq) = [key |-> rq.header.key, text |-> <<account>> \o canonical_path]
    BY <1>0, <2>1 DEF SharedKeySignature, canonical_path
  <2> QED
    BY <1>0, <1>1, <2>1, <2>2 DEF authenticate, verify_shared_key
<1>2. CASE rq.header.kind = "bearer"
  BY <1>0, <1>2 DEF Covers, authenticate
<1>3. CASE rq.header.kind = "none" /\ rq.sas # None
  <2>1. /\ s.key \in keys(a) /\ c # None /\ s.container = c
        /\ s.sr = "c" \/ (s.sr = "b" /\ b # None /\ Segments(s.blob) = b)
        /\ s.intact
        /\ s.st = None \/ s.st <= now
        /\ s.se # None /\ now <= s.se
        /\ handled_op(rq, m) \in s.sp
    BY <1>3 DEF Covers, m, a, b, c
  <2>p. required_permission(rq) = handled_op(rq, m)
    BY <1>3 DEF StrayList, handled_op, required_permission, m
  <2>2. s.key[1] = account
    BY <1>0, <2>1 DEF keys
  <2>3. container = s.container /\ container # None
    BY <1>3, <1>c, <2>1 DEF PlainNames
  <2>4. s.sr = "b" => blob # None /\ Segments(s.blob) = blob
    <3> SUFFICES ASSUME s.sr = "b" PROVE blob # None /\ Segments(s.blob) = blob
      OBVIOUS
    <3>1. Len(path) = 3 /\ Len(m) = 3 /\ m[3] = rq.blob /\ rq.blob # None
      BY <1>b, <1>m, <1>p, <2>1
    <3>2. b = SubSeq(m, 3, Len(m)) /\ blob = SubSeq(path, 3, Len(path))
      BY <3>1 DEF b, blob
    <3>3. path[3] = rq.blob
      BY <1>3, <1>p, <3>1 DEF PlainNames
    <3> DEFINE n == rq.blob
    <3> HIDE DEF n
    <3>4. m[3] = n /\ Len(m) = 3 /\ Len(m) >= 3 /\ m \in Seq(Names)
      BY <1>m, <3>1 DEF n
    <3>5. SubSeq(m, 3, Len(m)) = <<n>>
      BY <3>4, BlobPartIs, PathsAreSome
    <3>6. path[3] = n /\ Len(path) = 3 /\ Len(path) >= 3 /\ path \in Seq(Segment)
      BY <1>p, <3>1, <3>3 DEF n
    <3>7. SubSeq(path, 3, Len(path)) = <<n>>
      BY <3>6, BlobPartIs, PathsAreSome
    <3> QED
      BY <1>b, <2>1, <3>1, <3>2, <3>5, <3>7
  <2>5. signed_blob = IF s.sr = "c" THEN <<>> ELSE Segments(s.blob)
    BY <2>1, <2>4 DEF signed_blob
  <2>6. SasSignature(s) = [key |-> s.key, text |-> <<account, container>> \o signed_blob]
    BY <2>1, <2>2, <2>3, <2>5 DEF SasSignature
  <2>7. verify_sas
    BY <1>0, <2>1, <2>p, <2>3, <2>4, <2>6 DEF verify_sas, check_validity_window
  <2> QED
    BY <1>0, <1>3, <2>7 DEF authenticate
<1>4. CASE rq.header.kind \notin {"shared", "bearer"} /\ ~(rq.header.kind = "none" /\ rq.sas # None)
  <2>0. /\ c # None
        /\ handled_op(rq, m) \in {"r", "l"}
        /\ Level(a, c) \in IF b = None THEN {"container"} ELSE {"blob", "container"}
    BY <1>4 DEF Covers, m, a, b, c
  <2>1. c # None /\ allows(Level(a, c), rq, b # None)
    BY <2>0 DEF allows, handled_op
  <2>2. container = c
    BY <1>4, <1>c, <2>1 DEF PlainNames
  <2> QED
    BY <1>0, <1>4, <1>b, <2>1, <2>2 DEF authenticate, verify_anonymous
<1> QED
  BY <1>0, <1>1, <1>2, <1>3, <1>4

RightfulInv ==
    /\ pc \in {"resolve", "auth"} /\ always => Covers(rq, Meant(rq))
    /\ RightfulIsServed

LEMMA RightfulInvInductive ==
    ASSUME PlainNames
    PROVE  RouteInv /\ RightfulInv /\ [Next]_vars => RightfulInv'
<1> SUFFICES ASSUME RouteInv, RightfulInv, [Next]_vars PROVE RightfulInv'
  OBVIOUS
<1> USE DEF RightfulInv, RightfulIsServed
<1>s. ASSUME UNCHANGED <<acl, now, rq>> PROVE Covers(rq, Meant(rq))' <=> Covers(rq, Meant(rq))
  BY <1>s DEF Covers, Level
<1>1. CASE arrive
  <2>1. pc' = "resolve" /\ acl' = acl /\ now' = now /\ always' = Covers(rq', Meant(rq'))
    BY <1>1 DEF arrive
  <2>2. Covers(rq, Meant(rq))' <=> Covers(rq', Meant(rq'))
    BY <2>1 DEF Covers, Level
  <2> QED
    BY <2>1, <2>2
<1>2. CASE account_resolve_middleware
  <2>1. pc = "resolve" /\ pc' = "auth" /\ UNCHANGED <<acl, now, rq, always>>
    BY <1>2 DEF account_resolve_middleware
  <2> QED
    BY <1>s, <2>1
<1>3. CASE auth_middleware
  <2>1. pc = "auth" /\ pc' \in {"handler", "denied"} /\ UNCHANGED <<acl, now, rq, path, always>>
    BY <1>3 DEF auth_middleware
  <2>2. ASSUME pc' = "denied", ~Ambiguous(rq)', ~failed', always,
               rq.sas # None => ~StrayList(rq, Meant(rq))
        PROVE  FALSE
    <3>1. ~Ambiguous(rq)
      BY <2>1, <2>2 DEF Ambiguous
    <3>2. ~failed /\ ~(path # <<>> /\ account \in Accounts /\ authenticate)
      BY <1>3, <2>2 DEF auth_middleware
    <3>3. rq \in Clients /\ path = Written(rq)
      BY <2>1, <3>1, <3>2 DEF RouteInv, After
    <3>4. Covers(rq, Meant(rq))
      BY <2>1, <2>2
    <3> QED
      BY <2>2, <3>2, <3>3, <3>4, CoveredIsAuthentic
  <2> QED
    BY <2>1, <2>2
<1>4. CASE run_handler
  BY <1>4 DEF run_handler
<1>5. CASE \/ \E c \in Containers, level \in Levels : set_level(c, level)
           \/ Tick
  <2>1. UNCHANGED <<rq, pc, failed>> /\ Remember
    BY <1>5 DEF set_level, Tick
  <2>2. (Ambiguous(rq)' <=> Ambiguous(rq)) /\ (always' => always)
    BY <2>1 DEF Ambiguous, Remember
  <2>3. pc \in {"resolve", "auth"} => rq # None
    BY DEF RouteInv
  <2>4. pc \in {"resolve", "auth"} /\ always' => Covers(rq, Meant(rq))'
    BY <2>1, <2>3 DEF Remember
  <2> QED
    BY <2>1, <2>2, <2>4
<1>6. CASE UNCHANGED vars
  <2>1. UNCHANGED <<acl, now, rq, pc, failed, always>>
    BY <1>6 DEF vars
  <2>2. Ambiguous(rq)' <=> Ambiguous(rq)
    BY <2>1 DEF Ambiguous
  <2> QED
    BY <1>s, <2>1, <2>2
<1> QED
  BY <1>1, <1>2, <1>3, <1>4, <1>5, <1>6 DEF Next

(* Where container names, and the names of blobs that a blob SAS is made    *)
(* for, need no escapes: a request that is not ambiguous and whose          *)
(* credential is good all the time is never denied, unless a query failed   *)
(* or a SAS request has a comp=list that lists nothing.                     *)
(* The README's "will work the same way it would against real Azure".  For  *)
(* a blob SAS whose blob needs escapes the escaped_sas run shows the        *)
(* opposite.                                                                *)
THEOREM RightfulRequestsAreServed ==
    ASSUME PlainNames
    PROVE  Spec => []RightfulIsServed
<1>1. Init => RightfulInv
  BY DEF Init, RightfulInv, RightfulIsServed
<1>2. RightfulInv => RightfulIsServed
  BY DEF RightfulInv
<1> QED
  BY <1>1, <1>2, RightfulInvInductive, RouteInvInvariant, PTL DEF Spec
===============================================================================
