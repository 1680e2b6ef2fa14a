------------------------------ MODULE MCAccess --------------------------------
(* Two accounts; k is a container; x and y are blobs, of which y needs        *)
(* escapes and yEsc is its escaped form, a name of its own as well.  Blobs   *)
(* and containers may share names; a2 is also the name of a container of a1. *)
EXTENDS Access, TLC

CONSTANTS a1, a2, k, x, y, yEsc, yEsc2

MCEscape == [n \in {a1, a2, k, x} |-> n] @@ (y :> yEsc) @@ (yEsc :> yEsc2)

(* Every signer, over what it asks; one request that was changed since.       *)
Headers ==
    {[kind |-> "none"]}
    \cup [kind : {"bearer"}, valid : BOOLEAN]
    \cup [kind : {"shared"}, name : Accounts, key : Accounts \X {1, 2}, intact : {TRUE}]
    \cup [kind : {"shared"}, name : {a1}, key : {<<a1, 1>>}, intact : {FALSE}]

(* Each account's owner, and anyone.                                         *)
Rightful == {h \in Headers : h.kind = "none" \/ (h.kind = "shared" /\ h.key = <<h.name, 1>>)}

Windows == {<<None, None>>, <<1, 1>>, <<None, 2>>}

Sas(key, b, sr, sp, w, intact) ==
    [key |-> key, container |-> k, blob |-> b, sr |-> sr, sp |-> sp,
     st |-> w[1], se |-> w[2], intact |-> intact]

Tokens(blobs) ==
    {Sas(key, t[1], t[2], sp, w, TRUE) :
        key \in {<<a1, 1>>, <<a1, 2>>, <<a2, 2>>},
        t \in (blobs \X {"b"}) \cup {<<None, "c">>},
        sp \in {{"r"}, {"w", "d", "l"}}, w \in Windows}
    \cup {Sas(<<a1, 1>>, x, "b", {"r"}, <<None, 2>>, FALSE),
          Sas(<<a1, 1>>, x, "bs", {"r"}, <<None, 2>>, TRUE)}

Asks(i, h, s) ==
    [account |-> i.account, container |-> i.container, blob |-> i.blob, style |-> i.style,
     host |-> i.host, method |-> i.method, list |-> i.list, header |-> h, sas |-> s]

(* A blob is in a container.                                                 *)
Intents(containers, blobs, methods) ==
    {i \in [account : Accounts, container : containers, blob : blobs, style : Styles,
            host : {None, a1, a2}, method : methods, list : BOOLEAN] :
        i.container = None => i.blob = None}

Here == {i \in Intents({None, k}, {None, x}, {"GET", "PUT", "DELETE"}) :
            i.account = a1 /\ ((i.style = "path" /\ i.host = None)
                                \/ (i.style = "host" /\ i.host = a1))}

(* Blob y, which the path spells yEsc, asked for with a token for blob yEsc. *)
Respelling == {i \in Intents({k}, {y}, {"GET", "DELETE"}) :
                  i.account = a1 /\ i.style = "path" /\ i.host = None}

(* Credentials one at a time, and both where the header should win.          *)
MCClients ==
    {Asks(i, h, None) : i \in Intents({None, k, a2, y}, {None, y}, {"GET"}), h \in Rightful}
    \cup {Asks(i, h, None) : i \in Here, h \in Headers}
    \cup {Asks(i, [kind |-> "none"], s) : i \in Here, s \in Tokens({x, k})}
    \cup {Asks(i, [kind |-> "none"], s) : i \in Respelling, s \in Tokens({yEsc})}
    \cup {Asks(i, h, Sas(<<a1, 1>>, x, "c", {"r"}, <<None, 2>>, TRUE)) : i \in Here, h \in Headers}

(* Blob SAS for the blob whose name needs escapes.                           *)
MCEscapedClients ==
    {Asks(i, [kind |-> "none"], s) : i \in Intents({k}, {y}, {"GET"}), s \in Tokens({y})}

MCContainers == {<<a1, k>>, <<a1, yEsc>>}
===============================================================================
