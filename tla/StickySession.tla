---------------------------- MODULE StickySession ----------------------------
(***************************************************************************)
(* Sticky sessions (web/app.py api_pool_sticky over the sticky table of    *)
(* db.py): a client that asks with the same key gets the same modem, as    *)
(* long as the modem is live and the binding has not expired.              *)
(*                                                                         *)
(* A request is three transactions: the list of live modems, sticky_get    *)
(* and sticky_set.  Meanwhile modems come and go, the clock moves, and     *)
(* other workers serve other requests.                                     *)
(***************************************************************************)
EXTENDS Naturals

CONSTANTS Modems, Keys,
          Workers,       \* worker threads of the web service
          NoModem,
          Ttls,          \* the ttl arguments of the requests, in ticks
          MaxNow,        \* bound on the clock
          OneAtATime     \* a client waits for an answer before it asks again

VARIABLES
    live,    \* modems that _live_proxies would list
    now,
    sticky,  \* key -> its row; imei NoModem: no row
    req,     \* worker -> the request it serves
    told     \* key -> the last answer and how long it was promised

vars == <<live, now, sticky, req, told>>

NoRow == [imei |-> NoModem, expires |-> 0]
NoRequest == [pc |-> "idle", key |-> NoModem, ttl |-> 0, pool |-> {}, imei |-> NoModem]

TypeOK ==
    /\ live \subseteq Modems
    /\ now \in 0 .. MaxNow
    /\ \A k \in Keys : {sticky[k].imei, told[k].imei} \subseteq Modems \cup {NoModem}
    /\ \A w \in Workers :
          /\ req[w].pc \in {"idle", "get", "set"}
          /\ req[w].pc # "idle" => req[w].pool # {} /\ req[w].key \in Keys
          /\ req[w].pc = "set" => req[w].imei \in req[w].pool

Init ==
    /\ live = Modems
    /\ now = 0
    /\ sticky = [k \in Keys |-> NoRow]
    /\ req = [w \in Workers |-> NoRequest]
    /\ told = [k \in Keys |-> NoRow]

-----------------------------------------------------------------------------

\* proxies = api_pool(request, operator): the live modems, or those of one
\* operator; without any the request is refused and nothing changes.
ListPool(w, k) ==
    /\ req[w].pc = "idle"
    /\ OneAtATime => \A v \in Workers : req[v].pc # "idle" => req[v].key # k
    /\ \E pool \in (SUBSET live) \ {{}}, ttl \in Ttls :
          req' = [req EXCEPT ![w] =
                     [pc |-> "get", key |-> k, ttl |-> ttl, pool |-> pool, imei |-> NoModem]]
    /\ UNCHANGED <<live, now, sticky, told>>

\* Mutant: a binding is over when its last second begins.
ExpiredEarly(row) == row.expires <= now

Expired(row) == row.expires < now

\* sticky_get, which deletes an expired row; a modem that is unset, expired or
\* not live any more is replaced by a random one.
StickyGet(w) ==
    LET k == req[w].key
        gone == Expired(sticky[k])
        bound == IF gone THEN NoModem ELSE sticky[k].imei
    IN  /\ req[w].pc = "get"
        /\ sticky' = IF gone THEN [sticky EXCEPT ![k] = NoRow] ELSE sticky
        /\ \E m \in req[w].pool :
              /\ bound \in req[w].pool => m = bound
              /\ req' = [req EXCEPT ![w].pc = "set", ![w].imei = m]
        /\ UNCHANGED <<live, now, told>>

\* sticky_set, an upsert, and the answer: every request renews the binding.
StickySet(w) ==
    LET row == [imei |-> req[w].imei, expires |-> now + req[w].ttl]
    IN  /\ req[w].pc = "set"
        /\ sticky' = [sticky EXCEPT ![req[w].key] = row]
        /\ told' = [told EXCEPT ![req[w].key] = row]
        /\ req' = [req EXCEPT ![w] = NoRequest]
        /\ UNCHANGED <<live, now>>

\* A modem goes on or off line, its proxy is enabled, disabled or locked.
Change(m) ==
    /\ live' = IF m \in live THEN live \ {m} ELSE live \cup {m}
    /\ UNCHANGED <<now, sticky, req, told>>

Tick ==
    /\ now < MaxNow
    /\ now' = now + 1
    /\ UNCHANGED <<live, sticky, req, told>>

Next ==
    \/ \E w \in Workers :
          \/ \E k \in Keys : ListPool(w, k)
          \/ StickyGet(w) \/ StickySet(w)
    \/ \E m \in Modems : Change(m)
    \/ Tick

Spec == Init /\ [][Next]_vars

\* "Return the same live proxy for a given session key within its TTL"
\* (app.py:789): an answer repeats the last one of the key if the time promised
\* with that one is not over and its modem was among those the request could
\* choose from.  Needs OneAtATime: two first requests choose two modems.
AnswerKept(w) ==
    req[w].pc = "set" /\ req'[w].pc = "idle" =>
        LET last == told[req[w].key]
        IN  last.imei \in req[w].pool /\ now <= last.expires => req[w].imei = last.imei

StickyKept == [][\A w \in Workers : AnswerKept(w)]_vars

=============================================================================
