--------------------------- MODULE PortAllocation ---------------------------
(***************************************************************************)
(* Port allocation of proxy/generator.py over the modems and ports tables  *)
(* of db.py.                                                               *)
(*                                                                         *)
(* allocate_port is not one transaction: it reads the modem's own row,     *)
(* then the list of modems, then the row of every other modem, then the    *)
(* list once more for the index, and only then writes.  Every one of these *)
(* accesses is a transaction of its own (`with db()`), hence an action of  *)
(* its own here.  Procs are the operating-system processes and threads     *)
(* that may run it: the web service's worker threads, the command line,    *)
(* the quota timer (which unlocks through start_proxy).                    *)
(*                                                                         *)
(* A modem is represented by the rank of its IMEI in the lexicographic     *)
(* order, which is all that sorted() in _modem_index needs.  Port 0 is     *)
(* SQL NULL: no row, or a row that was inserted without ports.             *)
(***************************************************************************)
EXTENDS Integers, FiniteSets

CONSTANTS Modems,     \* the modems that may be plugged in, as IMEI ranks
          Procs,      \* processes and threads that allocate and purge
          HttpBase,   \* config http_port_base; also the pool's HTTP port
          SocksBase   \* config socks_port_base; also the pool's SOCKS port

N == Cardinality(Modems)

ASSUME ModemsAssumption == Modems \subseteq Nat /\ IsFiniteSet(Modems)

\* The defaults, 8000 and 9000, leave room for 500 modems.
ASSUME BasesAssumption ==
    /\ HttpBase \in Nat \ {0}
    /\ SocksBase \in Nat
    /\ SocksBase >= HttpBase + 2 * N

VARIABLES
    known,      \* rows of the modems table (never deleted by the code)
    ports,      \* the ports table: modem -> its two ports
    pc,         \* process -> the next access of its allocate_port
    target,     \* process -> the imei argument
    todo,       \* process -> modems whose row the loop has still to read
    usedHttp,   \* process -> used_http
    usedSocks,  \* process -> used_socks
    pick        \* process -> the local http_port and socks_port

vars == <<known, ports, pc, target, todo, usedHttp, usedSocks, pick>>
NoModem == -1
NoPorts == [http |-> 0, socks |-> 0]

PortPair == [http : Nat, socks : Nat]

\* The collected ports are real ports, never a NULL.
TypeOK ==
    /\ known \in SUBSET Modems
    /\ ports \in [Modems -> PortPair]
    /\ pc \in [Procs -> {"idle", "list", "scan", "write"}]
    /\ target \in [Procs -> Modems \cup {NoModem}]
    /\ todo \in [Procs -> SUBSET Modems]
    /\ usedHttp \in [Procs -> SUBSET (Nat \ {0})]
    /\ usedSocks \in [Procs -> SUBSET (Nat \ {0})]
    /\ pick \in [Procs -> PortPair]

Init ==
    /\ known = {}
    /\ ports = [m \in Modems |-> NoPorts]
    /\ pc = [p \in Procs |-> "idle"]
    /\ target = [p \in Procs |-> NoModem]
    /\ todo = [p \in Procs |-> {}]
    /\ usedHttp = [p \in Procs |-> {}]
    /\ usedSocks = [p \in Procs |-> {}]
    /\ pick = [p \in Procs |-> NoPorts]

-----------------------------------------------------------------------------
(* Helpers of allocate_port *)

\* Mutant: the index forgets its `+ 1`.
ModemIndexFromZero(m) == Cardinality({n \in known : n <= m}) - 1

\* _modem_index: the 1-based position of the IMEI among the sorted ones.
ModemIndex(m) == Cardinality({n \in known : n <= m})

\* Mutant: the positional port is taken without looking at the taken ones.
FirstFreeUnchecked(start, used) == start

\* Mutant: the port after all the used ones, which never fills a gap.
FirstFreeAfterAll(start, used) ==
    1 + CHOOSE port \in used \cup {start - 1} :
            \A q \in used \cup {start - 1} : q <= port

\* The `while h in used: h += 1` loop: the least port from start upwards that
\* is not used.  |used| steps are enough to leave a finite set.
FirstFree(start, used) ==
    CHOOSE port \in start .. start + Cardinality(used) :
        /\ port \notin used
        /\ \A q \in start .. port - 1 : q \in used

HasPorts(row) == row.http # 0 /\ row.socks # 0

-----------------------------------------------------------------------------
(* One action per database access *)

\* Mutant: an existing row's ports are not reused.
GetExistingForgets(p, m) ==
    /\ pc[p] = "idle"
    /\ m \in known
    /\ target' = [target EXCEPT ![p] = m]
    /\ pick' = [pick EXCEPT ![p] = NoPorts]
    /\ pc' = [pc EXCEPT ![p] = "list"]
    /\ UNCHANGED <<known, ports, todo, usedHttp, usedSocks>>

\* existing = db.get_port(imei).  For an IMEI that is not in the modems table
\* the later set_port fails on the foreign key and changes nothing.
GetExisting(p, m) ==
    /\ pc[p] = "idle"
    /\ m \in known
    /\ target' = [target EXCEPT ![p] = m]
    /\ pick' = [pick EXCEPT ![p] = ports[m]]
    /\ pc' = [pc EXCEPT ![p] = IF HasPorts(ports[m]) THEN "write" ELSE "list"]
    /\ UNCHANGED <<known, ports, todo, usedHttp, usedSocks>>

\* for m in db.list_modems(): one snapshot for the whole loop.
ListModems(p) ==
    /\ pc[p] = "list"
    /\ todo' = [todo EXCEPT ![p] = known \ {target[p]}]
    /\ pc' = [pc EXCEPT ![p] = "scan"]
    /\ UNCHANGED <<known, ports, target, usedHttp, usedSocks, pick>>

\* Mutant: the SOCKS port of the other modem is not collected.
ReadTakenHttpOnly(p, n) ==
    /\ pc[p] = "scan"
    /\ n \in todo[p]
    /\ todo' = [todo EXCEPT ![p] = @ \ {n}]
    /\ usedHttp' = [usedHttp EXCEPT ![p] = @ \cup ({ports[n].http} \ {0})]
    /\ UNCHANGED <<known, ports, pc, target, usedSocks, pick>>

\* Mutant: the `if p and p.get("http_port")` guard is missing.
ReadTakenUnguarded(p, n) ==
    /\ pc[p] = "scan"
    /\ n \in todo[p]
    /\ todo' = [todo EXCEPT ![p] = @ \ {n}]
    /\ usedHttp' = [usedHttp EXCEPT ![p] = @ \cup {ports[n].http}]
    /\ usedSocks' = [usedSocks EXCEPT ![p] = @ \cup {ports[n].socks}]
    /\ UNCHANGED <<known, ports, pc, target, pick>>

\* db.get_port of one other modem.  The list is ordered by display name, which
\* says nothing about the IMEI order: any order.
ReadTaken(p, n) ==
    /\ pc[p] = "scan"
    /\ n \in todo[p]
    /\ todo' = [todo EXCEPT ![p] = @ \ {n}]
    /\ usedHttp' = [usedHttp EXCEPT ![p] = @ \cup ({ports[n].http} \ {0})]
    /\ usedSocks' = [usedSocks EXCEPT ![p] = @ \cup ({ports[n].socks} \ {0})]
    /\ UNCHANGED <<known, ports, pc, target, pick>>

\* idx = _modem_index(imei) and the two searches.  A port that the row already
\* had is kept: `http_port or h`.
PickPorts(p) ==
    LET idx == ModemIndex(target[p])
        h == FirstFree(HttpBase + idx, usedHttp[p])
        s == FirstFree(SocksBase + idx, usedSocks[p])
    IN  /\ pc[p] = "scan"
        /\ todo[p] = {}
        /\ pick' = [pick EXCEPT ![p] =
                [http  |-> IF @.http = 0 THEN h ELSE @.http,
                 socks |-> IF @.socks = 0 THEN s ELSE @.socks]]
        /\ pc' = [pc EXCEPT ![p] = "write"]
        /\ UNCHANGED <<known, ports, target, todo, usedHttp, usedSocks>>

\* db.set_port(imei, http_port=..., socks_port=..., ...): an upsert.
SetPort(p) ==
    /\ pc[p] = "write"
    /\ ports' = [ports EXCEPT ![target[p]] = pick[p]]
    /\ pc' = [pc EXCEPT ![p] = "idle"]
    /\ target' = [target EXCEPT ![p] = NoModem]
    /\ usedHttp' = [usedHttp EXCEPT ![p] = {}]
    /\ usedSocks' = [usedSocks EXCEPT ![p] = {}]
    /\ pick' = [pick EXCEPT ![p] = NoPorts]
    /\ UNCHANGED <<known, todo>>

\* purge_port: db.delete_port(imei).
PurgePort(p, m) ==
    /\ pc[p] = "idle"
    /\ ports' = [ports EXCEPT ![m] = NoPorts]
    /\ UNCHANGED <<known, pc, target, todo, usedHttp, usedSocks, pick>>

\* discover: a modem is seen for the first time and upserted.
Discover(p, m) ==
    /\ pc[p] = "idle"
    /\ m \notin known
    /\ known' = known \cup {m}
    /\ UNCHANGED <<ports, pc, target, todo, usedHttp, usedSocks, pick>>

Step(p) ==
    \/ \E m \in Modems : GetExisting(p, m)
    \/ ListModems(p)
    \/ \E n \in Modems : ReadTaken(p, n)
    \/ PickPorts(p)
    \/ SetPort(p)
    \/ \E m \in Modems : PurgePort(p, m)
    \/ \E m \in Modems : Discover(p, m)

Next == \E p \in Procs : Step(p)

Spec == Init /\ [][Next]_vars

-----------------------------------------------------------------------------
(* Properties *)

\* Two modems never listen on the same port.  "Ports already handed to OTHER
\* modems ... skip taken ports" (generator.py:53).  IMEI indices shift when a
\* modem with a smaller IMEI is discovered, and purged ports are reused.
DistinctPorts ==
    \A m, n \in Modems :
        m # n /\ ports[m] # NoPorts =>
            /\ ports[m].http # ports[n].http
            /\ ports[m].socks # ports[n].socks

\* The HTTP and the SOCKS search run in step: a modem's two ports have the
\* same offset from their bases, so "modem N" means the same modem on both.
PortsInStep ==
    \A m \in Modems :
        ports[m] # NoPorts =>
            ports[m].http - HttpBase = ports[m].socks - SocksBase

\* No modem is ever given the port of the rotating pool (the bases), and no
\* HTTP port is another modem's SOCKS port: allocation drifts past
\* base + index when indices shift, but never further than base + 2N - 1.
ListenersDisjoint ==
    \A m, n \in Modems :
        ports[m] # NoPorts =>
            /\ ports[m].http \notin {HttpBase, SocksBase, ports[n].socks}
            /\ ports[m].socks \notin {HttpBase, SocksBase, ports[n].http}

\* A proxy keeps its ports until it is purged: refreshing it, or other modems
\* coming and going, never moves it (clients have the port in their config).
PortsStable ==
    [][\A m \in Modems :
          ports[m] # NoPorts => ports'[m] \in {ports[m], NoPorts}]_vars

\* To its callers the table changes as if every operation were one step: a modem
\* gets a free pair when it has none, and keeps it until the purge, although the
\* ports were chosen from reads made one by one before.  Needs Serial.
\* The offsets leave room for every index, drifted past all the others' ports.
Table == INSTANCE PortTable WITH Offsets <- 1 .. 2 * N - 1

ImplementsTable == Table!Spec

-----------------------------------------------------------------------------
(* Inductive invariants (proved in PortAllocationProofs) *)

Gap == SocksBase - HttpBase

\* A row holds no ports, or two ports in step within the range of the bases.
GoodRow(row) ==
    \/ row = NoPorts
    \/ /\ row.http \in HttpBase + 1 .. HttpBase + 2 * N - 1
       /\ row.socks = row.http + Gap

\* Of one process: the two collected sets are in step, and at most one port
\* per other modem is collected, which bounds the search of FirstFree.
GoodScan(p) ==
    /\ usedSocks[p] = {h + Gap : h \in usedHttp[p]}
    /\ IsFiniteSet(usedHttp[p])
    /\ pc[p] \in {"idle", "list"} => usedHttp[p] = {}
    /\ pc[p] # "idle" => target[p] \in known
    /\ pc[p] = "scan" =>
          /\ todo[p] \subseteq Modems \ {target[p]}
          /\ Cardinality(usedHttp[p]) + Cardinality(todo[p]) <= N - 1

\* Inductive for any number of processes.
RangeInv ==
    /\ \A m \in Modems : GoodRow(ports[m])
    /\ \A p \in Procs : GoodRow(pick[p]) /\ GoodScan(p)

\* What one process knows of the ports table, as long as no other writes it.
ScanSound(p) ==
    /\ pc[p] \in {"list", "scan"} => pick[p] = NoPorts /\ ports[target[p]] = NoPorts
    /\ pc[p] = "scan" =>
          \A n \in Modems \ {target[p]} :
              ports[n] # NoPorts =>
                  n \in todo[p] \/ ports[n].http \in usedHttp[p]
    /\ pc[p] = "write" =>
          /\ pick[p] # NoPorts
          /\ ports[target[p]] \in {NoPorts, pick[p]}
          /\ \A n \in Modems \ {target[p]} : ports[n].http # pick[p].http

\* Inductive with a single process.
SerialInv ==
    /\ TypeOK
    /\ RangeInv
    /\ DistinctPorts
    /\ \A m \in Modems : ports[m] # NoPorts => m \in known
    /\ \A p \in Procs : ScanSound(p)

=============================================================================
