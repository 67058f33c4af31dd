------------------------------ MODULE Routing ------------------------------
(***************************************************************************)
(* Policy routing of the net-mode modems (modems/netdev.py): USB dongles,  *)
(* which discovery finds, and LAN routers, which are registered by hand.   *)
(* Each has a source address on its interface, a routing table of its own, *)
(* and a rule that sends what comes from the address to the table.         *)
(*                                                                         *)
(* A dongle's table goes by its position in the list of the interfaces, a  *)
(* router's is the next one that is free, and is kept.  The kernel's       *)
(* tables and rules outlive the modems they were made for.                 *)
(*                                                                         *)
(* Every `ip` command and every transaction is a step.  Timers run         *)
(* discover (the pinger, and the health check when a proxy has failed);    *)
(* Threads are web threads and CLI runs that apply a port or register a    *)
(* router.  A modem is its interface: net-<iface> is its key.  Netdev      *)
(* states what is assumed of the constants.                                *)
(***************************************************************************)
EXTENDS Integers, FiniteSets, Sequences, SequencesExt

CONSTANTS Dongles,    \* USB dongles
          Routers,    \* LAN routers
          Addrs,      \* local addresses; two modems may have the same
          Timers,     \* processes that run discover
          Threads,    \* processes that apply a port, register a router
          MaxChanges, \* bound: changes of the environment and requests
          Hazards     \* which of "overlap", "kill", "late dongle", "again" may happen

VARIABLES
    order,   \* the dongles that are plugged in, as the kernel lists them
    addr,    \* modem -> the address its interface has
    rules,   \* address -> tables of its rules, as the kernel tries them
    route,   \* table -> interface of its default route
    row,     \* modem -> address and table of its row
    calls,     \* what a process is in the middle of
    changes  \* changes left

vars == <<order, addr, rules, route, row, calls, changes>>

Modems == Dongles \cup Routers

Processes == Timers \cup Threads

\* Table n stands for ROUTE_TABLE_BASE + n.
Tables == 0 .. Cardinality(Modems)

Row == [addr : Addrs \cup {"none"}, table : Tables \cup {-1}]

NoRow == [addr |-> "none", table |-> -1]

\* list, at: the dongles and addresses that list_netdevs found, and how many are
\* done; todo: the routers, with their tables, that are left.  m, from, table:
\* the arguments of setup_routing.  save: the row is written after it.
Job == [pc : {"idle", "flush", "add", "unrule", "rule", "save", "dongles", "routers"},
        m : Modems \cup {"none"}, from : Addrs \cup {"none"}, table : Tables \cup {-1},
        save : BOOLEAN, loop : {"idle", "dongles", "routers"},
        list : Seq(Dongles \X Addrs), at : 0 .. Cardinality(Dongles),
        todo : SUBSET (Routers \X Tables)]

Idle == [pc |-> "idle", m |-> "none", from |-> "none", table |-> -1, save |-> FALSE,
         loop |-> "idle", list |-> <<>>, at |-> 0, todo |-> {}]

TypeOK ==
    /\ IsInjective(order) /\ Range(order) \subseteq Dongles
    /\ addr \in [Modems -> Addrs \cup {"none"}]
    /\ \A d \in Dongles : addr[d] = "none" <=> d \notin Range(order)
    /\ rules \in [Addrs -> Seq(Tables)]
    /\ \A a \in Addrs : Len(rules[a]) <= Cardinality(Processes)
    /\ route \in [Tables -> Modems \cup {"none"}]
    /\ row \in [Modems -> Row]
    /\ calls \in [Processes -> Job]
    /\ changes \in 0 .. MaxChanges

\* A server that has just been installed, with everything plugged in.
Init ==
    /\ order \in SetToSeqs(Dongles)
    /\ addr \in [Modems -> Addrs]
    /\ rules = [a \in Addrs |-> <<>>]
    /\ route = [t \in Tables |-> "none"]
    /\ row = [m \in Modems |-> NoRow]
    /\ calls = [p \in Processes |-> Idle]
    /\ changes = MaxChanges

-----------------------------------------------------------------------------
(* Helpers *)

At(p, pc) == calls[p].pc = pc

Set(p, j) == calls' = [calls EXCEPT ![p] = j]

MayBegin(p) ==
    At(p, "idle") /\ ("overlap" \notin Hazards => \A q \in Processes : At(q, "idle"))

Known(m) == row[m] # NoRow

\* p registers a router that has a row, and a table, already.
Renews(p) == calls[p].loop = "idle" /\ calls[p].save /\ Known(calls[p].m)

Kernel == <<rules, route>>

\* setup_routing is called, within the loop that j is in.
SetupRouting(j, m, from, table, save) ==
    [j EXCEPT !.pc = "flush", !.m = m, !.from = from, !.table = table, !.save = save]

\* It is over; the loop goes on, if there is one.
Returned(j) ==
    [j EXCEPT !.pc = j.loop, !.m = "none", !.from = "none", !.table = -1, !.save = FALSE]

\* Mutant: the tables of the dongles are not looked at.
NextTableOfRouters ==
    LET used == {row[m].table : m \in Routers}
    IN  CHOOSE t \in Tables \ used : \A u \in Tables \ used : t <= u

\* _next_table: the first that no row has.
NextTable ==
    LET used == {row[m].table : m \in Modems}
    IN  CHOOSE t \in Tables \ used : \A u \in Tables \ used : t <= u

-----------------------------------------------------------------------------
(* setup_routing; the return codes are ignored *)

\* Mutant: routes are added without a flush.
FlushTableNot(p) ==
    /\ At(p, "flush")
    /\ Set(p, [calls[p] EXCEPT !.pc = "add"])
    /\ UNCHANGED <<order, addr, rules, route, row, changes>>

FlushTable(p) ==
    /\ At(p, "flush")
    /\ route' = [route EXCEPT ![calls[p].table] = "none"]
    /\ Set(p, [calls[p] EXCEPT !.pc = "add"])
    /\ UNCHANGED <<order, addr, rules, row, changes>>

\* Refused if the table has a default route already, or the interface no address;
\* with another address, it depends on whether the two share a subnet.  The route
\* to the modem's own subnet, added before it, is not modelled.
AddRoute(p) ==
    LET j == calls[p] IN
    /\ At(p, "add")
    /\ \/ /\ route[j.table] = "none" /\ addr[j.m] # "none"
          /\ route' = [route EXCEPT ![j.table] = j.m]
       \/ /\ route[j.table] # "none" \/ addr[j.m] # j.from
          /\ route' = route
    /\ Set(p, [j EXCEPT !.pc = "unrule"])
    /\ UNCHANGED <<order, addr, rules, row, changes>>

\* The kernel drops the first rule that matches.
DelRule(p) ==
    LET from == calls[p].from IN
    /\ At(p, "unrule")
    /\ rules' = IF rules[from] = <<>> THEN rules ELSE [rules EXCEPT ![from] = Tail(@)]
    /\ Set(p, [calls[p] EXCEPT !.pc = "rule"])
    /\ UNCHANGED <<order, addr, route, row, changes>>

\* With no priority given, a new rule comes before the others, alike or not.
AddRule(p) ==
    LET j == calls[p] IN
    /\ At(p, "rule")
    /\ rules' = [rules EXCEPT ![j.from] = <<j.table>> \o @]
    /\ Set(p, IF j.save THEN [j EXCEPT !.pc = "save"] ELSE Returned(j))
    /\ UNCHANGED <<order, addr, route, row, changes>>

-----------------------------------------------------------------------------
(* discover and _refresh_dev *)

\* Without "again", no router is registered again during a discovery.
Discover(p) ==
    /\ p \in Timers
    /\ MayBegin(p)
    /\ "again" \notin Hazards => \A q \in Threads : ~Renews(q)
    /\ Set(p, [Idle EXCEPT !.pc = "dongles", !.loop = "dongles",
                           !.list = [i \in DOMAIN order |-> <<order[i], addr[order[i]]>>]])
    /\ UNCHANGED <<order, addr, Kernel, row, changes>>

\* Mutant: every dongle gets the first table.
RefreshDongleFirst(p) ==
    LET j == calls[p]
        next == j.list[j.at + 1]
    IN  /\ At(p, "dongles")
        /\ j.at < Len(j.list)
        /\ Set(p, SetupRouting([j EXCEPT !.at = @ + 1], next[1], next[2], 0, TRUE))
        /\ UNCHANGED <<order, addr, Kernel, row, changes>>

RefreshDongle(p) ==
    LET j == calls[p]
        next == j.list[j.at + 1]
    IN  /\ At(p, "dongles")
        /\ j.at < Len(j.list)
        /\ Set(p, SetupRouting([j EXCEPT !.at = @ + 1], next[1], next[2], j.at, TRUE))
        /\ UNCHANGED <<order, addr, Kernel, row, changes>>

\* db.list_modems: the routers on record, with the tables they have.
ListRouters(p) ==
    LET j == calls[p] IN
    /\ At(p, "dongles")
    /\ j.at = Len(j.list)
    /\ Set(p, [Idle EXCEPT !.pc = "routers", !.loop = "routers",
                           !.todo = {<<m, row[m].table>> : m \in {r \in Routers : Known(r)}}])
    /\ UNCHANGED <<order, addr, Kernel, row, changes>>

\* In any order of their names; one without an address is only marked offline.
RefreshRouter(p, m, table) ==
    LET j == [calls[p] EXCEPT !.todo = @ \ {<<m, table>>}] IN
    /\ At(p, "routers")
    /\ <<m, table>> \in calls[p].todo
    /\ Set(p, IF addr[m] = "none" THEN j ELSE SetupRouting(j, m, addr[m], table, TRUE))
    /\ UNCHANGED <<order, addr, Kernel, row, changes>>

EndDiscover(p) ==
    /\ At(p, "routers")
    /\ calls[p].todo = {}
    /\ Set(p, Idle)
    /\ UNCHANGED <<order, addr, Kernel, row, changes>>

\* The row is written when the modem has been asked for its status.
SaveRow(p) ==
    LET j == calls[p] IN
    /\ At(p, "save")
    /\ row' = [row EXCEPT ![j.m] = [addr |-> j.from, table |-> j.table]]
    /\ Set(p, Returned(j))
    /\ UNCHANGED <<order, addr, Kernel, changes>>

-----------------------------------------------------------------------------
(* apply_port and register_manual *)

Asked(p) ==
    /\ p \in Threads
    /\ MayBegin(p)
    /\ changes > 0
    /\ changes' = changes - 1
    /\ UNCHANGED <<order, addr, Kernel, row>>

\* apply_port sets the routing up as the row says, of a modem that has one.
ApplyPort(p, m) ==
    /\ Asked(p)
    /\ Known(m)
    /\ Set(p, SetupRouting(Idle, m, row[m].addr, row[m].table, FALSE))

\* Without "late dongle", the dongles have been found before, each at a place of
\* its own.
RegisterManual(p, m) ==
    /\ Asked(p)
    /\ addr[m] # "none"
    /\ "late dongle" \notin Hazards =>
          {row[d].table : d \in Dongles} = 0 .. Cardinality(Dongles) - 1
    /\ "again" \notin Hazards /\ Known(m) => \A q \in Timers : At(q, "idle")
    /\ Set(p, SetupRouting(Idle, m, addr[m], NextTable, TRUE))

-----------------------------------------------------------------------------
(* The environment *)

\* A dongle is plugged in, as the last interface; a router's link comes up.
Plug(m, a) ==
    /\ addr[m] = "none"
    /\ changes > 0
    /\ changes' = changes - 1
    /\ addr' = [addr EXCEPT ![m] = a]
    /\ order' = IF m \in Dongles THEN Append(order, m) ELSE order
    /\ UNCHANGED <<Kernel, row, calls>>

\* The kernel drops the routes through an interface that goes; rules stay.
Unplug(m) ==
    /\ addr[m] # "none"
    /\ changes > 0
    /\ changes' = changes - 1
    /\ addr' = [addr EXCEPT ![m] = "none"]
    /\ \/ m \in Routers /\ order' = order
       \/ \E i \in DOMAIN order : order[i] = m /\ order' = RemoveAt(order, i)
    /\ route' = [t \in Tables |-> IF route[t] = m THEN "none" ELSE route[t]]
    /\ UNCHANGED <<rules, row, calls>>

Kill(p) ==
    /\ "kill" \in Hazards
    /\ ~ At(p, "idle")
    /\ changes > 0
    /\ changes' = changes - 1
    /\ Set(p, Idle)
    /\ UNCHANGED <<order, addr, Kernel, row>>

-----------------------------------------------------------------------------
Continue(p) ==
    \/ FlushTable(p) \/ AddRoute(p) \/ DelRule(p) \/ AddRule(p) \/ SaveRow(p)
    \/ RefreshDongle(p) \/ ListRouters(p) \/ EndDiscover(p)
    \/ \E m \in Routers, table \in Tables : RefreshRouter(p, m, table)

Next ==
    \/ \E p \in Processes :
        \/ Discover(p) \/ Continue(p) \/ Kill(p)
        \/ \E m \in Modems : ApplyPort(p, m)
        \/ \E m \in Routers : RegisterManual(p, m)
    \/ \E m \in Modems, a \in Addrs : Plug(m, a)
    \/ \E m \in Modems : Unplug(m)

Spec == Init /\ [][Next]_vars

\* What has begun goes on, unless it is killed, and the timers keep firing.
Fairness == \A p \in Processes : WF_vars(Continue(p)) /\ SF_vars(Discover(p))

FairSpec == Spec /\ Fairness

-----------------------------------------------------------------------------
(* Properties *)

\* Where the kernel sends what comes from an address: by the first rule whose
\* table has a route, and else wherever the server's own traffic goes.
Egress(a) ==
    LET hits == SelectSeq(rules[a], LAMBDA t : route[t] # "none")
    IN  IF hits = <<>> THEN "none" ELSE route[Head(hits)]

\* There, on record, and with an address that no other modem has.
Served(m) ==
    /\ addr[m] # "none" /\ Known(m)
    /\ \A n \in Modems \ {m} : addr[n] # addr[m]

Quiet == \A p \in Processes : At(p, "idle")

\* "Several dongles on the same 192.168.0.0/24 still egress out the right
\* interface" (README.md:72-74): however modems came, went and changed places
\* and addresses, and whatever was applied from a row that had grown old, in the
\* end each modem's traffic leaves through the modem.
RoutesSettle ==
    <>[](Quiet => \A m \in Modems : Served(m) => Egress(addr[m]) = m)

\* Routers that were registered, one at a time, when all dongles were known have
\* tables of their own, and no position in the list of the dongles will ever give
\* one of them to a dongle (_next_table looks at every row).  Needs that none is
\* registered again during a discovery, which would write its old table back when
\* another router may have got it.
RoutersApart ==
    \A r \in Routers : Known(r) =>
        /\ row[r].table >= Cardinality(Dongles)
        /\ \A q \in Routers \ {r} : row[q].table # row[r].table

=============================================================================
