------------------------------ MODULE PortTable ------------------------------
(***************************************************************************)
(* What the port allocation promises to its callers: a table in which a    *)
(* modem has no ports or two that are nobody else's, and where every       *)
(* operation is one step.  PortAllocation, with its many reads and one     *)
(* write, implements it (PortAllocation!ImplementsTable).                  *)
(***************************************************************************)
EXTENDS Integers

CONSTANTS Modems, HttpBase, SocksBase,
          Offsets   \* from the bases: what the ports of a modem may be

VARIABLES known, ports

NoPorts == [http |-> 0, socks |-> 0]

Init ==
    /\ known = {}
    /\ ports = [m \in Modems |-> NoPorts]

Discover(m) ==
    /\ known' = known \cup {m}
    /\ UNCHANGED ports

\* A modem without ports gets the two at one offset, if no other modem has
\* either; which offset is not promised.
Assign(m) ==
    /\ m \in known
    /\ ports[m] = NoPorts
    /\ \E offset \in Offsets :
          /\ \A n \in Modems : /\ ports[n].http # HttpBase + offset
                               /\ ports[n].socks # SocksBase + offset
          /\ ports' = [ports EXCEPT ![m] = [http |-> HttpBase + offset,
                                            socks |-> SocksBase + offset]]
    /\ UNCHANGED known

Release(m) ==
    /\ ports' = [ports EXCEPT ![m] = NoPorts]
    /\ UNCHANGED known

Next == \E m \in Modems : Discover(m) \/ Assign(m) \/ Release(m)

Spec == Init /\ [][Next]_<<known, ports>>

=============================================================================
