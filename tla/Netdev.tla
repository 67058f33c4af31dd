------------------------------- MODULE Netdev -------------------------------
(***************************************************************************)
(* The two stateful halves of modems/netdev.py, which share no state: the  *)
(* session with a ZTE device (ZteSession) and the routing of the net-mode  *)
(* modems (Routing).  What is assumed of Routing's constants stands here.  *)
(***************************************************************************)
EXTENDS ZteSession, FiniteSets

CONSTANTS Dongles, Routers, Addrs, Timers, Threads, MaxChanges, Hazards

ASSUME ModemsAssumption ==
    /\ IsFiniteSet(Dongles) /\ IsFiniteSet(Routers) /\ Dongles \cap Routers = {}
    /\ "none" \notin Dongles \cup Routers \cup Addrs

ASSUME RoutingBounds == MaxChanges \in Nat /\ Timers \cap Threads = {}

ASSUME RoutingHazards == Hazards \subseteq {"overlap", "kill", "late dongle", "again"}

VARIABLES order, addr, rules, route, row, calls, changes

R == INSTANCE Routing

\* Routers that were registered have tables of their own (Routing).
RoutersApart == R!RoutersApart

\* In the end each modem's traffic leaves through the modem (Routing).
RoutesSettle == R!RoutesSettle

=============================================================================
