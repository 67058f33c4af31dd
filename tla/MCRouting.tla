----------------------------- MODULE MCRouting -----------------------------
(* Two dongles and two routers on at most three addresses.  The ZTE device *)
(* is left alone; MCZteSession is about it.                                *)
EXTENDS Netdev

CONSTANTS d1, d2, r1, r2, a1, a2, a3

\* Names of dongles and of addresses are interchangeable: the runs start with
\* one state out of those that differ by their names alone.  The second router
\* starts with the third address, which the first may share.
MCInit ==
    /\ R!Init
    /\ order = <<d1, d2>>
    /\ addr[d1] = a1 /\ addr[d2] # a3
    /\ addr[d2] = a1 => addr[r1] # a3
    /\ addr[r2] = a3
    /\ Init /\ firmware = "MF833"

MCNext == R!Next /\ UNCHANGED vars

MCSpec == MCInit /\ [][MCNext]_<<vars, R!vars>> /\ R!Fairness

=============================================================================
