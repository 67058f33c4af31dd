----------------------------- MODULE MCServices -----------------------------
(***************************************************************************)
(* Three components that share no state, checked in one run.  Interleaving *)
(* them would only multiply their states: a behaviour moves one of them    *)
(* while the other two are as they started.                                *)
(***************************************************************************)
EXTENDS Access

CONSTANTS Keys, Ttls, MaxNow, OneAtATime,
          Addresses, NoAddress, Samplers, ReadsFail, MaxBytes, MaxRows, MaxEvents

VARIABLES live, now, sticky, req, told,
          addr, rules, iface, carried, rows, era, moved, events, sampler

S == INSTANCE StickySession
B == INSTANCE Bandwidth

stickyVars == <<live, now, sticky, req, told>>
bandwidthVars == <<addr, rules, iface, carried, rows, era, moved, events, sampler>>

InitAll == Init /\ S!Init /\ B!Init

\* One of the initial states of Bandwidth is enough for the other two.
BandwidthIdle == B!Init /\ addr = NoAddress

NextAll ==
    \/ S!Init /\ BandwidthIdle /\ Next /\ UNCHANGED <<stickyVars, bandwidthVars>>
    \/ Init /\ BandwidthIdle /\ S!Next /\ UNCHANGED <<vars, bandwidthVars>>
    \/ Init /\ S!Init /\ B!Next /\ UNCHANGED <<vars, stickyVars>>

SpecAll == InitAll /\ [][NextAll]_<<vars, stickyVars, bandwidthVars>>

TypesOK == TypeOK /\ S!TypeOK /\ B!TypeOK

\* A client's sticky key keeps its modem (StickySession).
StickyKept == [][\A w \in Workers : S!AnswerKept(w)]_stickyVars

\* What a report tells is what the modem carried (Bandwidth).
UsageIsTraffic == B!UsageIsTraffic

=============================================================================
