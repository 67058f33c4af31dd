------------------------------ MODULE Bandwidth ------------------------------
(***************************************************************************)
(* Bandwidth accounting of one modem (services/bandwidth.py): a sampler    *)
(* stores absolute counters, the report adds up their positive differences.*)
(* A modem with a bind address is counted by iptables rules of its own,    *)
(* which go with a reboot; one without by its interface, whose counters go *)
(* with the plug.                                                          *)
(***************************************************************************)
EXTENDS Integers, Sequences

CONSTANTS Addresses,     \* bind addresses the modem may have
          NoAddress,     \* it has none (a ModemManager modem)
          Samplers,      \* processes that may run sample()
          OneAtATime,    \* they do not overlap
          ReadsFail,     \* iptables may fail or time out
          MaxBytes, MaxRows, MaxEvents   \* bounds

Ways == {"tx", "rx"}   \* chains OUTPUT and INPUT

VARIABLES
    addr,      \* modems.bind_ip
    rules,     \* way -> the modem's rules in that chain, in order
    iface,     \* way -> the interface's counter
    carried,   \* way -> bytes the modem has carried
    rows,      \* the modem's rows of the bandwidth table, by time
    era,       \* boots; without a bind address also unpluggings
    moved,     \* the bind address changed since the last boot
    events,
    sampler    \* sampler -> what it has read

vars == <<addr, rules, iface, carried, rows, era, moved, events, sampler>>

Zero == [w \in Ways |-> 0]
None == MaxBytes + 1   \* a reading that failed
Idle == [pc |-> "idle", addr |-> NoAddress, read |-> Zero, seen |-> Zero]

TypeOK ==
    /\ addr \in Addresses \cup {NoAddress}
    /\ \A w \in Ways : \A i \in DOMAIN rules[w] :
          rules[w][i].ip \in Addresses /\ rules[w][i].bytes \in 0 .. carried[w]
    /\ iface \in [Ways -> 0 .. MaxBytes] /\ carried \in [Ways -> 0 .. MaxBytes]
    /\ Len(rows) <= MaxRows
    /\ era \in 0 .. MaxEvents /\ events \in 0 .. MaxEvents /\ moved \in BOOLEAN
    /\ \A s \in Samplers : sampler[s].pc \in {"idle", "tx", "rx", "insert"}

Init ==
    /\ addr \in Addresses \cup {NoAddress}
    /\ rules = [w \in Ways |-> <<>>]
    /\ iface = Zero /\ carried = Zero
    /\ rows = <<>>
    /\ era = 0 /\ moved = FALSE /\ events = 0
    /\ sampler = [s \in Samplers |-> Idle]

-----------------------------------------------------------------------------
(* sample() *)

\* -C finds the rule with this very address; an old rule with the modem's tag
\* and another address stays where it is.
HasRule(w, a) == \E i \in DOMAIN rules[w] : rules[w][i].ip = a

\* _ensure_bw_rules: a rule of the bind address is appended if there is none.
EnsureRules(s) ==
    /\ sampler[s].pc = "idle"
    /\ OneAtATime => \A t \in Samplers : sampler[t].pc = "idle"
    /\ Len(rows) < MaxRows
    /\ rules' = [w \in Ways |->
                    IF addr = NoAddress \/ HasRule(w, addr) THEN rules[w]
                    ELSE Append(rules[w], [ip |-> addr, bytes |-> 0])]
    /\ sampler' = [sampler EXCEPT ![s].pc = "tx", ![s].addr = addr]
    /\ UNCHANGED <<addr, iface, carried, rows, era, moved, events>>

\* _read_bw_counters, one chain: the first line with the modem's tag.
ReadRule(s, w) ==
    /\ sampler[s].pc = w
    /\ \E bytes \in (IF ReadsFail THEN {None} ELSE {})
                    \cup {IF rules[w] = <<>> \/ sampler[s].addr = NoAddress THEN None
                          ELSE rules[w][1].bytes} :
          sampler' = [sampler EXCEPT ![s].read[w] = bytes, ![s].seen[w] = carried[w],
                                     ![s].pc = IF w = "tx" THEN "rx" ELSE "insert"]
    /\ UNCHANGED <<addr, rules, iface, carried, rows, era, moved, events>>

\* Mutant: two readings of zero pass for no reading.
ReadingZeroIsNone(s) ==
    LET read == sampler[s].read
    IN  IF \A w \in Ways : read[w] \in {None, 0}
        THEN [bytes |-> iface, seen |-> carried, era |-> era, moved |-> moved]
        ELSE [bytes |-> [w \in Ways |-> IF read[w] = None THEN 0 ELSE read[w]],
              seen |-> sampler[s].seen, era |-> era, moved |-> moved]

\* `rx or 0` for a chain that could not be read; the interface's counters if
\* neither could.
Reading(s) ==
    LET read == sampler[s].read
    IN  IF \A w \in Ways : read[w] = None
        THEN [bytes |-> iface, seen |-> carried, era |-> era, moved |-> moved]
        ELSE [bytes |-> [w \in Ways |-> IF read[w] = None THEN 0 ELSE read[w]],
              seen |-> sampler[s].seen, era |-> era, moved |-> moved]

Insert(s) ==
    /\ sampler[s].pc = "insert"
    /\ rows' = Append(rows, Reading(s))
    /\ sampler' = [sampler EXCEPT ![s] = Idle]
    /\ UNCHANGED <<addr, rules, iface, carried, era, moved, events>>

-----------------------------------------------------------------------------
(* The modem and the host *)

\* Every rule of the address counts, and so does the interface.
Carry(w) ==
    /\ carried[w] < MaxBytes
    /\ carried' = [carried EXCEPT ![w] = @ + 1]
    /\ iface' = [iface EXCEPT ![w] = @ + 1]
    /\ rules' = [rules EXCEPT ![w] = [i \in DOMAIN @ |->
                    IF @[i].ip = addr THEN [ip |-> addr, bytes |-> @[i].bytes + 1]
                                      ELSE @[i]]]
    /\ UNCHANGED <<addr, rows, era, moved, events, sampler>>

Event == events < MaxEvents /\ events' = events + 1

\* Unplugged and plugged in again: the interface counts from zero, the rules go
\* on.  A sample in between finds no interface, which leaves no row.
Replug ==
    /\ Event
    /\ iface' = Zero
    /\ era' = IF addr = NoAddress THEN era + 1 ELSE era
    /\ UNCHANGED <<addr, rules, carried, rows, moved, sampler>>

\* The host restarts: rules and counters are gone, and so is a sample under way.
Reboot ==
    /\ Event
    /\ rules' = [w \in Ways |-> <<>>]
    /\ iface' = Zero
    /\ era' = era + 1
    /\ moved' = FALSE
    /\ sampler' = [s \in Samplers |-> Idle]
    /\ UNCHANGED <<addr, carried, rows>>

\* A discovery finds the dongle at another address.
Move(a) ==
    /\ Event
    /\ addr \notin {a, NoAddress}
    /\ addr' = a
    /\ moved' = TRUE
    /\ UNCHANGED <<rules, iface, carried, rows, era, sampler>>

Next ==
    \/ \E s \in Samplers : EnsureRules(s) \/ Insert(s) \/ \E w \in Ways : ReadRule(s, w)
    \/ \E w \in Ways : Carry(w)
    \/ Replug \/ Reboot \/ \E a \in Addresses : Move(a)

Spec == Init /\ [][Next]_vars

-----------------------------------------------------------------------------
(* report() and its property *)

\* The difference to the row before; a negative one is the boundary of a reset.
Delta(w, i) ==
    LET d == rows[i].bytes[w] - rows[i - 1].bytes[w]
    IN  IF d >= 0 THEN d ELSE 0

\* _delta_in_range, row by row, for a window with the rows i+1 .. j in it.
Usage(w, i, j) ==
    LET total[n \in i .. j] == IF n = i THEN 0 ELSE total[n - 1] + Delta(w, n)
    IN  total[j]

\* Whatever window a report is about, it tells no more than the modem carried
\* between the samples; and it tells all of it, unless a boot lies between them
\* (or, without a bind address, an unplugging) or the address changed since the
\* boot.  Needs OneAtATime and not ReadsFail.
UsageIsTraffic ==
    \A i, j \in 1 .. Len(rows) : i <= j =>
        \A w \in Ways :
            LET used == rows[j].seen[w] - rows[i].seen[w]
            IN  /\ Usage(w, i, j) <= used
                /\ rows[i].era = rows[j].era /\ ~rows[j].moved
                      => Usage(w, i, j) = used

=============================================================================
