---------------------------- MODULE HealthReport ----------------------------
(***************************************************************************)
(* The end-to-end health check (services/healthcheck.py) and the report it *)
(* sends (services/alerts.py): which failures the operator has been told   *)
(* of.  A run takes minutes, checks one thing after another in a world     *)
(* that changes meanwhile, repairs what it can, replaces the state file    *)
(* and only then sends its message.                                        *)
(*                                                                         *)
(* Units are the ways a run is started: systemd runs at most one instance  *)
(* of the timer's service and one of the boot service, the command line    *)
(* adds others.  A check is in `bad` while what it looks at does not work. *)
(***************************************************************************)
EXTENDS Naturals

CONSTANTS Units,     \* "timer", "boot", "cli"
          Proxies,   \* modems with a proxy
          Others,    \* the checks that are not of one proxy
          Flaky,     \* what may stop to work
          Alone,     \* runs do not overlap
          MaxAborts  \* bound on the runs that are killed or raise

ASSUME OthersAssumption == Others \subseteq {"bands", "dns", "lan", "vpn", "public"}
ASSUME AloneAssumption == Alone \in BOOLEAN
ASSUME HealthBounds == MaxAborts \in Nat /\ Flaky \subseteq Proxies \cup Others

VARIABLES
    bad,      \* what does not work now
    enabled,  \* proxies that are enabled
    state,    \* "failed" in healthcheck.json
    told,     \* the failures in the last message that arrived
    lost,     \* since then a saved result was not told
    aborts,   \* runs that did not end
    pc,       \* unit -> "idle", "checks", "load", "save", "send"
    modems,   \* unit -> the enabled proxies it read at the start
    todo,     \* unit -> checks it has still to make
    failed,   \* unit -> failures it found
    healed,   \* unit -> it repaired something
    prev,     \* unit -> the state it loaded
    boot,     \* unit -> --boot
    notify    \* unit -> not --quiet

run == <<pc, modems, todo, failed, healed, prev, boot, notify>>
vars == <<bad, enabled, state, told, lost, aborts, run>>

Checks == Proxies \cup Others

TypeOK ==
    /\ {bad, state, told} \subseteq SUBSET Checks
    /\ enabled \subseteq Proxies
    /\ lost \in BOOLEAN
    /\ aborts \in 0 .. MaxAborts
    /\ pc \in [Units -> {"idle", "checks", "load", "save", "send"}]
    /\ {modems, todo, failed, prev} \subseteq [Units -> SUBSET Checks]
    /\ \A u \in Units : todo[u] \cap failed[u] = {}
    /\ {healed, boot, notify} \subseteq [Units -> BOOLEAN]

Init ==
    /\ bad = {} /\ enabled = Proxies
    /\ state = {} /\ told = {} /\ lost = FALSE /\ aborts = 0
    /\ pc = [u \in Units |-> "idle"]
    /\ modems = [u \in Units |-> {}]
    /\ todo = [u \in Units |-> {}] /\ failed = [u \in Units |-> {}]
    /\ prev = [u \in Units |-> {}]
    /\ healed = [u \in Units |-> FALSE]
    /\ boot = [u \in Units |-> FALSE] /\ notify = [u \in Units |-> TRUE]

-----------------------------------------------------------------------------
(* A run *)

\* Nothing of a run is left but what it saved and sent.
End(u) ==
    /\ pc' = [pc EXCEPT ![u] = "idle"]
    /\ modems' = [modems EXCEPT ![u] = {}]
    /\ todo' = [todo EXCEPT ![u] = {}]
    /\ failed' = [failed EXCEPT ![u] = {}]
    /\ prev' = [prev EXCEPT ![u] = {}]
    /\ healed' = [healed EXCEPT ![u] = FALSE]
    /\ boot' = [boot EXCEPT ![u] = FALSE]
    /\ notify' = [notify EXCEPT ![u] = TRUE]

\* Mutant: disabled proxies are checked too.
BeginAll(u) ==
    /\ pc[u] = "idle"
    /\ Alone => \A v \in Units : pc[v] = "idle"
    /\ pc' = [pc EXCEPT ![u] = "checks"]
    /\ modems' = [modems EXCEPT ![u] = Proxies]
    /\ todo' = [todo EXCEPT ![u] = Proxies \cup Others]
    /\ boot' = [boot EXCEPT ![u] = u = "boot"]
    /\ UNCHANGED <<bad, enabled, state, told, lost, aborts, failed, healed, prev, notify>>

\* The enabled proxies are read once, at the start.
Begin(u) ==
    /\ pc[u] = "idle"
    /\ Alone => \A v \in Units : pc[v] = "idle"
    /\ pc' = [pc EXCEPT ![u] = "checks"]
    /\ modems' = [modems EXCEPT ![u] = enabled]
    /\ todo' = [todo EXCEPT ![u] = enabled \cup Others]
    /\ boot' = [boot EXCEPT ![u] = u = "boot"]
    /\ \E quiet \in BOOLEAN :
          /\ quiet => u = "cli"
          /\ notify' = [notify EXCEPT ![u] = ~quiet]
    /\ UNCHANGED <<bad, enabled, state, told, lost, aborts, failed, healed, prev>>

\* The order of the checks in run().
Rank(c) ==
    IF c \in Proxies THEN 0
    ELSE [bands |-> 1, dns |-> 2, lan |-> 3, vpn |-> 4, public |-> 5][c]

\* One check is made: it fails or not, repaired something or not.
Made(u, c, fails, heals) ==
    /\ pc[u] = "checks"
    /\ c \in todo[u] /\ \A d \in todo[u] : Rank(c) <= Rank(d)
    /\ todo' = [todo EXCEPT ![u] = @ \ {c}]
    /\ failed' = IF fails THEN [failed EXCEPT ![u] = @ \cup {c}] ELSE failed
    /\ healed' = IF heals THEN [healed EXCEPT ![u] = TRUE] ELSE healed
    /\ UNCHANGED <<enabled, state, told, lost, aborts, pc, modems, prev, boot, notify>>

\* _check_proxy: a request through the proxy; if it fails, after a restart of
\* the unit; if it fails again, after a discovery.
CheckProxy(u, c) ==
    /\ c \in Proxies
    /\ \/ Made(u, c, c \in bad, FALSE) /\ UNCHANGED bad
       \/ c \in bad /\ Made(u, c, FALSE, TRUE) /\ bad' = bad \ {c}

\* _check_band_locks: a locked modem that has been off line for long enough is
\* unlocked, which this run reports as a failure and as a repair; an unlock that
\* is refused is reported in the same way.
CheckBands(u) ==
    /\ Made(u, "bands", "bands" \in bad, "bands" \in bad)
    /\ bad' \in {bad, bad \ {"bands"}}

\* _check_dns, _check_lan.
CheckPlain(u, c) ==
    /\ c \in {"dns", "lan"}
    /\ Made(u, c, c \in bad, FALSE)
    /\ UNCHANGED bad

\* _check_vpn: a restart of WireGuard that helps is not counted as a repair.
CheckVpn(u) ==
    /\ \/ Made(u, "vpn", "vpn" \in bad, FALSE) /\ UNCHANGED bad
       \/ "vpn" \in bad /\ Made(u, "vpn", FALSE, FALSE) /\ bad' = bad \ {"vpn"}

\* _check_public: from outside, through the first modem of the run that is on
\* line (its proxy works, as far as the status on record is up to date); without
\* such a modem the check passes.
CheckPublic(u) ==
    /\ Made(u, "public", "public" \in bad /\ modems[u] \ bad # {}, FALSE)
    /\ UNCHANGED bad

\* prev = _load_state()
LoadState(u) ==
    /\ pc[u] = "checks"
    /\ todo[u] = {}
    /\ prev' = [prev EXCEPT ![u] = state]
    /\ pc' = [pc EXCEPT ![u] = "save"]
    /\ UNCHANGED <<bad, enabled, state, told, lost, aborts, modems, todo, failed,
                   healed, boot, notify>>

\* Mutant: only the change between fine and broken is reported.
ReportsCount(u) ==
    boot[u] \/ healed[u] \/ (failed[u] = {}) # (prev[u] = {})

\* Mutant: every run that found failures sends its report.
ReportsAnyFailure(u) == boot[u] \/ failed[u] # prev[u] \/ failed[u] # {}

\* `boot or changed or healed`
Reports(u) == boot[u] \/ failed[u] # prev[u] \/ healed[u]

\* Sends(u): the report goes out, else the run is over.
Sends(u) ==
    IF notify[u] /\ Reports(u)
    THEN /\ pc' = [pc EXCEPT ![u] = "send"]
         /\ UNCHANGED <<modems, todo, failed, prev, healed, boot, notify>>
    ELSE End(u)

\* The result is on disk before anything is sent, also when it is not sent.
SaveState(u) ==
    /\ pc[u] = "save"
    /\ state' = failed[u]
    /\ lost' = (lost \/ (~notify[u] /\ failed[u] # told))
    /\ Sends(u)
    /\ UNCHANGED <<bad, enabled, told, aborts>>

\* alerts.notify without a key: never muted.
Deliver(u) ==
    /\ pc[u] = "send"
    /\ told' = failed[u]
    /\ lost' = FALSE
    /\ End(u)
    /\ UNCHANGED <<bad, enabled, state, aborts>>

\* _send_raw: alerts are off, the token is wrong, the network is down.  run()
\* does not look at the result.
SendFails(u) ==
    /\ pc[u] = "send"
    /\ lost' = (lost \/ failed[u] # told)
    /\ End(u)
    /\ UNCHANGED <<bad, enabled, state, told, aborts>>

\* systemd ends a run that takes too long, the power fails, or a guard raises:
\* its handler names a logger that the module does not have.
Abort(u) ==
    /\ pc[u] # "idle"
    /\ aborts < MaxAborts
    /\ aborts' = aborts + 1
    /\ End(u)
    /\ lost' = (lost \/ pc[u] = "send")
    /\ UNCHANGED <<bad, enabled, state, told>>

\* A run ends inside _save_state, which truncates the file: the next one reads
\* no JSON, which is no failure.
TornSave(u) ==
    /\ pc[u] = "save"
    /\ aborts < MaxAborts
    /\ aborts' = aborts + 1
    /\ state' = {}
    /\ lost' = TRUE
    /\ End(u)
    /\ UNCHANGED <<bad, enabled, told>>

-----------------------------------------------------------------------------
(* The world *)

Breaks(c) ==
    /\ bad' = bad \cup {c}
    /\ UNCHANGED <<enabled, state, told, lost, aborts, run>>

Recovers(c) ==
    /\ bad' = bad \ {c}
    /\ UNCHANGED <<enabled, state, told, lost, aborts, run>>

\* The operator, the quota or an expiry switches a proxy on or off.
Toggle(c) ==
    /\ enabled' = IF c \in enabled THEN enabled \ {c} ELSE enabled \cup {c}
    /\ UNCHANGED <<bad, state, told, lost, aborts, run>>

Check(u) ==
    \/ \E c \in Checks : CheckProxy(u, c) \/ CheckPlain(u, c)
    \/ CheckBands(u) \/ CheckVpn(u) \/ CheckPublic(u)

Work(u) == Check(u) \/ LoadState(u) \/ SaveState(u) \/ Deliver(u) \/ SendFails(u)

Next ==
    \/ \E u \in Units : Begin(u) \/ Work(u) \/ Abort(u) \/ TornSave(u)
    \/ \E c \in Flaky : Breaks(c) \/ Recovers(c)
    \/ \E c \in Proxies : Toggle(c)

\* A run that was started works on, and OnCalendar=*:0/15 starts the next one
\* over and over.  SF: with Alone another unit may be at work when it is due.
Fairness ==
    /\ \A u \in Units : WF_vars(Work(u))
    /\ SF_vars(Begin("timer"))

Spec == Init /\ [][Next]_vars /\ Fairness

-----------------------------------------------------------------------------
(* Properties *)

\* What the state file remembers has been told, unless the telling of it was
\* lost: the next run looks for changes against the file, so a change that is in
\* the file and was not told is never told again (healthcheck.py:213-216).
StateIsTold ==
    (\A u \in Units : pc[u] = "idle") => state = told \/ lost

\* "A long outage doesn't spam" (healthcheck.py:13): a message that is not a boot
\* report and reports no repair tells other failures than the last one did, or
\* a report in between was lost.
NoSpam ==
    [][\A u \in Units :
          pc[u] = "send" /\ pc'[u] = "idle" /\ ~boot[u] /\ ~healed[u] =>
              failed[u] # told \/ lost]_vars

\* What a run finds when `broken` does not work and it can repair nothing.
Findings(broken, on) ==
    (broken \cap (on \cup Others)) \ (IF on \subseteq broken THEN {"public"} ELSE {})

\* "An alert goes out when a check changes state, and recovery is announced too":
\* when the world comes to rest, the last message tells how it is, if reports
\* are not lost from some point on.
OutageIsTold ==
    <>[]~lost /\ <>[][UNCHANGED <<bad, enabled>>]_vars =>
        <>[](told = Findings(bad, enabled))

=============================================================================
