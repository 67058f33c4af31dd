--------------------------- MODULE ProxyLifecycle ---------------------------
(***************************************************************************)
(* The life of a modem's proxy: its row in the ports table, its 3proxy     *)
(* config file and its systemd unit, and the programs that switch it on    *)
(* and off: the web API and CLI, the storefront API, the monthly quota     *)
(* check, the subscription expiry check and the health check.              *)
(*                                                                         *)
(* Every database transaction and every systemctl call is one step.  Procs *)
(* are the processes and threads that may run an operation; nothing in the *)
(* code excludes two of them from one another.                             *)
(***************************************************************************)
EXTENDS Integers, FiniteSets

CONSTANTS Modems,      \* modems known to the database
          Procs,       \* web worker threads, timers' services, CLI runs
          MaxUsage,    \* bound: caps and monthly usage, in abstract units
          Hazards      \* which of the optional events below may happen

ASSUME UsageAssumption == MaxUsage \in Nat \ {0}

ASSUME HazardsAssumption == Hazards \subseteq {"reboot", "storefront delete"}

VARIABLES
    row,      \* ports table: modem -> record
    cfg,      \* modem -> 3proxy.<svc>.cfg exists in AUTOGEN_DIR
    active,   \* modem -> systemd was last told to run the unit
    boot,     \* modem -> the unit is enabled (systemd starts it at boot)
    used,     \* modem -> traffic of the current month
    off,      \* history: the administrator's last word was "disable"
    job       \* process -> what it is in the middle of

vars == <<row, cfg, active, boot, used, off, job>>

Row == [exists : BOOLEAN, ported : BOOLEAN, enabled : BOOLEAN,
        locked : BOOLEAN, quota : 0 .. MaxUsage,
        expiry : {"never", "future", "past"}]

NoRow == [exists |-> FALSE, ported |-> FALSE, enabled |-> FALSE,
          locked |-> FALSE, quota |-> 0, expiry |-> "never"]

\* The column defaults of the schema: an inserted row is enabled.
FreshRow == [exists |-> TRUE, ported |-> FALSE, enabled |-> TRUE,
             locked |-> FALSE, quota |-> 0, expiry |-> "never"]

Loops == {"idle", "quota", "expiry", "health"}

\* pc: the next step.  m: the modem it is for.  ret: the loop to go back to.
\* todo: what the loop still has to visit.
Job == {j \in [pc : Loops \cup {"render", "restart", "halt", "unlink", "remove",
                                "enable", "lock", "unlock"},
               m : Modems \cup {"none"},
               ret : {"idle", "quota", "expiry"},
               todo : SUBSET Modems] :
            j.pc \notin Loops => j.m \in Modems}

Idle == [pc |-> "idle", m |-> "none", ret |-> "idle", todo |-> {}]

TypeOK ==
    /\ row \in [Modems -> Row]
    /\ cfg \in [Modems -> BOOLEAN]
    /\ active \in [Modems -> BOOLEAN]
    /\ boot \in [Modems -> BOOLEAN]
    /\ used \in [Modems -> 0 .. MaxUsage]
    /\ off \in [Modems -> BOOLEAN]
    /\ job \in [Procs -> Job]
    /\ \A m \in Modems : ~ row[m].exists => row[m] = NoRow

Init ==
    /\ row = [m \in Modems |-> NoRow]
    /\ cfg = [m \in Modems |-> FALSE]
    /\ active = [m \in Modems |-> FALSE]
    /\ boot = [m \in Modems |-> FALSE]
    /\ used = [m \in Modems |-> 0]
    /\ off = [m \in Modems |-> FALSE]
    /\ job = [p \in Procs |-> Idle]

-----------------------------------------------------------------------------
(* Helpers *)

\* set_port updates the row, or inserts it with the schema's defaults.
Upserted(m) == IF row[m].exists THEN row[m] ELSE FreshRow

\* allocate_port: ports are assigned and enabled=1; quota_locked is left alone.
SwitchOn(m) ==
    row' = [row EXCEPT ![m] = [Upserted(m) EXCEPT !.ported = TRUE, !.enabled = TRUE]]

\* Mutant: stop_proxy only ever sets the flag, and does not clear it.
SwitchOffKeepsLock(m, locked) ==
    row' = [row EXCEPT ![m] =
                [Upserted(m) EXCEPT !.enabled = FALSE, !.locked = @ \/ locked]]

\* stop_proxy's write: enabled=0 and quota_locked set or cleared.
SwitchOff(m, locked) ==
    row' = [row EXCEPT ![m] =
                [Upserted(m) EXCEPT !.enabled = FALSE, !.locked = locked]]

Goto(p, pc) == job' = [job EXCEPT ![p] = [job[p] EXCEPT !.pc = pc]]

\* The quota loop calls a subroutine of which the first write is done.
CallFromQuota(p, pc) ==
    job' = [job EXCEPT ![p] = [job[p] EXCEPT !.pc = pc, !.ret = "quota"]]

\* A new operation on m by an idle process.
Begin(p, m, pc) ==
    /\ job[p].pc = "idle"
    /\ job' = [job EXCEPT ![p] = [Idle EXCEPT !.pc = pc, !.m = m]]

\* Back to the loop that called the finished subroutine, or to idle.
Return(p) ==
    job' = [job EXCEPT ![p] = [Idle EXCEPT !.pc = job[p].ret, !.todo = job[p].todo]]

OverCap(m) == row[m].quota > 0 /\ used[m] >= row[m].quota

-----------------------------------------------------------------------------
(* Operations of the web API, the CLI and the storefront *)

\* apply_port, and what ends in it: set_password, regenerate_credentials,
\* set_whitelist, the storefront's apply_port and its first listing.
ApplyPort(p, m) ==
    /\ Begin(p, m, "render")
    /\ SwitchOn(m)
    /\ off' = [off EXCEPT ![m] = FALSE]
    /\ UNCHANGED <<cfg, active, boot, used>>

\* The storefront's purge_port: drops its own login if the row exists, then
\* calls apply_port.  Nobody asked for the proxy to be switched on.
StorefrontDelete(p, m) ==
    /\ "storefront delete" \in Hazards
    /\ Begin(p, m, "render")
    /\ SwitchOn(m)
    /\ UNCHANGED <<cfg, active, boot, used, off>>

\* api_disable: stop_proxy(imei).
Disable(p, m) ==
    /\ Begin(p, m, "halt")
    /\ SwitchOff(m, FALSE)
    /\ off' = [off EXCEPT ![m] = TRUE]
    /\ UNCHANGED <<cfg, active, boot, used>>

\* Mutant: the row is only marked as gone and keeps its columns.
PurgeKeepsColumns(p, m) ==
    /\ Begin(p, m, "unlink")
    /\ row' = [row EXCEPT ![m].exists = FALSE]
    /\ off' = [off EXCEPT ![m] = FALSE]
    /\ UNCHANGED <<cfg, active, boot, used>>

\* api_purge: purge_port deletes the row first.
Purge(p, m) ==
    /\ Begin(p, m, "unlink")
    /\ row' = [row EXCEPT ![m] = NoRow]
    /\ off' = [off EXCEPT ![m] = FALSE]
    /\ UNCHANGED <<cfg, active, boot, used>>

\* enable_vpn / disable_vpn: set_port(imei, vpn_enabled=...) inserts a row when
\* the modem has no proxy.
TouchRow(p, m) ==
    /\ job[p].pc = "idle"
    /\ row' = [row EXCEPT ![m] = Upserted(m)]
    /\ UNCHANGED <<cfg, active, boot, used, off, job>>

\* set_quota: store the cap, then run the check at once.
SetQuota(p, m, quota) ==
    /\ job[p].pc = "idle"
    /\ row[m].exists
    /\ row' = [row EXCEPT ![m].quota = quota]
    /\ job' = [job EXCEPT ![p] = [Idle EXCEPT !.pc = "quota", !.todo = Modems]]
    /\ UNCHANGED <<cfg, active, boot, used, off>>

\* set_expiry and extend: any date, or none.
SetExpiry(p, m, expiry) ==
    /\ job[p].pc = "idle"
    /\ row[m].exists
    /\ row' = [row EXCEPT ![m].expiry = expiry]
    /\ UNCHANGED <<cfg, active, boot, used, off, job>>

-----------------------------------------------------------------------------
(* The steps of apply_port, stop_proxy and purge_port after their writes *)

\* render_modem: without a row it raises, which ends the whole operation (and
\* the loop that called it).
Render(p) ==
    LET m == job[p].m IN
    /\ job[p].pc = "render"
    /\ \/ row[m].exists /\ cfg' = [cfg EXCEPT ![m] = TRUE] /\ Goto(p, "restart")
       \/ ~ row[m].exists /\ job' = [job EXCEPT ![p] = Idle] /\ UNCHANGED cfg
    /\ UNCHANGED <<row, active, boot, used, off>>

\* Mutant: the unit is enabled but not restarted.
RestartOnlyEnables(p) ==
    /\ job[p].pc = "restart"
    /\ boot' = [boot EXCEPT ![job[p].m] = TRUE]
    /\ Return(p)
    /\ UNCHANGED <<row, cfg, active, used, off>>

\* systemctl enable and restart.
Restart(p) ==
    /\ job[p].pc = "restart"
    /\ boot' = [boot EXCEPT ![job[p].m] = TRUE]
    /\ active' = [active EXCEPT ![job[p].m] = TRUE]
    /\ Return(p)
    /\ UNCHANGED <<row, cfg, used, off>>

\* stop_proxy: systemctl stop.  The unit stays enabled.
Halt(p) ==
    /\ job[p].pc = "halt"
    /\ active' = [active EXCEPT ![job[p].m] = FALSE]
    /\ Return(p)
    /\ UNCHANGED <<row, cfg, boot, used, off>>

\* purge_port: unlink the config file.
Unlink(p) ==
    /\ job[p].pc = "unlink"
    /\ cfg' = [cfg EXCEPT ![job[p].m] = FALSE]
    /\ Goto(p, "remove")
    /\ UNCHANGED <<row, active, boot, used, off>>

\* purge_port: systemctl stop and disable.
Remove(p) ==
    /\ job[p].pc = "remove"
    /\ active' = [active EXCEPT ![job[p].m] = FALSE]
    /\ boot' = [boot EXCEPT ![job[p].m] = FALSE]
    /\ Return(p)
    /\ UNCHANGED <<row, cfg, used, off>>

-----------------------------------------------------------------------------
(* quota.check *)

QuotaTimer(p) ==
    /\ job[p].pc = "idle"
    /\ job' = [job EXCEPT ![p] = [Idle EXCEPT !.pc = "quota", !.todo = Modems]]
    /\ UNCHANGED <<row, cfg, active, boot, used, off>>

\* Mutant: a lock is only released when the proxy is enabled.
VerdictNoRelease(m) ==
    IF row[m].quota = 0 THEN "quota"
    ELSE IF used[m] >= row[m].quota /\ ~ row[m].locked /\ row[m].enabled THEN "lock"
    ELSE IF used[m] < row[m].quota /\ row[m].locked /\ row[m].enabled THEN "unlock"
    ELSE "quota"

\* What check decides for one port, from the row and the usage it has read.
Verdict(m) ==
    IF row[m].quota = 0 THEN "quota"
    ELSE IF used[m] >= row[m].quota /\ ~ row[m].locked /\ row[m].enabled THEN "lock"
    ELSE IF used[m] < row[m].quota /\ row[m].locked THEN "unlock"
    ELSE "quota"

\* get_port is evaluated lazily, just before the row is looked at; the verdict
\* is acted upon in a later transaction.
QuotaRead(p, m) ==
    /\ job[p].pc = "quota"
    /\ m \in job[p].todo
    /\ job' = [job EXCEPT ![p] =
                [pc |-> Verdict(m), m |-> IF Verdict(m) = "quota" THEN "none" ELSE m,
                 ret |-> "idle", todo |-> @.todo \ {m}]]
    /\ UNCHANGED <<row, cfg, active, boot, used, off>>

\* stop_proxy(imei, locked=True)
QuotaLock(p) ==
    /\ job[p].pc = "lock"
    /\ SwitchOff(job[p].m, TRUE)
    /\ CallFromQuota(p, "halt")
    /\ UNCHANGED <<cfg, active, boot, used, off>>

\* start_proxy: quota_locked=0 ...
QuotaUnlock(p) ==
    LET m == job[p].m IN
    /\ job[p].pc = "unlock"
    /\ row' = [row EXCEPT ![m] = [Upserted(m) EXCEPT !.locked = FALSE]]
    /\ CallFromQuota(p, "enable")
    /\ UNCHANGED <<cfg, active, boot, used, off>>

\* ... and then apply_port.
Enable(p) ==
    /\ job[p].pc = "enable"
    /\ SwitchOn(job[p].m)
    /\ Goto(p, "render")
    /\ UNCHANGED <<cfg, active, boot, used, off>>

-----------------------------------------------------------------------------
(* subscriptions.check and healthcheck.run: loops over a snapshot *)

\* Mutant: only proxies that expire in the future are selected.
ExpiredRowsWrong == {m \in Modems : row[m].expiry = "future" /\ row[m].enabled}

ExpiredRows == {m \in Modems : row[m].expiry = "past" /\ row[m].enabled}

ExpiryTimer(p) ==
    /\ job[p].pc = "idle"
    /\ job' = [job EXCEPT ![p] = [Idle EXCEPT !.pc = "expiry", !.todo = ExpiredRows]]
    /\ UNCHANGED <<row, cfg, active, boot, used, off>>

\* stop_proxy(imei), whatever has become of the row since the snapshot.
ExpireOne(p, m) ==
    /\ job[p].pc = "expiry"
    /\ m \in job[p].todo
    /\ SwitchOff(m, FALSE)
    /\ job' = [job EXCEPT ![p] =
                [pc |-> "halt", m |-> m, ret |-> "expiry", todo |-> @.todo \ {m}]]
    /\ UNCHANGED <<cfg, active, boot, used, off>>

\* Mutant: the health check looks at every proxy, not only at enabled ones.
HealthRowsAll == {m \in Modems : row[m].ported}

HealthRows == {m \in Modems : row[m].ported /\ row[m].enabled}

HealthTimer(p) ==
    /\ job[p].pc = "idle"
    /\ job' = [job EXCEPT ![p] = [Idle EXCEPT !.pc = "health", !.todo = HealthRows]]
    /\ UNCHANGED <<row, cfg, active, boot, used, off>>

\* _check_proxy: the probe answers only through a running proxy ...
ProbeOk(p, m) ==
    /\ job[p].pc = "health"
    /\ m \in job[p].todo
    /\ active[m]
    /\ job' = [job EXCEPT ![p].todo = @ \ {m}]
    /\ UNCHANGED <<row, cfg, active, boot, used, off>>

\* ... and when it fails the unit is restarted.
ProbeFailed(p, m) ==
    /\ job[p].pc = "health"
    /\ m \in job[p].todo
    /\ active' = [active EXCEPT ![m] = TRUE]
    /\ job' = [job EXCEPT ![p].todo = @ \ {m}]
    /\ UNCHANGED <<row, cfg, boot, used, off>>

\* A loop ends when its list is exhausted.
EndLoop(p) ==
    /\ job[p].pc \in {"quota", "expiry", "health"}
    /\ job[p].todo = {}
    /\ job' = [job EXCEPT ![p] = Idle]
    /\ UNCHANGED <<row, cfg, active, boot, used, off>>

-----------------------------------------------------------------------------
(* The environment *)

\* Traffic through a running proxy is accounted to its modem.
Traffic(m) ==
    /\ active[m]
    /\ used[m] < MaxUsage
    /\ used' = [used EXCEPT ![m] = @ + 1]
    /\ UNCHANGED <<row, cfg, active, boot, off, job>>

\* bandwidth.report counts from the first of the month.
MonthRollover ==
    /\ used' = [m \in Modems |-> 0]
    /\ UNCHANGED <<row, cfg, active, boot, off, job>>

TimePasses(m) ==
    /\ row[m].expiry = "future"
    /\ row' = [row EXCEPT ![m].expiry = "past"]
    /\ UNCHANGED <<cfg, active, boot, used, off, job>>

\* The host restarts: programs die where they are, systemd starts the units
\* that are enabled.
Reboot ==
    /\ "reboot" \in Hazards
    /\ job' = [p \in Procs |-> Idle]
    /\ active' = boot
    /\ UNCHANGED <<row, cfg, boot, used, off>>

-----------------------------------------------------------------------------
Request(p) ==
    \E m \in Modems :
        \/ ApplyPort(p, m)
        \/ StorefrontDelete(p, m)
        \/ Disable(p, m)
        \/ Purge(p, m)
        \/ TouchRow(p, m)
        \/ \E quota \in 0 .. MaxUsage : SetQuota(p, m, quota)
        \/ \E expiry \in {"never", "future", "past"} : SetExpiry(p, m, expiry)

Timer(p) == QuotaTimer(p) \/ ExpiryTimer(p) \/ HealthTimer(p)

\* A process that has begun goes on.
Continue(p) ==
    \/ Render(p)
    \/ Restart(p)
    \/ Halt(p)
    \/ Unlink(p)
    \/ Remove(p)
    \/ \E m \in Modems : QuotaRead(p, m)
    \/ QuotaLock(p)
    \/ QuotaUnlock(p)
    \/ Enable(p)
    \/ \E m \in Modems : ExpireOne(p, m)
    \/ \E m \in Modems : ProbeOk(p, m)
    \/ \E m \in Modems : ProbeFailed(p, m)
    \/ EndLoop(p)

World ==
    \/ \E m \in Modems : Traffic(m) \/ TimePasses(m)
    \/ MonthRollover
    \/ Reboot

Next == World \/ \E p \in Procs : Request(p) \/ Timer(p) \/ Continue(p)

Spec == Init /\ [][Next]_vars

\* Begun work is finished, systemd keeps firing its timers however often
\* requests come in between, and the host does not restart for ever.
Fairness ==
    /\ \A p \in Procs :
          /\ WF_vars(Continue(p))
          /\ SF_vars(QuotaTimer(p))
          /\ SF_vars(ExpiryTimer(p))
    /\ <>[][~ Reboot]_vars

FairSpec == Spec /\ Fairness

-----------------------------------------------------------------------------
(* Properties *)

Quiescent == \A p \in Procs : job[p].pc = "idle"

\* "Manually disabled proxies are left alone" (quota.py:6): after api_disable
\* a proxy stays disabled and unlocked until someone asks for it to be applied
\* or purges it, whatever quota, expiry and health checks run in between.
DisabledLeftAlone ==
    \A m \in Modems : off[m] => ~ row[m].enabled /\ ~ row[m].locked

\* When no operation is under way, a running unit belongs to a row that is
\* enabled: nothing serves traffic that the database says is off (api_disable,
\* "Take a modem offline: stop its proxy"; purge_port; the quota stop).
NoRogueUnit ==
    Quiescent => \A m \in Modems : active[m] => row[m].enabled

\* When no operation is under way, every enabled proxy with ports has its
\* config file and a running unit: none is advertised by the pool while dead.
EnabledIsServing ==
    Quiescent =>
        \A m \in Modems : row[m].enabled /\ row[m].ported => active[m] /\ cfg[m]

\* Subscription expiry: a proxy whose time is up is eventually disabled, even
\* when a quota unlock or a storefront call switches it on again.
ExpiredIsDisabled ==
    \A m \in Modems :
        (row[m].expiry = "past" /\ row[m].enabled)
            ~> (row[m].expiry # "past" \/ ~ row[m].enabled)

\* A proxy that was locked is started again once it is back under a cap.
LockIsReleased ==
    \A m \in Modems :
        (row[m].locked /\ row[m].quota > 0 /\ ~ OverCap(m))
            ~> (~ row[m].locked \/ row[m].quota = 0 \/ OverCap(m))

-----------------------------------------------------------------------------
(* Inductive invariants for one process (proved in ProxyLifecycleProofs) *)

\* The part of the quota job's snapshot that is still true when it acts.
OffJob(p) ==
    LET m == job[p].m IN
    /\ job[p].pc = "lock" => row[m].enabled
    /\ job[p].pc = "unlock" => row[m].locked
    /\ job[p].pc = "enable" => ~ off[m]

OffInv ==
    /\ DisabledLeftAlone
    /\ \A m \in Modems : off[m] => row[m].exists
    /\ \A p \in Procs : OffJob(p)

\* Database, file and unit agree about a modem.
Agree(m) ==
    /\ active[m] => row[m].enabled
    /\ row[m].enabled /\ row[m].ported => active[m] /\ cfg[m]

\* All modems agree but the one whose operation is half done, of which the
\* row has been written already.
AgreeJob(p) ==
    LET m == job[p].m
        busy == job[p].pc \in {"render", "restart", "halt", "unlink", "remove"}
    IN  /\ \A n \in Modems : (busy /\ n = m) \/ Agree(n)
        /\ job[p].pc \in {"render", "restart"} => row[m].exists /\ row[m].enabled
        /\ job[p].pc = "restart" => cfg[m]
        /\ job[p].pc \in {"halt", "unlink", "remove"} => ~ row[m].enabled
        /\ job[p].pc = "health" => job[p].todo \subseteq HealthRows

AgreeInv == \A p \in Procs : AgreeJob(p)

=============================================================================
