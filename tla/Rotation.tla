------------------------------ MODULE Rotation ------------------------------
(***************************************************************************)
(* Rotation of the modems' public addresses and the reboots that failures  *)
(* lead to: rotate, rotate_all, rotate_due and discover of                 *)
(* modems/manager.py, and services/autoreboot.py.                          *)
(*                                                                         *)
(* Clocks are ages: the database holds times, and the code only ever looks *)
(* at how long ago one was.  An age grows with every tick up to a horizon  *)
(* beyond which nothing can tell it from a greater one.  An address is     *)
(* abstracted to what the code compares: new, the same as on record, or    *)
(* not detected.                                                           *)
(*                                                                         *)
(* "rotator" and "pinger" are the two timers' one-shot services; systemd   *)
(* never runs one of them twice.  Threads are the web service's threads    *)
(* (rotation link, panel, storefront) and the command line.                *)
(***************************************************************************)
EXTENDS Integers, FiniteSets

CONSTANTS Modems,        \* modems with an enabled proxy and an interval
          Netdevs,       \* the modems of kind "netdev"
          Routers,       \* the netdevs that were added by hand
          Flaky,         \* the modems that may fail, drop and vanish
          Threads,       \* processes that rotate on request
          Interval,      \* the ports' rotation_interval
          MinInterval,   \* rotation_min_interval; 0 = no limit
          Attempts,      \* tries of one rotation
          Unique,        \* rotation_unique
          AutoReboot,    \* autoreboot_enable
          MaxScore,      \* autoreboot_max_score
          FaultPoints,   \* score_rotation_fail and score_ip_not_detected
          OfflinePoints, \* score_offline
          Window,        \* autoreboot_window
          MinUptime,     \* autoreboot_min_uptime
          Overlap        \* whether calls may overlap

ASSUME KindsAssumption == Routers \subseteq Netdevs /\ Netdevs \subseteq Modems

ASSUME ClocksAssumption ==
    /\ Interval \in Nat \ {0} /\ MinInterval \in Nat
    /\ Window \in Nat /\ MinUptime \in Nat

ASSUME ScoresAssumption ==
    /\ Attempts \in Nat \ {0} /\ MaxScore \in Nat \ {0}
    /\ FaultPoints \in Nat \ {0} /\ OfflinePoints \in Nat \ {0}

ASSUME SwitchesAssumption ==
    Unique \in BOOLEAN /\ AutoReboot \in BOOLEAN /\ Overlap \in BOOLEAN

ASSUME ProcessesAssumption == Threads \cap {"rotator", "pinger"} = {}

VARIABLES
    link,    \* modem -> the device itself
    status,  \* modem -> the status column
    since,   \* modem -> age of its last entry in rotation_log
    score,   \* modem -> reboot_score
    start,   \* modem -> age of score_window_start
    sent,    \* modem -> age of the alert_log entry of its last reboot
    earned,  \* history: points since the score was last cleared
    job      \* process -> what it is in the middle of

vars == <<link, status, since, score, start, sent, earned, job>>

Procs == Threads \cup {"rotator", "pinger"}

Least(a, b) == IF a <= b THEN a ELSE b

Horizon == IF Interval <= MinInterval THEN MinInterval ELSE Interval

\* loop: what the process returns to: nothing, rotate_all, rotate_due, or the
\* scoring loop of discover; todo: the modems that its list still has.
\* seen, age: the score and the window start that record has read.
Job == [pc : {"idle", "next", "check", "redial", "ask", "log", "look",
              "score", "add", "mute", "clear", "reboot"},
        m : Modems \cup {"none"}, loop : {"none", "all", "due", "faults"},
        todo : SUBSET Modems, tries : 0 .. Attempts,
        result : {"new", "same", "none"}, points : {0, FaultPoints, OfflinePoints},
        seen : 0 .. MaxScore, age : 0 .. Window + 1]

Idle == [pc |-> "idle", m |-> "none", loop |-> "none", todo |-> {}, tries |-> 0,
         result |-> "none", points |-> 0, seen |-> 0, age |-> 0]

\* A step that concerns a modem has one.
TypeOK ==
    /\ link \in [Modems -> {"up", "down", "gone"}]
    /\ status \in [Modems -> {"unknown", "online", "offline"}]
    /\ since \in [Modems -> 0 .. Horizon]
    /\ score \in [Modems -> 0 .. MaxScore]
    /\ start \in [Modems -> 0 .. Window + 1]
    /\ sent \in [Modems -> 0 .. MinUptime]
    /\ earned \in [Modems -> 0 .. MaxScore]
    /\ job \in [Procs -> Job]
    /\ \A p \in Procs :
          job[p].pc \notin {"idle", "next", "look"} => job[p].m \in Modems

\* Nothing is on record: every age is beyond its horizon.
Init ==
    /\ link = [m \in Modems |-> "up"]
    /\ status = [m \in Modems |-> "unknown"]
    /\ since = [m \in Modems |-> Horizon]
    /\ score = [m \in Modems |-> 0]
    /\ start = [m \in Modems |-> Window + 1]
    /\ sent = [m \in Modems |-> MinUptime]
    /\ earned = [m \in Modems |-> 0]
    /\ job = [p \in Procs |-> Idle]

-----------------------------------------------------------------------------
(* Helpers *)

At(p, pc) == job[p].pc = pc

Set(p, j) == job' = [job EXCEPT ![p] = j]

MayBegin(p) == At(p, "idle") /\ (~ Overlap => \A q \in Procs : At(q, "idle"))

\* What is left of a call when its work on one modem is done.
Returned(j) ==
    IF j.loop = "none" THEN Idle
    ELSE [Idle EXCEPT !.pc = "next", !.loop = j.loop, !.todo = j.todo]

\* autoreboot.record is called, if the feature is on.
Recorded(j, points) ==
    IF AutoReboot THEN [Returned(j) EXCEPT !.pc = "score", !.m = j.m, !.points = points]
    ELSE Returned(j)

Clocks == <<since, start, sent>>
Scores == <<score, start, sent, earned>>
Devices == <<link, status>>

\* Mutant: the query forgets the interval.
DueModemsAll == {m \in Modems : status[m] = "online"}

\* db.due_for_rotation: one query.
DueModems == {m \in Modems : status[m] = "online" /\ since[m] >= Interval}

-----------------------------------------------------------------------------
(* The callers of rotate *)

\* The rotation link, the panel, the storefront's reset, the command line.
Rotate(p, m) ==
    /\ p \in Threads
    /\ MayBegin(p)
    /\ Set(p, [Idle EXCEPT !.pc = "check", !.m = m])
    /\ UNCHANGED <<Devices, since, Scores>>

\* rotate_all: the modems that are online, from one list.
RotateAll(p) ==
    /\ p \in Threads
    /\ MayBegin(p)
    /\ Set(p, [Idle EXCEPT !.pc = "next", !.loop = "all",
                           !.todo = {m \in Modems : status[m] = "online"}])
    /\ UNCHANGED <<Devices, since, Scores>>

RotateDue ==
    /\ MayBegin("rotator")
    /\ Set("rotator", [Idle EXCEPT !.pc = "next", !.loop = "due", !.todo = DueModems])
    /\ UNCHANGED <<Devices, since, Scores>>

\* The next modem of the list, whose order the queries leave open.
NextOne(p, m) ==
    LET j == [job[p] EXCEPT !.todo = @ \ {m}, !.m = m] IN
    /\ At(p, "next")
    /\ m \in job[p].todo
    /\ Set(p, IF j.loop = "faults" THEN Recorded(j, OfflinePoints)
              ELSE [j EXCEPT !.pc = "check"])
    /\ UNCHANGED <<Devices, since, Scores>>

EndLoop(p) ==
    /\ At(p, "next")
    /\ job[p].todo = {}
    /\ Set(p, Idle)
    /\ UNCHANGED <<Devices, since, Scores>>

-----------------------------------------------------------------------------
(* rotate *)

\* Mutant: the rate limit is not applied.
CheckIntervalNever(p) ==
    /\ At(p, "check")
    /\ Set(p, [job[p] EXCEPT !.pc = "redial", !.tries = Attempts])
    /\ UNCHANGED <<Devices, since, Scores>>

\* Rotated too recently: skipped.
CheckInterval(p) ==
    /\ At(p, "check")
    /\ Set(p, IF since[job[p].m] < MinInterval THEN Returned(job[p])
              ELSE [job[p] EXCEPT !.pc = "redial", !.tries = Attempts])
    /\ UNCHANGED <<Devices, since, Scores>>

\* netdev.rotate, control.reconnect: no web API answers, the modem is not there,
\* mmcli times out.
MayRaise(m) == m \in Flaky

\* What the polling for the new address may end with.
Results(m) == {"new", "same"} \cup (IF m \in Flaky THEN {"none"} ELSE {})

\* _reconnect_once: the modem dials again and may come up by it.
Redial(p) ==
    LET m == job[p].m IN
    /\ At(p, "redial")
    /\ link[m] # "gone"
    /\ link' = [link EXCEPT ![m] = "up"]
    /\ Set(p, [job[p] EXCEPT !.pc = "ask"])
    /\ UNCHANGED <<status, since, Scores>>

\* Mutant: the first failure ends rotate_due, whatever kind it is.
RaisesAlways(j) == [j EXCEPT !.loop = "none", !.todo = {}]

\* It raises.  rotate_due goes on after an MMError; a NetdevError ends it, and
\* either ends rotate_all.  A modem that has hung up may stay down.
Raises(j) ==
    IF j.loop = "due" /\ j.m \notin Netdevs THEN j
    ELSE [j EXCEPT !.loop = "none", !.todo = {}]

RedialFails(p) ==
    LET m == job[p].m IN
    /\ At(p, "redial")
    /\ MayRaise(m)
    /\ link' \in {link, [link EXCEPT ![m] = IF @ = "up" THEN "down" ELSE @]}
    /\ Set(p, Recorded(Raises(job[p]), FaultPoints))
    /\ UNCHANGED <<status, since, Scores>>

\* Mutant: one attempt too many.
AskAddressOneMore(p, result) ==
    LET j == [job[p] EXCEPT !.result = result, !.tries = @ - 1]
        ok == result = "new" \/ (result = "same" /\ ~ Unique)
    IN  /\ At(p, "ask")
        /\ result \in Results(j.m)
        /\ Set(p, [j EXCEPT !.pc = IF ok \/ j.tries < 0 THEN "log" ELSE "redial"])
        /\ UNCHANGED <<Devices, since, Scores>>

\* The address is read back, and the loop over the attempts decides.
AskAddress(p, result) ==
    LET j == [job[p] EXCEPT !.result = result, !.tries = @ - 1]
        ok == result = "new" \/ (result = "same" /\ ~ Unique)
    IN  /\ At(p, "ask")
        /\ result \in Results(j.m)
        /\ Set(p, [j EXCEPT !.pc = IF ok \/ j.tries = 0 THEN "log" ELSE "redial"])
        /\ UNCHANGED <<Devices, since, Scores>>

\* log_rotation, in whatever way the attempts ended.
LogRotation(p) ==
    LET j == job[p] IN
    /\ At(p, "log")
    /\ since' = [since EXCEPT ![j.m] = 0]
    /\ Set(p, IF j.result = "none" THEN Recorded(j, FaultPoints) ELSE Returned(j))
    /\ UNCHANGED <<Devices, Scores>>

-----------------------------------------------------------------------------
(* discover *)

Discover ==
    /\ MayBegin("pinger")
    /\ Set("pinger", [Idle EXCEPT !.pc = "look", !.todo = Modems])
    /\ UNCHANGED <<Devices, since, Scores>>

\* A modem that is not there is not looked at, and keeps its status; only a
\* router that was added by hand is marked offline then.
LookAt(p, m) ==
    /\ At(p, "look")
    /\ m \in job[p].todo
    /\ status' = [status EXCEPT ![m] =
                    CASE link[m] = "up" -> "online"
                      [] link[m] = "down" \/ m \in Routers -> "offline"
                      [] OTHER -> @]
    /\ Set(p, [job[p] EXCEPT !.todo = @ \ {m}])
    /\ UNCHANGED <<link, since, Scores>>

\* Then the modems that are offline are scored, one by one, from one list.
ListFaults(p) ==
    /\ At(p, "look")
    /\ job[p].todo = {}
    /\ Set(p, [Idle EXCEPT !.pc = "next", !.loop = "faults",
                           !.todo = {m \in Modems : status[m] = "offline"}])
    /\ UNCHANGED <<Devices, since, Scores>>

-----------------------------------------------------------------------------
(* autoreboot.record and _reboot *)

\* The row is read; a window that is over begins anew.
ReadScore(p) ==
    LET m == job[p].m
        expired == start[m] > Window
    IN  /\ At(p, "score")
        /\ Set(p, [job[p] EXCEPT !.pc = "add",
                                 !.seen = IF expired THEN 0 ELSE score[m],
                                 !.age = IF expired THEN 0 ELSE start[m]])
        /\ UNCHANGED <<Devices, since, Scores>>

\* The row is written.
AddScore(p) ==
    LET j == job[p]
        total == Least(j.seen + j.points, MaxScore)
    IN  /\ At(p, "add")
        /\ score' = [score EXCEPT ![j.m] = total]
        /\ start' = [start EXCEPT ![j.m] = j.age]
        /\ earned' = [earned EXCEPT ![j.m] = Least(@ + j.points, MaxScore)]
        /\ Set(p, IF total >= MaxScore THEN [j EXCEPT !.pc = "mute"] ELSE Returned(j))
        /\ UNCHANGED <<Devices, since, sent>>

\* alert_should_send: not again within the minimum uptime.
AlertShouldSend(p) ==
    LET m == job[p].m IN
    /\ At(p, "mute")
    /\ \/ /\ sent[m] < MinUptime
          /\ Set(p, Returned(job[p]))
          /\ UNCHANGED sent
       \/ /\ sent[m] >= MinUptime
          /\ sent' = [sent EXCEPT ![m] = 0]
          /\ Set(p, [job[p] EXCEPT !.pc = "clear"])
    /\ UNCHANGED <<Devices, since, score, start, earned>>

\* Mutant: only the window begins anew, and the score stays.
ClearScoreNot(p) ==
    LET m == job[p].m IN
    /\ At(p, "clear")
    /\ start' = [start EXCEPT ![m] = 0]
    /\ Set(p, [job[p] EXCEPT !.pc = "reboot"])
    /\ UNCHANGED <<Devices, since, score, sent, earned>>

ClearScore(p) ==
    LET m == job[p].m IN
    /\ At(p, "clear")
    /\ score' = [score EXCEPT ![m] = 0]
    /\ start' = [start EXCEPT ![m] = 0]
    /\ Set(p, [job[p] EXCEPT !.pc = "reboot"])
    /\ UNCHANGED <<Devices, since, sent, earned>>

\* The modem is reset and drops out, or the attempt fails.
RebootModem(p) ==
    LET m == job[p].m IN
    /\ At(p, "reboot")
    /\ link' \in {link, [link EXCEPT ![m] = "gone"]}
    /\ earned' = [earned EXCEPT ![m] = 0]
    /\ Set(p, Returned(job[p]))
    /\ UNCHANGED <<status, since, score, start, sent>>

-----------------------------------------------------------------------------
(* The environment *)

LinkChanges(m, state) ==
    /\ m \in Flaky
    /\ link' = [link EXCEPT ![m] = state]
    /\ UNCHANGED <<status, since, Scores, job>>

Older(ages, horizon) == [m \in Modems |-> Least(ages[m] + 1, horizon)]

\* Time passes, also for the window start that a record has read.
Tick ==
    /\ since' = Older(since, Horizon)
    /\ start' = Older(start, Window + 1)
    /\ sent' = Older(sent, MinUptime)
    /\ job' = [p \in Procs |-> IF At(p, "add")
                               THEN [job[p] EXCEPT !.age = Least(@ + 1, Window + 1)]
                               ELSE job[p]]
    /\ UNCHANGED <<Devices, score, earned>>

-----------------------------------------------------------------------------
Continue(p) ==
    \/ \E m \in Modems : NextOne(p, m) \/ LookAt(p, m)
    \/ EndLoop(p) \/ ListFaults(p)
    \/ CheckInterval(p) \/ Redial(p) \/ RedialFails(p)
    \/ \E result \in {"new", "same", "none"} : AskAddress(p, result)
    \/ LogRotation(p)
    \/ ReadScore(p) \/ AddScore(p) \/ AlertShouldSend(p)
    \/ ClearScore(p) \/ RebootModem(p)

Request(p) == RotateAll(p) \/ \E m \in Modems : Rotate(p, m)

Next ==
    \/ \E p \in Procs : Request(p) \/ Continue(p)
    \/ RotateDue
    \/ Discover
    \/ \E m \in Modems, state \in {"up", "down", "gone"} : LinkChanges(m, state)
    \/ Tick

Spec == Init /\ [][Next]_vars

\* Calls are finished, the two timers keep firing, time passes.
Fairness ==
    /\ \A p \in Procs : WF_vars(Continue(p))
    /\ SF_vars(RotateDue) /\ SF_vars(Discover)
    /\ WF_vars(Tick)

FairSpec == Spec /\ Fairness

-----------------------------------------------------------------------------
(* Properties *)

Logs(p) == At(p, "log") /\ job'[p].pc # "log"

\* "Rotate only modems whose per-port rotation interval has elapsed"
\* (manager.py:168): the list is made once, minutes before its last modem is
\* rotated, and holds good until then.
ScheduleKept ==
    [][Logs("rotator") => since[job["rotator"].m] >= Interval]_vars

\* "ignore rotate calls within N seconds" (config.py:113), whoever calls.
RotationsApart ==
    [][\A p \in Procs : Logs(p) => since[job[p].m] >= MinInterval]_vars

\* "When the score crosses the threshold the modem is rebooted ... and the
\* score resets" (autoreboot.py:4-5): every reboot is paid for by points that
\* no earlier reboot was given for.
RebootEarned ==
    [][\A p \in Procs :
          At(p, "reboot") /\ job'[p].pc # "reboot"
              => earned[job[p].m] >= MaxScore]_vars

\* A modem that is due and works is rotated (or found offline), although
\* others fail in the same loop.
DueIsRotated ==
    \A m \in Modems \ Flaky : m \in DueModems ~> m \notin DueModems

=============================================================================
