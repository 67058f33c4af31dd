--------------------------- MODULE RotationProofs ---------------------------
(***************************************************************************)
(* Proofs about Rotation, for any number of modems and of processes and    *)
(* any values of the settings: every step stays within its type; and while *)
(* calls do not overlap, no modem is rotated before its time and none is   *)
(* rebooted but for points it has not yet been rebooted for.               *)
(***************************************************************************)
EXTENDS Rotation, TLAPS

-----------------------------------------------------------------------------
(* The helpers on jobs *)

LEMMA LeastFact ==
    ASSUME NEW a \in Int, NEW b \in Int
    PROVE  /\ Least(a, b) \in {a, b}
           /\ Least(a, b) <= a /\ Least(a, b) <= b
BY DEF Least

LEMMA HorizonFact == /\ Horizon \in Nat
                     /\ Interval <= Horizon /\ MinInterval <= Horizon
BY ClocksAssumption DEF Horizon

LEMMA ProcsFact == /\ "rotator" \in Procs /\ "pinger" \in Procs
                   /\ Threads \subseteq Procs
                   /\ "rotator" \notin Threads /\ "pinger" \notin Threads
BY ProcessesAssumption DEF Procs

LEMMA IdleFact ==
    /\ Idle \in Job
    /\ Idle.pc = "idle" /\ Idle.m = "none" /\ Idle.loop = "none" /\ Idle.todo = {}
BY ScoresAssumption, ClocksAssumption DEF Idle, Job

\* What a call returns to: its loop, with the rest of the list, or nothing.
LEMMA ReturnedFact ==
    ASSUME NEW j \in Job
    PROVE  /\ Returned(j) \in Job
           /\ Returned(j).pc \in {"idle", "next"}
           /\ Returned(j).pc = "idle" <=> j.loop = "none"
           /\ Returned(j).loop = j.loop
           /\ Returned(j).todo \subseteq j.todo
<1>1. CASE j.loop = "none"
  BY <1>1, IdleFact DEF Returned
<1>2. CASE j.loop # "none"
  <2>1. /\ j.loop \in {"none", "all", "due", "faults"}
        /\ j.todo \in SUBSET Modems
    BY DEF Job
  <2>2. Returned(j) = [Idle EXCEPT !.pc = "next", !.loop = j.loop, !.todo = j.todo]
    BY <1>2 DEF Returned
  <2>3. /\ [Idle EXCEPT !.pc = "next", !.loop = j.loop, !.todo = j.todo] \in Job
        /\ [Idle EXCEPT !.pc = "next", !.loop = j.loop, !.todo = j.todo].pc = "next"
        /\ [Idle EXCEPT !.pc = "next", !.loop = j.loop, !.todo = j.todo].loop = j.loop
        /\ [Idle EXCEPT !.pc = "next", !.loop = j.loop, !.todo = j.todo].todo = j.todo
    BY <2>1, IdleFact DEF Job
  <2> QED BY <1>2, <2>2, <2>3
<1> QED BY <1>1, <1>2

\* A failure is recorded: the score is next, or the loop.
LEMMA RecordedFact ==
    ASSUME NEW j \in Job, j.m \in Modems, NEW points \in {FaultPoints, OfflinePoints}
    PROVE  /\ Recorded(j, points) \in Job
           /\ Recorded(j, points).pc \in {"idle", "next", "score"}
           /\ Recorded(j, points).pc = "idle" => j.loop = "none"
           /\ Recorded(j, points).pc = "score" => Recorded(j, points).m \in Modems
           /\ Recorded(j, points).loop = j.loop
           /\ Recorded(j, points).todo \subseteq j.todo
<1> DEFINE r == Returned(j)
<1>1. /\ r \in Job /\ r.loop = j.loop /\ r.todo \subseteq j.todo
      /\ r.pc \in {"idle", "next"} /\ (r.pc = "idle" => j.loop = "none")
  BY ReturnedFact
<1>2. Recorded(j, points) = IF AutoReboot
                            THEN [r EXCEPT !.pc = "score", !.m = j.m, !.points = points]
                            ELSE r
  BY DEF Recorded
<1> HIDE DEF r
<1>3. /\ [r EXCEPT !.pc = "score", !.m = j.m, !.points = points] \in Job
      /\ [r EXCEPT !.pc = "score", !.m = j.m, !.points = points].pc = "score"
      /\ [r EXCEPT !.pc = "score", !.m = j.m, !.points = points].m = j.m
      /\ [r EXCEPT !.pc = "score", !.m = j.m, !.points = points].loop = r.loop
      /\ [r EXCEPT !.pc = "score", !.m = j.m, !.points = points].todo = r.todo
  BY <1>1 DEF Job
<1>4. CASE AutoReboot
  BY <1>1, <1>2, <1>3, <1>4
<1>5. CASE ~ AutoReboot
  BY <1>1, <1>2, <1>5
<1> QED BY <1>4, <1>5

\* A rotation raises: its loop goes on or is given up.
LEMMA RaisesFact ==
    ASSUME NEW j \in Job
    PROVE  /\ Raises(j) \in Job
           /\ Raises(j).m = j.m
           /\ Raises(j).loop \in {"none", j.loop}
           /\ Raises(j).todo \subseteq j.todo
<1>1. /\ [j EXCEPT !.loop = "none", !.todo = {}] \in Job
      /\ [j EXCEPT !.loop = "none", !.todo = {}].m = j.m
      /\ [j EXCEPT !.loop = "none", !.todo = {}].loop = "none"
      /\ [j EXCEPT !.loop = "none", !.todo = {}].todo = {}
  BY DEF Job
<1>2. Raises(j) \in {j, [j EXCEPT !.loop = "none", !.todo = {}]}
  BY DEF Raises
<1> QED BY <1>1, <1>2

\* Only the process that takes a step changes its job.
LEMMA SetFact ==
    ASSUME job \in [Procs -> Job], NEW p \in Procs, NEW j \in Job, Set(p, j)
    PROVE  /\ job' \in [Procs -> Job]
           /\ job'[p] = j
           /\ \A q \in Procs : q # p => job'[q] = job[q]
BY DEF Set

-----------------------------------------------------------------------------
(* Types *)

Homeless == {"idle", "next", "look"}

JobsOK ==
    /\ job \in [Procs -> Job]
    /\ \A p \in Procs : job[p].pc \notin Homeless => job[p].m \in Modems
    /\ \A p \in Procs : job[p].pc \in {"redial", "ask"} => job[p].tries # 0

LEMMA SetJobsOK ==
    ASSUME JobsOK, NEW p \in Procs, NEW j \in Job, Set(p, j),
           j.pc \notin Homeless => j.m \in Modems,
           j.pc \in {"redial", "ask"} => j.tries # 0
    PROVE  JobsOK'
BY SetFact DEF JobsOK, At

\* The parts of the state that are no jobs.
DataOK ==
    /\ link \in [Modems -> {"up", "down", "gone"}]
    /\ status \in [Modems -> {"unknown", "online", "offline"}]
    /\ since \in [Modems -> 0 .. Horizon]
    /\ score \in [Modems -> 0 .. MaxScore]
    /\ start \in [Modems -> 0 .. Window + 1]
    /\ sent \in [Modems -> 0 .. MinUptime]
    /\ earned \in [Modems -> 0 .. MaxScore]

\* Stronger than TypeOK: an attempt is under way only while one is left.
TypeInv == DataOK /\ JobsOK

LEMMA TypeParts == TypeInv => TypeOK
BY DEF TypeInv, TypeOK, DataOK, JobsOK, Homeless

\* The state that the step of a process leaves alone stays well-typed.
LEMMA DataStays == DataOK /\ UNCHANGED <<Devices, since, Scores>> => DataOK'
BY DEF DataOK, Devices, Scores

LEMMA InitTypes == Init => TypeInv
<1> SUFFICES ASSUME Init PROVE TypeInv
  OBVIOUS
<1>1. DataOK
  BY HorizonFact, ClocksAssumption, ScoresAssumption DEF Init, DataOK
<1>2. JobsOK
  BY IdleFact DEF Init, JobsOK, Homeless
<1> QED BY <1>1, <1>2 DEF TypeInv

\* Beginning a call, and what rotate does up to its first answer.
LEMMA CallTypes ==
    ASSUME TypeInv, NEW p \in Procs,
           \/ Request(p) \/ EndLoop(p) \/ CheckInterval(p) \/ ListFaults(p)
           \/ p = "rotator" /\ RotateDue
           \/ p = "pinger" /\ Discover
    PROVE  TypeInv'
<1> USE DEF Homeless
<1>0. DataOK /\ JobsOK /\ job[p] \in Job
  BY DEF TypeInv, JobsOK
<1>1. ASSUME NEW m \in Modems, Rotate(p, m) PROVE JobsOK'
  <2>1. /\ [Idle EXCEPT !.pc = "check", !.m = m] \in Job
        /\ [Idle EXCEPT !.pc = "check", !.m = m].m = m
        /\ [Idle EXCEPT !.pc = "check", !.m = m].pc = "check"
    BY IdleFact DEF Job
  <2> QED BY <1>0, <1>1, <2>1, SetJobsOK DEF Rotate
<1>2. ASSUME NEW s \in SUBSET Modems, NEW l \in {"all", "due", "faults"},
             Set(p, [Idle EXCEPT !.pc = "next", !.loop = l, !.todo = s])
      PROVE  JobsOK'
  <2>1. /\ [Idle EXCEPT !.pc = "next", !.loop = l, !.todo = s] \in Job
        /\ [Idle EXCEPT !.pc = "next", !.loop = l, !.todo = s].pc = "next"
    BY IdleFact DEF Job
  <2> QED BY <1>0, <1>2, <2>1, SetJobsOK
<1>3. ASSUME Discover, p = "pinger" PROVE JobsOK'
  <2>1. /\ [Idle EXCEPT !.pc = "look", !.todo = Modems] \in Job
        /\ [Idle EXCEPT !.pc = "look", !.todo = Modems].pc = "look"
    BY IdleFact DEF Job
  <2> QED BY <1>0, <1>3, <2>1, SetJobsOK DEF Discover
<1>4. ASSUME EndLoop(p) PROVE JobsOK'
  BY <1>0, <1>4, IdleFact, SetJobsOK DEF EndLoop
<1>5. ASSUME CheckInterval(p) PROVE JobsOK'
  <2>1. /\ [job[p] EXCEPT !.pc = "redial", !.tries = Attempts] \in Job
        /\ [job[p] EXCEPT !.pc = "redial", !.tries = Attempts].m = job[p].m
        /\ [job[p] EXCEPT !.pc = "redial", !.tries = Attempts].tries # 0
    <3>1. Attempts \in 0 .. Attempts /\ Attempts # 0
      BY ScoresAssumption
    <3> QED BY <1>0, <3>1 DEF Job
  <2>2. job[p].m \in Modems
    BY <1>0, <1>5 DEF JobsOK, CheckInterval, At
  <2> QED BY <1>0, <1>5, <2>1, <2>2, ReturnedFact, SetJobsOK DEF CheckInterval
<1>6. JobsOK'
  <2>1. CASE \E m \in Modems : Rotate(p, m)
    BY <2>1, <1>1
  <2>2. CASE RotateAll(p)
    BY <2>2, <1>2 DEF RotateAll
  <2>3. CASE RotateDue /\ p = "rotator"
    BY <2>3, <1>2 DEF RotateDue, DueModems
  <2>4. CASE ListFaults(p)
    BY <2>4, <1>2 DEF ListFaults
  <2> QED BY <2>1, <2>2, <2>3, <2>4, <1>3, <1>4, <1>5 DEF Request
<1>7. UNCHANGED <<Devices, since, Scores>>
  BY DEF Request, Rotate, RotateAll, RotateDue, Discover, EndLoop, CheckInterval,
         ListFaults
<1> QED BY <1>0, <1>6, <1>7, DataStays DEF TypeInv

LEMMA RotateTypes ==
    ASSUME TypeInv, NEW p \in Procs,
           \/ \E m \in Modems : NextOne(p, m)
           \/ Redial(p) \/ RedialFails(p) \/ LogRotation(p)
           \/ \E result \in {"new", "same", "none"} : AskAddress(p, result)
    PROVE  TypeInv'
<1> USE DEF Homeless
<1>0. DataOK /\ JobsOK /\ job[p] \in Job
  BY DEF TypeInv, JobsOK
<1>1. ASSUME NEW m \in Modems, NextOne(p, m) PROVE TypeInv'
  <2> DEFINE j == [job[p] EXCEPT !.todo = @ \ {m}, !.m = m]
  <2>1. j \in Job /\ j.m = m
    BY <1>0 DEF Job
  <2>2. Set(p, IF j.loop = "faults" THEN Recorded(j, OfflinePoints)
               ELSE [j EXCEPT !.pc = "check"])
    BY <1>1 DEF NextOne
  <2> HIDE DEF j
  <2>3. /\ [j EXCEPT !.pc = "check"] \in Job
        /\ [j EXCEPT !.pc = "check"].m = m
        /\ [j EXCEPT !.pc = "check"].pc = "check"
    BY <2>1 DEF Job
  <2>4. /\ Recorded(j, OfflinePoints) \in Job
        /\ Recorded(j, OfflinePoints).pc \in {"idle", "next", "score"}
        /\ Recorded(j, OfflinePoints).pc \notin Homeless
              => Recorded(j, OfflinePoints).m \in Modems
    BY <2>1, RecordedFact
  <2>5. JobsOK'
    BY <1>0, <2>2, <2>3, <2>4, SetJobsOK
  <2>6. UNCHANGED <<Devices, since, Scores>>
    BY <1>1 DEF NextOne
  <2> QED BY <1>0, <2>5, <2>6, DataStays DEF TypeInv
<1>2. CASE Redial(p)
  <2>1. /\ [job[p] EXCEPT !.pc = "ask"] \in Job
        /\ [job[p] EXCEPT !.pc = "ask"].m = job[p].m
        /\ [job[p] EXCEPT !.pc = "ask"].tries = job[p].tries
    BY <1>0 DEF Job
  <2>2. job[p].m \in Modems /\ job[p].tries # 0
    BY <1>0, <1>2 DEF JobsOK, Redial, At
  <2>3. JobsOK'
    BY <1>0, <1>2, <2>1, <2>2, SetJobsOK DEF Redial
  <2>4. DataOK'
    BY <1>0, <1>2, <2>2 DEF Redial, DataOK, Scores
  <2> QED BY <2>3, <2>4 DEF TypeInv
<1>3. CASE RedialFails(p)
  <2>1. job[p].m \in Modems
    BY <1>0, <1>3 DEF JobsOK, RedialFails, At
  <2> DEFINE j == Raises(job[p])
  <2>2. j \in Job /\ j.m \in Modems
    BY <1>0, <2>1, RaisesFact
  <2>3. Set(p, Recorded(j, FaultPoints))
    BY <1>3 DEF RedialFails
  <2> HIDE DEF j
  <2>4. JobsOK'
    BY <1>0, <2>2, <2>3, RecordedFact, SetJobsOK
  <2>5. DataOK'
    BY <1>0, <1>3, <2>1 DEF RedialFails, DataOK, Scores
  <2> QED BY <2>4, <2>5 DEF TypeInv
<1>4. ASSUME NEW result \in {"new", "same", "none"}, AskAddress(p, result)
      PROVE  TypeInv'
  <2> DEFINE j == [job[p] EXCEPT !.result = result, !.tries = @ - 1]
             t == job[p].tries - 1
  <2>1. job[p].m \in Modems /\ job[p].tries # 0 /\ job[p].tries \in 0 .. Attempts
    BY <1>0, <1>4 DEF JobsOK, AskAddress, At, Job
  <2>2. t \in 0 .. Attempts
    BY <2>1, ScoresAssumption
  <2> HIDE DEF t
  <2>3. j = [job[p] EXCEPT !.result = result, !.tries = t]
    BY <1>0 DEF t, Job
  <2>4. /\ [job[p] EXCEPT !.result = result, !.tries = t] \in Job
        /\ [job[p] EXCEPT !.result = result, !.tries = t].m = job[p].m
        /\ [job[p] EXCEPT !.result = result, !.tries = t].tries = t
    BY <1>0, <2>2 DEF Job
  <2>5. \E pc \in {"log", "redial"} :
            /\ pc = "redial" => j.tries # 0
            /\ Set(p, [j EXCEPT !.pc = pc])
    BY <1>4 DEF AskAddress
  <2>6. PICK pc \in {"log", "redial"} :
            /\ pc = "redial" => j.tries # 0
            /\ Set(p, [j EXCEPT !.pc = pc])
    BY <2>5
  <2>7. j \in Job /\ j.m \in Modems
    BY <2>1, <2>3, <2>4
  <2> HIDE DEF j
  <2>8. /\ [j EXCEPT !.pc = pc] \in Job
        /\ [j EXCEPT !.pc = pc].pc = pc
        /\ [j EXCEPT !.pc = pc].m = j.m
        /\ [j EXCEPT !.pc = pc].tries = j.tries
    BY <2>7 DEF Job
  <2>9. JobsOK'
    BY <1>0, <2>6, <2>7, <2>8, SetJobsOK
  <2>10. UNCHANGED <<Devices, since, Scores>>
    BY <1>4 DEF AskAddress
  <2> QED BY <1>0, <2>9, <2>10, DataStays DEF TypeInv
<1>5. CASE LogRotation(p)
  <2>1. job[p].m \in Modems
    BY <1>0, <1>5 DEF JobsOK, LogRotation, At
  <2>2. JobsOK'
    BY <1>0, <1>5, <2>1, ReturnedFact, RecordedFact, SetJobsOK DEF LogRotation
  <2>3. DataOK'
    BY <1>0, <1>5, <2>1, HorizonFact DEF LogRotation, DataOK, Devices, Scores
  <2> QED BY <2>2, <2>3 DEF TypeInv
<1> QED BY <1>1, <1>2, <1>3, <1>4, <1>5

\* discover's looks, the score and the reboot.
LEMMA ScoreTypes ==
    ASSUME TypeInv, NEW p \in Procs,
           \/ \E m \in Modems : LookAt(p, m)
           \/ ReadScore(p) \/ AddScore(p) \/ AlertShouldSend(p)
           \/ ClearScore(p) \/ RebootModem(p)
    PROVE  TypeInv'
<1> USE DEF Homeless
<1>0. DataOK /\ JobsOK /\ job[p] \in Job
  BY DEF TypeInv, JobsOK
<1>1. ASSUME NEW m \in Modems, LookAt(p, m) PROVE TypeInv'
  <2>1. /\ [job[p] EXCEPT !.todo = @ \ {m}] \in Job
        /\ [job[p] EXCEPT !.todo = @ \ {m}].pc = job[p].pc
        /\ job[p].pc = "look"
    BY <1>0, <1>1 DEF Job, LookAt, At
  <2>2. JobsOK'
    BY <1>0, <1>1, <2>1, SetJobsOK DEF LookAt
  <2> DEFINE new == CASE link[m] = "up" -> "online"
                      [] link[m] = "down" \/ m \in Routers -> "offline"
                      [] OTHER -> status[m]
  <2>3. /\ status' = [status EXCEPT ![m] = new]
        /\ new \in {"unknown", "online", "offline"}
    <3>1. status[m] \in {"unknown", "online", "offline"} /\ m \in DOMAIN status
      BY <1>0 DEF DataOK
    <3>2. status' = [status EXCEPT ![m] = new]
      BY <1>1, <3>1 DEF LookAt
    <3>3. new \in {"online", "offline", status[m]}
      <4>1. CASE link[m] = "up"
        BY <4>1
      <4>2. CASE link[m] # "up" /\ (link[m] = "down" \/ m \in Routers)
        BY <4>2
      <4>3. CASE link[m] # "up" /\ ~ (link[m] = "down" \/ m \in Routers)
        BY <4>3
      <4> QED BY <4>1, <4>2, <4>3
    <3> QED BY <3>1, <3>2, <3>3
  <2> HIDE DEF new
  <2>4. DataOK'
    BY <1>0, <1>1, <2>3 DEF LookAt, DataOK, Scores
  <2> QED BY <2>2, <2>4 DEF TypeInv
<1>2. CASE ReadScore(p)
  <2> DEFINE m == job[p].m
             total == IF start[m] > Window THEN 0 ELSE score[m]
             age == IF start[m] > Window THEN 0 ELSE start[m]
  <2>1. m \in Modems
    BY <1>0, <1>2 DEF JobsOK, ReadScore, At
  <2>2. score[m] \in 0 .. MaxScore /\ start[m] \in 0 .. Window + 1
    BY <1>0, <2>1 DEF DataOK
  <2>3. total \in 0 .. MaxScore /\ age \in 0 .. Window + 1
    BY <2>2, ScoresAssumption, ClocksAssumption
  <2>4. Set(p, [job[p] EXCEPT !.pc = "add", !.seen = total, !.age = age])
    BY <1>2 DEF ReadScore
  <2> HIDE DEF total, age
  <2>5. /\ [job[p] EXCEPT !.pc = "add", !.seen = total, !.age = age] \in Job
        /\ [job[p] EXCEPT !.pc = "add", !.seen = total, !.age = age].m = m
        /\ [job[p] EXCEPT !.pc = "add", !.seen = total, !.age = age].pc = "add"
    BY <1>0, <2>3 DEF Job
  <2>6. JobsOK'
    BY <1>0, <2>1, <2>4, <2>5, SetJobsOK
  <2>7. UNCHANGED <<Devices, since, Scores>>
    BY <1>2 DEF ReadScore
  <2> QED BY <1>0, <2>6, <2>7, DataStays DEF TypeInv
<1>3. CASE AddScore(p)
  <2> DEFINE j == job[p]
             total == Least(j.seen + j.points, MaxScore)
             gain == Least(earned[j.m] + j.points, MaxScore)
  <2>1. /\ j.m \in Modems /\ j.seen \in 0 .. MaxScore
        /\ j.points \in {0, FaultPoints, OfflinePoints} /\ j.age \in 0 .. Window + 1
    BY <1>0, <1>3 DEF JobsOK, AddScore, At, Job
  <2>2. earned[j.m] \in 0 .. MaxScore
    BY <1>0, <2>1 DEF DataOK
  <2>3. total \in 0 .. MaxScore /\ gain \in 0 .. MaxScore
    BY <2>1, <2>2, ScoresAssumption DEF Least
  <2>4. /\ score' = [score EXCEPT ![j.m] = total]
        /\ earned' = [earned EXCEPT ![j.m] = gain]
        /\ start' = [start EXCEPT ![j.m] = j.age]
        /\ UNCHANGED <<link, status, since, sent>>
        /\ \/ Set(p, [j EXCEPT !.pc = "mute"]) \/ Set(p, Returned(j))
    BY <1>3 DEF AddScore, Devices
  <2> HIDE DEF total, gain
  <2>5. DataOK'
    BY <1>0, <2>1, <2>3, <2>4 DEF DataOK
  <2>6. /\ [j EXCEPT !.pc = "mute"] \in Job
        /\ [j EXCEPT !.pc = "mute"].m = j.m
        /\ [j EXCEPT !.pc = "mute"].pc = "mute"
    BY <1>0 DEF Job
  <2>7. JobsOK'
    BY <1>0, <2>1, <2>4, <2>6, ReturnedFact, SetJobsOK
  <2> QED BY <2>5, <2>7 DEF TypeInv
<1>4. CASE AlertShouldSend(p)
  <2>1. job[p].m \in Modems
    BY <1>0, <1>4 DEF JobsOK, AlertShouldSend, At
  <2>2. /\ [job[p] EXCEPT !.pc = "clear"] \in Job
        /\ [job[p] EXCEPT !.pc = "clear"].m = job[p].m
        /\ [job[p] EXCEPT !.pc = "clear"].pc = "clear"
    BY <1>0 DEF Job
  <2>3. JobsOK'
    BY <1>0, <1>4, <2>1, <2>2, ReturnedFact, SetJobsOK DEF AlertShouldSend
  <2>4. DataOK'
    BY <1>0, <1>4, <2>1, ClocksAssumption DEF AlertShouldSend, DataOK, Devices
  <2> QED BY <2>3, <2>4 DEF TypeInv
<1>5. CASE ClearScore(p)
  <2>1. job[p].m \in Modems
    BY <1>0, <1>5 DEF JobsOK, ClearScore, At
  <2>2. /\ [job[p] EXCEPT !.pc = "reboot"] \in Job
        /\ [job[p] EXCEPT !.pc = "reboot"].m = job[p].m
        /\ [job[p] EXCEPT !.pc = "reboot"].pc = "reboot"
    BY <1>0 DEF Job
  <2>3. JobsOK'
    BY <1>0, <1>5, <2>1, <2>2, SetJobsOK DEF ClearScore
  <2>4. DataOK'
    BY <1>0, <1>5, <2>1, ClocksAssumption, ScoresAssumption
       DEF ClearScore, DataOK, Devices
  <2> QED BY <2>3, <2>4 DEF TypeInv
<1>6. CASE RebootModem(p)
  <2>1. job[p].m \in Modems
    BY <1>0, <1>6 DEF JobsOK, RebootModem, At
  <2>2. JobsOK'
    BY <1>0, <1>6, <2>1, ReturnedFact, SetJobsOK DEF RebootModem
  <2>3. DataOK'
    BY <1>0, <1>6, <2>1, ScoresAssumption DEF RebootModem, DataOK
  <2> QED BY <2>2, <2>3 DEF TypeInv
<1> QED BY <1>1, <1>2, <1>3, <1>4, <1>5, <1>6

\* An age stays within its horizon.
LEMMA OlderFact ==
    ASSUME NEW h \in Nat, NEW ages \in [Modems -> 0 .. h]
    PROVE  /\ Older(ages, h) \in [Modems -> 0 .. h]
           /\ \A m \in Modems : Older(ages, h)[m] >= ages[m]
BY DEF Older, Least

LEMMA TickTypes == TypeInv /\ Tick => TypeInv'
<1> SUFFICES ASSUME TypeInv, Tick PROVE TypeInv'
  OBVIOUS
<1> USE DEF Homeless
<1>1. /\ Horizon \in Nat /\ Window + 1 \in Nat /\ MinUptime \in Nat
  BY HorizonFact, ClocksAssumption
<1>2. DataOK'
  BY <1>1, OlderFact DEF TypeInv, DataOK, Tick, Devices
<1>3. ASSUME NEW p \in Procs
      PROVE  /\ job'[p] \in Job
             /\ job'[p].pc = job[p].pc /\ job'[p].m = job[p].m
             /\ job'[p].tries = job[p].tries
  <2> DEFINE age == Least(job[p].age + 1, Window + 1)
  <2>1. job[p] \in Job /\ job[p].age \in 0 .. Window + 1
    BY DEF TypeInv, JobsOK, Job
  <2>2. age \in 0 .. Window + 1
    BY <2>1, ClocksAssumption DEF Least
  <2>3. job'[p] \in {job[p], [job[p] EXCEPT !.age = age]}
    BY DEF Tick
  <2> HIDE DEF age
  <2>4. [job[p] EXCEPT !.age = age] \in Job
    BY <2>1, <2>2 DEF Job
  <2> QED BY <2>1, <2>3, <2>4 DEF Job
<1>4. JobsOK'
  <2>1. job' \in [Procs -> Job]
    BY <1>3 DEF Tick
  <2> QED BY <2>1, <1>3 DEF TypeInv, JobsOK
<1> QED BY <1>2, <1>4 DEF TypeInv

LEMMA StepTypes == TypeInv /\ [Next]_vars => TypeInv'
<1> SUFFICES ASSUME TypeInv, [Next]_vars PROVE TypeInv'
  OBVIOUS
<1>1. ASSUME NEW p \in Procs, Request(p) PROVE TypeInv'
  BY <1>1, CallTypes
<1>2. ASSUME NEW p \in Procs, Continue(p) PROVE TypeInv'
  BY <1>2, CallTypes, RotateTypes, ScoreTypes DEF Continue
<1>3. CASE RotateDue \/ Discover
  BY <1>3, CallTypes, ProcsFact
<1>4. ASSUME NEW m \in Modems, NEW state \in {"up", "down", "gone"},
             LinkChanges(m, state)
      PROVE  TypeInv'
  BY <1>4 DEF LinkChanges, TypeInv, DataOK, JobsOK, Scores
<1>5. CASE Tick
  BY <1>5, TickTypes
<1>6. CASE UNCHANGED vars
  BY <1>6 DEF vars, TypeInv, DataOK, JobsOK
<1> QED BY <1>1, <1>2, <1>3, <1>4, <1>5, <1>6 DEF Next

LEMMA TypeInvThm == Spec => []TypeInv
BY InitTypes, StepTypes, PTL DEF Spec

\* Every step of rotate, discover and record stays within its type.
THEOREM RotationTypes == Spec => []TypeOK
BY TypeInvThm, TypeParts, PTL

-----------------------------------------------------------------------------
(* The times of the rotations *)

\* One call at a time, where calls do not overlap.
Lone ==
    ~ Overlap => \A p, q \in Procs : p # q => At(p, "idle") \/ At(q, "idle")

Trying == {"redial", "ask", "log"}

\* What rotate has checked holds good until the rotation is logged.
Checked ==
    \A p \in Procs : job[p].pc \in Trying => since[job[p].m] >= MinInterval

\* The rotator's list holds good, for the modem at hand and for the rest.
ListGood ==
    /\ job["rotator"].pc # "look"
    /\ job["rotator"].pc # "idle" =>
          \A m \in job["rotator"].todo : since[m] >= Interval
    /\ job["rotator"].pc \in Trying \cup {"check"} =>
          /\ since[job["rotator"].m] >= Interval
          /\ job["rotator"].m \notin job["rotator"].todo

\* The pinger only looks and scores.
PingerScores ==
    /\ job["pinger"].pc \notin Trying \cup {"check"}
    /\ job["pinger"].pc \notin {"idle", "look"} => job["pinger"].loop = "faults"

RotationInv == Lone /\ Checked /\ ListGood /\ PingerScores

\* What record and _reboot do once the score is read.
Scoring == {"add", "mute", "clear", "reboot"}

Keeps(p) ==
    /\ job'[p].m = job[p].m /\ job'[p].todo = job[p].todo
    /\ job'[p].loop = job[p].loop

\* What the steps of one process come to, for these invariants.
TakesOne(p) ==
    /\ job[p].pc = "next" /\ job'[p].pc = "check" /\ job[p].loop # "faults"
    /\ job'[p].m \in job[p].todo
    /\ job'[p].todo = job[p].todo \ {job'[p].m}
    /\ since' = since

GoesOn(p) ==
    /\ \/ job[p].pc = "check" /\ since[job[p].m] >= MinInterval
       \/ job[p].pc \in Trying
    /\ job'[p].pc \in Trying
    /\ Keeps(p)
    /\ since' = since

Finishes(p) ==
    /\ job[p].pc = "log" /\ job[p].m \in Modems
    /\ job'[p].pc \in {"idle", "next", "score"}
    /\ job'[p].todo \subseteq job[p].todo
    /\ since' = [since EXCEPT ![job[p].m] = 0]

ElseStep(p) ==
    /\ job'[p].pc \notin Trying \cup {"check"}
    /\ job'[p].pc = "look" => job[p].pc = "look"
    /\ job[p].pc # "look" => job'[p].todo \subseteq job[p].todo
    /\ job[p].pc \notin Trying \cup {"check", "look"} /\ job'[p].pc # "idle"
          => job'[p].loop = job[p].loop
    /\ job[p].pc = "look" => job'[p].pc = "look" \/ job'[p].loop = "faults"
    /\ job'[p].pc \in Scoring => job[p].pc \in Scoring \cup {"score"}
    /\ since' = since

StepShape(p) == TakesOne(p) \/ GoesOn(p) \/ Finishes(p) \/ ElseStep(p)

LEMMA RotateShape ==
    ASSUME TypeInv, NEW p \in Procs,
           \/ CheckInterval(p) \/ Redial(p) \/ RedialFails(p) \/ LogRotation(p)
           \/ \E result \in {"new", "same", "none"} : AskAddress(p, result)
    PROVE  StepShape(p)
<1> USE DEF Trying, Scoring, Keeps
<1>0. /\ job \in [Procs -> Job] /\ job[p] \in Job /\ since \in [Modems -> 0 .. Horizon]
      /\ job[p].pc \notin {"idle", "next", "look"} => job[p].m \in Modems
  BY DEF TypeInv, DataOK, JobsOK, Homeless
<1>1. CASE CheckInterval(p)
  <2> DEFINE j == [job[p] EXCEPT !.pc = "redial", !.tries = Attempts]
  <2>1. job[p].pc = "check" /\ job[p].m \in Modems /\ since' = since
    BY <1>0, <1>1 DEF CheckInterval, At
  <2>2. since[job[p].m] \in Int /\ MinInterval \in Int
    BY <1>0, <2>1, HorizonFact, ClocksAssumption
  <2>3. CASE since[job[p].m] < MinInterval
    <3>1. Set(p, Returned(job[p]))
      BY <1>1, <2>3 DEF CheckInterval
    <3>2. job'[p] = Returned(job[p])
      BY <1>0, <3>1, ReturnedFact, SetFact
    <3> QED BY <1>0, <2>1, <3>2, ReturnedFact DEF StepShape, ElseStep
  <2>4. CASE ~ (since[job[p].m] < MinInterval)
    <3>1. Set(p, j)
      BY <1>1, <2>4 DEF CheckInterval
    <3>2. Attempts \in 0 .. Attempts
      BY ScoresAssumption
    <3>3. /\ j \in Job /\ j.pc = "redial" /\ j.m = job[p].m
          /\ j.todo = job[p].todo /\ j.loop = job[p].loop
      BY <1>0, <3>2 DEF Job
    <3> HIDE DEF j
    <3>4. job'[p] = j
      BY <1>0, <3>1, <3>3, SetFact
    <3>5. since[job[p].m] >= MinInterval
      BY <2>2, <2>4
    <3> QED BY <2>1, <3>3, <3>4, <3>5 DEF StepShape, GoesOn
  <2> QED BY <2>3, <2>4
<1>2. CASE Redial(p)
  <2> DEFINE j == [job[p] EXCEPT !.pc = "ask"]
  <2>1. /\ j \in Job /\ j.pc = "ask" /\ j.m = job[p].m
        /\ j.todo = job[p].todo /\ j.loop = job[p].loop
    BY <1>0 DEF Job
  <2>2. Set(p, j) /\ since' = since /\ job[p].pc = "redial"
    BY <1>2 DEF Redial, At
  <2> HIDE DEF j
  <2> QED BY <1>0, <2>1, <2>2, SetFact DEF StepShape, GoesOn
<1>3. CASE RedialFails(p)
  <2> DEFINE j == Raises(job[p])
  <2>1. /\ Set(p, Recorded(j, FaultPoints)) /\ since' = since
        /\ job[p].pc = "redial" /\ job[p].m \in Modems
    BY <1>0, <1>3 DEF RedialFails, At
  <2>2. j \in Job /\ j.m \in Modems /\ j.todo \subseteq job[p].todo
    BY <1>0, <2>1, RaisesFact
  <2> HIDE DEF j
  <2> DEFINE r == Recorded(j, FaultPoints)
  <2>3. r \in Job /\ r.pc \in {"idle", "next", "score"} /\ r.todo \subseteq j.todo
    BY <2>2, RecordedFact
  <2>4. Set(p, r)
    BY <2>1
  <2> HIDE DEF r
  <2>5. job'[p] = r
    BY <1>0, <2>3, <2>4, SetFact
  <2> QED BY <2>1, <2>2, <2>3, <2>5 DEF StepShape, ElseStep
<1>4. ASSUME NEW result \in {"new", "same", "none"}, AskAddress(p, result)
      PROVE  StepShape(p)
  <2> DEFINE j == [job[p] EXCEPT !.result = result, !.tries = @ - 1]
             t == job[p].tries - 1
  <2>1. /\ job[p].pc = "ask" /\ since' = since
        /\ \E pc \in {"log", "redial"} : Set(p, [j EXCEPT !.pc = pc])
    BY <1>4 DEF AskAddress, At
  <2>2. PICK pc \in {"log", "redial"} : Set(p, [j EXCEPT !.pc = pc])
    BY <2>1
  <2>3. job' = [job EXCEPT ![p] = [j EXCEPT !.pc = pc]]
    BY <2>2 DEF Set
  <2>4. /\ [j EXCEPT !.pc = pc].pc = pc
        /\ [j EXCEPT !.pc = pc].m = job[p].m
        /\ [j EXCEPT !.pc = pc].todo = job[p].todo
        /\ [j EXCEPT !.pc = pc].loop = job[p].loop
    BY <1>0 DEF Job
  <2> HIDE DEF j
  <2>5. job'[p] = [j EXCEPT !.pc = pc]
    BY <1>0, <2>3
  <2> QED BY <2>1, <2>4, <2>5 DEF StepShape, GoesOn
<1>5. CASE LogRotation(p)
  <2> DEFINE r == IF job[p].result = "none" THEN Recorded(job[p], FaultPoints)
                  ELSE Returned(job[p])
  <2>1. /\ Set(p, r) /\ job[p].pc = "log" /\ job[p].m \in Modems
        /\ since' = [since EXCEPT ![job[p].m] = 0]
    BY <1>0, <1>5 DEF LogRotation, At
  <2>2. /\ r \in Job /\ r.pc \in {"idle", "next", "score"}
        /\ r.todo \subseteq job[p].todo
    BY <1>0, <2>1, RecordedFact, ReturnedFact
  <2> HIDE DEF r
  <2>3. job'[p] = r
    BY <1>0, <2>1, <2>2, SetFact
  <2> QED BY <2>1, <2>2, <2>3 DEF StepShape, Finishes
<1> QED BY <1>1, <1>2, <1>3, <1>4, <1>5

LEMMA ScoreShape ==
    ASSUME TypeInv, NEW p \in Procs,
           \/ ReadScore(p) \/ AddScore(p) \/ AlertShouldSend(p)
           \/ ClearScore(p) \/ RebootModem(p)
    PROVE  /\ since' = since
           /\ job'[p].pc \notin Trying \cup {"check", "look"}
           /\ job'[p].todo \subseteq job[p].todo
           /\ job'[p].loop = job[p].loop
<1> USE DEF Trying
<1>0. job \in [Procs -> Job] /\ job[p] \in Job
  BY DEF TypeInv, JobsOK
<1>1. since' = since
  BY DEF ReadScore, AddScore, AlertShouldSend, ClearScore, RebootModem, Clocks
<1>2. /\ Returned(job[p]).pc \in {"idle", "next"}
      /\ Returned(job[p]).todo \subseteq job[p].todo
      /\ Returned(job[p]).loop = job[p].loop
  BY <1>0, ReturnedFact
<1>3. CASE ReadScore(p)
  <2>1. PICK n, k : job' = [job EXCEPT ![p] = [job[p] EXCEPT !.pc = "add", !.seen = n, !.age = k]]
    BY <1>3 DEF ReadScore, Set
  <2>2. job'[p] = [job[p] EXCEPT !.pc = "add", !.seen = n, !.age = k]
    BY <1>0, <2>1
  <2> QED BY <1>0, <1>1, <2>2 DEF Job
<1>4. ASSUME NEW pc \in {"mute", "clear", "reboot"}, Set(p, [job[p] EXCEPT !.pc = pc])
      PROVE  /\ job'[p].pc \notin Trying \cup {"check", "look"}
             /\ job'[p].todo \subseteq job[p].todo
             /\ job'[p].loop = job[p].loop
  <2>1. job'[p] = [job[p] EXCEPT !.pc = pc]
    BY <1>0, <1>4 DEF Set
  <2> QED BY <1>0, <2>1 DEF Job
<1>5. ASSUME Set(p, Returned(job[p]))
      PROVE  /\ job'[p].pc \notin Trying \cup {"check", "look"}
             /\ job'[p].todo \subseteq job[p].todo
             /\ job'[p].loop = job[p].loop
  <2>1. job'[p] = Returned(job[p])
    BY <1>0, <1>5, ReturnedFact, SetFact
  <2> QED BY <1>2, <2>1
<1>6. CASE AddScore(p)
  <2>1. Set(p, [job[p] EXCEPT !.pc = "mute"]) \/ Set(p, Returned(job[p]))
    BY <1>6 DEF AddScore
  <2> QED BY <1>1, <1>4, <1>5, <2>1
<1>7. CASE AlertShouldSend(p)
  BY <1>1, <1>4, <1>5, <1>7 DEF AlertShouldSend
<1>8. CASE ClearScore(p)
  BY <1>1, <1>4, <1>8 DEF ClearScore
<1>9. CASE RebootModem(p)
  BY <1>1, <1>5, <1>9 DEF RebootModem
<1> QED BY <1>3, <1>6, <1>7, <1>8, <1>9

LEMMA ContinueShape ==
    ASSUME TypeInv, NEW p \in Procs, Continue(p)
    PROVE  /\ job[p].pc # "idle"
           /\ StepShape(p)
           /\ \A q \in Procs : q # p => job'[q] = job[q]
<1> USE DEF Trying, Scoring
<1>0. job \in [Procs -> Job] /\ job[p] \in Job
  BY DEF TypeInv, JobsOK
<1>1. job[p].pc # "idle"
  BY DEF Continue, NextOne, LookAt, EndLoop, ListFaults, CheckInterval, Redial,
         RedialFails, AskAddress, LogRotation, ReadScore, AddScore, AlertShouldSend,
         ClearScore, RebootModem, At
<1>2. \E j : Set(p, j)
  BY DEF Continue, NextOne, LookAt, EndLoop, ListFaults, CheckInterval, Redial,
         RedialFails, AskAddress, LogRotation, ReadScore, AddScore, AlertShouldSend,
         ClearScore, RebootModem
<1>3. \A q \in Procs : q # p => job'[q] = job[q]
  BY <1>0, <1>2 DEF Set
<1> SUFFICES StepShape(p)
  BY <1>1, <1>3
<1>4. ASSUME NEW m \in Modems, NextOne(p, m) PROVE StepShape(p)
  <2> DEFINE j == [job[p] EXCEPT !.todo = @ \ {m}, !.m = m]
             r == Recorded(j, OfflinePoints)
             c == [j EXCEPT !.pc = "check"]
  <2>1. /\ j \in Job /\ j.m = m /\ j.loop = job[p].loop
        /\ j.todo = job[p].todo \ {m}
    BY <1>0 DEF Job
  <2>2. /\ Set(p, IF j.loop = "faults" THEN r ELSE c)
        /\ since' = since /\ job[p].pc = "next" /\ m \in job[p].todo
    BY <1>4 DEF NextOne, At
  <2> HIDE DEF j
  <2>3. /\ r \in Job /\ r.pc \in {"idle", "next", "score"}
        /\ r.loop = j.loop /\ r.todo \subseteq j.todo
    BY <2>1, RecordedFact
  <2>4. /\ c \in Job /\ c.pc = "check" /\ c.m = m
        /\ c.todo = j.todo /\ c.loop = j.loop
    BY <2>1 DEF Job
  <2> HIDE DEF r, c
  <2>5. CASE j.loop = "faults"
    <3>1. job'[p] = r
      BY <1>0, <2>2, <2>3, <2>5, SetFact
    <3> QED BY <2>1, <2>2, <2>3, <3>1 DEF StepShape, ElseStep
  <2>6. CASE j.loop # "faults"
    <3>1. job'[p] = c
      BY <1>0, <2>2, <2>4, <2>6, SetFact
    <3> QED BY <2>1, <2>2, <2>4, <2>6, <3>1 DEF StepShape, TakesOne
  <2> QED BY <2>5, <2>6
<1>5. ASSUME NEW m \in Modems, LookAt(p, m) PROVE StepShape(p)
  <2>1. /\ job'[p] = [job[p] EXCEPT !.todo = @ \ {m}]
        /\ since' = since /\ job[p].pc = "look"
    BY <1>0, <1>5 DEF LookAt, Set, At
  <2> QED BY <1>0, <2>1 DEF StepShape, ElseStep, Job
<1>6. CASE EndLoop(p)
  <2>1. job'[p] = Idle /\ since' = since
    BY <1>0, <1>6 DEF EndLoop, Set
  <2> QED BY <1>1, <1>6, <2>1, IdleFact DEF StepShape, ElseStep, EndLoop, At
<1>7. CASE ListFaults(p)
  <2>1. PICK s : /\ job'[p] = [Idle EXCEPT !.pc = "next", !.loop = "faults", !.todo = s]
                 /\ since' = since /\ job[p].pc = "look"
    BY <1>0, <1>7 DEF ListFaults, Set, At
  <2>2. /\ [Idle EXCEPT !.pc = "next", !.loop = "faults", !.todo = s].pc = "next"
        /\ [Idle EXCEPT !.pc = "next", !.loop = "faults", !.todo = s].loop = "faults"
    BY IdleFact DEF Job
  <2> QED BY <2>1, <2>2 DEF StepShape, ElseStep
<1>8. CASE \/ ReadScore(p) \/ AddScore(p) \/ AlertShouldSend(p)
          \/ ClearScore(p) \/ RebootModem(p)
  <2>1. /\ since' = since
        /\ job'[p].pc \notin Trying \cup {"check", "look"}
        /\ job'[p].todo \subseteq job[p].todo
        /\ job'[p].loop = job[p].loop
    BY <1>8, ScoreShape
  <2>2. job[p].pc \in Scoring \cup {"score"}
    BY <1>8 DEF ReadScore, AddScore, AlertShouldSend, ClearScore, RebootModem, At
  <2> QED BY <2>1, <2>2 DEF StepShape, ElseStep
<1>9. CASE \/ CheckInterval(p) \/ Redial(p) \/ RedialFails(p) \/ LogRotation(p)
          \/ \E result \in {"new", "same", "none"} : AskAddress(p, result)
  BY <1>9, RotateShape
<1> QED BY <1>4, <1>5, <1>6, <1>7, <1>8, <1>9 DEF Continue

\* Beginning a call: nobody else is in the middle of one, or calls overlap.
LEMMA BeginShape ==
    ASSUME TypeInv, NEW p \in Procs,
           Request(p) \/ (p = "rotator" /\ RotateDue) \/ (p = "pinger" /\ Discover)
    PROVE  /\ MayBegin(p) /\ since' = since
           /\ \A q \in Procs : q # p => job'[q] = job[q]
           /\ job'[p].pc \in {"check", "next", "look"}
           /\ p = "rotator" => /\ job'[p].pc = "next"
                               /\ job'[p].todo = DueModems
           /\ p = "pinger" => job'[p].pc = "look"
<1> USE DEF Trying
<1>0. job \in [Procs -> Job] /\ job[p] \in Job
  BY DEF TypeInv, JobsOK
<1>1. ASSUME NEW m \in Modems, Rotate(p, m)
      PROVE  p \in Threads /\ job'[p].pc = "check"
  <2>1. job'[p] = [Idle EXCEPT !.pc = "check", !.m = m] /\ p \in Threads
    BY <1>0, <1>1 DEF Rotate, Set
  <2> QED BY <2>1, IdleFact DEF Job
<1>2. ASSUME RotateAll(p) PROVE p \in Threads /\ job'[p].pc = "next"
  <2>1. PICK s : job'[p] = [Idle EXCEPT !.pc = "next", !.loop = "all", !.todo = s]
    BY <1>0, <1>2 DEF RotateAll, Set
  <2> QED BY <1>2, <2>1, IdleFact DEF Job, RotateAll
<1>3. ASSUME RotateDue, p = "rotator"
      PROVE  job'[p].pc = "next" /\ job'[p].todo = DueModems
  <2>1. job'[p] = [Idle EXCEPT !.pc = "next", !.loop = "due", !.todo = DueModems]
    BY <1>0, <1>3 DEF RotateDue, Set
  <2> QED BY <2>1, IdleFact DEF Job
<1>4. ASSUME Discover, p = "pinger" PROVE job'[p].pc = "look"
  <2>1. job'[p] = [Idle EXCEPT !.pc = "look", !.todo = Modems]
    BY <1>0, <1>4 DEF Discover, Set
  <2> QED BY <2>1, IdleFact DEF Job
<1>5. /\ MayBegin(p) /\ since' = since
      /\ \E j : Set(p, j)
  BY DEF Request, Rotate, RotateAll, RotateDue, Discover
<1>6. \A q \in Procs : q # p => job'[q] = job[q]
  BY <1>0, <1>5 DEF Set
<1> QED BY <1>1, <1>2, <1>3, <1>4, <1>5, <1>6, ProcsFact DEF Request

\* The rotations are alone: calls do not overlap, or only the timer rotates.
Alone == ~ Overlap \/ Threads = {}

LEMMA InitRotation == Init => RotationInv
<1> SUFFICES ASSUME Init PROVE RotationInv
  OBVIOUS
<1>1. \A p \in Procs : job[p].pc = "idle"
  BY IdleFact DEF Init
<1> QED BY <1>1, ProcsFact DEF RotationInv, Lone, Checked, ListGood, PingerScores,
                             Trying, At

\* While one rotation is being logged, nobody else is in the middle of one.
LEMMA LogAlone ==
    ASSUME Alone, RotationInv, NEW p \in Procs, job[p].pc = "log",
           NEW q \in Procs, q # p
    PROVE  /\ job[q].pc \notin Trying \cup {"check"}
           /\ q = "rotator" => job[q].pc = "idle"
<1>1. CASE ~ Overlap
  BY <1>1 DEF RotationInv, Lone, Trying, At
<1>2. CASE Threads = {}
  <2>1. p = "rotator" /\ q = "pinger"
    BY <1>2 DEF Procs, RotationInv, PingerScores, Trying
  <2> QED BY <2>1 DEF RotationInv, PingerScores
<1> QED BY <1>1, <1>2 DEF Alone

LEMMA ContinueRotation ==
    ASSUME Alone, TypeInv, RotationInv, NEW p \in Procs, Continue(p)
    PROVE  RotationInv'
<1> USE DEF Trying
<1>0. /\ job[p].pc # "idle" /\ StepShape(p)
      /\ \A q \in Procs : q # p => job'[q] = job[q]
  BY ContinueShape
<1>1. since \in [Modems -> 0 .. Horizon] /\ job \in [Procs -> Job]
  BY DEF TypeInv, DataOK, JobsOK
<1>2. \A q \in Procs : job[q].todo \subseteq Modems
  BY <1>1 DEF Job
<1>3. Lone'
  BY <1>0 DEF RotationInv, Lone, At
<1>4. Checked'
  <2> SUFFICES ASSUME NEW q \in Procs, job'[q].pc \in Trying
               PROVE  since'[job'[q].m] >= MinInterval
    BY DEF Checked
  <2>1. CASE q = p
    BY <1>0, <2>1 DEF StepShape, TakesOne, GoesOn, Finishes, ElseStep, Keeps,
                      RotationInv, Checked
  <2>2. CASE q # p
    <3>1. job'[q] = job[q]
      BY <1>0, <2>2
    <3>2. ~ Finishes(p)
      BY <2>2, <3>1, LogAlone DEF Finishes
    <3> QED BY <1>0, <3>1, <3>2 DEF StepShape, TakesOne, GoesOn, ElseStep,
                                    RotationInv, Checked
  <2> QED BY <2>1, <2>2
<1>5. ListGood'
  <2>1. CASE p # "rotator"
    <3>1. job'["rotator"] = job["rotator"]
      BY <1>0, <2>1, ProcsFact
    <3>2. CASE Finishes(p)
      BY <2>1, <3>1, <3>2, LogAlone, ProcsFact DEF Finishes, ListGood
    <3>3. CASE ~ Finishes(p)
      BY <1>0, <3>1, <3>3 DEF StepShape, TakesOne, GoesOn, ElseStep, RotationInv,
                              ListGood
    <3> QED BY <3>2, <3>3
  <2>2. CASE p = "rotator" /\ TakesOne(p)
    BY <1>0, <1>2, <2>2 DEF TakesOne, RotationInv, ListGood
  <2>3. CASE p = "rotator" /\ GoesOn(p)
    BY <1>0, <1>2, <2>3 DEF GoesOn, Keeps, RotationInv, ListGood
  <2>4. CASE p = "rotator" /\ Finishes(p)
    <3>1. /\ job["rotator"].m \notin job["rotator"].todo
          /\ \A m \in job["rotator"].todo : since[m] >= Interval
      BY <2>4 DEF Finishes, RotationInv, ListGood
    <3>2. \A m \in job["rotator"].todo : since'[m] = since[m]
      BY <1>1, <1>2, <2>4, <3>1, ProcsFact DEF Finishes
    <3> QED BY <2>4, <3>1, <3>2 DEF Finishes, ListGood
  <2>5. CASE p = "rotator" /\ ElseStep(p)
    BY <1>0, <2>5 DEF ElseStep, RotationInv, ListGood
  <2> QED BY <1>0, <2>1, <2>2, <2>3, <2>4, <2>5 DEF StepShape
<1>6. PingerScores'
  <2>1. CASE p # "pinger"
    BY <1>0, <2>1, ProcsFact DEF RotationInv, PingerScores
  <2>2. CASE p = "pinger"
    BY <1>0, <2>2 DEF StepShape, TakesOne, GoesOn, Finishes, ElseStep, RotationInv,
                      PingerScores
  <2> QED BY <2>1, <2>2
<1> QED BY <1>3, <1>4, <1>5, <1>6 DEF RotationInv

LEMMA BeginRotation ==
    ASSUME TypeInv, RotationInv, NEW p \in Procs,
           Request(p) \/ (p = "rotator" /\ RotateDue) \/ (p = "pinger" /\ Discover)
    PROVE  RotationInv'
<1> USE DEF Trying
<1>0. /\ MayBegin(p) /\ since' = since
      /\ \A q \in Procs : q # p => job'[q] = job[q]
      /\ job'[p].pc \in {"check", "next", "look"}
      /\ p = "rotator" => job'[p].pc = "next" /\ job'[p].todo = DueModems
      /\ p = "pinger" => job'[p].pc = "look"
  BY BeginShape
<1>1. Lone'
  BY <1>0 DEF Lone, MayBegin, At
<1>2. Checked'
  BY <1>0 DEF RotationInv, Checked
<1>3. ListGood'
  <2>1. CASE p = "rotator"
    BY <1>0, <2>1 DEF ListGood, DueModems
  <2>2. CASE p # "rotator"
    BY <1>0, <2>2, ProcsFact DEF RotationInv, ListGood
  <2> QED BY <2>1, <2>2
<1>4. PingerScores'
  BY <1>0, ProcsFact DEF RotationInv, PingerScores
<1> QED BY <1>1, <1>2, <1>3, <1>4 DEF RotationInv

\* Time only makes a rotation more due.
LEMMA TickRotation == TypeInv /\ RotationInv /\ Tick => RotationInv'
<1> SUFFICES ASSUME TypeInv, RotationInv, Tick PROVE RotationInv'
  OBVIOUS
<1> USE DEF Trying
<1>1. ASSUME NEW p \in Procs
      PROVE  /\ job'[p].pc = job[p].pc /\ job'[p].m = job[p].m
             /\ job'[p].todo = job[p].todo /\ job'[p].loop = job[p].loop
  <2>1. job[p] \in Job
    BY DEF TypeInv, JobsOK
  <2>2. \E age : job'[p] \in {job[p], [job[p] EXCEPT !.age = age]}
    BY DEF Tick
  <2> QED BY <2>1, <2>2 DEF Job
<1>2. ASSUME NEW m \in Modems, NEW n \in Nat, since[m] >= n PROVE since'[m] >= n
  <2>1. since \in [Modems -> 0 .. Horizon] /\ since' = Older(since, Horizon)
    BY DEF TypeInv, DataOK, Tick
  <2>2. since' \in [Modems -> 0 .. Horizon] /\ since'[m] >= since[m]
    BY <2>1, OlderFact, HorizonFact
  <2>3. since[m] \in Int /\ since'[m] \in Int
    BY <2>1, <2>2, HorizonFact
  <2> QED BY <1>2, <2>2, <2>3
<1>3. MinInterval \in Nat /\ Interval \in Nat
  BY ClocksAssumption
<1>4. \A p \in Procs : /\ job[p].todo \subseteq Modems
                       /\ job[p].pc \in Trying \cup {"check"} => job[p].m \in Modems
  BY DEF TypeInv, JobsOK, Homeless, Job
<1>5. Lone'
  BY <1>1 DEF RotationInv, Lone, At
<1>6. Checked'
  BY <1>1, <1>2, <1>3, <1>4 DEF RotationInv, Checked
<1>7. ListGood'
  BY <1>1, <1>2, <1>3, <1>4, ProcsFact DEF RotationInv, ListGood
<1>8. PingerScores'
  BY <1>1, ProcsFact DEF RotationInv, PingerScores
<1> QED BY <1>5, <1>6, <1>7, <1>8 DEF RotationInv

LEMMA StepRotation ==
    ASSUME Alone
    PROVE  TypeInv /\ RotationInv /\ [Next]_vars => RotationInv'
<1> SUFFICES ASSUME TypeInv, RotationInv, [Next]_vars PROVE RotationInv'
  OBVIOUS
<1>1. ASSUME NEW p \in Procs, Request(p) \/ Continue(p) PROVE RotationInv'
  BY <1>1, BeginRotation, ContinueRotation
<1>2. CASE RotateDue \/ Discover
  BY <1>2, BeginRotation, ProcsFact
<1>3. ASSUME since' = since, job' = job PROVE RotationInv'
  BY <1>3 DEF RotationInv, Lone, Checked, ListGood, PingerScores, At
<1>4. CASE \E m \in Modems, state \in {"up", "down", "gone"} : LinkChanges(m, state)
  BY <1>3, <1>4 DEF LinkChanges
<1>5. CASE Tick
  BY <1>5, TickRotation
<1>6. CASE UNCHANGED vars
  BY <1>3, <1>6 DEF vars
<1> QED BY <1>1, <1>2, <1>4, <1>5, <1>6 DEF Next

\* The rotator never rotates a modem before its interval has elapsed, although
\* its list is as old as the rotations of the modems before it take.
THEOREM ScheduleKeptThm ==
    ASSUME Alone
    PROVE  Spec => ScheduleKept
<1> DEFINE Kept == Logs("rotator") => since[job["rotator"].m] >= Interval
<1>1. RotationInv /\ [Next]_vars => [Kept]_vars
  BY DEF RotationInv, ListGood, Trying, Logs, At
<1>2. TypeInv /\ RotationInv /\ [Next]_vars => RotationInv'
  BY StepRotation
<1> QED BY <1>1, <1>2, TypeInvThm, InitRotation, PTL DEF Spec, ScheduleKept

\* No rotation follows another of the same modem within the minimum interval.
THEOREM RotationsApartThm ==
    ASSUME Alone
    PROVE  Spec => RotationsApart
<1> DEFINE Apart == \A p \in Procs : Logs(p) => since[job[p].m] >= MinInterval
<1>1. RotationInv /\ [Next]_vars => [Apart]_vars
  BY DEF RotationInv, Checked, Trying, Logs, At
<1>2. TypeInv /\ RotationInv /\ [Next]_vars => RotationInv'
  BY StepRotation
<1> QED BY <1>1, <1>2, TypeInvThm, InitRotation, PTL DEF Spec, RotationsApart

-----------------------------------------------------------------------------
(* The score and the reboots *)

Scored == [Modems -> 0 .. MaxScore]

\* The score never exceeds the points of the failures since the last reboot,
\* and a reboot that is under way has its points.
PointsInv ==
    /\ \A m \in Modems : score[m] <= earned[m]
    /\ \A p \in Procs :
          /\ job[p].pc = "add" => job[p].seen <= earned[job[p].m]
          /\ job[p].pc \in {"mute", "clear", "reboot"}
                => earned[job[p].m] >= MaxScore
          /\ job[p].pc = "reboot" => score[job[p].m] = 0

ScoreInv == Lone /\ PointsInv

LEMMA InitScore == Init => ScoreInv
<1> SUFFICES ASSUME Init PROVE ScoreInv
  OBVIOUS
<1>1. \A p \in Procs : job[p].pc = "idle"
  BY IdleFact DEF Init
<1>2. \A m \in Modems : score[m] <= earned[m]
  BY DEF Init
<1> QED BY <1>1, <1>2 DEF ScoreInv, PointsInv, Lone, At

\* A step that leaves the points alone and is not in the middle of a reboot.
LEMMA ScoreUntouched ==
    ASSUME PointsInv, NEW p \in Procs,
           score' = score, earned' = earned,
           \A q \in Procs : q # p => job'[q] = job[q],
           job'[p].pc \notin {"add", "mute", "clear", "reboot"}
    PROVE  PointsInv'
BY DEF PointsInv

LEMMA ContinueScore ==
    ASSUME ~ Overlap, TypeInv, ScoreInv, NEW p \in Procs, Continue(p)
    PROVE  ScoreInv'
<1>0. /\ job[p].pc # "idle"
      /\ \A q \in Procs : q # p => job'[q] = job[q]
  BY ContinueShape
<1>1. /\ job \in [Procs -> Job] /\ job[p] \in Job
      /\ score \in Scored /\ earned \in Scored
      /\ job[p].pc \notin {"idle", "next", "look"} => job[p].m \in Modems
  BY DEF TypeInv, DataOK, JobsOK, Homeless, Scored
<1>2. Lone'
  BY <1>0 DEF ScoreInv, Lone, At
<1>3. \A q \in Procs : q # p => job[q].pc = "idle"
  BY <1>0 DEF ScoreInv, Lone, At
<1>4. \A m \in Modems : score[m] \in 0 .. MaxScore /\ earned[m] \in 0 .. MaxScore
  BY <1>1 DEF Scored
<1>5. MaxScore \in Nat \ {0} /\ FaultPoints \in Nat /\ OfflinePoints \in Nat
  BY ScoresAssumption
<1>6. Returned(job[p]) \in Job /\ Returned(job[p]).pc \in {"idle", "next"}
  BY <1>1, ReturnedFact
<1> SUFFICES PointsInv'
  BY <1>2 DEF ScoreInv
<1>7. CASE \/ \E m \in Modems : NextOne(p, m) \/ LookAt(p, m)
          \/ EndLoop(p) \/ ListFaults(p)
          \/ CheckInterval(p) \/ Redial(p) \/ RedialFails(p) \/ LogRotation(p)
          \/ \E result \in {"new", "same", "none"} : AskAddress(p, result)
  <2>1. score' = score /\ earned' = earned
    BY <1>7 DEF NextOne, LookAt, EndLoop, ListFaults, CheckInterval, Redial,
                RedialFails, AskAddress, LogRotation, Scores
  <2>2. job[p].pc \notin Scoring \cup {"score"}
    BY <1>7 DEF NextOne, LookAt, EndLoop, ListFaults, CheckInterval, Redial,
                RedialFails, AskAddress, LogRotation, At, Scoring
  <2>3. job'[p].pc \notin Scoring
    <3>1. StepShape(p)
      BY ContinueShape
    <3> QED BY <2>2, <3>1 DEF StepShape, TakesOne, GoesOn, Finishes, ElseStep,
                              Trying, Scoring
  <2> QED BY <1>0, <2>1, <2>3, ScoreUntouched DEF ScoreInv, Scoring
<1>8. CASE ReadScore(p)
  <2> DEFINE m == job[p].m
             n == IF start[m] > Window THEN 0 ELSE score[m]
             k == IF start[m] > Window THEN 0 ELSE start[m]
             j == [job[p] EXCEPT !.pc = "add", !.seen = n, !.age = k]
  <2>1. m \in Modems
    BY <1>1, <1>8 DEF ReadScore, At
  <2>2. n <= earned[m]
    BY <2>1, <1>4, <1>5 DEF ScoreInv, PointsInv
  <2>3. job' = [job EXCEPT ![p] = j] /\ score' = score /\ earned' = earned
    BY <1>8 DEF ReadScore, Set, Scores
  <2> HIDE DEF n, k
  <2>4. j.pc = "add" /\ j.seen = n /\ j.m = m
    BY <1>1 DEF Job
  <2>5. job'[p] = j
    BY <1>1, <2>3
  <2> HIDE DEF j
  <2> QED BY <1>0, <2>2, <2>3, <2>4, <2>5 DEF ScoreInv, PointsInv
<1>9. CASE AddScore(p)
  <2> DEFINE m == job[p].m
             total == Least(job[p].seen + job[p].points, MaxScore)
             gain == Least(earned[m] + job[p].points, MaxScore)
  <2>1. /\ m \in Modems /\ job[p].seen \in 0 .. MaxScore
        /\ job[p].points \in {0, FaultPoints, OfflinePoints} /\ job[p].pc = "add"
    BY <1>1, <1>9 DEF AddScore, At, Job
  <2>2. job[p].seen <= earned[m] /\ score[m] <= earned[m]
    BY <2>1 DEF ScoreInv, PointsInv
  <2>3. /\ total \in 0 .. MaxScore /\ gain \in 0 .. MaxScore
        /\ total <= gain /\ earned[m] <= gain
    BY <1>4, <1>5, <2>1, <2>2 DEF Least
  <2>4. /\ score' = [score EXCEPT ![m] = total]
        /\ earned' = [earned EXCEPT ![m] = gain]
        /\ Set(p, IF total >= MaxScore THEN [job[p] EXCEPT !.pc = "mute"]
                  ELSE Returned(job[p]))
    BY <1>9 DEF AddScore
  <2> HIDE DEF total, gain
  <2>5. \A x \in Modems : score'[x] <= earned'[x]
    BY <1>1, <1>4, <2>1, <2>3, <2>4 DEF Scored, ScoreInv, PointsInv
  <2>6. CASE total >= MaxScore
    <3>1. job'[p] = [job[p] EXCEPT !.pc = "mute"]
      BY <1>1, <2>4, <2>6 DEF Set
    <3>2. job'[p].pc = "mute" /\ job'[p].m = m
      BY <1>1, <3>1 DEF Job
    <3>3. earned'[m] = gain
      BY <1>1, <2>1, <2>4 DEF Scored
    <3>4. gain >= MaxScore
      BY <1>5, <2>3, <2>6
    <3> QED BY <1>0, <1>3, <2>5, <3>2, <3>3, <3>4 DEF PointsInv
  <2>7. CASE ~ (total >= MaxScore)
    <3>1. job'[p] = Returned(job[p])
      BY <1>1, <1>6, <2>4, <2>7, SetFact
    <3> QED BY <1>0, <1>3, <1>6, <2>5, <3>1 DEF PointsInv
  <2> QED BY <2>6, <2>7
<1>10. CASE AlertShouldSend(p)
  <2>1. score' = score /\ earned' = earned /\ job[p].pc = "mute"
    BY <1>10 DEF AlertShouldSend, At
  <2>2. CASE Set(p, Returned(job[p]))
    <3>1. job'[p] = Returned(job[p])
      BY <1>1, <1>6, <2>2, SetFact
    <3> QED BY <1>0, <1>6, <2>1, <3>1, ScoreUntouched DEF ScoreInv
  <2>3. CASE Set(p, [job[p] EXCEPT !.pc = "clear"])
    <3>1. job'[p] = [job[p] EXCEPT !.pc = "clear"]
      BY <1>1, <2>3 DEF Set
    <3>2. job'[p].pc = "clear" /\ job'[p].m = job[p].m
      BY <1>1, <3>1 DEF Job
    <3> QED BY <1>0, <2>1, <3>2 DEF ScoreInv, PointsInv
  <2> QED BY <1>10, <2>2, <2>3 DEF AlertShouldSend
<1>11. CASE ClearScore(p)
  <2> DEFINE m == job[p].m
  <2>1. /\ m \in Modems /\ job[p].pc = "clear" /\ earned' = earned
        /\ score' = [score EXCEPT ![m] = 0]
    BY <1>1, <1>11 DEF ClearScore, At
  <2>2. job'[p] = [job[p] EXCEPT !.pc = "reboot"]
    BY <1>1, <1>11 DEF ClearScore, Set
  <2>3. job'[p].pc = "reboot" /\ job'[p].m = m
    BY <1>1, <2>2 DEF Job
  <2>4. \A x \in Modems : score'[x] <= earned'[x]
    BY <1>1, <1>4, <1>5, <2>1 DEF Scored, ScoreInv, PointsInv
  <2>5. score'[m] = 0
    BY <1>1, <2>1 DEF Scored
  <2> QED BY <1>0, <1>3, <2>1, <2>3, <2>4, <2>5 DEF ScoreInv, PointsInv
<1>12. CASE RebootModem(p)
  <2> DEFINE m == job[p].m
  <2>1. /\ m \in Modems /\ job[p].pc = "reboot" /\ score' = score
        /\ earned' = [earned EXCEPT ![m] = 0] /\ score[m] = 0
    BY <1>1, <1>12 DEF RebootModem, At, ScoreInv, PointsInv
  <2>2. job'[p] = Returned(job[p])
    BY <1>1, <1>6, <1>12, SetFact DEF RebootModem
  <2>3. \A x \in Modems : score'[x] <= earned'[x]
    BY <1>1, <1>4, <2>1 DEF Scored, ScoreInv, PointsInv
  <2> QED BY <1>0, <1>3, <1>6, <2>2, <2>3 DEF PointsInv
<1> QED BY <1>7, <1>8, <1>9, <1>10, <1>11, <1>12 DEF Continue

LEMMA StepScore ==
    ASSUME ~ Overlap
    PROVE  TypeInv /\ ScoreInv /\ [Next]_vars => ScoreInv'
<1> SUFFICES ASSUME TypeInv, ScoreInv, [Next]_vars PROVE ScoreInv'
  OBVIOUS
<1>1. ASSUME NEW p \in Procs, Continue(p) PROVE ScoreInv'
  BY <1>1, ContinueScore
<1>2. ASSUME NEW p \in Procs,
             \/ Request(p) \/ (p = "rotator" /\ RotateDue)
             \/ (p = "pinger" /\ Discover)
      PROVE  ScoreInv'
  <2>1. /\ MayBegin(p) /\ \A q \in Procs : q # p => job'[q] = job[q]
        /\ job'[p].pc \in {"check", "next", "look"}
    BY <1>2, BeginShape
  <2>2. score' = score /\ earned' = earned
    BY <1>2 DEF Request, Rotate, RotateAll, RotateDue, Discover, Scores
  <2>3. Lone'
    BY <2>1 DEF Lone, MayBegin, At
  <2> QED BY <2>1, <2>2, <2>3, ScoreUntouched DEF ScoreInv
<1>3. ASSUME UNCHANGED <<score, earned>>,
             \A p \in Procs : /\ job'[p].pc = job[p].pc /\ job'[p].m = job[p].m
                              /\ job'[p].seen = job[p].seen
      PROVE  ScoreInv'
  BY <1>3 DEF ScoreInv, Lone, PointsInv, At
<1>4. CASE \E m \in Modems, state \in {"up", "down", "gone"} : LinkChanges(m, state)
  BY <1>3, <1>4 DEF LinkChanges, Scores
<1>5. CASE Tick
  <2>1. ASSUME NEW p \in Procs
        PROVE  /\ job'[p].pc = job[p].pc /\ job'[p].m = job[p].m
               /\ job'[p].seen = job[p].seen
    <3>1. job[p] \in Job
      BY DEF TypeInv, JobsOK
    <3>2. \E age : job'[p] \in {job[p], [job[p] EXCEPT !.age = age]}
      BY <1>5 DEF Tick
    <3> QED BY <3>1, <3>2 DEF Job
  <2> QED BY <1>3, <1>5, <2>1 DEF Tick
<1>6. CASE UNCHANGED vars
  BY <1>3, <1>6 DEF vars
<1> QED BY <1>1, <1>2, <1>4, <1>5, <1>6, ProcsFact DEF Next

\* No modem is rebooted but for points that have added up since its last
\* reboot.
THEOREM RebootEarnedThm ==
    ASSUME ~ Overlap
    PROVE  Spec => RebootEarned
<1> DEFINE Earned == \A p \in Procs : At(p, "reboot") /\ job'[p].pc # "reboot"
                                        => earned[job[p].m] >= MaxScore
<1>1. ScoreInv /\ [Next]_vars => [Earned]_vars
  BY DEF ScoreInv, PointsInv, At
<1>2. TypeInv /\ ScoreInv /\ [Next]_vars => ScoreInv'
  BY StepScore
<1> QED BY <1>1, <1>2, TypeInvThm, InitScore, PTL DEF Spec, RebootEarned

=============================================================================
