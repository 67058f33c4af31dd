------------------------ MODULE ProxyLifecycleProofs ------------------------
(***************************************************************************)
(* Proofs about ProxyLifecycle: with one process at a time, what an        *)
(* administrator disabled stays disabled, and the database, the config     *)
(* file and the unit agree whenever no operation is under way.             *)
(***************************************************************************)
EXTENDS ProxyLifecycle, TLAPS

Serial == \A p, q \in Procs : p = q

-----------------------------------------------------------------------------
(* Types *)

\* What set_port works on is a row that exists.
LEMMA RowTypes ==
  ASSUME TypeOK, NEW m \in Modems
  PROVE  NoRow \in Row /\ Upserted(m) \in Row /\ Upserted(m).exists = TRUE
<1>1. 0 \in 0 .. MaxUsage
  BY UsageAssumption
<1>2. NoRow \in Row
  BY <1>1, Zenon DEF Row, NoRow
<1>3. FreshRow \in Row /\ FreshRow.exists = TRUE
  BY <1>1, Zenon DEF Row, FreshRow
<1>4. row[m] \in Row /\ row[m].exists \in BOOLEAN
  BY DEF TypeOK, Row
<1>. QED  BY <1>2, <1>3, <1>4 DEF Upserted

\* The three updates of set_port give rows that exist.
LEMMA RowUpdates ==
  ASSUME NEW u \in Row, u.exists = TRUE, NEW b \in BOOLEAN
  PROVE  /\ LET r == [u EXCEPT !.ported = TRUE, !.enabled = TRUE]
            IN  r \in Row /\ r.exists = TRUE
         /\ LET r == [u EXCEPT !.enabled = FALSE, !.locked = b]
            IN  r \in Row /\ r.exists = TRUE
         /\ LET r == [u EXCEPT !.locked = FALSE]
            IN  r \in Row /\ r.exists = TRUE
BY DEF Row

\* The ports table is well-formed: rows, empty where there is none.
RowsOK(r) == /\ r \in [Modems -> Row]
             /\ \A n \in Modems : ~ r[n].exists => r[n] = NoRow

\* Storing an existing row, or none, keeps the table well-formed.
LEMMA RowStore ==
  ASSUME RowsOK(row), NEW m \in Modems, NEW r \in Row, r.exists = TRUE \/ r = NoRow
  PROVE  RowsOK([row EXCEPT ![m] = r])
BY DEF RowsOK

\* So do the writes of allocate_port, stop_proxy and start_proxy.
LEMMA SwitchTypes ==
  ASSUME TypeOK, NEW m \in Modems, NEW b \in BOOLEAN
  PROVE  /\ SwitchOn(m) => RowsOK(row')
         /\ SwitchOff(m, b) => RowsOK(row')
         /\ row' = [row EXCEPT ![m] = [Upserted(m) EXCEPT !.locked = FALSE]] => RowsOK(row')
         /\ row' = [row EXCEPT ![m] = Upserted(m)] => RowsOK(row')
         /\ row' = [row EXCEPT ![m] = NoRow] => RowsOK(row')
<1>. DEFINE u == Upserted(m)
<1>1. u \in Row /\ u.exists = TRUE /\ NoRow \in Row /\ RowsOK(row)
  BY RowTypes DEF TypeOK, RowsOK
<1>. HIDE DEF u
<1>. DEFINE on == [u EXCEPT !.ported = TRUE, !.enabled = TRUE]
            down == [u EXCEPT !.enabled = FALSE, !.locked = b]
            freed == [u EXCEPT !.locked = FALSE]
<1>2. /\ on \in Row /\ on.exists = TRUE
      /\ down \in Row /\ down.exists = TRUE
      /\ freed \in Row /\ freed.exists = TRUE
  BY <1>1, RowUpdates
<1>. HIDE DEF on, down, freed
<1>3. \A r \in {u, on, down, freed, NoRow} : RowsOK([row EXCEPT ![m] = r])
  BY <1>1, <1>2, RowStore
<1>. QED  BY <1>3 DEF on, down, freed, u, SwitchOn, SwitchOff

\* Jobs stay jobs when one is replaced by a job.
LEMMA JobUpdate ==
  ASSUME TypeOK, NEW p \in Procs, NEW j \in Job, job' = [job EXCEPT ![p] = j]
  PROVE  job' \in [Procs -> Job]
BY DEF TypeOK

\* The records that Begin, Goto and Return store are jobs.
LEMMA JobTypes ==
  ASSUME TypeOK, NEW p \in Procs
  PROVE  /\ Idle \in Job
         /\ job[p] \in Job
         /\ \A m \in Modems, c \in {"render", "halt", "unlink"} :
                [Idle EXCEPT !.pc = c, !.m = m] \in Job
         /\ \A T \in SUBSET Modems, c \in {"idle", "quota", "expiry", "health"} :
                [Idle EXCEPT !.pc = c, !.todo = T] \in Job
BY DEF TypeOK, Job, Loops, Idle

\* Outside the loops a job is about a modem.
LEMMA JobTarget ==
  ASSUME TypeOK, NEW p \in Procs, job[p].pc \notin Loops
  PROVE  job[p].m \in Modems
BY DEF TypeOK, Job

\* A job with a modem may go to any step.
LEMMA JobMoves ==
  ASSUME NEW j \in Job, j.m \in Modems,
         NEW c \in {"render", "restart", "halt", "remove", "enable"}
  PROVE  /\ [j EXCEPT !.pc = c] \in Job
         /\ [j EXCEPT !.pc = c, !.ret = "quota"] \in Job
BY DEF Job

\* stop_proxy's write leaves a disabled row behind and no other row changes.
LEMMA SwitchOffEffect ==
  ASSUME TypeOK, NEW m \in Modems, NEW b \in BOOLEAN, SwitchOff(m, b)
  PROVE  /\ row'[m].exists /\ ~ row'[m].enabled /\ (row'[m].locked <=> b)
         /\ \A n \in Modems \ {m} : row'[n] = row[n]
<1>. DEFINE u == Upserted(m)
<1>1. u \in Row /\ u.exists = TRUE /\ row \in [Modems -> Row]
  BY RowTypes DEF TypeOK
<1>2. row' = [row EXCEPT ![m] = [u EXCEPT !.enabled = FALSE, !.locked = b]]
  BY DEF SwitchOff
<1>. HIDE DEF u
<1>. QED  BY <1>1, <1>2 DEF Row

\* allocate_port's write leaves an enabled row with ports behind.
LEMMA SwitchOnEffect ==
  ASSUME TypeOK, NEW m \in Modems, SwitchOn(m)
  PROVE  /\ row'[m].exists /\ row'[m].enabled /\ row'[m].ported
         /\ \A n \in Modems \ {m} : row'[n] = row[n]
<1>. DEFINE u == Upserted(m)
<1>1. u \in Row /\ u.exists = TRUE /\ row \in [Modems -> Row]
  BY RowTypes DEF TypeOK
<1>2. row' = [row EXCEPT ![m] = [u EXCEPT !.ported = TRUE, !.enabled = TRUE]]
  BY DEF SwitchOn
<1>. HIDE DEF u
<1>. QED  BY <1>1, <1>2 DEF Row

\* start_proxy's first write clears the lock and nothing else.
LEMMA UnlockEffect ==
  ASSUME TypeOK, NEW m \in Modems,
         row' = [row EXCEPT ![m] = [Upserted(m) EXCEPT !.locked = FALSE]]
  PROVE  /\ row'[m].exists /\ ~ row'[m].locked
         /\ row[m].exists => (row'[m].enabled <=> row[m].enabled)
                              /\ (row'[m].ported <=> row[m].ported)
         /\ ~ row[m].exists => ~ row'[m].ported
         /\ \A n \in Modems \ {m} : row'[n] = row[n]
<1>. DEFINE u == Upserted(m)
<1>1. /\ u \in Row /\ u.exists = TRUE /\ row \in [Modems -> Row]
      /\ row[m].exists => u = row[m]
      /\ ~ row[m].exists => ~ u.ported
  BY RowTypes DEF TypeOK, Upserted, FreshRow
<1>2. row' = [row EXCEPT ![m] = [u EXCEPT !.locked = FALSE]]
  OBVIOUS
<1>. HIDE DEF u
<1>. QED  BY <1>1, <1>2 DEF Row

\* Rows that differ at most in cap and expiry.
SameState(r, s) == /\ s.exists = r.exists /\ s.ported = r.ported
                   /\ s.enabled = r.enabled /\ s.locked = r.locked

\* set_quota, set_expiry and the passing of time do not switch anything.
LEMMA ColumnEffects ==
  ASSUME TypeOK, NEW m \in Modems, NEW x,
         \/ row' = [row EXCEPT ![m].quota = x]
         \/ row' = [row EXCEPT ![m].expiry = x]
  PROVE  \A n \in Modems : SameState(row[n], row'[n])
<1>. row \in [Modems -> Row]
  BY DEF TypeOK
<1>1. CASE row' = [row EXCEPT ![m].quota = x]
  BY <1>1 DEF Row, SameState
<1>2. CASE row' = [row EXCEPT ![m].expiry = x]
  BY <1>2 DEF Row, SameState
<1>. QED  BY <1>1, <1>2

\* What the calls and returns of subroutines do to a job.
LEMMA GotoEffect ==
  ASSUME TypeOK, NEW p \in Procs, NEW c, Goto(p, c) \/ CallFromQuota(p, c)
  PROVE  job'[p].pc = c /\ job'[p].m = job[p].m /\ job'[p].todo = job[p].todo
<1>. DEFINE j == job[p]
<1>1. job \in [Procs -> Job] /\ j \in Job
  BY DEF TypeOK
<1>2. job' = [job EXCEPT ![p] = [j EXCEPT !.pc = c]]
      \/ job' = [job EXCEPT ![p] = [j EXCEPT !.pc = c, !.ret = "quota"]]
  BY DEF Goto, CallFromQuota
<1>. HIDE DEF j
<1>3. j \in [pc : Loops \cup {"render", "restart", "halt", "unlink", "remove",
                              "enable", "lock", "unlock"},
              m : Modems \cup {"none"}, ret : {"idle", "quota", "expiry"},
              todo : SUBSET Modems]
  BY <1>1 DEF Job
<1>4. job'[p].pc = c /\ job'[p].m = j.m /\ job'[p].todo = j.todo
  BY <1>1, <1>2, <1>3
<1>. QED  BY <1>4 DEF j

\* A finished subroutine returns to a loop, with what the loop has left.
LEMMA ReturnEffect ==
  ASSUME TypeOK, NEW p \in Procs, Return(p)
  PROVE  job'[p].pc \in {"idle", "quota", "expiry"}
BY DEF TypeOK, Return, Idle, Job

\* Every step keeps the types, and a row that does not exist is empty.
LEMMA TypeStep == TypeOK /\ [Next]_vars => TypeOK'
<1>. SUFFICES ASSUME TypeOK, [Next]_vars PROVE TypeOK'
  OBVIOUS
<1>. DEFINE RowOK == RowsOK(row')
            JobOK == job' \in [Procs -> Job]
            RestOK == /\ cfg' \in [Modems -> BOOLEAN] /\ active' \in [Modems -> BOOLEAN]
                      /\ boot' \in [Modems -> BOOLEAN] /\ used' \in [Modems -> 0 .. MaxUsage]
                      /\ off' \in [Modems -> BOOLEAN]
<1>. SUFFICES RowOK /\ JobOK /\ RestOK
  BY DEF TypeOK, RowsOK
<1>0. /\ UNCHANGED row => RowOK
      /\ UNCHANGED job => JobOK
      /\ UNCHANGED <<cfg, active, boot, used, off>> => RestOK
  BY DEF TypeOK, RowsOK
<1>. DEFINE Good == RowOK /\ JobOK /\ RestOK
<1>1. ASSUME NEW p \in Procs, NEW m \in Modems, ApplyPort(p, m)
      PROVE  Good
  <2>1. RowOK
    BY <1>1, SwitchTypes DEF ApplyPort
  <2>2. JobOK
    BY <1>1, JobTypes, JobUpdate DEF ApplyPort, Begin
  <2>3. RestOK
    BY <1>1 DEF ApplyPort, TypeOK
  <2>. QED  BY <2>1, <2>2, <2>3
<1>2. ASSUME NEW p \in Procs, NEW m \in Modems, StorefrontDelete(p, m)
      PROVE  Good
  <2>1. RowOK
    BY <1>2, SwitchTypes DEF StorefrontDelete
  <2>2. JobOK
    BY <1>2, JobTypes, JobUpdate DEF StorefrontDelete, Begin
  <2>3. RestOK
    BY <1>2, <1>0 DEF StorefrontDelete
  <2>. QED  BY <2>1, <2>2, <2>3
<1>3. ASSUME NEW p \in Procs, NEW m \in Modems, Disable(p, m)
      PROVE  Good
  <2>1. RowOK
    BY <1>3, SwitchTypes DEF Disable
  <2>2. JobOK
    BY <1>3, JobTypes, JobUpdate DEF Disable, Begin
  <2>3. RestOK
    BY <1>3 DEF Disable, TypeOK
  <2>. QED  BY <2>1, <2>2, <2>3
<1>4. ASSUME NEW p \in Procs, NEW m \in Modems, Purge(p, m)
      PROVE  Good
  <2>1. RowOK
    BY <1>4, SwitchTypes DEF Purge
  <2>2. JobOK
    BY <1>4, JobTypes, JobUpdate DEF Purge, Begin
  <2>3. RestOK
    BY <1>4 DEF Purge, TypeOK
  <2>. QED  BY <2>1, <2>2, <2>3
<1>5. ASSUME NEW p \in Procs, NEW m \in Modems, TouchRow(p, m)
      PROVE  Good
  <2>1. RowOK
    BY <1>5, SwitchTypes DEF TouchRow
  <2>2. JobOK
    BY <1>5, <1>0 DEF TouchRow
  <2>3. RestOK
    BY <1>5, <1>0 DEF TouchRow
  <2>. QED  BY <2>1, <2>2, <2>3
<1>6. ASSUME NEW p \in Procs, NEW m \in Modems, NEW quota \in 0 .. MaxUsage, SetQuota(p, m, quota)
      PROVE  Good
  <2>1. RowOK
    <3>1. [row[m] EXCEPT !.quota = quota] \in Row
      BY DEF TypeOK, Row
    <3>2. row[m].exists
      BY <1>6 DEF SetQuota
    <3>. QED  BY <3>1, <3>2, <1>6 DEF SetQuota, TypeOK, RowsOK
  <2>2. JobOK
    BY <1>6, JobTypes, JobUpdate DEF SetQuota
  <2>3. RestOK
    BY <1>6, <1>0 DEF SetQuota
  <2>. QED  BY <2>1, <2>2, <2>3
<1>7. ASSUME NEW p \in Procs, NEW m \in Modems, NEW expiry \in {"never", "future", "past"}, SetExpiry(p, m, expiry)
      PROVE  Good
  <2>1. RowOK
    <3>1. [row[m] EXCEPT !.expiry = expiry] \in Row
      BY DEF TypeOK, Row
    <3>2. row[m].exists
      BY <1>7 DEF SetExpiry
    <3>. QED  BY <3>1, <3>2, <1>7 DEF SetExpiry, TypeOK, RowsOK
  <2>2. JobOK
    BY <1>7, <1>0 DEF SetExpiry
  <2>3. RestOK
    BY <1>7, <1>0 DEF SetExpiry
  <2>. QED  BY <2>1, <2>2, <2>3
<1>8. ASSUME NEW p \in Procs, Render(p)
      PROVE  Good
  <2>1. job[p].m \in Modems
    BY <1>8, JobTarget DEF Loops, Render
  <2>2. RowOK
    BY <1>8, <1>0 DEF Render
  <2>3. JobOK
    BY <1>8, <2>1, JobTypes, JobMoves, JobUpdate DEF Render, Goto
  <2>4. RestOK
    BY <1>8 DEF Render, TypeOK
  <2>. QED  BY <2>1, <2>2, <2>3, <2>4
<1>9. ASSUME NEW p \in Procs, Restart(p)
      PROVE  Good
  <2>1. RowOK
    BY <1>9, <1>0 DEF Restart
  <2>2. JobOK
    BY <1>9 DEF Restart, Return, Job, Loops, Idle, TypeOK
  <2>3. RestOK
    BY <1>9 DEF Restart, TypeOK
  <2>. QED  BY <2>1, <2>2, <2>3
<1>10. ASSUME NEW p \in Procs, Halt(p)
      PROVE  Good
  <2>1. RowOK
    BY <1>10, <1>0 DEF Halt
  <2>2. JobOK
    BY <1>10 DEF Halt, Return, Job, Loops, Idle, TypeOK
  <2>3. RestOK
    BY <1>10 DEF Halt, TypeOK
  <2>. QED  BY <2>1, <2>2, <2>3
<1>11. ASSUME NEW p \in Procs, Unlink(p)
      PROVE  Good
  <2>1. job[p].m \in Modems
    BY <1>11, JobTarget DEF Loops, Unlink
  <2>2. RowOK
    BY <1>11, <1>0 DEF Unlink
  <2>3. JobOK
    BY <1>11, <2>1, JobTypes, JobMoves, JobUpdate DEF Unlink, Goto
  <2>4. RestOK
    BY <1>11 DEF Unlink, TypeOK
  <2>. QED  BY <2>1, <2>2, <2>3, <2>4
<1>12. ASSUME NEW p \in Procs, Remove(p)
      PROVE  Good
  <2>1. RowOK
    BY <1>12, <1>0 DEF Remove
  <2>2. JobOK
    BY <1>12 DEF Remove, Return, Job, Loops, Idle, TypeOK
  <2>3. RestOK
    BY <1>12 DEF Remove, TypeOK
  <2>. QED  BY <2>1, <2>2, <2>3
<1>13. ASSUME NEW p \in Procs, QuotaTimer(p)
      PROVE  Good
  <2>1. RowOK
    BY <1>13, <1>0 DEF QuotaTimer
  <2>2. JobOK
    BY <1>13, JobTypes, JobUpdate DEF QuotaTimer
  <2>3. RestOK
    BY <1>13, <1>0 DEF QuotaTimer
  <2>. QED  BY <2>1, <2>2, <2>3
<1>14. ASSUME NEW p \in Procs, NEW m \in Modems, QuotaRead(p, m)
      PROVE  Good
  <2>1. RowOK
    BY <1>14, <1>0 DEF QuotaRead
  <2>2. JobOK
    BY <1>14 DEF QuotaRead, Verdict, Job, Loops, TypeOK
  <2>3. RestOK
    BY <1>14, <1>0 DEF QuotaRead
  <2>. QED  BY <2>1, <2>2, <2>3
<1>15. ASSUME NEW p \in Procs, QuotaLock(p)
      PROVE  Good
  <2>1. job[p].m \in Modems
    BY <1>15, JobTarget DEF Loops, QuotaLock
  <2>2. RowOK
    BY <1>15, <2>1, SwitchTypes DEF QuotaLock
  <2>3. JobOK
    BY <1>15, <2>1, JobTypes, JobMoves, JobUpdate DEF QuotaLock, CallFromQuota
  <2>4. RestOK
    BY <1>15, <1>0 DEF QuotaLock
  <2>. QED  BY <2>1, <2>2, <2>3, <2>4
<1>16. ASSUME NEW p \in Procs, QuotaUnlock(p)
      PROVE  Good
  <2>1. job[p].m \in Modems
    BY <1>16, JobTarget DEF Loops, QuotaUnlock
  <2>2. RowOK
    BY <1>16, <2>1, SwitchTypes DEF QuotaUnlock
  <2>3. JobOK
    BY <1>16, <2>1, JobTypes, JobMoves, JobUpdate DEF QuotaUnlock, CallFromQuota
  <2>4. RestOK
    BY <1>16, <1>0 DEF QuotaUnlock
  <2>. QED  BY <2>1, <2>2, <2>3, <2>4
<1>17. ASSUME NEW p \in Procs, Enable(p)
      PROVE  Good
  <2>1. job[p].m \in Modems
    BY <1>17, JobTarget DEF Loops, Enable
  <2>2. RowOK
    BY <1>17, <2>1, SwitchTypes DEF Enable
  <2>3. JobOK
    BY <1>17, <2>1, JobTypes, JobMoves, JobUpdate DEF Enable, Goto
  <2>4. RestOK
    BY <1>17, <1>0 DEF Enable
  <2>. QED  BY <2>1, <2>2, <2>3, <2>4
<1>18. ASSUME NEW p \in Procs, ExpiryTimer(p)
      PROVE  Good
  <2>1. RowOK
    BY <1>18, <1>0 DEF ExpiryTimer
  <2>2. JobOK
    BY <1>18, JobTypes, JobUpdate DEF ExpiryTimer, ExpiredRows
  <2>3. RestOK
    BY <1>18, <1>0 DEF ExpiryTimer
  <2>. QED  BY <2>1, <2>2, <2>3
<1>19. ASSUME NEW p \in Procs, NEW m \in Modems, ExpireOne(p, m)
      PROVE  Good
  <2>1. RowOK
    BY <1>19, SwitchTypes DEF ExpireOne
  <2>2. JobOK
    BY <1>19 DEF ExpireOne, Job, Loops, TypeOK
  <2>3. RestOK
    BY <1>19, <1>0 DEF ExpireOne
  <2>. QED  BY <2>1, <2>2, <2>3
<1>20. ASSUME NEW p \in Procs, HealthTimer(p)
      PROVE  Good
  <2>1. RowOK
    BY <1>20, <1>0 DEF HealthTimer
  <2>2. JobOK
    BY <1>20, JobTypes, JobUpdate DEF HealthTimer, HealthRows
  <2>3. RestOK
    BY <1>20, <1>0 DEF HealthTimer
  <2>. QED  BY <2>1, <2>2, <2>3
<1>21. ASSUME NEW p \in Procs, NEW m \in Modems, ProbeOk(p, m)
      PROVE  Good
  <2>1. RowOK
    BY <1>21, <1>0 DEF ProbeOk
  <2>2. JobOK
    BY <1>21 DEF ProbeOk, Job, Loops, TypeOK
  <2>3. RestOK
    BY <1>21, <1>0 DEF ProbeOk
  <2>. QED  BY <2>1, <2>2, <2>3
<1>22. ASSUME NEW p \in Procs, NEW m \in Modems, ProbeFailed(p, m)
      PROVE  Good
  <2>1. RowOK
    BY <1>22, <1>0 DEF ProbeFailed
  <2>2. JobOK
    BY <1>22 DEF ProbeFailed, Job, Loops, TypeOK
  <2>3. RestOK
    BY <1>22 DEF ProbeFailed, TypeOK
  <2>. QED  BY <2>1, <2>2, <2>3
<1>23. ASSUME NEW p \in Procs, EndLoop(p)
      PROVE  Good
  <2>1. RowOK
    BY <1>23, <1>0 DEF EndLoop
  <2>2. JobOK
    BY <1>23, JobTypes, JobUpdate DEF EndLoop
  <2>3. RestOK
    BY <1>23, <1>0 DEF EndLoop
  <2>. QED  BY <2>1, <2>2, <2>3
<1>24. ASSUME NEW m \in Modems, Traffic(m)
      PROVE  Good
  BY <1>0, <1>24, UsageAssumption DEF Traffic, TypeOK
<1>25. ASSUME MonthRollover
      PROVE  Good
  BY <1>0, <1>25, UsageAssumption DEF MonthRollover, TypeOK
<1>26. ASSUME NEW m \in Modems, TimePasses(m)
      PROVE  Good
  <2>1. row' = [row EXCEPT ![m] = [row[m] EXCEPT !.expiry = "past"]] /\ row[m].expiry = "future"
    BY <1>26 DEF TimePasses
  <2>. DEFINE r == [row[m] EXCEPT !.expiry = "past"]
  <2>2. r \in Row /\ r.exists = row[m].exists
    BY DEF TypeOK, Row
  <2>3. row[m].exists = TRUE
    BY <2>1 DEF TypeOK, NoRow, Row
  <2>4. RowsOK(row)
    BY DEF TypeOK, RowsOK
  <2>5. RowOK
    <3>. HIDE DEF r
    <3>1. row' = [row EXCEPT ![m] = r]
      BY <2>1 DEF r
    <3>. QED  BY <2>2, <2>3, <2>4, <3>1, RowStore
  <2>. QED  BY <1>0, <1>26, <2>5 DEF TimePasses
<1>27. ASSUME Reboot
      PROVE  Good
  BY <1>0, <1>27, JobTypes DEF Reboot, TypeOK
<1>28. CASE UNCHANGED vars
  BY <1>0, <1>28 DEF vars
<1>. QED
  BY <1>1, <1>2, <1>3, <1>4, <1>5, <1>6, <1>7, <1>8, <1>9, <1>10, <1>11,
     <1>12, <1>13, <1>14, <1>15, <1>16, <1>17, <1>18, <1>19, <1>20, <1>21,
     <1>22, <1>23, <1>24, <1>25, <1>26, <1>27, <1>28
  DEF Next, World, Request, Timer, Continue

-----------------------------------------------------------------------------
(* What is disabled stays disabled *)

\* Only api_disable marks a modem as disabled, and it leaves a row behind that
\* is neither enabled nor locked; the quota check never acts on such a row.
LEMMA OffStep ==
  ASSUME Serial, "storefront delete" \notin Hazards, TypeOK, OffInv, [Next]_vars
  PROVE  OffInv'
<1>. DEFINE Kept == \A m \in Modems :
                      off'[m] => row'[m].exists /\ ~ row'[m].enabled /\ ~ row'[m].locked
<1>. SUFFICES Kept /\ \A p \in Procs : OffJob(p)'
  BY DEF OffInv, DisabledLeftAlone
<1>0. /\ UNCHANGED <<row, off>> => Kept
      /\ UNCHANGED <<row, off, job>> => \A p \in Procs : OffJob(p)'
  BY DEF OffInv, OffJob, DisabledLeftAlone
<1>. DEFINE Good(p) == Kept /\ OffJob(p)'
<1>1. ASSUME NEW p \in Procs, NEW m \in Modems, ApplyPort(p, m) PROVE Good(p)
  BY <1>0, <1>1 DEF ApplyPort, SwitchOn, Begin, Idle, OffInv, OffJob, DisabledLeftAlone, TypeOK
<1>2. ASSUME NEW p \in Procs, NEW m \in Modems, StorefrontDelete(p, m) PROVE Good(p)
  BY <1>0, <1>2 DEF StorefrontDelete
<1>3. ASSUME NEW p \in Procs, NEW m \in Modems, Disable(p, m) PROVE Good(p)
  <2>1. /\ row'[m].exists /\ ~ row'[m].enabled /\ ~ row'[m].locked
       /\ \A n \in Modems \ {m} : row'[n] = row[n]
    BY <1>3, SwitchOffEffect DEF Disable
  <2>. QED  BY <1>0, <1>3, <2>1 DEF Disable, Begin, Idle, OffInv, OffJob, DisabledLeftAlone, TypeOK
<1>4. ASSUME NEW p \in Procs, NEW m \in Modems, Purge(p, m) PROVE Good(p)
  BY <1>0, <1>4 DEF Purge, Begin, Idle, OffInv, OffJob, DisabledLeftAlone, TypeOK
<1>5. ASSUME NEW p \in Procs, NEW m \in Modems, TouchRow(p, m) PROVE Good(p)
  BY <1>0, <1>5 DEF TouchRow, Upserted, OffInv, OffJob, DisabledLeftAlone, TypeOK
<1>6. ASSUME NEW p \in Procs, NEW m \in Modems, NEW quota \in 0 .. MaxUsage, SetQuota(p, m, quota) PROVE Good(p)
  <2>1. \A n \in Modems : SameState(row[n], row'[n])
    BY <1>6, ColumnEffects DEF SetQuota
  <2>2. job'[p].pc = "quota" /\ off' = off
    BY <1>6 DEF SetQuota, Idle, TypeOK
  <2>. QED  BY <1>0, <1>6, <2>1, <2>2 DEF SameState, OffInv, OffJob, DisabledLeftAlone, TypeOK
<1>7. ASSUME NEW p \in Procs, NEW m \in Modems, NEW expiry \in {"never", "future", "past"}, SetExpiry(p, m, expiry) PROVE Good(p)
  <2>1. \A n \in Modems : SameState(row[n], row'[n])
    BY <1>7, ColumnEffects DEF SetExpiry
  <2>2. UNCHANGED <<off, job>> /\ job[p].pc = "idle"
    BY <1>7 DEF SetExpiry
  <2>. QED  BY <1>0, <1>7, <2>1, <2>2 DEF SameState, OffInv, OffJob, DisabledLeftAlone, TypeOK
<1>8. ASSUME NEW p \in Procs, Render(p) PROVE Good(p)
  <2>1. Goto(p, "restart") \/ job' = [job EXCEPT ![p] = Idle]
    BY <1>8 DEF Render
  <2>2. Goto(p, "restart") => job'[p].pc = "restart"
    BY GotoEffect
  <2>3. job' = [job EXCEPT ![p] = Idle] => job'[p].pc = "idle"
    <3>1. Idle.pc = "idle"
      BY DEF Idle
    <3>2. job' = [job EXCEPT ![p] = Idle] => job'[p] = Idle
      BY DEF TypeOK
    <3>. QED  BY <3>1, <3>2
  <2>. QED  BY <1>0, <1>8, <2>1, <2>2, <2>3 DEF Render, OffInv, OffJob, DisabledLeftAlone, TypeOK
<1>9. ASSUME NEW p \in Procs, Restart(p) PROVE Good(p)
  <2>1. job'[p].pc \in {"idle", "quota", "expiry"}
    BY <1>9, ReturnEffect DEF Restart
  <2>. QED  BY <1>0, <1>9, <2>1 DEF Restart, OffInv, OffJob, DisabledLeftAlone, TypeOK
<1>10. ASSUME NEW p \in Procs, Halt(p) PROVE Good(p)
  <2>1. job'[p].pc \in {"idle", "quota", "expiry"}
    BY <1>10, ReturnEffect DEF Halt
  <2>. QED  BY <1>0, <1>10, <2>1 DEF Halt, OffInv, OffJob, DisabledLeftAlone, TypeOK
<1>11. ASSUME NEW p \in Procs, Remove(p) PROVE Good(p)
  <2>1. job'[p].pc \in {"idle", "quota", "expiry"}
    BY <1>11, ReturnEffect DEF Remove
  <2>. QED  BY <1>0, <1>11, <2>1 DEF Remove, OffInv, OffJob, DisabledLeftAlone, TypeOK
<1>12. ASSUME NEW p \in Procs, Unlink(p) PROVE Good(p)
  <2>1. job'[p].pc = "remove"
    BY <1>12, GotoEffect DEF Unlink
  <2>. QED  BY <1>0, <1>12, <2>1 DEF Unlink, OffInv, OffJob, DisabledLeftAlone, TypeOK
<1>13. ASSUME NEW p \in Procs, QuotaTimer(p) PROVE Good(p)
  BY <1>0, <1>13 DEF QuotaTimer, Idle, OffInv, OffJob, DisabledLeftAlone, TypeOK
<1>14. ASSUME NEW p \in Procs, NEW m \in Modems, QuotaRead(p, m) PROVE Good(p)
  BY <1>0, <1>14 DEF QuotaRead, Verdict, OffInv, OffJob, DisabledLeftAlone, TypeOK
<1>15. ASSUME NEW p \in Procs, QuotaLock(p) PROVE Good(p)
  <2>1. job[p].m \in Modems
    BY <1>15, JobTarget DEF Loops, QuotaLock
  <2>2. LET m == job[p].m IN
          row'[m].exists /\ \A n \in Modems \ {m} : row'[n] = row[n]
    BY <1>15, <2>1, SwitchOffEffect DEF QuotaLock
  <2>3. job'[p].pc = "halt"
    BY <1>15, GotoEffect DEF QuotaLock
  <2>. QED  BY <1>0, <1>15, <2>1, <2>2, <2>3 DEF QuotaLock, OffInv, OffJob, DisabledLeftAlone, TypeOK
<1>16. ASSUME NEW p \in Procs, QuotaUnlock(p) PROVE Good(p)
  <2>1. job[p].m \in Modems
    BY <1>16, JobTarget DEF Loops, QuotaUnlock
  <2>2. LET m == job[p].m IN
          /\ row'[m].exists
          /\ \A n \in Modems \ {m} : row'[n] = row[n]
    BY <1>16, <2>1, UnlockEffect DEF QuotaUnlock
  <2>3. job'[p].pc = "enable" /\ job'[p].m = job[p].m
    BY <1>16, GotoEffect DEF QuotaUnlock
  <2>. QED  BY <1>0, <1>16, <2>1, <2>2, <2>3 DEF QuotaUnlock, OffInv, OffJob, DisabledLeftAlone, TypeOK
<1>17. ASSUME NEW p \in Procs, Enable(p) PROVE Good(p)
  <2>1. job[p].m \in Modems
    BY <1>17, JobTarget DEF Loops, Enable
  <2>2. LET m == job[p].m IN
          row'[m].exists /\ \A n \in Modems \ {m} : row'[n] = row[n]
    BY <1>17, <2>1, SwitchOnEffect DEF Enable
  <2>3. job'[p].pc = "render"
    BY <1>17, GotoEffect DEF Enable
  <2>. QED  BY <1>0, <1>17, <2>1, <2>2, <2>3 DEF Enable, OffInv, OffJob, DisabledLeftAlone, TypeOK
<1>18. ASSUME NEW p \in Procs, ExpiryTimer(p) PROVE Good(p)
  BY <1>0, <1>18 DEF ExpiryTimer, Idle, OffInv, OffJob, DisabledLeftAlone, TypeOK
<1>19. ASSUME NEW p \in Procs, NEW m \in Modems, ExpireOne(p, m) PROVE Good(p)
  <2>1. /\ row'[m].exists /\ ~ row'[m].enabled /\ ~ row'[m].locked
       /\ \A n \in Modems \ {m} : row'[n] = row[n]
    BY <1>19, SwitchOffEffect DEF ExpireOne
  <2>. QED  BY <1>0, <1>19, <2>1 DEF ExpireOne, OffInv, OffJob, DisabledLeftAlone, TypeOK
<1>20. ASSUME NEW p \in Procs, HealthTimer(p) PROVE Good(p)
  BY <1>0, <1>20 DEF HealthTimer, Idle, OffInv, OffJob, DisabledLeftAlone, TypeOK
<1>21. ASSUME NEW p \in Procs, NEW m \in Modems, ProbeOk(p, m) PROVE Good(p)
  <2>1. UNCHANGED <<row, off>> /\ job'[p].pc = "health"
    BY <1>21 DEF ProbeOk, TypeOK, Job
  <2>. QED  BY <1>0, <2>1 DEF OffJob
<1>22. ASSUME NEW p \in Procs, NEW m \in Modems, ProbeFailed(p, m) PROVE Good(p)
  <2>1. UNCHANGED <<row, off>> /\ job'[p].pc = "health"
    BY <1>22 DEF ProbeFailed, TypeOK, Job
  <2>. QED  BY <1>0, <2>1 DEF OffJob
<1>23. ASSUME NEW p \in Procs, EndLoop(p) PROVE Good(p)
  BY <1>0, <1>23 DEF EndLoop, Idle, OffInv, OffJob, DisabledLeftAlone, TypeOK
<1>50. ASSUME NEW p \in Procs, Request(p) \/ Timer(p) \/ Continue(p) PROVE Good(p)
  BY <1>50,
     <1>1, <1>2, <1>3, <1>4, <1>5, <1>6, <1>7, <1>8, <1>9, <1>10, <1>11,
     <1>12, <1>13, <1>14, <1>15, <1>16, <1>17, <1>18, <1>19, <1>20, <1>21,
     <1>22, <1>23
  DEF Request, Timer, Continue
<1>51. ASSUME NEW m \in Modems, Traffic(m) PROVE Kept /\ \A p \in Procs : OffJob(p)'
  BY <1>0, <1>51 DEF Traffic
<1>52. CASE MonthRollover
  BY <1>0, <1>52 DEF MonthRollover
<1>53. ASSUME NEW m \in Modems, TimePasses(m) PROVE Kept /\ \A p \in Procs : OffJob(p)'
  <2>1. \A n \in Modems : SameState(row[n], row'[n])
    BY <1>53, ColumnEffects DEF TimePasses
  <2>2. UNCHANGED <<off, job>>
    BY <1>53 DEF TimePasses
  <2>3. \A p \in Procs : job[p].pc \notin Loops => job[p].m \in Modems
    BY JobTarget
  <2>. QED  BY <2>1, <2>2, <2>3 DEF SameState, Loops, OffInv, OffJob, DisabledLeftAlone, TypeOK
<1>54. CASE Reboot
  BY <1>0, <1>54 DEF Reboot, Idle, OffJob
<1>55. CASE UNCHANGED vars
  BY <1>0, <1>55 DEF vars
<1>. QED
  BY <1>50, <1>51, <1>52, <1>53, <1>54, <1>55 DEF Next, World, Serial

\* Initially nothing is disabled and nothing runs.
LEMMA InitOff == Init => TypeOK /\ OffInv
<1>1. NoRow \in Row /\ 0 \in 0 .. MaxUsage
  <2>1. 0 \in 0 .. MaxUsage
    BY UsageAssumption
  <2>. QED  BY <2>1, Zenon DEF NoRow, Row
<1>2. Idle \in Job
  BY DEF Idle, Job, Loops
<1>. QED  BY <1>1, <1>2 DEF Init, TypeOK, OffInv, OffJob, DisabledLeftAlone, Idle

\* The ports table, the flags and the jobs keep their types, for any number of
\* concurrent processes; a purged row keeps none of its columns.
THEOREM TypeInvariance == Spec => []TypeOK
<1>1. Init => TypeOK
  BY InitOff
<1>2. TypeOK /\ [Next]_vars => TypeOK'
  BY TypeStep
<1>. QED  BY <1>1, <1>2, PTL DEF Spec

\* With one process at a time, reboots included, what the administrator has
\* disabled stays disabled until it is applied or purged.
THEOREM DisabledLeftAloneThm ==
  Serial /\ "storefront delete" \notin Hazards => (Spec => []DisabledLeftAlone)
<1>. SUFFICES ASSUME Serial, "storefront delete" \notin Hazards
              PROVE  Spec => []DisabledLeftAlone
  OBVIOUS
<1>1. Init => TypeOK /\ OffInv
  BY InitOff
<1>2. (TypeOK /\ OffInv) /\ [Next]_vars => (TypeOK /\ OffInv)'
  BY TypeStep, OffStep
<1>3. TypeOK /\ OffInv => DisabledLeftAlone
  BY DEF OffInv
<1>. QED  BY <1>1, <1>2, <1>3, PTL DEF Spec

-----------------------------------------------------------------------------
(* Database, file and unit agree *)

\* A step that leaves the rows' state, the files and the units alone keeps the
\* agreement, whatever operation it begins or ends.
LEMMA AgreeQuiet ==
  ASSUME Serial, TypeOK, AgreeInv, NEW p \in Procs, UNCHANGED <<cfg, active>>,
         \A n \in Modems : SameState(row[n], row'[n]),
         job[p].pc \notin {"render", "restart", "halt", "unlink", "remove"},
         job'[p].pc \in {"idle", "quota", "expiry", "lock", "unlock", "enable"}
  PROVE  AgreeJob(p)'
BY DEF SameState, AgreeInv, AgreeJob, Agree

\* An operation that has written the row of m, and only that, is half done.
LEMMA AgreeBegun ==
  ASSUME Serial, TypeOK, AgreeInv, NEW p \in Procs, NEW m \in Modems,
         UNCHANGED <<cfg, active>>, \A n \in Modems \ {m} : row'[n] = row[n],
         job[p].pc \notin {"render", "restart", "halt", "unlink", "remove"},
         job'[p].m = m,
         \/ job'[p].pc = "render" /\ row'[m].exists /\ row'[m].enabled
         \/ job'[p].pc \in {"halt", "unlink"} /\ ~ row'[m].enabled
  PROVE  AgreeJob(p)'
BY DEF AgreeInv, AgreeJob, Agree

\* What a new operation's job looks like.
LEMMA BeginEffect ==
  ASSUME TypeOK, NEW p \in Procs, NEW m \in Modems, NEW c, Begin(p, m, c)
  PROVE  job[p].pc = "idle" /\ job'[p].pc = c /\ job'[p].m = m
BY DEF TypeOK, Begin, Idle

\* The storefront, the administrator, the timers and their loops write the row
\* first, then the file, then the unit; each intermediate state is accounted
\* for by the job.  A reboot would end jobs in the middle, so there is none.
LEMMA AgreeStep ==
  ASSUME Serial, "reboot" \notin Hazards, TypeOK, AgreeInv, [Next]_vars
  PROVE  AgreeInv'
<1>. SUFFICES \A p \in Procs : AgreeJob(p)'
  BY DEF AgreeInv
<1>0. UNCHANGED <<row, cfg, active, job>> => \A p \in Procs : AgreeJob(p)'
  BY DEF AgreeInv, AgreeJob, Agree, HealthRows
<1>same. UNCHANGED row => \A n \in Modems : SameState(row[n], row'[n])
  BY DEF SameState
<1>1. ASSUME NEW p \in Procs, NEW m \in Modems, ApplyPort(p, m) PROVE AgreeJob(p)'
  <2>1. row'[m].exists /\ row'[m].enabled /\ \A n \in Modems \ {m} : row'[n] = row[n]
    BY <1>1, SwitchOnEffect DEF ApplyPort
  <2>2. job[p].pc = "idle" /\ job'[p].pc = "render" /\ job'[p].m = m
    BY <1>1, BeginEffect DEF ApplyPort
  <2>. QED  BY <1>1, <2>1, <2>2, AgreeBegun DEF ApplyPort
<1>2. ASSUME NEW p \in Procs, NEW m \in Modems, StorefrontDelete(p, m) PROVE AgreeJob(p)'
  <2>1. row'[m].exists /\ row'[m].enabled /\ \A n \in Modems \ {m} : row'[n] = row[n]
    BY <1>2, SwitchOnEffect DEF StorefrontDelete
  <2>2. job[p].pc = "idle" /\ job'[p].pc = "render" /\ job'[p].m = m
    BY <1>2, BeginEffect DEF StorefrontDelete
  <2>. QED  BY <1>2, <2>1, <2>2, AgreeBegun DEF StorefrontDelete
<1>3. ASSUME NEW p \in Procs, NEW m \in Modems, Disable(p, m) PROVE AgreeJob(p)'
  <2>1. ~ row'[m].enabled /\ \A n \in Modems \ {m} : row'[n] = row[n]
    BY <1>3, SwitchOffEffect DEF Disable
  <2>2. job[p].pc = "idle" /\ job'[p].pc = "halt" /\ job'[p].m = m
    BY <1>3, BeginEffect DEF Disable
  <2>. QED  BY <1>3, <2>1, <2>2, AgreeBegun DEF Disable
<1>4. ASSUME NEW p \in Procs, NEW m \in Modems, Purge(p, m) PROVE AgreeJob(p)'
  <2>1. ~ row'[m].enabled /\ \A n \in Modems \ {m} : row'[n] = row[n]
    BY <1>4 DEF Purge, NoRow, TypeOK
  <2>2. job[p].pc = "idle" /\ job'[p].pc = "unlink" /\ job'[p].m = m
    BY <1>4, BeginEffect DEF Purge
  <2>. QED  BY <1>4, <2>1, <2>2, AgreeBegun DEF Purge
<1>5. ASSUME NEW p \in Procs, NEW m \in Modems, TouchRow(p, m) PROVE AgreeJob(p)'
  <2>1. /\ \A n \in Modems \ {m} : row'[n] = row[n]
        /\ row[m].exists => row'[m] = row[m]
        /\ ~ row[m].exists => row'[m].enabled /\ ~ row'[m].ported
    BY <1>5 DEF TouchRow, Upserted, FreshRow, TypeOK
  <2>2. ~ row[m].exists => ~ row[m].enabled
    BY DEF TypeOK, NoRow
  <2>3. job[p].pc = "idle" /\ UNCHANGED <<cfg, active, job>>
    BY <1>5 DEF TouchRow
  <2>. QED  BY <2>1, <2>2, <2>3 DEF AgreeInv, AgreeJob, Agree
<1>6. ASSUME NEW p \in Procs, NEW m \in Modems, NEW quota \in 0 .. MaxUsage, SetQuota(p, m, quota) PROVE AgreeJob(p)'
  <2>1. \A n \in Modems : SameState(row[n], row'[n])
    BY <1>6, ColumnEffects DEF SetQuota
  <2>2. job[p].pc = "idle" /\ job'[p].pc = "quota"
    BY <1>6 DEF SetQuota, Idle, TypeOK
  <2>. QED  BY <1>6, <2>1, <2>2, AgreeQuiet DEF SetQuota
<1>7. ASSUME NEW p \in Procs, NEW m \in Modems, NEW expiry \in {"never", "future", "past"}, SetExpiry(p, m, expiry) PROVE AgreeJob(p)'
  <2>1. \A n \in Modems : SameState(row[n], row'[n])
    BY <1>7, ColumnEffects DEF SetExpiry
  <2>2. job[p].pc = "idle" /\ job'[p].pc = "idle"
    BY <1>7 DEF SetExpiry
  <2>. QED  BY <1>7, <2>1, <2>2, AgreeQuiet DEF SetExpiry
<1>8. ASSUME NEW p \in Procs, Render(p) PROVE AgreeJob(p)'
  <2>. DEFINE m == job[p].m
  <2>1. job[p].pc = "render" /\ m \in Modems /\ row[m].exists
    BY <1>8, JobTarget DEF Render, Loops, AgreeInv, AgreeJob
  <2>2. cfg' = [cfg EXCEPT ![m] = TRUE] /\ Goto(p, "restart") /\ UNCHANGED <<row, active>>
    BY <1>8, <2>1 DEF Render
  <2>3. job'[p].pc = "restart" /\ job'[p].m = m
    BY <2>2, GotoEffect
  <2>. QED  BY <2>1, <2>2, <2>3 DEF AgreeInv, AgreeJob, Agree, TypeOK
<1>9. ASSUME NEW p \in Procs, Restart(p) PROVE AgreeJob(p)'
  <2>. DEFINE m == job[p].m
  <2>1. job[p].pc = "restart" /\ m \in Modems
    BY <1>9, JobTarget DEF Restart, Loops
  <2>2. active' = [active EXCEPT ![m] = TRUE] /\ UNCHANGED <<row, cfg>>
    BY <1>9 DEF Restart
  <2>3. job'[p].pc \in {"idle", "quota", "expiry"}
    BY <1>9, ReturnEffect DEF Restart
  <2>. QED  BY <2>1, <2>2, <2>3 DEF AgreeInv, AgreeJob, Agree, TypeOK
<1>10. ASSUME NEW p \in Procs, Halt(p) PROVE AgreeJob(p)'
  <2>. DEFINE m == job[p].m
  <2>1. job[p].pc = "halt" /\ m \in Modems
    BY <1>10, JobTarget DEF Halt, Loops
  <2>2. active' = [active EXCEPT ![m] = FALSE] /\ UNCHANGED <<row, cfg>>
    BY <1>10 DEF Halt
  <2>3. job'[p].pc \in {"idle", "quota", "expiry"}
    BY <1>10, ReturnEffect DEF Halt
  <2>. QED  BY <2>1, <2>2, <2>3 DEF AgreeInv, AgreeJob, Agree, TypeOK
<1>11. ASSUME NEW p \in Procs, Unlink(p) PROVE AgreeJob(p)'
  <2>. DEFINE m == job[p].m
  <2>1. job[p].pc = "unlink" /\ m \in Modems
    BY <1>11, JobTarget DEF Unlink, Loops
  <2>2. cfg' = [cfg EXCEPT ![m] = FALSE] /\ UNCHANGED <<row, active>>
    BY <1>11 DEF Unlink
  <2>3. job'[p].pc = "remove" /\ job'[p].m = m
    BY <1>11, GotoEffect DEF Unlink
  <2>. QED  BY <2>1, <2>2, <2>3 DEF AgreeInv, AgreeJob, Agree, TypeOK
<1>12. ASSUME NEW p \in Procs, Remove(p) PROVE AgreeJob(p)'
  <2>. DEFINE m == job[p].m
  <2>1. job[p].pc = "remove" /\ m \in Modems
    BY <1>12, JobTarget DEF Remove, Loops
  <2>2. active' = [active EXCEPT ![m] = FALSE] /\ UNCHANGED <<row, cfg>>
    BY <1>12 DEF Remove
  <2>3. job'[p].pc \in {"idle", "quota", "expiry"}
    BY <1>12, ReturnEffect DEF Remove
  <2>. QED  BY <2>1, <2>2, <2>3 DEF AgreeInv, AgreeJob, Agree, TypeOK
<1>13. ASSUME NEW p \in Procs, QuotaTimer(p) PROVE AgreeJob(p)'
  <2>1. job[p].pc = "idle" /\ job'[p].pc = "quota"
    BY <1>13 DEF QuotaTimer, Idle, TypeOK
  <2>. QED  BY <1>13, <1>same, <2>1, AgreeQuiet DEF QuotaTimer
<1>14. ASSUME NEW p \in Procs, ExpiryTimer(p) PROVE AgreeJob(p)'
  <2>1. job[p].pc = "idle" /\ job'[p].pc = "expiry"
    BY <1>14 DEF ExpiryTimer, Idle, TypeOK
  <2>. QED  BY <1>14, <1>same, <2>1, AgreeQuiet DEF ExpiryTimer
<1>15. ASSUME NEW p \in Procs, HealthTimer(p) PROVE AgreeJob(p)'
  <2>1. job[p].pc = "idle" /\ job'[p].pc = "health" /\ job'[p].todo = HealthRows
    BY <1>15 DEF HealthTimer, Idle, TypeOK
  <2>2. UNCHANGED <<row, cfg, active>>
    BY <1>15 DEF HealthTimer
  <2>. QED  BY <2>1, <2>2 DEF AgreeInv, AgreeJob, Agree, HealthRows
<1>16. ASSUME NEW p \in Procs, NEW m \in Modems, QuotaRead(p, m) PROVE AgreeJob(p)'
  <2>1. job[p].pc = "quota" /\ job'[p].pc = Verdict(m)
    BY <1>16 DEF QuotaRead, TypeOK
  <2>2. Verdict(m) \in {"quota", "lock", "unlock"}
    BY DEF Verdict
  <2>. QED  BY <1>16, <1>same, <2>1, <2>2, AgreeQuiet DEF QuotaRead
<1>17. ASSUME NEW p \in Procs, QuotaLock(p) PROVE AgreeJob(p)'
  <2>. DEFINE m == job[p].m
  <2>1. job[p].pc = "lock" /\ m \in Modems
    BY <1>17, JobTarget DEF QuotaLock, Loops
  <2>2. ~ row'[m].enabled /\ \A n \in Modems \ {m} : row'[n] = row[n]
    BY <1>17, <2>1, SwitchOffEffect DEF QuotaLock
  <2>3. job'[p].pc = "halt" /\ job'[p].m = m /\ UNCHANGED <<cfg, active>>
    BY <1>17, GotoEffect DEF QuotaLock
  <2>. QED  BY <2>1, <2>2, <2>3, AgreeBegun
<1>18. ASSUME NEW p \in Procs, QuotaUnlock(p) PROVE AgreeJob(p)'
  <2>. DEFINE m == job[p].m
  <2>1. job[p].pc = "unlock" /\ m \in Modems
    BY <1>18, JobTarget DEF QuotaUnlock, Loops
  <2>2. /\ row[m].exists => (row'[m].enabled <=> row[m].enabled)
                              /\ (row'[m].ported <=> row[m].ported)
        /\ ~ row[m].exists => ~ row'[m].ported
        /\ \A n \in Modems \ {m} : row'[n] = row[n]
    BY <1>18, <2>1, UnlockEffect DEF QuotaUnlock
  <2>3. ~ row[m].exists => ~ row[m].enabled
    BY <2>1 DEF TypeOK, NoRow
  <2>4. job'[p].pc = "enable" /\ UNCHANGED <<cfg, active>>
    BY <1>18, GotoEffect DEF QuotaUnlock
  <2>. QED  BY <2>1, <2>2, <2>3, <2>4 DEF AgreeInv, AgreeJob, Agree
<1>19. ASSUME NEW p \in Procs, Enable(p) PROVE AgreeJob(p)'
  <2>. DEFINE m == job[p].m
  <2>1. job[p].pc = "enable" /\ m \in Modems
    BY <1>19, JobTarget DEF Enable, Loops
  <2>2. row'[m].exists /\ row'[m].enabled /\ \A n \in Modems \ {m} : row'[n] = row[n]
    BY <1>19, <2>1, SwitchOnEffect DEF Enable
  <2>3. job'[p].pc = "render" /\ job'[p].m = m /\ UNCHANGED <<cfg, active>>
    BY <1>19, GotoEffect DEF Enable
  <2>. QED  BY <2>1, <2>2, <2>3, AgreeBegun
<1>20. ASSUME NEW p \in Procs, NEW m \in Modems, ExpireOne(p, m) PROVE AgreeJob(p)'
  <2>1. ~ row'[m].enabled /\ \A n \in Modems \ {m} : row'[n] = row[n]
    BY <1>20, SwitchOffEffect DEF ExpireOne
  <2>2. job[p].pc = "expiry" /\ job'[p].pc = "halt" /\ job'[p].m = m
    BY <1>20 DEF ExpireOne, TypeOK
  <2>. QED  BY <1>20, <2>1, <2>2, AgreeBegun DEF ExpireOne
<1>21. ASSUME NEW p \in Procs, NEW m \in Modems, ProbeOk(p, m) PROVE AgreeJob(p)'
  <2>1. job[p].pc = "health" /\ job'[p].pc = "health"
       /\ job'[p].todo = job[p].todo \ {m} /\ m \in job[p].todo
    BY <1>21 DEF ProbeOk, TypeOK, Job
  <2>2. UNCHANGED <<row, cfg>> /\ UNCHANGED active
    BY <1>21 DEF ProbeOk
  <2>3. row[m].enabled
    BY <2>1 DEF AgreeInv, AgreeJob, HealthRows
  <2>. QED  BY <2>1, <2>2, <2>3 DEF AgreeInv, AgreeJob, Agree, HealthRows, TypeOK
<1>22. ASSUME NEW p \in Procs, NEW m \in Modems, ProbeFailed(p, m) PROVE AgreeJob(p)'
  <2>1. job[p].pc = "health" /\ job'[p].pc = "health"
       /\ job'[p].todo = job[p].todo \ {m} /\ m \in job[p].todo
    BY <1>22 DEF ProbeFailed, TypeOK, Job
  <2>2. UNCHANGED <<row, cfg>> /\ active' = [active EXCEPT ![m] = TRUE]
    BY <1>22 DEF ProbeFailed
  <2>3. row[m].enabled
    BY <2>1 DEF AgreeInv, AgreeJob, HealthRows
  <2>. QED  BY <2>1, <2>2, <2>3 DEF AgreeInv, AgreeJob, Agree, HealthRows, TypeOK
<1>23. ASSUME NEW p \in Procs, EndLoop(p) PROVE AgreeJob(p)'
  <2>1. job'[p].pc = "idle"
    BY <1>23 DEF EndLoop, Idle, TypeOK
  <2>. QED  BY <1>23, <1>same, <2>1, AgreeQuiet DEF EndLoop
<1>50. ASSUME NEW p \in Procs, Request(p) \/ Timer(p) \/ Continue(p) PROVE AgreeJob(p)'
  BY <1>50,
     <1>1, <1>2, <1>3, <1>4, <1>5, <1>6, <1>7, <1>8, <1>9, <1>10,
     <1>11, <1>12, <1>13, <1>14, <1>15, <1>16, <1>17, <1>18, <1>19,
     <1>20, <1>21, <1>22, <1>23
  DEF Request, Timer, Continue
<1>51. ASSUME NEW m \in Modems, Traffic(m) PROVE \A p \in Procs : AgreeJob(p)'
  BY <1>0, <1>51 DEF Traffic
<1>52. CASE MonthRollover
  BY <1>0, <1>52 DEF MonthRollover
<1>53. ASSUME NEW m \in Modems, TimePasses(m) PROVE \A p \in Procs : AgreeJob(p)'
  <2>1. \A n \in Modems : SameState(row[n], row'[n])
    BY <1>53, ColumnEffects DEF TimePasses
  <2>2. UNCHANGED <<cfg, active, job>>
    BY <1>53 DEF TimePasses
  <2>3. HealthRows' = HealthRows
    BY <2>1 DEF HealthRows, SameState
  <2>4. \A p \in Procs : job[p].pc \notin Loops => job[p].m \in Modems
    BY JobTarget
  <2>. QED  BY <2>1, <2>2, <2>3, <2>4 DEF SameState, Loops, AgreeInv, AgreeJob, Agree
<1>54. CASE UNCHANGED vars
  BY <1>0, <1>54 DEF vars
<1>. QED
  BY <1>50, <1>51, <1>52, <1>53, <1>54 DEF Next, World, Reboot, Serial

\* Initially no unit runs and no row exists.
LEMMA InitAgree == Init => TypeOK /\ AgreeInv
<1>1. Init => TypeOK
  BY InitOff
<1>. QED  BY <1>1 DEF Init, AgreeInv, AgreeJob, Agree, Idle, NoRow

\* The agreement is an invariant as long as operations run one at a time and
\* are not cut off by a restart of the host.
LEMMA AgreeInvariance ==
  ASSUME Serial, "reboot" \notin Hazards
  PROVE  Spec => [](TypeOK /\ AgreeInv)
<1>1. Init => TypeOK /\ AgreeInv
  BY InitAgree
<1>2. (TypeOK /\ AgreeInv) /\ [Next]_vars => (TypeOK /\ AgreeInv)'
  BY TypeStep, AgreeStep
<1>. QED  BY <1>1, <1>2, PTL DEF Spec

\* One operation at a time and no reboot: when none is under way, nothing runs
\* that the database says is off.
THEOREM NoRogueUnitThm ==
  Serial /\ "reboot" \notin Hazards /\ Procs # {} => (Spec => []NoRogueUnit)
<1>. SUFFICES ASSUME Serial, "reboot" \notin Hazards, Procs # {}
              PROVE  Spec => []NoRogueUnit
  OBVIOUS
<1>1. TypeOK /\ AgreeInv => NoRogueUnit
  BY DEF AgreeInv, AgreeJob, Agree, NoRogueUnit, Quiescent
<1>2. Spec => [](TypeOK /\ AgreeInv)
  BY AgreeInvariance
<1>. QED  BY <1>1, <1>2, PTL

\* Under the same conditions every enabled proxy with ports has its config file
\* and a running unit: the quota unlock, the storefront and the health check
\* leave none behind that is advertised but dead.
THEOREM EnabledIsServingThm ==
  Serial /\ "reboot" \notin Hazards /\ Procs # {} => (Spec => []EnabledIsServing)
<1>. SUFFICES ASSUME Serial, "reboot" \notin Hazards, Procs # {}
              PROVE  Spec => []EnabledIsServing
  OBVIOUS
<1>1. TypeOK /\ AgreeInv => EnabledIsServing
  BY DEF AgreeInv, AgreeJob, Agree, EnabledIsServing, Quiescent
<1>2. Spec => [](TypeOK /\ AgreeInv)
  BY AgreeInvariance
<1>. QED  BY <1>1, <1>2, PTL

=============================================================================
