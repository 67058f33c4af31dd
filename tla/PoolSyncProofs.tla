--------------------------- MODULE PoolSyncProofs ---------------------------
(***************************************************************************)
(* Proofs about PoolSync: as long as the calls of sync_pool come one at a  *)
(* time, a running pool has loaded the file on disk whenever none is under *)
(* way, whatever reboots and 3proxy exits happen, unless a call was killed *)
(* between its writing of the file and its restart of the unit.            *)
(***************************************************************************)
EXTENDS PoolSync, TLAPS

\* Jobs are well-formed, and a draft is there when it is about to be written.
JobsOK(j) ==
    /\ j \in [Procs -> Job]
    /\ \A p \in Procs :
          j[p].pc \in {"toggle", "toggle fill", "save", "fill"} => j[p].draft \in Conf

-----------------------------------------------------------------------------
(* What the helpers do to a job *)

\* The constants of the module have the types they stand for.
LEMMA Constants ==
  /\ Idle \in Job /\ Idle.pc = "idle" /\ Idle.text = NoText
  /\ Defaults \in Conf /\ NoConf \notin Conf
BY PoolBounds DEF Idle, Job, Steps, Defaults, Conf, NoConf

\* The bounds and the counters that stay within them.
LEMMA Counters ==
  ASSUME TypeOK
  PROVE  /\ MaxChanges \in Nat /\ budget \in 0 .. MaxChanges
         /\ MaxPasswords \in Nat /\ issued \in 0 .. MaxPasswords
<1>1. budget \in 0 .. MaxChanges /\ issued \in 0 .. MaxPasswords
  BY DEF TypeOK
<1>. QED  BY <1>1, PoolBounds

\* A pool with members has a text.
LEMMA PoolText ==
  ASSUME NEW M \in SUBSET Modems, M # {}, NEW w \in 1 .. MaxPasswords
  PROVE  [members |-> M, pw |-> w] \in Text /\ [members |-> M, pw |-> w] # NoText
BY DEF Text, NoText

\* A loaded configuration is one.
LEMMA ConfigLoaded ==
  ASSUME TypeOK, NEW p \in Procs
  PROVE  /\ Host(p) \in Timers \cup {"web"}
         /\ GetConfig(p) \in Conf
         /\ GetConfig(p).enable \in BOOLEAN
<1>1. Host(p) \in Timers \cup {"web"}
  BY DEF Host, Procs
<1>2. GetConfig(p) \in Conf
  BY <1>1 DEF GetConfig, TypeOK
<1>. QED  BY <1>1, <1>2 DEF Conf

\* A job goes to another step and keeps what it knows.
LEMMA GotoEffect ==
  ASSUME TypeOK, NEW p \in Procs, NEW c \in Steps, Goto(p, c)
  PROVE  /\ job' \in [Procs -> Job]
         /\ \A q \in Procs \ {p} : job'[q] = job[q]
         /\ job'[p].pc = c /\ job'[p].text = job[p].text
         /\ job'[p].changed = job[p].changed /\ job'[p].draft = job[p].draft
BY DEF Goto, TypeOK, Job

\* A call that has returned leaves its process idle.
LEMMA FinishEffect ==
  ASSUME TypeOK, NEW p \in Procs, Finish(p)
  PROVE  /\ job' \in [Procs -> Job]
         /\ \A q \in Procs \ {p} : job'[q] = job[q]
         /\ job'[p].pc = "idle"
         /\ cached' \in [Timers \cup {"web"} -> Conf \cup {NoConf}]
<1>1. job' = [job EXCEPT ![p] = Idle] /\ job \in [Procs -> Job]
  BY DEF Finish, TypeOK
<1>2. job' \in [Procs -> Job] /\ job'[p] = Idle /\ \A q \in Procs \ {p} : job'[q] = job[q]
  BY <1>1, Constants
<1>3. cached' \in [Timers \cup {"web"} -> Conf \cup {NoConf}]
  BY DEF Finish, Ended, TypeOK
<1>. QED  BY <1>2, <1>3, Constants

\* A new call of sync_pool has read the switch from configuration f.
LEMMA BeginEffect ==
  ASSUME TypeOK, NEW p \in Procs, NEW b \in BOOLEAN,
         job' = [job EXCEPT ![p] = [Idle EXCEPT !.pc = "text", !.enable = b]]
  PROVE  /\ job' \in [Procs -> Job]
         /\ \A q \in Procs \ {p} : job'[q] = job[q]
         /\ job'[p].pc = "text"
<1>. DEFINE i == Idle
<1>1. i \in Job
  BY Constants
<1>. HIDE DEF i
<1>. DEFINE r == [i EXCEPT !.pc = "text", !.enable = b]
<1>2. r \in Job /\ r.pc = "text"
  BY <1>1 DEF Job, Steps
<1>3. job' = [job EXCEPT ![p] = r] /\ job \in [Procs -> Job]
  BY DEF TypeOK, i
<1>. HIDE DEF r
<1>. QED  BY <1>2, <1>3

\* The administrator's choice is merged into what the file says.
LEMMA ToggleEffect ==
  ASSUME TypeOK, NEW p \in Procs, NEW on \in BOOLEAN, ToggleRead(p, on)
  PROVE  /\ job' \in [Procs -> Job]
         /\ \A q \in Procs \ {p} : job'[q] = job[q]
         /\ job'[p].pc = "toggle" /\ job'[p].draft \in Conf
         /\ job'[p].draft = [saved EXCEPT !.enable = on]
<1>. DEFINE i == Idle
            d == [saved EXCEPT !.enable = on]
<1>1. i \in Job
  BY Constants
<1>2. d \in Conf
  BY DEF TypeOK, Conf
<1>3. job' = [job EXCEPT ![p] = [i EXCEPT !.pc = "toggle", !.draft = d]]
      /\ job \in [Procs -> Job]
  BY DEF ToggleRead, TypeOK
<1>. HIDE DEF i, d
<1>. DEFINE r == [i EXCEPT !.pc = "toggle", !.draft = d]
<1>4. r \in Job /\ r.pc = "toggle" /\ r.draft = d
  BY <1>1, <1>2 DEF Job, Steps
<1>. HIDE DEF r
<1>5. job'[p] = r
  BY <1>3 DEF r
<1>. QED  BY <1>2, <1>3, <1>4, <1>5 DEF r, d

\* The text that is rendered is a pool with members; a generated password is
\* merged into what the file says.
LEMMA RenderEffect ==
  ASSUME TypeOK, NEW p \in Procs, RenderText(p)
  PROVE  /\ job' \in [Procs -> Job]
         /\ \A q \in Procs \ {p} : job'[q] = job[q]
         /\ issued' \in 0 .. MaxPasswords
         /\ \/ job'[p].pc = "stop"
            \/ job'[p].pc = "exists" /\ job'[p].text # NoText
            \/ /\ job'[p].pc = "save" /\ job'[p].text # NoText /\ job'[p].draft \in Conf
               /\ issued' = issued + 1
               /\ job'[p].draft = [saved EXCEPT !.pw = issued + 1]
         /\ issued' = issued \/ job'[p].pc = "save"
<1>. DEFINE pw == GetConfig(p).pw
<1>1. pw \in 0 .. MaxPasswords
  BY ConfigLoaded DEF Conf
<1>2. CASE Goto(p, "stop") /\ UNCHANGED issued
  BY <1>2, GotoEffect DEF TypeOK, Steps
<1>3. CASE /\ live # {} /\ pw # 0
           /\ job' = [job EXCEPT ![p].pc = "exists",
                                 ![p].text = [members |-> live, pw |-> pw]]
           /\ UNCHANGED issued
  <2>. DEFINE t == [members |-> live, pw |-> pw]
  <2>0. pw \in 1 .. MaxPasswords
    <3>1. pw \in 0 .. MaxPasswords /\ pw # 0
      BY <1>1, <1>3
    <3>. HIDE DEF pw
    <3>. QED  BY <3>1, PoolBounds
  <2>. HIDE DEF pw
  <2>1. t \in Text /\ t # NoText
    <3>1. live \in SUBSET Modems /\ live # {}
      BY <1>3 DEF TypeOK
    <3>. QED  BY <2>0, <3>1, PoolText
  <2>. HIDE DEF t
  <2>2. job' = [job EXCEPT ![p].pc = "exists", ![p].text = t] /\ UNCHANGED issued
    BY <1>3 DEF t
  <2>3. job \in [Procs -> Job] /\ issued \in 0 .. MaxPasswords
    BY DEF TypeOK
  <2>4. /\ job' \in [Procs -> Job] /\ \A q \in Procs \ {p} : job'[q] = job[q]
        /\ job'[p].pc = "exists" /\ job'[p].text = t
    BY <2>1, <2>2, <2>3 DEF Job, Steps
  <2>. QED  BY <2>1, <2>2, <2>3, <2>4
<1>4. CASE /\ live # {} /\ issued < MaxPasswords /\ issued' = issued + 1
           /\ job' = [job EXCEPT ![p].pc = "save",
                                 ![p].text = [members |-> live, pw |-> issued + 1],
                                 ![p].draft = [saved EXCEPT !.pw = issued + 1]]
  <2>. DEFINE t == [members |-> live, pw |-> issued + 1]
              d == [saved EXCEPT !.pw = issued + 1]
  <2>1. issued + 1 \in 1 .. MaxPasswords /\ issued' \in 0 .. MaxPasswords
    <3>1. issued < MaxPasswords /\ issued' = issued + 1
      BY <1>4
    <3>. QED  BY <3>1, Counters
  <2>2. t \in Text /\ t # NoText
    <3>1. live \in SUBSET Modems /\ live # {}
      BY <1>4 DEF TypeOK
    <3>. QED  BY <2>1, <3>1, PoolText
  <2>3. d \in Conf
    <3>. DEFINE w == issued + 1
    <3>1. w \in 0 .. MaxPasswords
      BY <2>1, Counters
    <3>. HIDE DEF w
    <3>2. [saved EXCEPT !.pw = w] \in Conf
      BY <3>1 DEF TypeOK, Conf
    <3>. QED  BY <3>2 DEF w
  <2>. HIDE DEF t, d
  <2>4. job' = [job EXCEPT ![p].pc = "save", ![p].text = t, ![p].draft = d]
    BY <1>4 DEF t, d
  <2>5. job \in [Procs -> Job]
    BY DEF TypeOK
  <2>6. /\ job' \in [Procs -> Job]
        /\ \A q \in Procs \ {p} : job'[q] = job[q]
        /\ job'[p].pc = "save" /\ job'[p].text = t /\ job'[p].draft = d
    BY <2>2, <2>3, <2>4, <2>5 DEF Job, Steps
  <2>7. issued' = issued + 1
    BY <1>4
  <2>. QED  BY <2>1, <2>2, <2>3, <2>6, <2>7 DEF d
<1>. QED  BY <1>2, <1>3, <1>4 DEF RenderText

\* The two tests that decide whether the file is written.
LEMMA CheckEffect ==
  ASSUME TypeOK, NEW p \in Procs, NEW c \in Steps, NEW b \in BOOLEAN,
         job' = [job EXCEPT ![p].pc = c, ![p].changed = b]
  PROVE  /\ job' \in [Procs -> Job]
         /\ \A q \in Procs \ {p} : job'[q] = job[q]
         /\ job'[p].pc = c /\ job'[p].changed = b /\ job'[p].text = job[p].text
BY DEF TypeOK, Job

-----------------------------------------------------------------------------
(* Types *)

\* One process moves, and the rest of the type invariant is kept.
LEMMA OneMoves ==
  ASSUME TypeOK, NEW p \in Procs, job' \in [Procs -> Job],
         \A q \in Procs \ {p} : job'[q] = job[q],
         job'[p].pc \in {"toggle", "toggle fill", "save", "fill"} => job'[p].draft \in Conf
  PROVE  JobsOK(job')
BY DEF TypeOK, JobsOK

\* Every step keeps the types, for any number of concurrent calls.
LEMMA TypeStep == TypeOK /\ [Next]_vars => TypeOK'
<1>. SUFFICES ASSUME TypeOK, [Next]_vars PROVE TypeOK'
  OBVIOUS
<1>. DEFINE Rest == /\ live' \in SUBSET Modems
                    /\ saved' \in Conf
                    /\ cached' \in [Timers \cup {"web"} -> Conf \cup {NoConf}]
                    /\ file' \in Text \cup {NoText}
                    /\ running' \in Text \cup {NoText}
                    /\ up' \in BOOLEAN /\ boot' \in BOOLEAN
                    /\ issued' \in 0 .. MaxPasswords
                    /\ chosen' \in BOOLEAN /\ idly' \in BOOLEAN
                    /\ torn' \subseteq {"config", "unit"}
                    /\ budget' \in 0 .. MaxChanges
                    /\ running' # NoText => up'
            Good == JobsOK(job') /\ Rest
<1>. SUFFICES Good
  BY DEF TypeOK, JobsOK
<1>0. UNCHANGED job => JobsOK(job')
  BY DEF TypeOK, JobsOK
<1>b. budget > 0 /\ budget' = budget - 1 => budget' \in 0 .. MaxChanges
  BY Counters
<1>1. ASSUME NEW p \in Procs, NEW on \in BOOLEAN, ToggleRead(p, on) PROVE Good
  <2>1. JobsOK(job')
    BY <1>1, ToggleEffect, OneMoves
  <2>2. Rest
    BY <1>1, <1>b DEF ToggleRead, TypeOK, Units
  <2>. QED  BY <2>1, <2>2
<1>2. ASSUME NEW p \in Procs, ToggleTruncate(p) PROVE Good
  <2>1. /\ job' \in [Procs -> Job] /\ \A q \in Procs \ {p} : job'[q] = job[q]
        /\ job'[p].pc = "toggle fill" /\ job'[p].draft = job[p].draft
    BY <1>2, GotoEffect DEF ToggleTruncate, Steps
  <2>2. JobsOK(job')
    BY <1>2, <2>1, OneMoves DEF ToggleTruncate, At, TypeOK
  <2>3. Rest
    BY <1>2, Constants DEF ToggleTruncate, TypeOK, Units, History
  <2>. QED  BY <2>2, <2>3
<1>3. ASSUME NEW p \in Procs, ToggleFill(p) PROVE Good
  <2>1. job[p].draft \in Conf /\ job[p].draft.enable \in BOOLEAN
    BY <1>3 DEF ToggleFill, At, TypeOK, Conf
  <2>2. JobsOK(job')
    BY <1>3, <2>1, BeginEffect, OneMoves DEF ToggleFill
  <2>3. Rest
    BY <1>3, <2>1 DEF ToggleFill, TypeOK, Units, History
  <2>. QED  BY <2>2, <2>3
<1>4. ASSUME NEW p \in Procs, Begin(p) PROVE Good
  <2>1. JobsOK(job')
    BY <1>4, ConfigLoaded, BeginEffect, OneMoves DEF Begin
  <2>2. Rest
    BY <1>4, ConfigLoaded DEF Begin, TypeOK, Units, History
  <2>. QED  BY <2>1, <2>2
<1>5. ASSUME NEW p \in Procs, RenderText(p) PROVE Good
  <2>1. JobsOK(job') /\ issued' \in 0 .. MaxPasswords
    BY <1>5, RenderEffect, OneMoves
  <2>2. Rest
    BY <1>5, <2>1 DEF RenderText, TypeOK, Units
  <2>. QED  BY <2>1, <2>2
<1>6. ASSUME NEW p \in Procs, SaveTruncate(p) PROVE Good
  <2>1. /\ job' \in [Procs -> Job] /\ \A q \in Procs \ {p} : job'[q] = job[q]
        /\ job'[p].pc = "fill" /\ job'[p].draft = job[p].draft
    BY <1>6, GotoEffect DEF SaveTruncate, Steps
  <2>2. JobsOK(job')
    BY <1>6, <2>1, OneMoves DEF SaveTruncate, At, TypeOK
  <2>3. Rest
    BY <1>6, Constants DEF SaveTruncate, TypeOK, Units, History
  <2>. QED  BY <2>2, <2>3
<1>7. ASSUME NEW p \in Procs, SaveFill(p) PROVE Good
  <2>1. job[p].draft \in Conf
    BY <1>7 DEF SaveFill, At, TypeOK
  <2>2. JobsOK(job')
    BY <1>7, GotoEffect, OneMoves DEF SaveFill, Steps
  <2>3. Rest
    BY <1>7, <2>1 DEF SaveFill, TypeOK, Units, History
  <2>. QED  BY <2>2, <2>3
<1>8. ASSUME NEW p \in Procs, CheckExists(p) PROVE Good
  <2>1. JobsOK(job')
    BY <1>8, CheckEffect, OneMoves DEF CheckExists, Steps
  <2>2. Rest
    BY <1>8 DEF CheckExists, TypeOK, Units, History
  <2>. QED  BY <2>1, <2>2
<1>9. ASSUME NEW p \in Procs, Compare(p) PROVE Good
  <2>1. JobsOK(job') /\ cached' \in [Timers \cup {"web"} -> Conf \cup {NoConf}]
    <3>1. CASE Finish(p)
      BY <3>1, FinishEffect, OneMoves
    <3>2. CASE /\ UNCHANGED cached
               /\ job' = [job EXCEPT
                     ![p].pc = IF file # job[p].text THEN "write" ELSE "enable",
                     ![p].changed = (file # job[p].text)]
      BY <3>2, CheckEffect, OneMoves DEF Steps, TypeOK
    <3>. QED  BY <1>9, <3>1, <3>2 DEF Compare
  <2>2. Rest
    BY <1>9, <2>1 DEF Compare, TypeOK, Units, History
  <2>. QED  BY <2>1, <2>2
<1>10. ASSUME NEW p \in Procs, WriteFile(p) PROVE Good
  <2>1. /\ job' \in [Procs -> Job] /\ \A q \in Procs \ {p} : job'[q] = job[q]
        /\ job'[p].pc = "enable" /\ job'[p].draft = job[p].draft
    BY <1>10, GotoEffect DEF WriteFile, Steps
  <2>2. JobsOK(job')
    BY <1>10, <2>1, OneMoves DEF WriteFile, At, TypeOK
  <2>3. Rest
    BY <1>10 DEF WriteFile, Job, TypeOK, Units, History
  <2>. QED  BY <2>2, <2>3
<1>11. ASSUME NEW p \in Procs, EnableUnit(p) PROVE Good
  <2>1. /\ job' \in [Procs -> Job] /\ \A q \in Procs \ {p} : job'[q] = job[q]
        /\ job'[p].pc = "start" /\ job'[p].draft = job[p].draft
    BY <1>11, GotoEffect DEF EnableUnit, Steps
  <2>2. JobsOK(job')
    BY <1>11, <2>1, OneMoves DEF EnableUnit, At, TypeOK
  <2>3. Rest
    BY <1>11 DEF EnableUnit, TypeOK, Units, History
  <2>. QED  BY <2>2, <2>3
<1>12. ASSUME NEW p \in Procs, StartUnit(p) PROVE Good
  <2>1. JobsOK(job') /\ cached' \in [Timers \cup {"web"} -> Conf \cup {NoConf}]
    BY <1>12, FinishEffect, OneMoves DEF StartUnit
  <2>2. Rest
    BY <1>12, <2>1 DEF StartUnit, TypeOK, Units, History
  <2>. QED  BY <2>1, <2>2
<1>13. ASSUME NEW p \in Procs, StopUnit(p) PROVE Good
  <2>1. /\ job' \in [Procs -> Job] /\ \A q \in Procs \ {p} : job'[q] = job[q]
        /\ job'[p].pc = "disable" /\ job'[p].draft = job[p].draft
    BY <1>13, GotoEffect DEF StopUnit, Steps
  <2>2. JobsOK(job')
    BY <1>13, <2>1, OneMoves DEF StopUnit, At, TypeOK
  <2>3. Rest
    BY <1>13 DEF StopUnit, TypeOK, Units, History
  <2>. QED  BY <2>2, <2>3
<1>14. ASSUME NEW p \in Procs, DisableUnit(p) PROVE Good
  <2>1. /\ job' \in [Procs -> Job] /\ \A q \in Procs \ {p} : job'[q] = job[q]
        /\ job'[p].pc = "unlink" /\ job'[p].draft = job[p].draft
    BY <1>14, GotoEffect DEF DisableUnit, Steps
  <2>2. JobsOK(job')
    BY <1>14, <2>1, OneMoves DEF DisableUnit, At, TypeOK
  <2>3. Rest
    BY <1>14 DEF DisableUnit, TypeOK, Units, History
  <2>. QED  BY <2>2, <2>3
<1>15. ASSUME NEW p \in Procs, UnlinkFile(p) PROVE Good
  <2>1. JobsOK(job') /\ cached' \in [Timers \cup {"web"} -> Conf \cup {NoConf}]
    BY <1>15, FinishEffect, OneMoves DEF UnlinkFile
  <2>2. Rest
    BY <1>15, <2>1 DEF UnlinkFile, TypeOK, Units, History
  <2>. QED  BY <2>1, <2>2
<1>16. ASSUME NEW members \in SUBSET Modems, ModemsChange(members) PROVE Good
  BY <1>0, <1>b, <1>16 DEF ModemsChange, TypeOK, Units, History
<1>17. ASSUME UnitDies PROVE Good
  BY <1>0, <1>b, <1>17 DEF UnitDies, TypeOK, Units, History
<1>18. ASSUME Respawn PROVE Good
  BY <1>0, <1>18 DEF Respawn, TypeOK, Units, History
<1>19. ASSUME NEW h \in Timers \cup {"web"}, Kill(h) PROVE Good
  <2>1. JobsOK(job')
    <3>1. /\ job' \in [Procs -> Job]
          /\ \A p \in Procs : job'[p] = Idle \/ job'[p] = job[p]
      BY <1>19, Constants DEF Kill, TypeOK
    <3>. QED  BY <3>1, Constants DEF JobsOK, TypeOK
  <2>2. Rest
    BY <1>19, <1>b DEF Kill, HalfDone, TypeOK, Units, History
  <2>. QED  BY <2>1, <2>2
<1>20. ASSUME Reboot PROVE Good
  <2>1. JobsOK(job')
    <3>1. /\ job' \in [Procs -> Job]
          /\ \A p \in Procs : job'[p] = Idle \/ job'[p] = job[p]
      BY <1>20, Constants DEF Reboot, TypeOK
    <3>. QED  BY <3>1, Constants DEF JobsOK, TypeOK
  <2>2. Rest
    BY <1>20, <1>b DEF Reboot, HalfDone, TypeOK, Units, History
  <2>. QED  BY <2>1, <2>2
<1>50. CASE UNCHANGED vars
  BY <1>0, <1>50 DEF vars, TypeOK
<1>. QED
  BY <1>50,
     <1>1, <1>2, <1>3, <1>4, <1>5, <1>6, <1>7, <1>8, <1>9, <1>10,
     <1>11, <1>12, <1>13, <1>14, <1>15, <1>16, <1>17, <1>18, <1>19,
     <1>20
  DEF Next, World, Continue

\* Initially nothing is written and nothing runs.
LEMMA InitTypes == Init => TypeOK
<1>. SUFFICES ASSUME Init PROVE TypeOK
  OBVIOUS
<1>1. saved \in Conf
  <2>1. 0 \in 0 .. MaxPasswords /\ 1 \in 0 .. MaxPasswords
    BY PoolBounds
  <2>. QED  BY <2>1 DEF Init, Conf
<1>2. job \in [Procs -> Job] /\ \A p \in Procs : job[p].pc = "idle"
  BY Constants DEF Init
<1>3. issued \in 0 .. MaxPasswords /\ budget \in 0 .. MaxChanges
  <2>1. issued = 0 /\ budget = MaxChanges
    BY DEF Init
  <2>. QED  BY <2>1, PoolBounds
<1>. QED  BY <1>1, <1>2, <1>3 DEF Init, TypeOK

\* The types hold for any number of threads and one-shot processes, whatever
\* is killed or rebooted; in particular a torn config file is never written
\* back as anything but a configuration.
THEOREM PoolTypes == Spec => []TypeOK
<1>1. Init => TypeOK
  BY InitTypes
<1>2. TypeOK /\ [Next]_vars => TypeOK'
  BY TypeStep
<1>. QED  BY <1>1, <1>2, PTL DEF Spec

-----------------------------------------------------------------------------
(* The pool that runs is the file on disk *)

Alone == \A p, q \in Procs : p = q \/ job[p].pc = "idle" \/ job[q].pc = "idle"

\* The one call under way moves: the others stay idle and know nothing.
LEMMA AloneMoves ==
  ASSUME TypeOK, PoolInv, NEW p \in Procs, job' \in [Procs -> Job],
         \A q \in Procs \ {p} : job'[q] = job[q],
         \/ job[p].pc # "idle"
         \/ Quiet
  PROVE  /\ Alone'
         /\ \A q \in Procs \ {p} : job[q].pc = "idle" /\ job'[q].pc = "idle"
         /\ \A q \in Procs \ {p} : JobInv(q)'
BY DEF Alone, PoolInv, JobInv, Quiet

\* Every step keeps the invariant, when calls do not overlap: a call that is
\* killed between its writing of the file and its restart is on record.
LEMMA PoolStep ==
  ASSUME "overlap" \notin Hazards,
         TypeOK, TypeOK', PoolInv, [Next]_vars
  PROVE  PoolInv'
<1>. DEFINE Pending(p) == job[p].pc \in {"enable", "start"} /\ job[p].changed
            UnitOK == /\ up' => boot'
                      /\ running' # NoText =>
                            \/ running' = file'
                            \/ "unit" \in torn'
                            \/ \E p \in Procs : Pending(p)'
            Good == UnitOK /\ Alone' /\ \A p \in Procs : JobInv(p)'
<1>. SUFFICES Good
  BY DEF PoolInv, Alone
<1>0. UNCHANGED job => Alone'
  BY DEF Alone, PoolInv
<1>p. \A p, q \in Procs : job[p].pc # "idle" /\ Pending(q) => p = q
  BY DEF PoolInv
<1>1. ASSUME NEW p \in Procs, NEW on \in BOOLEAN, ToggleRead(p, on) PROVE Good
  <2>1. /\ job' \in [Procs -> Job] /\ \A q \in Procs \ {p} : job'[q] = job[q]
        /\ job'[p].pc = "toggle"
    BY <1>1, ToggleEffect DEF ToggleRead, Steps
  <2>2. Quiet
    BY <1>1 DEF ToggleRead, MayBegin
  <2>3. Alone' /\ (\A q \in Procs \ {p} : JobInv(q)') /\ \A q \in Procs \ {p} : ~ Pending(q)
    BY <2>1, <2>2, AloneMoves
  <2>4. JobInv(p)'
    BY <1>1, <2>1 DEF ToggleRead, At, Units, PoolInv, JobInv
  <2>5. UnitOK
    BY <1>1, <2>1, <2>2, <2>3 DEF ToggleRead, At, MayBegin, Quiet, Units, History, PoolInv, JobInv, TypeOK
  <2>. QED  BY <2>3, <2>4, <2>5
<1>2. ASSUME NEW p \in Procs, ToggleTruncate(p) PROVE Good
  <2>1. /\ job' \in [Procs -> Job] /\ \A q \in Procs \ {p} : job'[q] = job[q]
        /\ job'[p].pc = "toggle fill"
    BY <1>2, GotoEffect DEF ToggleTruncate, Steps
  <2>2. job[p].pc # "idle"
    BY <1>2 DEF ToggleTruncate, At
  <2>3. Alone' /\ (\A q \in Procs \ {p} : JobInv(q)') /\ \A q \in Procs \ {p} : ~ Pending(q)
    BY <2>1, <2>2, AloneMoves
  <2>4. JobInv(p)'
    BY <1>2, <2>1 DEF ToggleTruncate, At, Units, PoolInv, JobInv
  <2>5. UnitOK
    BY <1>2, <2>1, <2>2, <2>3 DEF ToggleTruncate, At, MayBegin, Quiet, Units, History, PoolInv, JobInv, TypeOK
  <2>. QED  BY <2>3, <2>4, <2>5
<1>3. ASSUME NEW p \in Procs, ToggleFill(p) PROVE Good
  <2>0. job[p].draft.enable \in BOOLEAN
    BY <1>3 DEF ToggleFill, At, TypeOK, Conf
  <2>1. /\ job' \in [Procs -> Job] /\ \A q \in Procs \ {p} : job'[q] = job[q]
        /\ job'[p].pc = "text"
    BY <1>3, <2>0, BeginEffect DEF ToggleFill
  <2>2. job[p].pc = "toggle fill"
    BY <1>3 DEF ToggleFill, At
  <2>3. Alone' /\ \A q \in Procs \ {p} : JobInv(q)'
    BY <2>1, <2>2, AloneMoves
  <2>4. JobInv(p)'
    BY <2>1 DEF JobInv
  <2>5. UnitOK
    BY <1>3, <2>1, <2>2, <1>p DEF ToggleFill, Units, History, PoolInv
  <2>. QED  BY <2>3, <2>4, <2>5
<1>4. ASSUME NEW p \in Procs, Begin(p) PROVE Good
  <2>1. /\ job' \in [Procs -> Job] /\ \A q \in Procs \ {p} : job'[q] = job[q]
        /\ job'[p].pc = "text"
    BY <1>4, ConfigLoaded, BeginEffect DEF Begin, Steps
  <2>2. Quiet
    BY <1>4 DEF Begin, MayBegin
  <2>3. Alone' /\ (\A q \in Procs \ {p} : JobInv(q)') /\ \A q \in Procs \ {p} : ~ Pending(q)
    BY <2>1, <2>2, AloneMoves
  <2>4. JobInv(p)'
    BY <1>4, <2>1 DEF Begin, At, Units, PoolInv, JobInv
  <2>5. UnitOK
    BY <1>4, <2>1, <2>2, <2>3 DEF Begin, At, MayBegin, Quiet, Units, History, PoolInv, JobInv, TypeOK
  <2>. QED  BY <2>3, <2>4, <2>5
<1>5. ASSUME NEW p \in Procs, RenderText(p) PROVE Good
  <2>1. /\ job' \in [Procs -> Job] /\ \A q \in Procs \ {p} : job'[q] = job[q]
        /\ \/ job'[p].pc = "stop"
           \/ job'[p].pc \in {"exists", "save"} /\ job'[p].text # NoText
    BY <1>5, RenderEffect DEF RenderText, Steps
  <2>2. job[p].pc # "idle"
    BY <1>5 DEF RenderText, At
  <2>3. Alone' /\ (\A q \in Procs \ {p} : JobInv(q)') /\ \A q \in Procs \ {p} : ~ Pending(q)
    BY <2>1, <2>2, AloneMoves
  <2>4. JobInv(p)'
    BY <1>5, <2>1 DEF RenderText, At, Units, PoolInv, JobInv
  <2>5. UnitOK
    BY <1>5, <2>1, <2>2, <2>3 DEF RenderText, At, MayBegin, Quiet, Units, History, PoolInv, JobInv, TypeOK
  <2>. QED  BY <2>3, <2>4, <2>5
<1>6. ASSUME NEW p \in Procs, SaveTruncate(p) PROVE Good
  <2>1. /\ job' \in [Procs -> Job] /\ \A q \in Procs \ {p} : job'[q] = job[q]
        /\ job'[p].pc = "fill" /\ job'[p].text = job[p].text /\ job'[p].changed = job[p].changed
    BY <1>6, GotoEffect DEF SaveTruncate, Steps
  <2>2. job[p].pc # "idle"
    BY <1>6 DEF SaveTruncate, At
  <2>3. Alone' /\ (\A q \in Procs \ {p} : JobInv(q)') /\ \A q \in Procs \ {p} : ~ Pending(q)
    BY <2>1, <2>2, AloneMoves
  <2>4. JobInv(p)'
    BY <1>6, <2>1 DEF SaveTruncate, At, Units, PoolInv, JobInv
  <2>5. UnitOK
    BY <1>6, <2>1, <2>2, <2>3 DEF SaveTruncate, At, MayBegin, Quiet, Units, History, PoolInv, JobInv, TypeOK
  <2>. QED  BY <2>3, <2>4, <2>5
<1>7. ASSUME NEW p \in Procs, SaveFill(p) PROVE Good
  <2>1. /\ job' \in [Procs -> Job] /\ \A q \in Procs \ {p} : job'[q] = job[q]
        /\ job'[p].pc = "exists" /\ job'[p].text = job[p].text /\ job'[p].changed = job[p].changed
    BY <1>7, GotoEffect DEF SaveFill, Steps
  <2>2. job[p].pc # "idle"
    BY <1>7 DEF SaveFill, At
  <2>3. Alone' /\ (\A q \in Procs \ {p} : JobInv(q)') /\ \A q \in Procs \ {p} : ~ Pending(q)
    BY <2>1, <2>2, AloneMoves
  <2>4. JobInv(p)'
    BY <1>7, <2>1 DEF SaveFill, At, Units, PoolInv, JobInv
  <2>5. UnitOK
    BY <1>7, <2>1, <2>2, <2>3 DEF SaveFill, At, MayBegin, Quiet, Units, History, PoolInv, JobInv, TypeOK
  <2>. QED  BY <2>3, <2>4, <2>5
<1>8. ASSUME NEW p \in Procs, CheckExists(p) PROVE Good
  <2>1. /\ job' \in [Procs -> Job] /\ \A q \in Procs \ {p} : job'[q] = job[q]
        /\ \/ file = NoText /\ job'[p].pc = "write" /\ job'[p].changed = TRUE
           \/ file # NoText /\ job'[p].pc = "compare"
        /\ job'[p].text = job[p].text
    BY <1>8, CheckEffect DEF CheckExists, Steps
  <2>2. job[p].pc # "idle"
    BY <1>8 DEF CheckExists, At
  <2>3. Alone' /\ (\A q \in Procs \ {p} : JobInv(q)') /\ \A q \in Procs \ {p} : ~ Pending(q)
    BY <2>1, <2>2, AloneMoves
  <2>4. JobInv(p)'
    BY <1>8, <2>1 DEF CheckExists, At, Units, PoolInv, JobInv
  <2>5. UnitOK
    BY <1>8, <2>1, <2>2, <2>3 DEF CheckExists, At, MayBegin, Quiet, Units, History, PoolInv, JobInv, TypeOK
  <2>. QED  BY <2>3, <2>4, <2>5
<1>9. ASSUME NEW p \in Procs, Compare(p) PROVE Good
  <2>1. /\ job' \in [Procs -> Job] /\ \A q \in Procs \ {p} : job'[q] = job[q]
        /\ \/ job'[p].pc = "idle"
           \/ /\ file # NoText /\ job'[p].text = job[p].text
              /\ job'[p].pc = IF file # job[p].text THEN "write" ELSE "enable"
              /\ job'[p].changed = (file # job[p].text)
    BY <1>9, CheckEffect, FinishEffect DEF Compare, Steps
  <2>2. job[p].pc # "idle"
    BY <1>9 DEF Compare, At
  <2>3. Alone' /\ (\A q \in Procs \ {p} : JobInv(q)') /\ \A q \in Procs \ {p} : ~ Pending(q)
    BY <2>1, <2>2, AloneMoves
  <2>4. JobInv(p)'
    BY <1>9, <2>1 DEF Compare, At, Units, PoolInv, JobInv
  <2>5. UnitOK
    BY <1>9, <2>1, <2>2, <2>3 DEF Compare, At, MayBegin, Quiet, Units, History, PoolInv, JobInv, TypeOK
  <2>. QED  BY <2>3, <2>4, <2>5
<1>10. ASSUME NEW p \in Procs, WriteFile(p) PROVE Good
  <2>1. /\ job' \in [Procs -> Job] /\ \A q \in Procs \ {p} : job'[q] = job[q]
        /\ job'[p].pc = "enable" /\ job'[p].text = job[p].text /\ job'[p].changed = job[p].changed
    BY <1>10, GotoEffect DEF WriteFile, Steps
  <2>2. job[p].pc # "idle"
    BY <1>10 DEF WriteFile, At
  <2>3. Alone' /\ (\A q \in Procs \ {p} : JobInv(q)') /\ \A q \in Procs \ {p} : ~ Pending(q)
    BY <2>1, <2>2, AloneMoves
  <2>4. JobInv(p)'
    BY <1>10, <2>1 DEF WriteFile, At, Units, PoolInv, JobInv
  <2>5. UnitOK
    BY <1>10, <2>1, <2>2, <2>3 DEF WriteFile, At, MayBegin, Quiet, Units, History, PoolInv, JobInv, TypeOK
  <2>. QED  BY <2>3, <2>4, <2>5
<1>11. ASSUME NEW p \in Procs, EnableUnit(p) PROVE Good
  <2>1. /\ job' \in [Procs -> Job] /\ \A q \in Procs \ {p} : job'[q] = job[q]
        /\ job'[p].pc = "start" /\ job'[p].text = job[p].text /\ job'[p].changed = job[p].changed
    BY <1>11, GotoEffect DEF EnableUnit, Steps
  <2>2. job[p].pc # "idle"
    BY <1>11 DEF EnableUnit, At
  <2>3. Alone' /\ (\A q \in Procs \ {p} : JobInv(q)') /\ \A q \in Procs \ {p} : ~ Pending(q)
    BY <2>1, <2>2, AloneMoves
  <2>4. JobInv(p)'
    BY <1>11, <2>1 DEF EnableUnit, At, Units, PoolInv, JobInv
  <2>5. UnitOK
    BY <1>11, <2>1, <2>2, <2>3 DEF EnableUnit, At, MayBegin, Quiet, Units, History, PoolInv, JobInv, TypeOK
  <2>. QED  BY <2>3, <2>4, <2>5
<1>12. ASSUME NEW p \in Procs, StartUnit(p) PROVE Good
  <2>1. /\ job' \in [Procs -> Job] /\ \A q \in Procs \ {p} : job'[q] = job[q]
        /\ job'[p].pc = "idle"
    BY <1>12, FinishEffect DEF StartUnit, Steps
  <2>2. job[p].pc # "idle"
    BY <1>12 DEF StartUnit, At
  <2>3. Alone' /\ (\A q \in Procs \ {p} : JobInv(q)') /\ \A q \in Procs \ {p} : ~ Pending(q)
    BY <2>1, <2>2, AloneMoves
  <2>4. JobInv(p)'
    BY <1>12, <2>1 DEF StartUnit, At, Units, PoolInv, JobInv
  <2>5. UnitOK
    BY <1>12, <2>1, <2>2, <2>3 DEF StartUnit, At, MayBegin, Quiet, Units, History, PoolInv, JobInv, TypeOK
  <2>. QED  BY <2>3, <2>4, <2>5
<1>13. ASSUME NEW p \in Procs, StopUnit(p) PROVE Good
  <2>1. /\ job' \in [Procs -> Job] /\ \A q \in Procs \ {p} : job'[q] = job[q]
        /\ job'[p].pc = "disable"
    BY <1>13, GotoEffect DEF StopUnit, Steps
  <2>2. job[p].pc # "idle"
    BY <1>13 DEF StopUnit, At
  <2>3. Alone' /\ (\A q \in Procs \ {p} : JobInv(q)') /\ \A q \in Procs \ {p} : ~ Pending(q)
    BY <2>1, <2>2, AloneMoves
  <2>4. JobInv(p)'
    BY <1>13, <2>1 DEF StopUnit, At, Units, PoolInv, JobInv
  <2>5. UnitOK
    BY <1>13, <2>1, <2>2, <2>3 DEF StopUnit, At, MayBegin, Quiet, Units, History, PoolInv, JobInv, TypeOK
  <2>. QED  BY <2>3, <2>4, <2>5
<1>14. ASSUME NEW p \in Procs, DisableUnit(p) PROVE Good
  <2>1. /\ job' \in [Procs -> Job] /\ \A q \in Procs \ {p} : job'[q] = job[q]
        /\ job'[p].pc = "unlink"
    BY <1>14, GotoEffect DEF DisableUnit, Steps
  <2>2. job[p].pc # "idle"
    BY <1>14 DEF DisableUnit, At
  <2>3. Alone' /\ (\A q \in Procs \ {p} : JobInv(q)') /\ \A q \in Procs \ {p} : ~ Pending(q)
    BY <2>1, <2>2, AloneMoves
  <2>4. JobInv(p)'
    BY <1>14, <2>1 DEF DisableUnit, At, Units, PoolInv, JobInv
  <2>5. UnitOK
    BY <1>14, <2>1, <2>2, <2>3 DEF DisableUnit, At, MayBegin, Quiet, Units, History, PoolInv, JobInv, TypeOK
  <2>. QED  BY <2>3, <2>4, <2>5
<1>15. ASSUME NEW p \in Procs, UnlinkFile(p) PROVE Good
  <2>1. /\ job' \in [Procs -> Job] /\ \A q \in Procs \ {p} : job'[q] = job[q]
        /\ job'[p].pc = "idle"
    BY <1>15, FinishEffect DEF UnlinkFile, Steps
  <2>2. job[p].pc # "idle"
    BY <1>15 DEF UnlinkFile, At
  <2>3. Alone' /\ (\A q \in Procs \ {p} : JobInv(q)') /\ \A q \in Procs \ {p} : ~ Pending(q)
    BY <2>1, <2>2, AloneMoves
  <2>4. JobInv(p)'
    BY <1>15, <2>1 DEF UnlinkFile, At, Units, PoolInv, JobInv
  <2>5. UnitOK
    BY <1>15, <2>1, <2>2, <2>3 DEF UnlinkFile, At, MayBegin, Quiet, Units, History, PoolInv, JobInv, TypeOK
  <2>. QED  BY <2>3, <2>4, <2>5
<1>16. ASSUME NEW members \in SUBSET Modems, ModemsChange(members) PROVE Good
  BY <1>0, <1>16 DEF ModemsChange, Units, History, PoolInv, JobInv
<1>17. ASSUME UnitDies PROVE Good
  BY <1>0, <1>17 DEF UnitDies, Units, History, PoolInv, JobInv
<1>18. ASSUME Respawn PROVE Good
  BY <1>0, <1>18 DEF Respawn, Units, History, PoolInv, JobInv
<1>19. ASSUME Reboot PROVE Good
  <2>1. \A p \in Procs : job'[p].pc = "idle"
    BY <1>19, Constants DEF Reboot
  <2>2. up' => boot'
    BY <1>19 DEF Reboot
  <2>3. running' # NoText => running' = file'
    BY <1>19 DEF Reboot
  <2>. QED  BY <2>1, <2>2, <2>3 DEF Alone, JobInv
<1>20. ASSUME NEW h \in Timers \cup {"web"}, Kill(h) PROVE Good
  <2>1. \A p \in Procs : job'[p] = IF Host(p) = h THEN Idle ELSE job[p]
    BY <1>20 DEF Kill
  <2>2. Alone' /\ \A p \in Procs : JobInv(p)'
    BY <1>20, <2>1, Constants DEF Kill, Units, Alone, PoolInv, JobInv
  <2>3. up' => boot'
    BY <1>20 DEF Kill, Units, PoolInv
  <2>4. ASSUME NEW p \in Procs, Pending(p) PROVE "unit" \in torn' \/ Pending(p)'
    <3>1. CASE Host(p) = h
      <4>1. "unit" \in HalfDone(p)
        BY <2>4 DEF HalfDone
      <4>. QED  BY <1>20, <3>1, <4>1 DEF Kill
    <3>2. CASE Host(p) # h
      BY <2>1, <2>4, <3>2
    <3>. QED  BY <3>1, <3>2
  <2>5. UnitOK
    BY <1>20, <2>3, <2>4 DEF Kill, Units, PoolInv
  <2>. QED  BY <2>2, <2>5
<1>50. CASE UNCHANGED vars
  BY <1>0, <1>50 DEF vars, History, PoolInv, JobInv
<1>. QED
  BY <1>50,
     <1>1, <1>2, <1>3, <1>4, <1>5, <1>6, <1>7, <1>8, <1>9, <1>10,
     <1>11, <1>12, <1>13, <1>14, <1>15, <1>16, <1>17, <1>18, <1>19, <1>20
  DEF Next, World, Continue

\* With calls one at a time, the running pool has loaded the file on disk
\* whenever no call is under way, and the unit is enabled: the comparison that
\* sync_pool makes is the right one, across reboots and killed calls too, as
\* long as no call died between writing the file and restarting the unit.
THEOREM RunningIsFileThm ==
  "overlap" \notin Hazards => (Spec => []RunningIsFile)
<1>. SUFFICES ASSUME "overlap" \notin Hazards
              PROVE  Spec => []RunningIsFile
  OBVIOUS
<1>1. Init => TypeOK /\ PoolInv
  <2>1. Init => /\ running = NoText /\ ~ up
                /\ \A p \in Procs : job[p].pc = "idle"
    BY Constants DEF Init
  <2>. QED  BY <2>1, InitTypes DEF PoolInv, JobInv
<1>2. (TypeOK /\ PoolInv) /\ [Next]_vars => (TypeOK /\ PoolInv)'
  BY TypeStep, PoolStep
<1>3. TypeOK /\ PoolInv => RunningIsFile
  BY DEF TypeOK, PoolInv, RunningIsFile, Quiet
<1>. QED  BY <1>1, <1>2, <1>3, PTL DEF Spec

-----------------------------------------------------------------------------
(* The keys of the config file *)

Merging == {"toggle", "toggle fill", "save", "fill"}

\* Configuration c has the administrator's choice and the last password.
Kept(c, on, n) == c.enable = on /\ (n > 0 => c.pw = n)

\* Unless a call died on the way, both keys are in the file, or in what the call
\* under way is about to write there: it read the file before it emptied it.
KeysInv ==
    "config" \in torn \/
       /\ Kept(saved, chosen, issued) \/ \E p \in Procs : job[p].pc \in Merging
       /\ \A p \in Procs : job[p].pc \in Merging => Kept(job[p].draft, chosen, issued)

\* What the only call under way leaves behind.
LEMMA KeysMove ==
  ASSUME NEW p \in Procs, \A q \in Procs \ {p} : job'[q].pc = "idle",
         IF job'[p].pc \in Merging THEN Kept(job'[p].draft, chosen', issued')
                                   ELSE Kept(saved', chosen', issued')
  PROVE  KeysInv'
BY DEF KeysInv, Merging

\* What it finds.
LEMMA KeysFound ==
  ASSUME KeysInv, "config" \notin torn, NEW p \in Procs,
         \A q \in Procs \ {p} : job[q].pc = "idle"
  PROVE  IF job[p].pc \in Merging THEN Kept(job[p].draft, chosen, issued)
                                  ELSE Kept(saved, chosen, issued)
BY DEF KeysInv, Merging

\* A step of p that neither begins nor ends a change of the file.
LEMMA KeysAlike ==
  ASSUME KeysInv, TypeOK, PoolInv, NEW p \in Procs, "config" \notin torn,
         job' \in [Procs -> Job], \A q \in Procs \ {p} : job'[q] = job[q],
         job[p].pc # "idle" \/ Quiet,
         UNCHANGED <<chosen, issued>>,
         \/ job[p].pc \notin Merging /\ job'[p].pc \notin Merging /\ saved' = saved
         \/ /\ job[p].pc \in Merging /\ job'[p].pc \in Merging
            /\ job'[p].draft = job[p].draft
         \/ job[p].pc \in Merging /\ job'[p].pc \notin Merging /\ saved' = job[p].draft
  PROVE  KeysInv'
<1>1. \A q \in Procs \ {p} : job[q].pc = "idle" /\ job'[q].pc = "idle"
  BY AloneMoves
<1>. QED  BY <1>1, KeysFound, KeysMove

LEMMA KeysToggle ==
  ASSUME KeysInv, TypeOK, PoolInv, "overlap" \notin Hazards, "config" \notin torn,
         NEW p \in Procs, NEW on \in BOOLEAN, ToggleRead(p, on)
  PROVE  KeysInv'
<1>1. /\ job' \in [Procs -> Job] /\ \A q \in Procs \ {p} : job'[q] = job[q]
      /\ job'[p].pc = "toggle" /\ job'[p].draft = [saved EXCEPT !.enable = on]
  BY ToggleEffect
<1>2. Quiet /\ chosen' = on /\ issued' = issued
  BY DEF ToggleRead, MayBegin
<1>3. \A q \in Procs \ {p} : job[q].pc = "idle" /\ job'[q].pc = "idle"
  BY <1>1, <1>2, AloneMoves
<1>4. Kept(saved, chosen, issued)
  BY <1>2, <1>3, KeysFound DEF Quiet, Merging
<1>5. Kept(job'[p].draft, chosen', issued')
  BY <1>1, <1>2, <1>4 DEF Kept, TypeOK, Conf
<1>. QED  BY <1>1, <1>3, <1>5, KeysMove DEF Merging

LEMMA KeysRender ==
  ASSUME KeysInv, TypeOK, PoolInv, "config" \notin torn,
         NEW p \in Procs, RenderText(p)
  PROVE  KeysInv'
<1>1. /\ job' \in [Procs -> Job] /\ \A q \in Procs \ {p} : job'[q] = job[q]
      /\ \/ job'[p].pc \in {"stop", "exists"} /\ issued' = issued
         \/ /\ job'[p].pc = "save" /\ issued' = issued + 1
            /\ job'[p].draft = [saved EXCEPT !.pw = issued + 1]
  BY RenderEffect
<1>2. job[p].pc = "text" /\ UNCHANGED <<saved, chosen>>
  BY DEF RenderText, At
<1>3. \A q \in Procs \ {p} : job[q].pc = "idle" /\ job'[q].pc = "idle"
  BY <1>1, <1>2, AloneMoves
<1>4. Kept(saved, chosen, issued)
  BY <1>2, <1>3, KeysFound DEF Merging
<1>5. CASE job'[p].pc \in {"stop", "exists"} /\ issued' = issued
  BY <1>2, <1>3, <1>4, <1>5, KeysMove DEF Merging
<1>6. CASE /\ job'[p].pc = "save" /\ issued' = issued + 1
           /\ job'[p].draft = [saved EXCEPT !.pw = issued + 1]
  <2>1. Kept(job'[p].draft, chosen', issued')
    BY <1>2, <1>4, <1>6 DEF Kept, TypeOK, Conf
  <2>. QED  BY <1>3, <1>6, <2>1, KeysMove DEF Merging
<1>. QED  BY <1>1, <1>5, <1>6

\* A call that dies while it changes the config file is on record.
LEMMA KeysDie ==
  ASSUME KeysInv, UNCHANGED <<saved, chosen, issued>>, torn \subseteq torn',
         \A p \in Procs : job'[p] = job[p] \/ job'[p] = Idle,
         \A p \in Procs : job[p].pc \in Merging =>
             job'[p] = job[p] \/ "config" \in torn'
  PROVE  KeysInv'
<1>1. Idle.pc = "idle"
  BY Constants
<1>. QED  BY <1>1 DEF KeysInv, Merging

LEMMA KeysStep ==
  ASSUME "overlap" \notin Hazards, TypeOK, PoolInv, KeysInv, [Next]_vars
  PROVE  KeysInv'
<1>0. CASE "config" \in torn
  BY <1>0 DEF KeysInv, Next, World, Continue, vars, ToggleRead, Begin, ToggleTruncate,
     ToggleFill, RenderText, SaveTruncate, SaveFill, CheckExists, Compare, WriteFile,
     EnableUnit, StartUnit, StopUnit, DisableUnit, UnlinkFile, ModemsChange, UnitDies,
     Respawn, Kill, Reboot, History
<1>. SUFFICES ASSUME "config" \notin torn PROVE KeysInv'
  BY <1>0
<1>1. ASSUME NEW p \in Procs, NEW on \in BOOLEAN, ToggleRead(p, on) PROVE KeysInv'
  BY <1>1, KeysToggle
<1>2. ASSUME NEW p \in Procs, ToggleTruncate(p) PROVE KeysInv'
  <2>1. /\ job' \in [Procs -> Job] /\ \A q \in Procs \ {p} : job'[q] = job[q]
        /\ job'[p].pc = "toggle fill" /\ job'[p].draft = job[p].draft
    BY <1>2, GotoEffect DEF ToggleTruncate, Steps
  <2>. QED  BY <1>2, <2>1, KeysAlike DEF ToggleTruncate, At, History, Merging
<1>3. ASSUME NEW p \in Procs, ToggleFill(p) PROVE KeysInv'
  <2>1. job[p].draft.enable \in BOOLEAN
    BY <1>3 DEF ToggleFill, At, TypeOK, Conf
  <2>2. /\ job' \in [Procs -> Job] /\ \A q \in Procs \ {p} : job'[q] = job[q]
        /\ job'[p].pc = "text"
    BY <1>3, <2>1, BeginEffect DEF ToggleFill
  <2>. QED  BY <1>3, <2>2, KeysAlike DEF ToggleFill, At, History, Merging
<1>4. ASSUME NEW p \in Procs, Begin(p) PROVE KeysInv'
  <2>1. /\ job' \in [Procs -> Job] /\ \A q \in Procs \ {p} : job'[q] = job[q]
        /\ job'[p].pc = "text"
    BY <1>4, ConfigLoaded, BeginEffect DEF Begin, Steps
  <2>. QED  BY <1>4, <2>1, KeysAlike DEF Begin, MayBegin, History, Merging
<1>5. ASSUME NEW p \in Procs, RenderText(p) PROVE KeysInv'
  BY <1>5, KeysRender
<1>6. ASSUME NEW p \in Procs, SaveTruncate(p) PROVE KeysInv'
  <2>1. /\ job' \in [Procs -> Job] /\ \A q \in Procs \ {p} : job'[q] = job[q]
        /\ job'[p].pc = "fill" /\ job'[p].draft = job[p].draft
    BY <1>6, GotoEffect DEF SaveTruncate, Steps
  <2>. QED  BY <1>6, <2>1, KeysAlike DEF SaveTruncate, At, History, Merging
<1>7. ASSUME NEW p \in Procs, SaveFill(p) PROVE KeysInv'
  <2>1. /\ job' \in [Procs -> Job] /\ \A q \in Procs \ {p} : job'[q] = job[q]
        /\ job'[p].pc = "exists"
    BY <1>7, GotoEffect DEF SaveFill, Steps
  <2>. QED  BY <1>7, <2>1, KeysAlike DEF SaveFill, At, History, Merging
<1>8. ASSUME NEW p \in Procs, NEW c \in Steps, job[p].pc \notin Merging \cup {"idle"},
             Goto(p, c), c \notin Merging, UNCHANGED <<saved, chosen, issued>>
      PROVE  KeysInv'
  BY <1>8, GotoEffect, KeysAlike
<1>9. ASSUME NEW p \in Procs, job[p].pc \notin Merging \cup {"idle"},
             Finish(p), UNCHANGED <<saved, chosen, issued>>
      PROVE  KeysInv'
  BY <1>9, FinishEffect, KeysAlike DEF Merging
<1>10. ASSUME NEW p \in Procs, NEW c \in {"write", "compare", "enable"}, NEW b \in BOOLEAN,
              job[p].pc \in {"exists", "compare"}, UNCHANGED <<saved, chosen, issued>>,
              job' = [job EXCEPT ![p].pc = c, ![p].changed = b]
       PROVE  KeysInv'
  <2>1. /\ job' \in [Procs -> Job] /\ \A q \in Procs \ {p} : job'[q] = job[q]
        /\ job'[p].pc = c
    BY <1>10, CheckEffect DEF Steps
  <2>. QED  BY <1>10, <2>1, KeysAlike DEF Merging
<1>11. ASSUME NEW p \in Procs, CheckExists(p) PROVE KeysInv'
  BY <1>10, <1>11 DEF CheckExists, At, History
<1>12. ASSUME NEW p \in Procs, Compare(p) PROVE KeysInv'
  <2>1. CASE Finish(p)
    BY <1>9, <1>12, <2>1 DEF Compare, At, History, Merging
  <2>2. CASE job' = [job EXCEPT
                ![p].pc = IF file # job[p].text THEN "write" ELSE "enable",
                ![p].changed = (file # job[p].text)]
    BY <1>10, <1>12, <2>2 DEF Compare, At, History
  <2>. QED  BY <1>12, <2>1, <2>2 DEF Compare
<1>13. ASSUME NEW p \in Procs,
              WriteFile(p) \/ EnableUnit(p) \/ StopUnit(p) \/ DisableUnit(p)
       PROVE  KeysInv'
  BY <1>8, <1>13 DEF WriteFile, EnableUnit, StopUnit, DisableUnit, At, History, Merging, Steps
<1>14. ASSUME NEW p \in Procs, StartUnit(p) \/ UnlinkFile(p) PROVE KeysInv'
  BY <1>9, <1>14 DEF StartUnit, UnlinkFile, At, History, Merging
<1>15. ASSUME UNCHANGED <<job, saved, chosen, issued, torn>> PROVE KeysInv'
  BY <1>15 DEF KeysInv
<1>16. ASSUME NEW members \in SUBSET Modems, ModemsChange(members) PROVE KeysInv'
  BY <1>15, <1>16 DEF ModemsChange, History
<1>17. CASE UnitDies \/ Respawn \/ UNCHANGED vars
  BY <1>15, <1>17 DEF UnitDies, Respawn, vars, History
<1>18. ASSUME NEW h \in Timers \cup {"web"}, Kill(h) PROVE KeysInv'
  <2>1. \A p \in Procs : job'[p] = IF Host(p) = h THEN Idle ELSE job[p]
    BY <1>18 DEF Kill
  <2>2. ASSUME NEW p \in Procs, job[p].pc \in Merging, Host(p) = h
        PROVE  "config" \in torn'
    <3>1. "config" \in HalfDone(p)
      BY <2>2 DEF HalfDone, Merging
    <3>. QED  BY <1>18, <2>2, <3>1 DEF Kill
  <2>. QED  BY <1>18, <2>1, <2>2, KeysDie DEF Kill
<1>19. ASSUME Reboot PROVE KeysInv'
  <2>1. \A p \in Procs : job'[p] = Idle
    BY <1>19 DEF Reboot
  <2>2. ASSUME NEW p \in Procs, job[p].pc \in Merging PROVE "config" \in torn'
    <3>1. "config" \in HalfDone(p)
      BY <2>2 DEF HalfDone, Merging
    <3>2. "config" \in UNION {HalfDone(q) : q \in Procs}
      BY <3>1
    <3>3. torn' = torn \cup ((UNION {HalfDone(q) : q \in Procs}) \ {"unit"})
      BY <1>19 DEF Reboot
    <3>. QED  BY <3>2, <3>3
  <2>. QED  BY <1>19, <2>1, <2>2, KeysDie DEF Reboot
<1>. QED
  BY <1>1, <1>2, <1>3, <1>4, <1>5, <1>6, <1>7, <1>11, <1>12, <1>13, <1>14, <1>16,
     <1>17, <1>18, <1>19
  DEF Next, World, Continue

LEMMA InitPool == Init => TypeOK /\ PoolInv
<1>1. Init => /\ running = NoText /\ ~ up
              /\ \A p \in Procs : job[p].pc = "idle"
  BY Constants DEF Init
<1>. QED  BY <1>1, InitTypes DEF PoolInv, JobInv

\* Whatever writes the other key, from whatever stale cache: with calls one at
\* a time, the administrator's choice and the last password that was generated
\* are in the config file whenever no call is under way, unless a call was
\* killed between emptying the file and filling it.
THEOREM KeysKeptThm ==
  ASSUME "overlap" \notin Hazards
  PROVE  Spec => []KeysKept
<1>1. Init => TypeOK /\ PoolInv /\ KeysInv
  <2>. SUFFICES ASSUME Init PROVE KeysInv
    BY InitPool
  <2>1. saved.enable = TRUE
    BY DEF Init
  <2>2. chosen = TRUE /\ issued = 0
    BY DEF Init
  <2>3. \A p \in Procs : job[p].pc = "idle"
    BY Constants DEF Init
  <2>4. Kept(saved, chosen, issued)
    <3>1. saved.enable = chosen
      BY <2>1, <2>2
    <3>2. ~ (issued > 0)
      BY <2>2
    <3>. QED  BY <3>1, <3>2 DEF Kept
  <2>. QED  BY <2>3, <2>4 DEF KeysInv, Merging
<1>2. (TypeOK /\ PoolInv /\ KeysInv) /\ [Next]_vars => (TypeOK /\ PoolInv /\ KeysInv)'
  BY TypeStep, PoolStep, KeysStep
<1>3. KeysInv => KeysKept
  BY DEF KeysInv, KeysKept, Kept, Quiet, Merging
<1>. QED  BY <1>1, <1>2, <1>3, PTL DEF Spec

-----------------------------------------------------------------------------
(* A restart changes something *)

\* What the call under way knows, for its restart not to be an idle one.
FreshJob(j) ==
    /\ j.pc = "unlink" => ~ boot
    /\ j.pc = "write" => file # j.text
    /\ j.pc \in {"enable", "start"} /\ j.changed => running # file \/ "unit" \in torn

\* As long as 3proxy does not exit, an enabled unit has its file, and a unit that
\* is up runs; so nothing but a restart makes the pool run a new file.
FreshInv ==
    /\ boot => file # NoText
    /\ up => running # NoText
    /\ idly => "unit" \in torn
    /\ \A p \in Procs : FreshJob(job[p])

LEMMA FreshMove ==
  ASSUME NEW p \in Procs, \A q \in Procs \ {p} : job'[q].pc = "idle",
         FreshJob(job[p])',
         boot' => file' # NoText, up' => running' # NoText, idly' => "unit" \in torn'
  PROVE  FreshInv'
BY DEF FreshInv, FreshJob

\* A step of p that leaves the file and the unit alone, on to step c.
LEMMA FreshAlike ==
  ASSUME FreshInv, TypeOK, PoolInv, NEW p \in Procs,
         job' \in [Procs -> Job], \A q \in Procs \ {p} : job'[q] = job[q],
         job[p].pc # "idle" \/ Quiet,
         UNCHANGED <<file, running, up, boot, idly, torn>>,
         job'[p].pc \notin {"unlink", "write", "enable", "start"}
  PROVE  FreshInv'
<1>1. \A q \in Procs \ {p} : job'[q].pc = "idle"
  BY AloneMoves
<1>2. FreshJob(job[p])'
  BY DEF FreshJob
<1>. QED  BY <1>1, <1>2, FreshMove DEF FreshInv

\* The file is tested, and written if it is another one.
LEMMA FreshCheck ==
  ASSUME FreshInv, TypeOK, PoolInv, NEW p \in Procs, CheckExists(p) \/ Compare(p)
  PROVE  FreshInv'
<1>1. job[p].pc \in {"exists", "compare"} /\ job[p].text # NoText
      /\ UNCHANGED <<file, running, up, boot, idly, torn>>
  BY DEF CheckExists, Compare, At, PoolInv, JobInv, Units, History
<1>2. ASSUME NEW c \in {"write", "compare", "enable"}, NEW b \in BOOLEAN,
             job' = [job EXCEPT ![p].pc = c, ![p].changed = b],
             c = "write" => file # job[p].text, c = "enable" => b = FALSE
      PROVE  FreshInv'
  <2>1. /\ job' \in [Procs -> Job] /\ \A q \in Procs \ {p} : job'[q] = job[q]
        /\ job'[p].pc = c /\ job'[p].changed = b /\ job'[p].text = job[p].text
    BY <1>2, CheckEffect DEF Steps
  <2>2. \A q \in Procs \ {p} : job'[q].pc = "idle"
    BY <1>1, <2>1, AloneMoves
  <2>3. FreshJob(job[p])'
    BY <1>1, <1>2, <2>1 DEF FreshJob
  <2>. QED  BY <1>1, <2>2, <2>3, FreshMove DEF FreshInv
<1>3. CASE CheckExists(p)
  <2>. DEFINE b == file = NoText
              c == IF file = NoText THEN "write" ELSE "compare"
  <2>1. b \in BOOLEAN /\ c \in {"write", "compare", "enable"} /\ c # "enable"
        /\ (c = "write" => file # job[p].text)
    BY <1>1
  <2>2. job' = [job EXCEPT ![p].pc = c, ![p].changed = b]
    BY <1>3 DEF CheckExists
  <2>. HIDE DEF b, c
  <2>. QED  BY <1>2, <2>1, <2>2
<1>4. CASE Compare(p)
  <2>1. CASE Finish(p)
    <3>1. /\ job' \in [Procs -> Job] /\ \A q \in Procs \ {p} : job'[q] = job[q]
          /\ job'[p].pc = "idle"
      BY <2>1, FinishEffect
    <3>. QED  BY <1>1, <3>1, FreshAlike
  <2>2. CASE job' = [job EXCEPT
                ![p].pc = IF file # job[p].text THEN "write" ELSE "enable",
                ![p].changed = (file # job[p].text)]
    <3>. DEFINE b == file # job[p].text
                c == IF file # job[p].text THEN "write" ELSE "enable"
    <3>1. b \in BOOLEAN /\ c \in {"write", "compare", "enable"}
          /\ (c = "write" => file # job[p].text) /\ (c = "enable" => b = FALSE)
      OBVIOUS
    <3>2. job' = [job EXCEPT ![p].pc = c, ![p].changed = b]
      BY <2>2
    <3>. HIDE DEF b, c
    <3>. QED  BY <1>2, <3>1, <3>2
  <2>. QED  BY <1>4, <2>1, <2>2 DEF Compare
<1>. QED  BY <1>3, <1>4

\* The file is written, and the unit enabled and restarted.
LEMMA FreshStart ==
  ASSUME FreshInv, TypeOK, PoolInv, NEW p \in Procs,
         WriteFile(p) \/ EnableUnit(p) \/ StartUnit(p)
  PROVE  FreshInv'
<1>0. FreshJob(job[p]) /\ JobInv(p)
      /\ (boot => file # NoText) /\ (up => running # NoText) /\ (idly => "unit" \in torn)
  BY DEF FreshInv, PoolInv
<1>1. CASE WriteFile(p)
  <2>1. /\ job' \in [Procs -> Job] /\ \A q \in Procs \ {p} : job'[q] = job[q]
        /\ job'[p].pc = "enable"
    BY <1>1, GotoEffect DEF WriteFile, Steps
  <2>2. /\ job[p].pc = "write" /\ file' = job[p].text /\ job[p].text # NoText
        /\ file # job[p].text /\ UNCHANGED <<running, up, boot, idly, torn>>
    BY <1>0, <1>1 DEF WriteFile, At, JobInv, FreshJob, Units, History
  <2>3. \A q \in Procs \ {p} : job[q].pc = "idle" /\ job'[q].pc = "idle"
    BY <2>1, <2>2, AloneMoves
  <2>4. running # NoText => running = file \/ "unit" \in torn
    BY <2>2, <2>3 DEF PoolInv
  <2>5. running # file' \/ "unit" \in torn
    BY <2>2, <2>4
  <2>6. FreshJob(job[p])'
    BY <2>1, <2>2, <2>5 DEF FreshJob
  <2>. QED  BY <1>0, <2>2, <2>3, <2>6, FreshMove
<1>2. CASE EnableUnit(p)
  <2>1. /\ job' \in [Procs -> Job] /\ \A q \in Procs \ {p} : job'[q] = job[q]
        /\ job'[p].pc = "start" /\ job'[p].changed = job[p].changed
    BY <1>2, GotoEffect DEF EnableUnit, Steps
  <2>2. /\ job[p].pc = "enable" /\ file # NoText
        /\ UNCHANGED <<file, running, up, idly, torn>>
    BY <1>0, <1>2 DEF EnableUnit, At, JobInv, History
  <2>3. \A q \in Procs \ {p} : job'[q].pc = "idle"
    BY <2>1, <2>2, AloneMoves
  <2>4. FreshJob(job[p])'
    BY <1>0, <2>1, <2>2 DEF FreshJob
  <2>. QED  BY <1>0, <2>2, <2>3, <2>4, FreshMove
<1>3. CASE StartUnit(p)
  <2>1. /\ job' \in [Procs -> Job] /\ \A q \in Procs \ {p} : job'[q] = job[q]
        /\ job'[p].pc = "idle"
    BY <1>3, FinishEffect DEF StartUnit, Steps
  <2>2. job[p].pc = "start" /\ file # NoText /\ UNCHANGED <<file, boot, torn>>
    BY <1>0, <1>3 DEF StartUnit, At, JobInv
  <2>3. \A q \in Procs \ {p} : job'[q].pc = "idle"
    BY <2>1, <2>2, AloneMoves
  <2>4. running' # NoText
    BY <1>3, <2>2 DEF StartUnit
  <2>5. idly' => "unit" \in torn
    BY <1>0, <1>3, <2>2 DEF StartUnit, FreshJob
  <2>6. FreshJob(job[p])'
    BY <2>1 DEF FreshJob
  <2>. QED  BY <1>0, <2>2, <2>3, <2>4, <2>5, <2>6, FreshMove
<1>. QED  BY <1>1, <1>2, <1>3

\* The unit is stopped and disabled, and the file removed.
LEMMA FreshStop ==
  ASSUME FreshInv, TypeOK, PoolInv, NEW p \in Procs,
         StopUnit(p) \/ DisableUnit(p) \/ UnlinkFile(p)
  PROVE  FreshInv'
<1>0. FreshJob(job[p]) /\ JobInv(p)
      /\ (boot => file # NoText) /\ (up => running # NoText) /\ (idly => "unit" \in torn)
  BY DEF FreshInv, PoolInv
<1>1. ASSUME NEW c \in {"disable", "unlink"}, Goto(p, c), job[p].pc # "idle",
             c = "unlink" => ~ boot', UNCHANGED <<file, idly, torn>>,
             boot' => file # NoText, up' => running' # NoText
      PROVE  FreshInv'
  <2>1. /\ job' \in [Procs -> Job] /\ \A q \in Procs \ {p} : job'[q] = job[q]
        /\ job'[p].pc = c
    BY <1>1, GotoEffect DEF Steps
  <2>2. \A q \in Procs \ {p} : job'[q].pc = "idle"
    BY <1>1, <2>1, AloneMoves
  <2>3. FreshJob(job[p])'
    BY <1>1, <2>1 DEF FreshJob
  <2>. QED  BY <1>0, <1>1, <2>2, <2>3, FreshMove
<1>2. CASE StopUnit(p)
  BY <1>0, <1>1, <1>2 DEF StopUnit, At, History
<1>3. CASE DisableUnit(p)
  BY <1>0, <1>1, <1>3 DEF DisableUnit, At, History
<1>4. CASE UnlinkFile(p)
  <2>1. /\ job' \in [Procs -> Job] /\ \A q \in Procs \ {p} : job'[q] = job[q]
        /\ job'[p].pc = "idle"
    BY <1>4, FinishEffect DEF UnlinkFile, Steps
  <2>2. job[p].pc = "unlink" /\ ~ boot /\ UNCHANGED <<running, up, boot, idly, torn>>
    BY <1>0, <1>4 DEF UnlinkFile, At, FreshJob, Units, History
  <2>3. \A q \in Procs \ {p} : job'[q].pc = "idle"
    BY <2>1, <2>2, AloneMoves
  <2>4. FreshJob(job[p])'
    BY <2>1 DEF FreshJob
  <2>. QED  BY <1>0, <2>2, <2>3, <2>4, FreshMove
<1>. QED  BY <1>2, <1>3, <1>4

LEMMA FreshStep ==
  ASSUME {"overlap", "unit dies"} \cap Hazards = {}, TypeOK, PoolInv, FreshInv, [Next]_vars
  PROVE  FreshInv'
<1>0. "overlap" \notin Hazards /\ "unit dies" \notin Hazards
  OBVIOUS
<1>1. ASSUME NEW p \in Procs, NEW on \in BOOLEAN, ToggleRead(p, on) PROVE FreshInv'
  <2>1. /\ job' \in [Procs -> Job] /\ \A q \in Procs \ {p} : job'[q] = job[q]
        /\ job'[p].pc = "toggle"
    BY <1>1, ToggleEffect
  <2>2. Quiet /\ UNCHANGED <<file, running, up, boot, idly, torn>>
    BY <1>0, <1>1 DEF ToggleRead, MayBegin, Units
  <2>. QED  BY <2>1, <2>2, FreshAlike
<1>2. ASSUME NEW p \in Procs, NEW c \in Steps, Goto(p, c), job[p].pc # "idle",
             c \notin {"unlink", "write", "enable", "start"},
             UNCHANGED <<file, running, up, boot, idly, torn>>
      PROVE  FreshInv'
  BY <1>2, GotoEffect, FreshAlike
<1>3. ASSUME NEW p \in Procs, ToggleTruncate(p) \/ SaveTruncate(p) \/ SaveFill(p)
      PROVE  FreshInv'
  BY <1>2, <1>3 DEF ToggleTruncate, SaveTruncate, SaveFill, At, Units, History, Steps
<1>4. ASSUME NEW p \in Procs, NEW b \in BOOLEAN, job[p].pc # "idle" \/ Quiet,
             job' = [job EXCEPT ![p] = [Idle EXCEPT !.pc = "text", !.enable = b]],
             UNCHANGED <<file, running, up, boot, idly, torn>>
      PROVE  FreshInv'
  <2>1. /\ job' \in [Procs -> Job] /\ \A q \in Procs \ {p} : job'[q] = job[q]
        /\ job'[p].pc = "text"
    BY <1>4, BeginEffect
  <2>. QED  BY <1>4, <2>1, FreshAlike
<1>5. ASSUME NEW p \in Procs, ToggleFill(p) PROVE FreshInv'
  <2>1. job[p].draft.enable \in BOOLEAN
    BY <1>5 DEF ToggleFill, At, TypeOK, Conf
  <2>. QED  BY <1>4, <1>5, <2>1 DEF ToggleFill, At, Units, History
<1>6. ASSUME NEW p \in Procs, Begin(p) PROVE FreshInv'
  BY <1>0, <1>4, <1>6, ConfigLoaded DEF Begin, MayBegin, Units, History
<1>7. ASSUME NEW p \in Procs, RenderText(p) PROVE FreshInv'
  <2>1. /\ job' \in [Procs -> Job] /\ \A q \in Procs \ {p} : job'[q] = job[q]
        /\ job'[p].pc \in {"stop", "exists", "save"}
    BY <1>7, RenderEffect
  <2>. QED  BY <1>7, <2>1, FreshAlike DEF RenderText, At, Units
<1>8. ASSUME NEW p \in Procs,
             \/ CheckExists(p) \/ Compare(p) \/ WriteFile(p) \/ EnableUnit(p)
             \/ StartUnit(p) \/ StopUnit(p) \/ DisableUnit(p) \/ UnlinkFile(p)
      PROVE  FreshInv'
  BY <1>8, FreshCheck, FreshStart, FreshStop
<1>9. ASSUME UNCHANGED <<file, running, up, boot, idly>>, torn \subseteq torn',
             \A p \in Procs : job'[p] = job[p] \/ job'[p] = Idle
      PROVE  FreshInv'
  <2>1. \A p \in Procs : FreshJob(job[p])'
    BY <1>9, Constants DEF FreshInv, FreshJob
  <2>. QED  BY <1>9, <2>1 DEF FreshInv
<1>10. ASSUME NEW members \in SUBSET Modems, ModemsChange(members) PROVE FreshInv'
  BY <1>9, <1>10 DEF ModemsChange, Units, History
<1>11. ASSUME NEW h \in Timers \cup {"web"}, Kill(h) PROVE FreshInv'
  BY <1>9, <1>11 DEF Kill, Units
<1>12. CASE UNCHANGED vars
  BY <1>9, <1>12 DEF vars
<1>13. CASE UnitDies \/ Respawn
  BY <1>0, <1>13 DEF UnitDies, Respawn, FreshInv
<1>14. CASE Reboot
  <2>1. \A p \in Procs : job'[p].pc = "idle"
    BY <1>14, Constants DEF Reboot
  <2>2. /\ torn \subseteq torn' /\ UNCHANGED <<file, boot, idly>>
        /\ up' = boot /\ running' = IF boot THEN file ELSE NoText
    BY <1>14 DEF Reboot
  <2>. QED  BY <2>1, <2>2 DEF FreshInv, FreshJob
<1>. QED
  BY <1>1, <1>3, <1>5, <1>6, <1>7, <1>8, <1>10, <1>11, <1>12, <1>13, <1>14
  DEF Next, World, Continue

\* sync_pool restarts a running pool only to load a file that the pool has not
\* loaded: with calls one at a time and a 3proxy that does not exit by itself, no
\* restart cuts connections for nothing, across reboots and killed calls, until
\* a call has been killed between writing the file and restarting the unit.
THEOREM NoIdleRestartThm ==
  ASSUME {"overlap", "unit dies"} \cap Hazards = {}
  PROVE  Spec => []NoIdleRestart
<1>1. Init => TypeOK /\ PoolInv /\ FreshInv
  <2>1. Init => boot = FALSE /\ up = FALSE /\ idly = FALSE
    BY DEF Init
  <2>2. Init => \A p \in Procs : job[p].pc = "idle"
    BY Constants DEF Init
  <2>. QED  BY <2>1, <2>2, InitPool DEF FreshInv, FreshJob
<1>2. (TypeOK /\ PoolInv /\ FreshInv) /\ [Next]_vars => (TypeOK /\ PoolInv /\ FreshInv)'
  BY TypeStep, PoolStep, FreshStep
<1>3. FreshInv => NoIdleRestart
  BY DEF FreshInv, NoIdleRestart
<1>. QED  BY <1>1, <1>2, <1>3, PTL DEF Spec

=============================================================================
