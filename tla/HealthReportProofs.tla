------------------------- MODULE HealthReportProofs -------------------------
(***************************************************************************)
(* Proofs about HealthReport, for any checks, any way to start a run, and  *)
(* runs that fail to send, are cut short or told to be quiet: types; and,  *)
(* where runs do not overlap, what the state file remembers has been told, *)
(* and nothing is told twice.                                              *)
(***************************************************************************)
EXTENDS HealthReport, TLAPS

Pcs == {"idle", "checks", "load", "save", "send"}

WorldOK ==
    /\ {bad, state, told} \subseteq SUBSET Checks
    /\ enabled \subseteq Proxies
    /\ lost \in BOOLEAN
    /\ aborts \in 0 .. MaxAborts

RunOK ==
    /\ pc \in [Units -> Pcs]
    /\ {modems, todo, failed, prev} \subseteq [Units -> SUBSET Checks]
    /\ \A u \in Units : todo[u] \cap failed[u] = {}
    /\ {healed, boot, notify} \subseteq [Units -> BOOLEAN]

\* Types, and that a run begins without failures.
HealthInv ==
    /\ WorldOK /\ RunOK
    /\ \A u \in Units : pc[u] = "idle" => failed[u] = {}

LEMMA TypeParts == HealthInv => TypeOK
BY DEF HealthInv, TypeOK, WorldOK, RunOK, Pcs

-----------------------------------------------------------------------------
(* What the helpers do to the runs *)

\* A run that ends leaves nothing behind, and the others alone.
LEMMA EndFact ==
    ASSUME RunOK, NEW u \in Units, End(u)
    PROVE  /\ RunOK'
           /\ pc'[u] = "idle" /\ failed'[u] = {}
           /\ \A v \in Units \ {u} : /\ pc'[v] = pc[v] /\ failed'[v] = failed[v]
                                     /\ prev'[v] = prev[v] /\ boot'[v] = boot[v]
                                     /\ healed'[v] = healed[v]
<1>1. /\ pc' \in [Units -> Pcs] /\ pc'[u] = "idle"
      /\ \A v \in Units \ {u} : pc'[v] = pc[v]
  BY DEF RunOK, End, Pcs
<1>2. /\ {modems', todo'} \subseteq [Units -> SUBSET Checks]
      /\ {failed', prev'} \subseteq [Units -> SUBSET Checks]
  BY DEF RunOK, End
<1>3. {healed', boot', notify'} \subseteq [Units -> BOOLEAN]
  BY DEF RunOK, End
<1>4. /\ todo'[u] = {} /\ failed'[u] = {}
      /\ \A v \in Units \ {u} : /\ todo'[v] = todo[v] /\ failed'[v] = failed[v]
                                /\ prev'[v] = prev[v] /\ boot'[v] = boot[v]
                                /\ healed'[v] = healed[v]
  BY DEF RunOK, End
<1>5. \A v \in Units : todo'[v] \cap failed'[v] = {}
  BY <1>4 DEF RunOK
<1> QED BY <1>1, <1>2, <1>3, <1>4, <1>5 DEF RunOK

\* A check changes what one run has found, and nothing that was saved or told.
LEMMA MadeFact ==
    ASSUME RunOK, NEW u \in Units, NEW c, NEW fails \in BOOLEAN, NEW heals \in BOOLEAN,
           Made(u, c, fails, heals)
    PROVE  /\ RunOK'
           /\ pc[u] = "checks" /\ c \in Checks
           /\ UNCHANGED <<enabled, state, told, lost, aborts, pc, prev, boot>>
           /\ \A v \in Units \ {u} : failed'[v] = failed[v] /\ healed'[v] = healed[v]
<1>1. /\ pc[u] = "checks" /\ c \in todo[u]
      /\ todo' = [todo EXCEPT ![u] = @ \ {c}]
      /\ failed' = IF fails THEN [failed EXCEPT ![u] = @ \cup {c}] ELSE failed
      /\ healed' = IF heals THEN [healed EXCEPT ![u] = TRUE] ELSE healed
      /\ UNCHANGED <<enabled, state, told, lost, aborts, pc, modems, prev, boot, notify>>
  BY DEF Made
<1>2. c \in Checks /\ todo[u] \in SUBSET Checks /\ failed[u] \in SUBSET Checks
  BY <1>1 DEF RunOK
<1>3. /\ todo' \in [Units -> SUBSET Checks]
      /\ todo'[u] = todo[u] \ {c}
      /\ \A v \in Units \ {u} : todo'[v] = todo[v]
  BY <1>1, <1>2 DEF RunOK
<1>4. /\ failed' \in [Units -> SUBSET Checks]
      /\ failed'[u] \subseteq failed[u] \cup {c}
      /\ \A v \in Units \ {u} : failed'[v] = failed[v]
  BY <1>1, <1>2 DEF RunOK
<1>5. /\ healed' \in [Units -> BOOLEAN]
      /\ \A v \in Units \ {u} : healed'[v] = healed[v]
  BY <1>1 DEF RunOK
<1>6. \A v \in Units : todo'[v] \cap failed'[v] = {}
  <2>1. todo'[u] \cap failed'[u] = {}
    BY <1>3, <1>4 DEF RunOK
  <2>2. ASSUME NEW v \in Units \ {u} PROVE todo'[v] \cap failed'[v] = {}
    BY <1>3, <1>4 DEF RunOK
  <2> QED BY <2>1, <2>2
<1> QED BY <1>1, <1>2, <1>3, <1>4, <1>5, <1>6 DEF RunOK

\* Every check is made of such a step, and changes the world to what it may be.
LEMMA CheckFact ==
    ASSUME HealthInv, NEW u \in Units, Check(u)
    PROVE  /\ HealthInv'
           /\ pc[u] = "checks"
           /\ UNCHANGED <<state, told, lost, pc, prev, boot>>
           /\ \A v \in Units \ {u} : failed'[v] = failed[v] /\ healed'[v] = healed[v]
<1>1. ASSUME NEW c, NEW fails \in BOOLEAN, NEW heals \in BOOLEAN,
             Made(u, c, fails, heals), bad' \subseteq bad
      PROVE  /\ HealthInv'
             /\ pc[u] = "checks"
             /\ UNCHANGED <<state, told, lost, pc, prev, boot>>
             /\ \A v \in Units \ {u} : failed'[v] = failed[v] /\ healed'[v] = healed[v]
  <2>1. RunOK /\ WorldOK
    BY DEF HealthInv
  <2>2. /\ RunOK' /\ pc[u] = "checks"
        /\ UNCHANGED <<enabled, state, told, lost, aborts, pc, prev, boot>>
        /\ \A v \in Units \ {u} : failed'[v] = failed[v] /\ healed'[v] = healed[v]
    BY <1>1, <2>1, MadeFact
  <2>3. WorldOK'
    BY <1>1, <2>1, <2>2 DEF WorldOK
  <2>4. HealthInv'
    BY <2>2, <2>3 DEF HealthInv
  <2> QED BY <2>2, <2>4
<1>2. ASSUME NEW c \in Checks, CheckProxy(u, c)
      PROVE  \E fails, heals \in BOOLEAN : Made(u, c, fails, heals) /\ bad' \subseteq bad
  <2> DEFINE broken == c \in bad
  <2>1. broken \in BOOLEAN
    OBVIOUS
  <2>2. \/ Made(u, c, broken, FALSE) /\ bad' \subseteq bad
        \/ Made(u, c, FALSE, TRUE) /\ bad' \subseteq bad
    BY <1>2 DEF CheckProxy
  <2> HIDE DEF broken
  <2> QED BY <2>1, <2>2
<1>3. ASSUME NEW c \in Checks, CheckPlain(u, c)
      PROVE  \E fails, heals \in BOOLEAN : Made(u, c, fails, heals) /\ bad' \subseteq bad
  <2> DEFINE broken == c \in bad
  <2>1. broken \in BOOLEAN
    OBVIOUS
  <2>2. Made(u, c, broken, FALSE) /\ bad' \subseteq bad
    BY <1>3 DEF CheckPlain
  <2> HIDE DEF broken
  <2> QED BY <2>1, <2>2
<1>4. ASSUME CheckBands(u)
      PROVE  \E fails, heals \in BOOLEAN : Made(u, "bands", fails, heals) /\ bad' \subseteq bad
  <2> DEFINE broken == "bands" \in bad
  <2>1. broken \in BOOLEAN
    OBVIOUS
  <2>2. Made(u, "bands", broken, broken) /\ bad' \subseteq bad
    BY <1>4 DEF CheckBands
  <2> HIDE DEF broken
  <2> QED BY <2>1, <2>2
<1>5. ASSUME CheckVpn(u)
      PROVE  \E fails, heals \in BOOLEAN : Made(u, "vpn", fails, heals) /\ bad' \subseteq bad
  <2> DEFINE broken == "vpn" \in bad
  <2>1. broken \in BOOLEAN
    OBVIOUS
  <2>2. \/ Made(u, "vpn", broken, FALSE) /\ bad' \subseteq bad
        \/ Made(u, "vpn", FALSE, FALSE) /\ bad' \subseteq bad
    BY <1>5 DEF CheckVpn
  <2> HIDE DEF broken
  <2> QED BY <2>1, <2>2
<1>6. ASSUME CheckPublic(u)
      PROVE  \E fails, heals \in BOOLEAN : Made(u, "public", fails, heals) /\ bad' \subseteq bad
  <2> DEFINE broken == "public" \in bad /\ modems[u] \ bad # {}
  <2>1. broken \in BOOLEAN
    OBVIOUS
  <2>2. Made(u, "public", broken, FALSE) /\ bad' \subseteq bad
    BY <1>6 DEF CheckPublic
  <2> HIDE DEF broken
  <2> QED BY <2>1, <2>2
<1>7. \E c : \E fails, heals \in BOOLEAN : Made(u, c, fails, heals) /\ bad' \subseteq bad
  BY <1>2, <1>3, <1>4, <1>5, <1>6 DEF Check
<1> QED BY <1>1, <1>7

-----------------------------------------------------------------------------
(* Types *)

LEMMA InitHealth == Init => HealthInv
<1> SUFFICES ASSUME Init PROVE HealthInv
  OBVIOUS
<1>1. WorldOK
  <2>1. 0 \in 0 .. MaxAborts
    BY HealthBounds
  <2> QED BY <2>1 DEF Init, WorldOK
<1>2. pc \in [Units -> Pcs] /\ \A u \in Units : failed[u] = {} /\ todo[u] = {}
  BY DEF Init, Pcs
<1>3. /\ {modems, todo} \subseteq [Units -> SUBSET Checks]
      /\ {failed, prev} \subseteq [Units -> SUBSET Checks]
  BY DEF Init
<1>4. {healed, boot, notify} \subseteq [Units -> BOOLEAN]
  BY DEF Init
<1> QED BY <1>1, <1>2, <1>3, <1>4 DEF HealthInv, RunOK

\* What a run does once its checks are made leaves its failures alone or ends it.
LEMMA SavedFact ==
    ASSUME HealthInv, NEW u \in Units, SaveState(u)
    PROVE  HealthInv'
<1>0. RunOK /\ WorldOK /\ pc[u] = "save"
  BY DEF HealthInv, SaveState
<1>1. WorldOK'
  BY <1>0 DEF SaveState, WorldOK, RunOK
<1>2. CASE End(u)
  BY <1>0, <1>1, <1>2, EndFact DEF HealthInv
<1>3. CASE /\ pc' = [pc EXCEPT ![u] = "send"]
           /\ UNCHANGED <<modems, todo, failed, prev, healed, boot, notify>>
  BY <1>0, <1>1, <1>3 DEF HealthInv, RunOK, Pcs
<1> QED BY <1>2, <1>3 DEF SaveState, Sends

LEMMA StepHealth == HealthInv /\ [Next]_vars => HealthInv'
<1> SUFFICES ASSUME HealthInv, [Next]_vars PROVE HealthInv'
  OBVIOUS
<1>0. RunOK /\ WorldOK
  BY DEF HealthInv
<1>1. ASSUME NEW u \in Units, End(u), WorldOK' PROVE HealthInv'
  BY <1>0, <1>1, EndFact DEF HealthInv
<1>2. ASSUME UNCHANGED run, WorldOK' PROVE HealthInv'
  BY <1>0, <1>2 DEF run, HealthInv, RunOK
<1>3. ASSUME NEW u \in Units, Begin(u) PROVE HealthInv'
  <2>1. /\ pc[u] = "idle" /\ failed[u] = {}
        /\ UNCHANGED <<bad, enabled, state, told, lost, aborts, failed, healed, prev>>
    BY <1>3 DEF Begin, HealthInv
  <2>2. pc' \in [Units -> Pcs] /\ \A v \in Units : pc'[v] = "idle" => pc[v] = "idle"
    BY <1>0, <1>3 DEF Begin, RunOK, Pcs
  <2>3. /\ {modems', todo'} \subseteq [Units -> SUBSET Checks]
        /\ \A v \in Units \ {u} : todo'[v] = todo[v]
    BY <1>0, <1>3 DEF Begin, RunOK, WorldOK, Checks
  <2>4. {boot', notify'} \subseteq [Units -> BOOLEAN]
    BY <1>0, <1>3 DEF Begin, RunOK
  <2> QED BY <1>0, <2>1, <2>2, <2>3, <2>4 DEF HealthInv, RunOK, WorldOK
<1>4. ASSUME NEW u \in Units, LoadState(u) PROVE HealthInv'
  <2>1. WorldOK' /\ UNCHANGED <<modems, todo, failed, healed, boot, notify>>
    BY <1>0, <1>4 DEF LoadState, WorldOK
  <2>2. pc' \in [Units -> Pcs] /\ \A v \in Units : pc'[v] = "idle" => pc[v] = "idle"
    BY <1>0, <1>4 DEF LoadState, RunOK, Pcs
  <2>3. prev' \in [Units -> SUBSET Checks]
    BY <1>0, <1>4 DEF LoadState, RunOK, WorldOK
  <2> QED BY <1>0, <2>1, <2>2, <2>3 DEF HealthInv, RunOK
<1>5. ASSUME NEW u \in Units, Deliver(u) PROVE HealthInv'
  <2>1. failed[u] \in SUBSET Checks
    BY <1>0 DEF RunOK
  <2>2. WorldOK'
    BY <1>0, <1>5, <2>1 DEF Deliver, WorldOK
  <2> QED BY <1>1, <1>5, <2>2 DEF Deliver
<1>6. ASSUME NEW u \in Units, SendFails(u) PROVE HealthInv'
  BY <1>0, <1>1, <1>6 DEF SendFails, WorldOK
<1>7. ASSUME NEW u \in Units, Abort(u) \/ TornSave(u) PROVE HealthInv'
  <2>1. aborts' \in 0 .. MaxAborts
    BY <1>0, <1>7, HealthBounds DEF Abort, TornSave, WorldOK
  <2> QED BY <1>0, <1>1, <1>7, <2>1 DEF Abort, TornSave, WorldOK
<1>8. ASSUME NEW c \in Flaky, Breaks(c) \/ Recovers(c) PROVE HealthInv'
  BY <1>0, <1>2, <1>8, HealthBounds DEF Breaks, Recovers, WorldOK, Checks
<1>9. ASSUME NEW c \in Proxies, Toggle(c) PROVE HealthInv'
  BY <1>0, <1>2, <1>9 DEF Toggle, WorldOK
<1>10. CASE UNCHANGED vars
  BY <1>0, <1>2, <1>10 DEF vars, WorldOK
<1> QED
  BY <1>3, <1>4, <1>5, <1>6, <1>7, <1>8, <1>9, <1>10, CheckFact, SavedFact DEF Next, Work

LEMMA HealthInvThm == Spec => []HealthInv
BY InitHealth, StepHealth, PTL DEF Spec

\* Runs stay within their types, however many overlap.
THEOREM HealthTypes == Spec => []TypeOK
BY HealthInvThm, TypeParts, PTL

-----------------------------------------------------------------------------
(* What was told *)

\* Runs do not overlap.
OneRun == \A u, v \in Units : pc[u] # "idle" /\ pc[v] # "idle" => u = v

\* The file and the last message differ only while a message is on its way; the
\* run that is about to save, or to send, has compared with what was told.
ToldInv ==
    /\ OneRun
    /\ (\A u \in Units : pc[u] # "send") => state = told \/ lost
    /\ \A u \in Units : pc[u] = "save" => prev[u] = state
    /\ \A u \in Units : pc[u] = "send" =>
          state = failed[u] /\ Reports(u) /\ (prev[u] = told \/ lost)

\* A step of u that leaves the others alone, when u was or is the only one.
LEMMA OneRunKept ==
    ASSUME OneRun, NEW u \in Units, pc[u] # "idle",
           \A v \in Units \ {u} : pc'[v] = pc[v]
    PROVE  OneRun' /\ \A v \in Units \ {u} : pc'[v] = "idle" /\ pc[v] = "idle"
BY DEF OneRun

LEMMA InitTold == Init => ToldInv
BY DEF Init, ToldInv, OneRun

LEMMA StepTold == HealthInv /\ Alone /\ ToldInv /\ [Next]_vars => ToldInv'
<1> SUFFICES ASSUME HealthInv, Alone, ToldInv, [Next]_vars PROVE ToldInv'
  OBVIOUS
<1>0. RunOK /\ WorldOK /\ OneRun /\ pc \in [Units -> Pcs]
  BY DEF HealthInv, RunOK, ToldInv
\* A run has ended, and the file is as told or that is on record.
<1>1. ASSUME NEW u \in Units, pc[u] # "idle", End(u), state' = told' \/ lost'
      PROVE  ToldInv'
  <2>1. pc'[u] = "idle" /\ \A v \in Units \ {u} : pc'[v] = pc[v]
    BY <1>0, <1>1, EndFact
  <2>2. OneRun' /\ \A v \in Units : pc'[v] = "idle"
    BY <1>0, <1>1, <2>1, OneRunKept
  <2> QED BY <1>1, <2>2 DEF ToldInv
\* Nothing that was saved or told changes, nor do the runs beyond their checks.
<1>2. ASSUME UNCHANGED <<state, told, lost, pc, prev, boot>>,
             \A v \in Units : pc[v] # "checks" =>
                 failed'[v] = failed[v] /\ healed'[v] = healed[v]
      PROVE  ToldInv'
  <2>1. \A v \in Units : pc[v] = "send" => Reports(v)' = Reports(v)
    BY <1>2 DEF Reports
  <2> QED BY <1>2, <2>1 DEF ToldInv, OneRun
<1>3. ASSUME NEW u \in Units, Begin(u) PROVE ToldInv'
  <2>1. /\ \A v \in Units : pc[v] = "idle"
        /\ pc' = [pc EXCEPT ![u] = "checks"]
        /\ UNCHANGED <<state, told, lost>>
    BY <1>3 DEF Begin
  <2>2. pc'[u] = "checks" /\ \A v \in Units \ {u} : pc'[v] = "idle"
    BY <1>0, <2>1
  <2> QED BY <2>1, <2>2 DEF ToldInv, OneRun
<1>4. ASSUME NEW u \in Units, Check(u) PROVE ToldInv'
  <2>1. /\ pc[u] = "checks" /\ UNCHANGED <<state, told, lost, pc, prev, boot>>
        /\ \A v \in Units \ {u} : failed'[v] = failed[v] /\ healed'[v] = healed[v]
    BY <1>4, CheckFact
  <2> QED BY <1>2, <2>1
<1>5. ASSUME NEW u \in Units, LoadState(u) PROVE ToldInv'
  <2>1. /\ pc[u] = "checks" /\ pc'[u] = "save" /\ prev'[u] = state
        /\ \A v \in Units \ {u} : pc'[v] = pc[v]
        /\ UNCHANGED <<state, told, lost>>
    BY <1>0, <1>5 DEF LoadState, RunOK
  <2>2. OneRun' /\ \A v \in Units \ {u} : pc'[v] = "idle" /\ pc[v] = "idle"
    BY <1>0, <2>1, OneRunKept
  <2> QED BY <2>1, <2>2 DEF ToldInv
<1>6. ASSUME NEW u \in Units, SaveState(u) PROVE ToldInv'
  <2>1. /\ pc[u] = "save" /\ prev[u] = state /\ state' = failed[u] /\ told' = told
        /\ lost' = (lost \/ (~notify[u] /\ failed[u] # told))
    BY <1>6 DEF SaveState, ToldInv
  <2>2. \A v \in Units : pc[v] # "send"
    BY <1>0, <2>1 DEF OneRun
  <2>3. (state = told \/ lost) /\ (lost => lost')
    BY <2>1, <2>2 DEF ToldInv
  <2>4. CASE notify[u] /\ Reports(u)
    <3>1. /\ pc' = [pc EXCEPT ![u] = "send"]
          /\ UNCHANGED <<failed, prev, healed, boot>>
      BY <1>6, <2>4 DEF SaveState, Sends
    <3>2. pc'[u] = "send" /\ \A v \in Units \ {u} : pc'[v] = pc[v]
      BY <1>0, <3>1
    <3>3. OneRun' /\ \A v \in Units \ {u} : pc'[v] = "idle" /\ pc[v] = "idle"
      BY <1>0, <2>1, <3>2, OneRunKept
    <3>4. Reports(u)'
      BY <2>4, <3>1 DEF Reports
    <3> QED BY <2>1, <2>3, <3>1, <3>2, <3>3, <3>4 DEF ToldInv
  <2>5. CASE ~ (notify[u] /\ Reports(u))
    <3>1. End(u)
      BY <1>6, <2>5 DEF SaveState, Sends
    <3>2. state' = told' \/ lost'
      BY <2>1, <2>3, <2>5 DEF Reports
    <3> QED BY <1>1, <2>1, <3>1, <3>2
  <2> QED BY <2>4, <2>5
<1>7. ASSUME NEW u \in Units, Deliver(u) \/ SendFails(u) PROVE ToldInv'
  <2>1. pc[u] = "send" /\ state = failed[u] /\ state' = state /\ End(u)
    BY <1>7 DEF Deliver, SendFails, ToldInv
  <2>2. state' = told' \/ lost'
    BY <1>7, <2>1 DEF Deliver, SendFails
  <2> QED BY <1>1, <2>1, <2>2
<1>8. ASSUME NEW u \in Units, Abort(u) \/ TornSave(u) PROVE ToldInv'
  <2>1. pc[u] # "idle" /\ End(u)
    BY <1>8 DEF Abort, TornSave
  <2>2. CASE pc[u] = "send" \/ TornSave(u)
    BY <1>1, <1>8, <2>1, <2>2 DEF Abort, TornSave
  <2>3. CASE pc[u] # "send" /\ Abort(u)
    <3>1. \A v \in Units : pc[v] # "send"
      BY <1>0, <2>1, <2>3 DEF OneRun
    <3>2. state' = told' \/ lost'
      BY <2>3, <3>1 DEF Abort, ToldInv
    <3> QED BY <1>1, <2>1, <3>2
  <2> QED BY <1>8, <2>2, <2>3
<1>9. ASSUME UNCHANGED <<state, told, lost, run>> PROVE ToldInv'
  BY <1>2, <1>9 DEF run
<1>10. ASSUME \/ \E c \in Flaky : Breaks(c) \/ Recovers(c)
              \/ \E c \in Proxies : Toggle(c)
              \/ UNCHANGED vars
       PROVE  ToldInv'
  BY <1>9, <1>10 DEF Breaks, Recovers, Toggle, vars
<1> QED
  BY <1>3, <1>4, <1>5, <1>6, <1>7, <1>8, <1>10 DEF Next, Work

LEMMA ToldInvThm ==
    ASSUME Alone
    PROVE  Spec => [](HealthInv /\ ToldInv)
<1>1. Init => HealthInv /\ ToldInv
  BY InitHealth, InitTold
<1>2. HealthInv /\ ToldInv /\ [Next]_vars => HealthInv' /\ ToldInv'
  BY StepHealth, StepTold
<1> QED BY <1>1, <1>2, PTL DEF Spec

\* Where runs do not overlap, what the state file remembers between them has
\* been told, or the telling of it was lost.
THEOREM StateIsToldThm ==
    ASSUME Alone
    PROVE  Spec => []StateIsTold
<1>1. ToldInv => StateIsTold
  BY DEF ToldInv, StateIsTold
<1> QED BY <1>1, ToldInvThm, PTL

\* Where runs do not overlap, a message tells other failures than the last one,
\* unless it is a boot report, tells of a repair, or one in between was lost.
THEOREM NoSpamThm ==
    ASSUME Alone
    PROVE  Spec => NoSpam
<1>1. HealthInv /\ ToldInv /\ [Next]_vars =>
        [\A u \in Units :
            pc[u] = "send" /\ pc'[u] = "idle" /\ ~boot[u] /\ ~healed[u] =>
                failed[u] # told \/ lost]_vars
  BY DEF ToldInv, Reports
<1> QED BY <1>1, ToldInvThm, PTL DEF Spec, NoSpam

=============================================================================
