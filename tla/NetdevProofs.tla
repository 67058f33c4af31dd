---------------------------- MODULE NetdevProofs ----------------------------
(***************************************************************************)
(* Proofs about modems/netdev.py: the shared session of a ZTE device       *)
(* (ZteSession), for any processes, any jobs of the six and any number of  *)
(* logins; and the tables of the LAN routers (Routing), for any dongles,   *)
(* routers, addresses and processes.                                       *)
(***************************************************************************)
EXTENDS Netdev, FiniteSetTheorems, WellFoundedInduction, SequenceTheorems, TLAPS

-----------------------------------------------------------------------------
(* The commands of the jobs *)

LEMMA JobNames ==
    DOMAIN Commands = {"rotate", "reboot", "list", "send", "delete", "status"}
BY DEF Commands

LEMMA JobCommands ==
    /\ Commands["rotate"] = RotateCommands
    /\ Commands["reboot"] = <<"REBOOT_DEVICE">>
    /\ Commands["list"] = <<"web_http_enstr_set", "sms_data_total">>
    /\ Commands["send"] = <<"web_http_enstr_set", "SEND_SMS">>
    /\ Commands["delete"] = <<"DELETE_SMS">>
    /\ Commands["status"] = <<>>
BY DEF Commands, RebootCommands, ListCommands, SendCommands, DeleteCommands

\* How many commands a job has; only a status has none.
LEMMA CommandCounts ==
    ASSUME NEW j \in DOMAIN Commands
    PROVE  /\ Len(Commands[j]) \in Nat
           /\ DOMAIN Commands[j] = 1 .. Len(Commands[j])
           /\ Commands[j] # <<>> => Len(Commands[j]) >= 1
           /\ j \in {"list", "send"} => Len(Commands[j]) = 2
           /\ j = "rotate" => Len(Commands[j]) = 5
           /\ j \in {"reboot", "delete"} => Len(Commands[j]) = 1
<1>1. j \in {"rotate", "reboot", "list", "send", "delete", "status"}
  BY JobNames
<1>2. CASE j = "rotate"
  BY <1>2, JobCommands DEF RotateCommands
<1>3. CASE j = "reboot"
  BY <1>3, JobCommands
<1>4. CASE j = "list"
  BY <1>4, JobCommands
<1>5. CASE j = "send"
  BY <1>5, JobCommands
<1>6. CASE j = "delete"
  BY <1>6, JobCommands
<1>7. CASE j = "status"
  BY <1>7, JobCommands
<1>8. QED
  BY <1>1, <1>2, <1>3, <1>4, <1>5, <1>6, <1>7

\* Which command of which job asks for what.
LEMMA CommandPlaces ==
    ASSUME NEW j \in DOMAIN Commands, NEW i \in 1 .. Len(Commands[j])
    PROVE  /\ Commands[j][i] = "web_http_enstr_set" <=> j \in {"list", "send"} /\ i = 1
           /\ Commands[j][i] = "sms_data_total" <=> j = "list" /\ i = 2
           /\ Commands[j][i] = "SEND_SMS" <=> j = "send" /\ i = 2
           /\ Commands[j][i] = "DELETE_SMS" <=> j = "delete"
           /\ Commands[j][i] = "REBOOT_DEVICE" <=> j = "reboot"
           /\ Commands[j][i] = "DISCONNECT" <=> j = "rotate" /\ i = 1
           /\ Commands[j][i] = "Only_WCDMA" <=> j = "rotate" /\ i = 2
           /\ Commands[j][i] = "NETWORK_auto" <=> j = "rotate" /\ i = 3
           /\ Commands[j][i] = "4G_AND_5G" <=> j = "rotate" /\ i = 4
           /\ Commands[j][i] = "CONNECT" <=> j = "rotate" /\ i = 5
<1>1. j \in {"rotate", "reboot", "list", "send", "delete", "status"}
  BY JobNames
<1>2. CASE j = "rotate"
  <2>1. i \in {1, 2, 3, 4, 5}
    <3>1. Len(Commands[j]) = 5
      BY <1>2, CommandCounts
    <3>2. QED
      BY <3>1
  <2>2. \/ i = 1 /\ Commands[j][i] = "DISCONNECT"
        \/ i = 2 /\ Commands[j][i] = "Only_WCDMA"
        \/ i = 3 /\ Commands[j][i] = "NETWORK_auto"
        \/ i = 4 /\ Commands[j][i] = "4G_AND_5G"
        \/ i = 5 /\ Commands[j][i] = "CONNECT"
    BY <1>2, <2>1, JobCommands DEF RotateCommands
  <2>3. QED
    BY <1>2, <2>2
<1>3. CASE j \in {"reboot", "delete"}
  <2>1. i = 1
    <3>1. Len(Commands[j]) = 1
      BY <1>3, CommandCounts
    <3>2. QED
      BY <3>1
  <2>2. \/ j = "reboot" /\ Commands[j][i] = "REBOOT_DEVICE"
        \/ j = "delete" /\ Commands[j][i] = "DELETE_SMS"
    BY <1>3, <2>1, JobCommands
  <2>3. QED
    BY <2>1, <2>2
<1>4. CASE j \in {"list", "send"}
  <2>1. i \in {1, 2}
    <3>1. Len(Commands[j]) = 2
      BY <1>4, CommandCounts
    <3>2. QED
      BY <3>1
  <2>2. \/ i = 1 /\ Commands[j][i] = "web_http_enstr_set"
        \/ i = 2 /\ j = "list" /\ Commands[j][i] = "sms_data_total"
        \/ i = 2 /\ j = "send" /\ Commands[j][i] = "SEND_SMS"
    BY <1>4, <2>1, JobCommands
  <2>3. QED
    BY <1>4, <2>2
<1>5. CASE j = "status"
  BY <1>5, JobCommands
<1>6. QED
  BY <1>1, <1>2, <1>3, <1>4, <1>5

-----------------------------------------------------------------------------
(* Types.  TypeOK is not inductive: it says nothing of the command that a   *)
(* process is at before it has its token.                                   *)

\* What a process at a says of its job j and its command s.
Sound(j, a, s) ==
    /\ j = "none" <=> a = "idle"
    /\ IF a \in {"RD", "POST"} THEN s \in 1 .. Len(Commands[j]) ELSE s = 1

Phases == {"idle", "lock", "loginfo", "LD", "LOGIN", "saved", "RD", "POST"}

\* What the device, the files and the lock hold.
Shared ==
    /\ firmware \in {"MF833", "MC801A"}
    /\ issued \in 0 .. MaxSession
    /\ session \in 0 .. issued /\ jar \in 0 .. issued /\ browser \in 0 .. issued
    /\ token \in Procs \cup {NoProc} /\ key \in Procs \cup {NoProc}
    /\ lock \in Procs \cup {NoProc}
    /\ radio \in [bearer : {"3g", "auto"}, online : BOOLEAN]

TypesInv ==
    /\ Shared
    /\ job \in [Procs -> Jobs \cup {"none"}] /\ at \in [Procs -> Phases]
    /\ step \in [Procs -> Nat] /\ cookie \in [Procs -> 0 .. issued]
    /\ aes \in [Procs -> BOOLEAN]
    /\ \A p \in Procs : Sound(job[p], at[p], step[p])

\* A process's job, phase, command, cookie and key are of their types.
Local(j, a, s, c, k, n) ==
    /\ j \in Jobs \cup {"none"}
    /\ a \in Phases
    /\ s \in Nat
    /\ Sound(j, a, s)
    /\ c \in 0 .. n
    /\ k \in BOOLEAN

\* The processes but p are where they were.
OthersStay(p) ==
    /\ job' = [job EXCEPT ![p] = job'[p]]
    /\ at' = [at EXCEPT ![p] = at'[p]]
    /\ step' = [step EXCEPT ![p] = step'[p]]
    /\ cookie' = [cookie EXCEPT ![p] = cookie'[p]]
    /\ aes' = [aes EXCEPT ![p] = aes'[p]]

\* A job that someone has is one of the six.
LEMMA JobKnown ==
    ASSUME TypesInv, NEW p \in Procs, at[p] # "idle"
    PROVE  job[p] \in DOMAIN Commands
BY JobsAssumption DEF TypesInv, Sound

\* What the histories hold.
Marks == unrestored \subseteq Aspects /\ doubtful \subseteq Procs

LEMMA TypesOK ==
    TypesInv /\ Marks => TypeOK
<1>1. ASSUME TypesInv, NEW p \in Procs, at[p] = "POST"
      PROVE  step[p] \in DOMAIN Commands[job[p]]
  <2>1. job[p] \in DOMAIN Commands
    BY <1>1, JobKnown
  <2>2. step[p] \in 1 .. Len(Commands[job[p]])
    BY <1>1 DEF TypesInv, Sound
  <2>3. QED
    BY <2>1, <2>2, CommandCounts
<1>2. QED
  BY <1>1 DEF TypesInv, TypeOK, Shared, Phases, Marks

\* A step of one process keeps the types if what it leaves has them.
LEMMA TypesMove ==
    ASSUME TypesInv, NEW p \in Procs, OthersStay(p), Shared', issued' >= issued,
           Local(job'[p], at'[p], step'[p], cookie'[p], aes'[p], issued')
    PROVE  TypesInv'
<1>1. issued \in Nat /\ issued' \in Nat
  BY BoundAssumption DEF TypesInv, Shared
<1>2. /\ job' \in [Procs -> Jobs \cup {"none"}] /\ at' \in [Procs -> Phases]
      /\ step' \in [Procs -> Nat]
      /\ aes' \in [Procs -> BOOLEAN]
  BY DEF Local, OthersStay, TypesInv
<1>3. cookie' \in [Procs -> 0 .. issued']
  BY <1>1 DEF Local, OthersStay, TypesInv
<1>4. ASSUME NEW q \in Procs
      PROVE  Sound(job'[q], at'[q], step'[q])
  <2>1. CASE q = p
    BY <2>1 DEF Local
  <2>2. CASE q # p
    <3>1. job'[q] = job[q] /\ at'[q] = at[q] /\ step'[q] = step[q]
      BY <2>2 DEF OthersStay, TypesInv
    <3>2. QED
      BY <3>1 DEF TypesInv
  <2>3. QED
    BY <2>1, <2>2
<1>5. QED
  BY <1>2, <1>3, <1>4 DEF TypesInv

-----------------------------------------------------------------------------
(* What the steps leave *)

\* A job that is over leaves nothing in its process.
LEMMA GoneLeaves ==
    ASSUME TypesInv, NEW p \in Procs, Gone(p)
    PROVE  /\ OthersStay(p)
           /\ Local(job'[p], at'[p], step'[p], cookie'[p], aes'[p], issued)
           /\ job'[p] = "none" /\ at'[p] = "idle" /\ step'[p] = 1 /\ aes'[p] = FALSE
<1>1. issued \in Nat
  BY BoundAssumption DEF TypesInv, Shared
<1>2. job'[p] = "none" /\ at'[p] = "idle" /\ step'[p] = 1 /\ cookie'[p] = 0
  BY DEF Gone, TypesInv
<1>3. aes'[p] = FALSE /\ aes' = [aes EXCEPT ![p] = aes'[p]]
  BY DEF Gone, TypesInv
<1>4. aes'[p] \in BOOLEAN
  BY <1>3
<1>5. Local(job'[p], at'[p], step'[p], cookie'[p], aes'[p], issued)
  BY <1>1, <1>2, <1>4 DEF Local, Sound, Phases
<1>6. OthersStay(p)
  BY <1>2, <1>3 DEF Gone, TypesInv, OthersStay
<1>7. QED
  BY <1>2, <1>3, <1>5, <1>6

\* After its login a process is done or asks for a token for its first command.
LEMMA SettledLeaves ==
    ASSUME TypesInv, NEW p \in Procs, at[p] \in {"loginfo", "saved"}, Settled(p)
    PROVE  /\ OthersStay(p)
           /\ Local(job'[p], at'[p], step'[p], cookie'[p], aes'[p], issued)
           /\ at'[p] \in {"idle", "RD"} /\ step'[p] = 1
           /\ at'[p] = "RD" => job'[p] = job[p]
           /\ aes'[p] \in {aes[p], FALSE} /\ doubtful' \in {doubtful, doubtful \ {p}}
           /\ lock' = NoProc
<1>1. issued \in Nat /\ step[p] = 1 /\ job[p] \in Jobs /\ job[p] \in DOMAIN Commands
  <2>1. Sound(job[p], at[p], step[p]) /\ job[p] \in Jobs \cup {"none"} /\ issued \in Nat
    BY BoundAssumption DEF TypesInv, Shared
  <2>2. step[p] = 1 /\ job[p] # "none"
    BY <2>1 DEF Sound
  <2>3. QED
    BY <2>1, <2>2, JobsAssumption
<1>2. CASE Commands[job[p]] = <<>>
  <2>1. Gone(p) /\ doubtful' = doubtful \ {p} /\ lock' = NoProc
    BY <1>2 DEF Settled, Done
  <2>2. QED
    BY <1>1, <2>1, GoneLeaves
<1>3. CASE Commands[job[p]] # <<>>
  <2>1. at' = [at EXCEPT ![p] = "RD"] /\ cookie' = [cookie EXCEPT ![p] = 0]
        /\ job' = job /\ step' = step /\ lock' = NoProc
        /\ aes' = aes /\ doubtful' = doubtful
    BY <1>3 DEF Settled
  <2>2. at'[p] = "RD" /\ job'[p] = job[p] /\ step'[p] = 1 /\ cookie'[p] = 0
    BY <1>1, <2>1 DEF TypesInv
  <2>7. aes'[p] \in BOOLEAN /\ aes'[p] = aes[p]
    BY <2>1 DEF TypesInv
  <2>3. 1 \in 1 .. Len(Commands[job[p]])
    BY <1>1, <1>3, CommandCounts
  <2>4. Local(job'[p], at'[p], step'[p], cookie'[p], aes'[p], issued)
    <3>1. Sound(job[p], "RD", 1)
      BY <1>1, <2>3, JobNames DEF Sound
    <3>2. QED
      BY <1>1, <2>2, <2>7, <3>1 DEF Local, Phases
  <2>5. OthersStay(p)
    BY <1>1, <2>1, <2>2 DEF TypesInv, OthersStay
  <2>6. QED
    BY <2>1, <2>2, <2>4, <2>5, <2>7
<1>4. QED
  BY <1>2, <1>3

\* On the way to its next command a process leaves all files alone.
LEMMA OnwardLeaves ==
    ASSUME TypesInv, NEW p \in Procs, at[p] \in {"RD", "POST"}, Onward(p),
           step[p] < Len(Commands[job[p]]),
           aes' = [aes EXCEPT ![p] = aes'[p]], aes'[p] \in BOOLEAN
    PROVE  /\ OthersStay(p)
           /\ Local(job'[p], at'[p], step'[p], cookie'[p], aes'[p], issued)
           /\ step[p] + 1 \in 1 .. Len(Commands[job[p]])
           /\ at'[p] = "RD" /\ job'[p] = job[p] /\ step'[p] = step[p] + 1
           /\ jar' = jar /\ lock' = lock /\ browser' = browser /\ issued' = issued
           /\ firmware' = firmware /\ token' = token /\ crossed' = crossed
<1>1. /\ issued \in Nat /\ job[p] \in Jobs /\ job[p] \in DOMAIN Commands
      /\ step[p] \in Nat /\ step[p] \in 1 .. Len(Commands[job[p]])
  BY BoundAssumption, JobKnown DEF TypesInv, Shared, Sound
<1>2. jar' = jar /\ lock' = lock /\ browser' = browser /\ issued' = issued
      /\ firmware' = firmware /\ token' = token /\ crossed' = crossed
  BY DEF Onward, JarAfter
<1>3. /\ step' = [step EXCEPT ![p] = step[p] + 1]
      /\ at' = [at EXCEPT ![p] = "RD"] /\ cookie' = [cookie EXCEPT ![p] = 0]
      /\ job' = job
  BY DEF Onward
<1>4. at'[p] = "RD" /\ job'[p] = job[p] /\ step'[p] = step[p] + 1 /\ cookie'[p] = 0
  BY <1>3 DEF TypesInv
<1>5. step[p] + 1 \in 1 .. Len(Commands[job[p]])
  BY <1>1, CommandCounts
<1>6. Local(job'[p], at'[p], step'[p], cookie'[p], aes'[p], issued)
  <2>1. Sound(job[p], "RD", step[p] + 1)
    BY <1>1, <1>5, JobNames DEF Sound
  <2>2. QED
    BY <1>1, <1>4, <2>1 DEF Local, Phases
<1>7. OthersStay(p)
  BY <1>3, <1>4 DEF TypesInv, OthersStay
<1>8. QED
  BY <1>2, <1>4, <1>5, <1>6, <1>7

LEMMA StartTypes ==
    ASSUME TypesInv, NEW p \in Procs, NEW j \in Jobs, Start(p, j)
    PROVE  TypesInv' /\ OthersStay(p)
<1>1. /\ issued \in Nat /\ at[p] = "idle" /\ step[p] = 1
      /\ UNCHANGED <<device, jar, lock, browser, step, cookie, aes>>
      /\ job' = [job EXCEPT ![p] = j] /\ at' = [at EXCEPT ![p] = "lock"]
  <2>1. /\ at[p] = "idle"
        /\ UNCHANGED <<device, jar, lock, browser, step, cookie, aes>>
        /\ job' = [job EXCEPT ![p] = j] /\ at' = [at EXCEPT ![p] = "lock"]
    BY DEF Start
  <2>2. Sound(job[p], at[p], step[p]) /\ issued \in Nat
    BY BoundAssumption DEF TypesInv, Shared
  <2>3. QED
    BY <2>1, <2>2 DEF Sound
<1>2. job'[p] = j /\ at'[p] = "lock" /\ step'[p] = 1 /\ aes'[p] = aes[p]
      /\ cookie'[p] = cookie[p]
  BY <1>1 DEF TypesInv
<1>3. OthersStay(p)
  BY <1>1, <1>2 DEF TypesInv, OthersStay
<1>4. j # "none"
  BY JobsAssumption, JobNames
<1>5. Local(job'[p], at'[p], step'[p], cookie'[p], aes'[p], issued')
  BY <1>1, <1>2, <1>4 DEF TypesInv, Local, Sound, Phases, device
<1>6. Shared' /\ issued' >= issued
  BY <1>1 DEF TypesInv, Shared, device
<1>7. QED
  BY <1>3, <1>5, <1>6, TypesMove

LEMMA LoginTypes ==
    ASSUME TypesInv, NEW p \in Procs,
           \/ TakeLock(p) \/ CheckPasses(p) \/ CheckFails(p)
           \/ Challenge(p) \/ Login(p) \/ LoginFails(p) \/ LoginSaved(p)
    PROVE  TypesInv' /\ OthersStay(p)
<1>1. issued \in Nat /\ MaxSession \in Nat /\ cookie[p] \in 0 .. issued
      /\ job[p] \in Jobs \cup {"none"} /\ aes[p] \in BOOLEAN
  BY BoundAssumption DEF TypesInv, Shared
<1>2. CASE TakeLock(p)
  <2>1. job'[p] = job[p] /\ at'[p] = "loginfo" /\ step'[p] = step[p] /\ aes'[p] = aes[p]
        /\ cookie'[p] = jar
    BY <1>2 DEF TypesInv, TakeLock
  <2>2. OthersStay(p)
    BY <1>2, <2>1 DEF TypesInv, OthersStay, TakeLock
  <2>3. Shared' /\ issued' = issued
    BY <1>2 DEF TypesInv, Shared, TakeLock, device
  <2>4. step[p] = 1 /\ job[p] # "none"
    BY <1>2 DEF TypesInv, Sound, TakeLock
  <2>5. Local(job'[p], at'[p], step'[p], cookie'[p], aes'[p], issued')
    BY <1>1, <2>1, <2>3, <2>4 DEF TypesInv, Local, Sound, Shared, Phases
  <2>6. QED
    BY <1>1, <2>2, <2>3, <2>5, TypesMove
<1>3. CASE CheckPasses(p) \/ LoginSaved(p)
  <2>1. Settled(p) /\ at[p] \in {"loginfo", "saved"} /\ jar' = JarAfter(p)
        /\ UNCHANGED <<device, browser>>
    BY <1>3 DEF CheckPasses, LoginSaved
  <2>2. OthersStay(p) /\ Local(job'[p], at'[p], step'[p], cookie'[p], aes'[p], issued)
        /\ lock' = NoProc
    BY <2>1, SettledLeaves
  <2>3. jar' \in 0 .. issued
    BY <1>1, <2>1 DEF TypesInv, Shared, JarAfter
  <2>4. Shared' /\ issued' = issued
    BY <2>1, <2>2, <2>3 DEF TypesInv, Shared, device
  <2>5. QED
    BY <1>1, <2>2, <2>4, TypesMove
<1>4. CASE CheckFails(p)
  <2>1. jar' = jar /\ job'[p] = job[p] /\ at'[p] = "LD" /\ step'[p] = step[p]
        /\ aes'[p] = aes[p] /\ cookie'[p] = jar
    BY <1>4 DEF TypesInv, CheckFails, JarAfter
  <2>2. OthersStay(p)
    BY <1>4, <2>1 DEF TypesInv, OthersStay, CheckFails
  <2>3. Shared' /\ issued' = issued
    BY <1>4, <2>1 DEF TypesInv, Shared, CheckFails, device
  <2>4. step[p] = 1 /\ job[p] # "none"
    BY <1>4 DEF TypesInv, Sound, CheckFails
  <2>5. Local(job'[p], at'[p], step'[p], cookie'[p], aes'[p], issued')
    BY <1>1, <2>1, <2>3, <2>4 DEF TypesInv, Local, Sound, Shared, Phases
  <2>6. QED
    BY <1>1, <2>2, <2>3, <2>5, TypesMove
<1>5. CASE Challenge(p) \/ LoginFails(p)
  <2>1. /\ at[p] \in {"LD", "LOGIN"} /\ jar' \in {jar, cookie[p]}
        /\ job'[p] = job[p] /\ at'[p] \in {"LOGIN", "saved"} /\ step'[p] = step[p]
        /\ aes'[p] = aes[p] /\ cookie'[p] = cookie[p]
    BY <1>5 DEF TypesInv, Challenge, LoginFails, JarAfter
  <2>2. OthersStay(p)
    BY <1>5, <2>1 DEF TypesInv, OthersStay, Challenge, LoginFails
  <2>3. UNCHANGED <<device, lock, browser>>
    BY <1>5 DEF Challenge, LoginFails
  <2>4. Shared' /\ issued' = issued
    BY <1>1, <2>1, <2>3 DEF TypesInv, Shared, device
  <2>5. step[p] = 1 /\ job[p] # "none"
    BY <2>1 DEF TypesInv, Sound
  <2>6. Local(job'[p], at'[p], step'[p], cookie'[p], aes'[p], issued')
    BY <1>1, <2>1, <2>4, <2>5 DEF Local, Sound, Phases
  <2>7. QED
    BY <1>1, <2>2, <2>4, <2>6, TypesMove
<1>6. CASE Login(p)
  <2>1. /\ issued < MaxSession /\ issued' = issued + 1 /\ session' = issued'
        /\ key' = NoProc /\ token' = NoProc
        /\ UNCHANGED <<firmware, radio, jar, lock, browser>>
    BY <1>6 DEF Login, NewSession
  <2>2. job'[p] = job[p] /\ at'[p] = "saved" /\ step'[p] = step[p] /\ aes'[p] = aes[p]
        /\ cookie'[p] \in {cookie[p], issued'}
    BY <1>6 DEF TypesInv, Login
  <2>3. OthersStay(p)
    BY <1>6, <2>2 DEF TypesInv, OthersStay, Login
  <2>4. Shared' /\ issued' >= issued /\ issued' \in Nat
    BY <1>1, <2>1 DEF TypesInv, Shared
  <2>5. step[p] = 1 /\ job[p] # "none"
    BY <1>6 DEF TypesInv, Sound, Login
  <2>6. Local(job'[p], at'[p], step'[p], cookie'[p], aes'[p], issued')
    BY <1>1, <2>2, <2>4, <2>5 DEF Local, Sound, Phases
  <2>7. QED
    BY <2>3, <2>4, <2>6, TypesMove
<1>7. QED
  BY <1>2, <1>3, <1>4, <1>5, <1>6

\* p's call is over: obeyed or not, answered or not.
Answered(p) ==
    \/ Fails(p) \/ SetRadio(p) \/ Handshake(p) \/ HandshakeFails(p) \/ NoCertificate(p)
    \/ ExchangeSms(p) \/ DeleteSms(p) \/ Reboot(p)

\* What a process that is at a command is about.
LEMMA AtCommand ==
    ASSUME TypesInv, NEW p \in Procs, at[p] \in {"RD", "POST"}
    PROVE  /\ job[p] \in DOMAIN Commands /\ step[p] \in 1 .. Len(Commands[job[p]])
           /\ Command(p) = Commands[job[p]][step[p]]
BY JobKnown DEF TypesInv, Sound, Command

\* A handshake is the first command of two, a reboot the only one of its job.
LEMMA AtHandshakeOrReboot ==
    ASSUME TypesInv, NEW p \in Procs, at[p] \in {"RD", "POST"}
    PROVE  /\ Command(p) = "web_http_enstr_set" =>
                 job[p] \in {"list", "send"} /\ step[p] = 1 /\ Len(Commands[job[p]]) = 2
           /\ Command(p) = "REBOOT_DEVICE" =>
                 job[p] = "reboot" /\ step[p] = 1 /\ Len(Commands[job[p]]) = 1
<1>1. /\ job[p] \in DOMAIN Commands /\ step[p] \in 1 .. Len(Commands[job[p]])
      /\ Command(p) = Commands[job[p]][step[p]]
  BY AtCommand
<1>2. ASSUME Command(p) = "web_http_enstr_set"
      PROVE  job[p] \in {"list", "send"} /\ step[p] = 1 /\ Len(Commands[job[p]]) = 2
  <2>1. job[p] \in {"list", "send"} /\ step[p] = 1
    <3>1. Commands[job[p]][step[p]] = "web_http_enstr_set"
      BY <1>1, <1>2
    <3>2. QED
      BY <1>1, <3>1, CommandPlaces
  <2>2. QED
    BY <1>1, <2>1, CommandCounts
<1>3. ASSUME Command(p) = "REBOOT_DEVICE"
      PROVE  job[p] = "reboot" /\ step[p] = 1 /\ Len(Commands[job[p]]) = 1
  <2>1. job[p] = "reboot"
    <3>1. Commands[job[p]][step[p]] = "REBOOT_DEVICE"
      BY <1>1, <1>3
    <3>2. QED
      BY <1>1, <3>1, CommandPlaces
  <2>2. Len(Commands[job[p]]) = 1
    BY <1>1, <2>1, CommandCounts
  <2>3. step[p] = 1
    BY <1>1, <2>2
  <2>4. QED
    BY <2>1, <2>2, <2>3
<1>4. QED
  BY <1>2, <1>3

\* How a call ends for the job: a handshake is followed by its message, a reboot is
\* the last of its job, anything else advances.
LEMMA AnsweredHow ==
    ASSUME TypesInv, NEW p \in Procs, Answered(p)
    PROVE  /\ at[p] \in {"RD", "POST"}
           /\ \/ Advance(p)
              \/ /\ Onward(p) /\ Command(p) = "web_http_enstr_set"
                 /\ aes' = [aes EXCEPT ![p] = aes'[p]] /\ aes'[p] \in BOOLEAN
              \/ /\ Gone(p) /\ Command(p) = "REBOOT_DEVICE" /\ jar' = JarAfter(p)
                 /\ UNCHANGED <<firmware, issued, token, lock, browser, crossed>>
<1>1. CASE Fails(p) \/ SetRadio(p) \/ ExchangeSms(p) \/ DeleteSms(p)
  BY <1>1 DEF Fails, SetRadio, ExchangeSms, DeleteSms, Accepted
<1>2. CASE Handshake(p) \/ HandshakeFails(p) \/ NoCertificate(p)
  <2>1. aes' = aes \/ aes' = [aes EXCEPT ![p] = TRUE]
    BY <1>2 DEF Handshake, HandshakeFails, NoCertificate
  <2>2. aes' = [aes EXCEPT ![p] = aes'[p]] /\ aes'[p] \in BOOLEAN
    BY <2>1 DEF TypesInv
  <2>3. QED
    BY <1>2, <2>2 DEF Handshake, HandshakeFails, NoCertificate, Accepted
<1>3. CASE Reboot(p)
  BY <1>3 DEF Reboot, Accepted
<1>4. QED
  BY <1>1, <1>2, <1>3 DEF Answered

\* Whatever comes of a call, the files are left alone, and the process is done or at
\* its next command.
LEMMA AnsweredLeaves ==
    ASSUME TypesInv, NEW p \in Procs, Answered(p)
    PROVE  /\ at[p] \in {"RD", "POST"} /\ OthersStay(p)
           /\ Local(job'[p], at'[p], step'[p], cookie'[p], aes'[p], issued)
           /\ \/ /\ step[p] = Len(Commands[job[p]])
                 /\ at'[p] = "idle" /\ job'[p] = "none" /\ step'[p] = 1 /\ aes'[p] = FALSE
              \/ /\ step[p] + 1 \in 1 .. Len(Commands[job[p]])
                 /\ at'[p] = "RD" /\ job'[p] = job[p] /\ step'[p] = step[p] + 1
           /\ jar' = jar /\ lock' = lock /\ browser' = browser /\ issued' = issued
           /\ firmware' = firmware /\ token' = token /\ crossed' = crossed
<1>1. at[p] \in {"RD", "POST"}
  BY AnsweredHow
<1>2. JarAfter(p) = jar
  BY <1>1 DEF JarAfter
<1>3. CASE Onward(p) /\ step[p] < Len(Commands[job[p]])
           /\ aes' = [aes EXCEPT ![p] = aes'[p]] /\ aes'[p] \in BOOLEAN
  BY <1>1, <1>3, OnwardLeaves
<1>4. CASE Gone(p) /\ step[p] = Len(Commands[job[p]]) /\ jar' = JarAfter(p)
           /\ UNCHANGED <<firmware, issued, token, lock, browser, crossed>>
  BY <1>1, <1>2, <1>4, GoneLeaves
<1>5. CASE Advance(p)
  <2>1. CASE Onward(p) /\ step[p] < Len(Commands[job[p]]) /\ aes' = aes
    <3>1. aes' = [aes EXCEPT ![p] = aes'[p]] /\ aes'[p] \in BOOLEAN
      BY <2>1 DEF TypesInv
    <3>2. QED
      BY <1>3, <2>1, <3>1
  <2>2. CASE ~(Onward(p) /\ step[p] < Len(Commands[job[p]]) /\ aes' = aes)
    <3>1. Gone(p) /\ step[p] = Len(Commands[job[p]]) /\ jar' = JarAfter(p)
          /\ UNCHANGED <<firmware, issued, token, lock, browser, crossed>>
      BY <1>5, <2>2 DEF Advance, Done
    <3>2. QED
      BY <1>4, <3>1
  <2>3. QED
    BY <2>1, <2>2
<1>6. CASE Onward(p) /\ Command(p) = "web_http_enstr_set"
           /\ aes' = [aes EXCEPT ![p] = aes'[p]] /\ aes'[p] \in BOOLEAN
  <2>1. step[p] < Len(Commands[job[p]])
    <3>1. step[p] = 1 /\ Len(Commands[job[p]]) = 2
      BY <1>1, <1>6, AtHandshakeOrReboot
    <3>2. QED
      BY <3>1
  <2>2. QED
    BY <1>3, <1>6, <2>1
<1>7. CASE Gone(p) /\ Command(p) = "REBOOT_DEVICE" /\ jar' = JarAfter(p)
           /\ UNCHANGED <<firmware, issued, token, lock, browser, crossed>>
  <2>1. step[p] = Len(Commands[job[p]])
    BY <1>1, <1>7, AtHandshakeOrReboot
  <2>2. QED
    BY <1>4, <1>7, <2>1
<1>8. QED
  BY <1>5, <1>6, <1>7, AnsweredHow

LEMMA CommandTypes ==
    ASSUME TypesInv, NEW p \in Procs, TakeToken(p) \/ Answered(p) \/ Crash(p)
    PROVE  TypesInv' /\ OthersStay(p)
<1>1. issued \in Nat /\ job[p] \in Jobs \cup {"none"} /\ aes[p] \in BOOLEAN
      /\ issued \in 0 .. MaxSession
  BY BoundAssumption DEF TypesInv, Shared
<1>2. CASE TakeToken(p)
  <2>1. job'[p] = job[p] /\ at'[p] = "POST" /\ step'[p] = step[p] /\ aes'[p] = aes[p]
        /\ cookie'[p] = jar /\ at[p] = "RD"
    BY <1>2 DEF TypesInv, TakeToken
  <2>2. OthersStay(p)
    BY <1>2, <2>1 DEF TypesInv, OthersStay, TakeToken
  <2>3. Shared' /\ issued' = issued
    BY <1>2 DEF TypesInv, Shared, TakeToken
  <2>4. Sound(job[p], "POST", step[p]) /\ step[p] \in Nat /\ jar \in 0 .. issued
    BY <2>1 DEF TypesInv, Sound, Shared
  <2>5. Local(job'[p], at'[p], step'[p], cookie'[p], aes'[p], issued')
    BY <1>1, <2>1, <2>3, <2>4 DEF Local, Phases
  <2>6. QED
    BY <1>1, <2>2, <2>3, <2>5, TypesMove
<1>3. CASE Answered(p)
  <2>1. issued' = issued /\ firmware' = firmware /\ token' = token /\ lock' = lock
        /\ jar' = jar /\ browser' = browser
    BY <1>3, AnsweredLeaves
  <2>2. OthersStay(p) /\ Local(job'[p], at'[p], step'[p], cookie'[p], aes'[p], issued)
    BY <1>3, AnsweredLeaves
  <2>3. session' \in {session, 0} /\ key' \in {key, p, NoProc}
    BY <1>3 DEF Answered, Fails, SetRadio, Handshake, HandshakeFails, NoCertificate,
                ExchangeSms, DeleteSms, Reboot
  <2>4. radio' \in [bearer : {"3g", "auto"}, online : BOOLEAN]
    <3>1. radio.bearer \in {"3g", "auto"} /\ radio.online \in BOOLEAN
      BY DEF TypesInv, Shared
    <3>2. CASE SetRadio(p)
      BY <3>1, <3>2 DEF SetRadio
    <3>3. CASE ~SetRadio(p)
      <4>1. radio' = radio
        BY <1>3, <3>3 DEF Answered, Fails, Handshake, HandshakeFails, NoCertificate,
                          ExchangeSms, DeleteSms, Reboot
      <4>2. QED
        BY <4>1 DEF TypesInv, Shared
    <3>4. QED
      BY <3>2, <3>3
  <2>5. Shared'
    BY <1>1, <2>1, <2>3, <2>4 DEF TypesInv, Shared
  <2>6. QED
    BY <1>1, <2>1, <2>2, <2>5, TypesMove
<1>4. CASE Crash(p)
  <2>1. Gone(p) /\ lock' \in {lock, NoProc} /\ UNCHANGED <<device, jar, browser>>
    BY <1>4 DEF Crash, Done
  <2>3. OthersStay(p) /\ Local(job'[p], at'[p], step'[p], cookie'[p], aes'[p], issued)
    BY <2>1, GoneLeaves
  <2>4. Shared' /\ issued' = issued
    BY <2>1 DEF TypesInv, Shared, device
  <2>5. QED
    BY <1>1, <2>3, <2>4, TypesMove
<1>5. QED
  BY <1>2, <1>3, <1>4

LEMMA WorldTypes ==
    ASSUME TypesInv, BrowserLogin \/ Adopt \/ NotAdopted \/ Expire
    PROVE  TypesInv'
<1>1. issued \in Nat /\ MaxSession \in Nat /\ issued' \in {issued, issued + 1}
  BY BoundAssumption
     DEF TypesInv, Shared, BrowserLogin, NewSession, Adopt, NotAdopted, Expire, device
<1>2. UNCHANGED local
  BY DEF BrowserLogin, Adopt, NotAdopted, Expire
<1>3. Shared'
  <2>1. CASE BrowserLogin
    BY <1>1, <2>1 DEF TypesInv, Shared, BrowserLogin, NewSession
  <2>2. CASE Adopt
    BY <1>1, <2>2 DEF TypesInv, Shared, Adopt, device
  <2>3. CASE NotAdopted
    BY <1>1, <2>3 DEF TypesInv, Shared, NotAdopted, device
  <2>4. CASE Expire
    BY <1>1, <2>4 DEF TypesInv, Shared, Expire
  <2>5. QED
    BY <2>1, <2>2, <2>3, <2>4
<1>4. cookie \in [Procs -> 0 .. issued']
  BY <1>1 DEF TypesInv
<1>5. QED
  BY <1>2, <1>3, <1>4 DEF TypesInv, local

\* Steps by their groups; a stuttering step is none of them.
LEMMA Steps ==
    ASSUME Next
    PROVE  \/ \E p \in Procs, j \in Jobs : Start(p, j)
           \/ \E p \in Procs :
                 \/ TakeLock(p) \/ CheckPasses(p) \/ CheckFails(p)
                 \/ Challenge(p) \/ Login(p) \/ LoginFails(p) \/ LoginSaved(p)
           \/ \E p \in Procs : TakeToken(p) \/ Answered(p) \/ Crash(p)
           \/ BrowserLogin \/ Adopt \/ NotAdopted \/ Expire
BY DEF Next, Step, Answered

LEMMA TypesStep ==
    TypesInv /\ [Next]_vars => TypesInv'
<1>1. ASSUME TypesInv, UNCHANGED vars
      PROVE  TypesInv'
  <2>1. UNCHANGED <<firmware, session, issued, token, key, radio, jar, lock, browser,
                    job, at, step, cookie, aes>>
    BY <1>1 DEF vars, device, local
  <2>2. QED
    BY <1>1, <2>1 DEF TypesInv, Shared
<1>2. ASSUME TypesInv, Next
      PROVE  TypesInv'
  BY <1>2, Steps, StartTypes, LoginTypes, CommandTypes, WorldTypes
<1>3. QED
  BY <1>1, <1>2

\* The radio has two aspects, and only processes doubt their keys.
LEMMA MarksStep ==
    TypesInv /\ Marks /\ [Next]_vars => Marks'
<1>1. ASSUME Marks, UNCHANGED vars
      PROVE  Marks'
  BY <1>1 DEF Marks, vars, history
<1>2. ASSUME Marks, NEW p \in Procs, NEW j \in Jobs, Start(p, j)
      PROVE  Marks'
  BY <1>2 DEF Marks, Start, history
<1>3. ASSUME TypesInv, Marks, NEW p \in Procs,
             \/ TakeLock(p) \/ CheckPasses(p) \/ CheckFails(p)
             \/ Challenge(p) \/ Login(p) \/ LoginFails(p) \/ LoginSaved(p)
      PROVE  Marks'
  <2>1. CASE CheckPasses(p) \/ LoginSaved(p)
    <3>1. doubtful' \in {doubtful, doubtful \ {p}}
      BY <1>3, <2>1, SettledLeaves DEF CheckPasses, LoginSaved
    <3>2. QED
      BY <1>3, <2>1, <3>1 DEF Marks, CheckPasses, LoginSaved
  <2>2. CASE Login(p)
    BY <1>3, <2>2 DEF Marks, Login, NewSession, KeysLost
  <2>3. CASE TakeLock(p) \/ CheckFails(p) \/ Challenge(p) \/ LoginFails(p)
    BY <1>3, <2>3 DEF Marks, TakeLock, CheckFails, Challenge, LoginFails, history
  <2>4. QED
    BY <1>3, <2>1, <2>2, <2>3
<1>4. ASSUME Marks, NEW p \in Procs, TakeToken(p) \/ Answered(p) \/ Crash(p)
      PROVE  Marks'
  <2>1. CASE TakeToken(p)
    BY <1>4, <2>1 DEF Marks, TakeToken, history
  <2>2. CASE Crash(p)
    BY <1>4, <2>2 DEF Marks, Crash, Done, Owed
  <2>3. CASE Fails(p) \/ SetRadio(p) \/ ExchangeSms(p) \/ DeleteSms(p)
    <3>1. doubtful' \in {doubtful, doubtful \ {p}}
      BY <2>3 DEF Fails, SetRadio, ExchangeSms, DeleteSms, Advance, Done
    <3>2. unrestored' \subseteq Aspects
      BY <1>4, <2>3 DEF Marks, Fails, SetRadio, ExchangeSms, DeleteSms
    <3>3. QED
      BY <1>4, <3>1, <3>2 DEF Marks
  <2>4. CASE Handshake(p) \/ HandshakeFails(p) \/ NoCertificate(p)
    BY <1>4, <2>4 DEF Marks, Handshake, HandshakeFails, NoCertificate
  <2>5. CASE Reboot(p)
    BY <1>4, <2>5 DEF Marks, Reboot, KeysLost
  <2>6. QED
    BY <1>4, <2>1, <2>2, <2>3, <2>4, <2>5 DEF Answered
<1>5. ASSUME Marks, BrowserLogin \/ Adopt \/ NotAdopted \/ Expire
      PROVE  Marks'
  BY <1>5 DEF Marks, BrowserLogin, NewSession, KeysLost, Adopt, NotAdopted, Expire, history
<1>6. QED
  BY <1>1, <1>2, <1>3, <1>4, <1>5, Steps

LEMMA TypesInit ==
    Init => TypesInv
<1>1. ASSUME Init
      PROVE  Shared
  BY <1>1, BoundAssumption DEF Init, Shared, Up
<1>2. ASSUME Init, NEW p \in Procs
      PROVE  Sound(job[p], at[p], step[p])
  BY <1>2 DEF Init, Sound
<1>3. ASSUME Init
      PROVE  /\ job \in [Procs -> Jobs \cup {"none"}] /\ at \in [Procs -> Phases]
             /\ step \in [Procs -> Nat] /\ cookie \in [Procs -> 0 .. issued]
             /\ aes \in [Procs -> BOOLEAN]
  BY <1>3 DEF Init, Phases
<1>4. QED
  BY <1>1, <1>2, <1>3 DEF TypesInv

\* The device, the jar, the lock and the processes keep to their types, a command
\* that waits for an answer is one of its job's, and no session is in use that the
\* device never issued.
THEOREM SessionTypes == Spec => []TypeOK
<1>1. Init => TypesInv /\ Marks
  BY TypesInit DEF Init, Marks
<1>2. TypesInv /\ Marks /\ [Next]_vars => TypesInv' /\ Marks'
  BY TypesStep, MarksStep
<1>3. TypesInv /\ Marks => TypeOK
  BY TypesOK
<1>4. QED
  BY <1>1, <1>2, <1>3, PTL DEF Spec

-----------------------------------------------------------------------------
(* The lock and the jar.  At most one process is between taking the lock and *)
(* leaving it.  As long as nothing crossed its check, what it read from the  *)
(* jar is what the jar still holds, and not the device's session.            *)

LoggingIn == {"loginfo", "LD", "LOGIN", "saved"}

\* p, at a with the cookie c, while the jar, the session and crossed are these.
Checked(a, c, j, s, x) ==
    ~x =>
        /\ a \in {"loginfo", "LD", "LOGIN"} => c = j
        /\ a \in {"LD", "LOGIN"} => s = 0 \/ c # s

JarInv ==
    /\ \A p \in Procs : at[p] \in LoggingIn => lock = p
    /\ \A p \in Procs : Checked(at[p], cookie[p], jar, session, crossed)

SessionInv == TypesInv /\ JarInv

\* A step of p keeps JarInv if no other process is at its login, or the jar and
\* the session are untouched.
LEMMA JarMove ==
    ASSUME TypesInv, JarInv, NEW p \in Procs, OthersStay(p),
           at'[p] \in LoggingIn => lock' = p,
           Checked(at'[p], cookie'[p], jar', session', crossed'),
           \/ lock = p \/ lock = NoProc
           \/ /\ lock' = lock /\ jar' = jar /\ crossed' = crossed
              /\ session' \in {session, 0}
    PROVE  JarInv'
<1>1. ASSUME NEW q \in Procs, q # p
      PROVE  /\ at'[q] \in LoggingIn => lock' = q
             /\ Checked(at'[q], cookie'[q], jar', session', crossed')
  <2>1. at'[q] = at[q] /\ cookie'[q] = cookie[q]
    BY <1>1 DEF TypesInv, OthersStay
  <2>2. CASE lock = p \/ lock = NoProc
    <3>1. at[q] \notin LoggingIn
      BY <1>1, <2>2, ProcsAssumption DEF JarInv
    <3>2. QED
      BY <2>1, <3>1 DEF Checked, LoggingIn
  <2>3. CASE /\ lock' = lock /\ jar' = jar /\ crossed' = crossed
             /\ session' \in {session, 0}
    BY <2>1, <2>3 DEF JarInv, Checked
  <2>4. QED
    BY <2>2, <2>3
<1>2. QED
  BY <1>1 DEF JarInv

LEMMA JarLogin ==
    ASSUME TypesInv, JarInv, NEW p \in Procs,
           \/ TakeLock(p) \/ CheckPasses(p) \/ CheckFails(p)
           \/ Challenge(p) \/ Login(p) \/ LoginFails(p) \/ LoginSaved(p)
    PROVE  JarInv'
<1>1. OthersStay(p)
  BY LoginTypes
<1>2. at[p] \in LoggingIn => lock = p
  BY DEF JarInv
<1>3. Checked(at[p], cookie[p], jar, session, crossed)
  BY DEF JarInv
<1>4. CASE TakeLock(p)
  <2>1. lock = NoProc /\ lock' = p /\ at'[p] = "loginfo" /\ cookie'[p] = jar /\ jar' = jar
    BY <1>4 DEF TypesInv, TakeLock
  <2>2. Checked(at'[p], cookie'[p], jar', session', crossed')
    BY <2>1 DEF Checked
  <2>3. QED
    BY <1>1, <2>1, <2>2, JarMove
<1>5. CASE CheckPasses(p) \/ LoginSaved(p)
  <2>1. Settled(p) /\ at[p] \in {"loginfo", "saved"}
    BY <1>5 DEF CheckPasses, LoginSaved
  <2>2. at'[p] \in {"idle", "RD"}
    BY <2>1, SettledLeaves
  <2>3. QED
    BY <1>1, <1>2, <2>1, <2>2, JarMove DEF LoggingIn, Checked
<1>6. CASE CheckFails(p)
  <2>1. /\ at[p] = "loginfo" /\ jar' = jar /\ lock' = lock /\ session' = session
        /\ crossed' = (crossed \/ Current(p))
        /\ at'[p] = "LD" /\ cookie'[p] = jar
    BY <1>6 DEF TypesInv, CheckFails, JarAfter, device
  <2>2. Checked(at'[p], cookie'[p], jar', session', crossed')
    BY <1>3, <2>1 DEF Checked, Current
  <2>3. QED
    BY <1>1, <1>2, <2>1, <2>2, JarMove DEF LoggingIn
<1>7. CASE Challenge(p)
  <2>1. /\ at[p] = "LD" /\ jar' = cookie[p] /\ lock' = lock /\ session' = session
        /\ crossed' = crossed /\ at'[p] = "LOGIN" /\ cookie'[p] = cookie[p]
    BY <1>7 DEF TypesInv, Challenge, JarAfter, device, history
  <2>2. Checked(at'[p], cookie'[p], jar', session', crossed')
    BY <1>3, <2>1 DEF Checked
  <2>3. QED
    BY <1>1, <1>2, <2>1, <2>2, JarMove DEF LoggingIn
<1>8. CASE Login(p) \/ LoginFails(p)
  <2>1. at[p] = "LOGIN" /\ at'[p] = "saved" /\ lock' = lock
    BY <1>8 DEF TypesInv, Login, LoginFails
  <2>2. QED
    BY <1>1, <1>2, <2>1, JarMove DEF LoggingIn, Checked
<1>9. QED
  BY <1>4, <1>5, <1>6, <1>7, <1>8

LEMMA JarElse ==
    ASSUME TypesInv, JarInv, NEW p \in Procs,
           \/ \E j \in Jobs : Start(p, j)
           \/ TakeToken(p) \/ Answered(p) \/ Crash(p)
    PROVE  JarInv'
<1>1. OthersStay(p)
  BY StartTypes, CommandTypes
<1>2. jar' = jar /\ crossed' = crossed /\ session' \in {session, 0}
      /\ at'[p] \notin LoggingIn /\ (lock' = lock \/ lock = p)
  <2>1. CASE \E j \in Jobs : Start(p, j)
    <3>1. /\ at' = [at EXCEPT ![p] = "lock"]
          /\ UNCHANGED <<device, jar, lock, crossed>>
      BY <2>1 DEF Start, history
    <3>2. QED
      BY <3>1 DEF TypesInv, LoggingIn, device
  <2>2. CASE TakeToken(p)
    BY <2>2 DEF TakeToken, TypesInv, LoggingIn, history
  <2>3. CASE Answered(p)
    <3>1. session' \in {session, 0}
      BY <2>3 DEF Answered, Fails, SetRadio, Handshake, HandshakeFails, NoCertificate,
                  ExchangeSms, DeleteSms, Reboot
    <3>2. /\ jar' = jar /\ lock' = lock /\ crossed' = crossed /\ at'[p] \in {"idle", "RD"}
      BY <2>3, AnsweredLeaves
    <3>3. QED
      BY <3>1, <3>2 DEF LoggingIn
  <2>4. CASE Crash(p)
    BY <2>4 DEF Crash, Done, Gone, TypesInv, LoggingIn, device
  <2>5. QED
    BY <2>1, <2>2, <2>3, <2>4
<1>3. QED
  BY <1>1, <1>2, JarMove DEF Checked, LoggingIn

LEMMA JarStep ==
    SessionInv /\ [Next]_vars => SessionInv'
<1>1. ASSUME TypesInv, JarInv, UNCHANGED vars
      PROVE  JarInv'
  BY <1>1 DEF JarInv, vars, device, local, history
<1>2. ASSUME TypesInv, JarInv, BrowserLogin \/ Adopt \/ NotAdopted \/ Expire
      PROVE  JarInv'
  <2>1. at' = at /\ cookie' = cookie /\ lock' = lock
    BY <1>2 DEF BrowserLogin, Adopt, NotAdopted, Expire, local
  <2>2. \/ crossed' = (lock # NoProc)
        \/ jar' = jar /\ crossed' = crossed /\ session' \in {session, 0}
    BY <1>2 DEF BrowserLogin, Adopt, NotAdopted, Expire, device, history
  <2>3. ASSUME NEW q \in Procs
        PROVE  Checked(at'[q], cookie'[q], jar', session', crossed')
    <3>1. CASE at[q] \in LoggingIn
      <4>1. lock # NoProc
        BY <1>2, <3>1, ProcsAssumption DEF JarInv
      <4>2. CASE crossed' = (lock # NoProc)
        <5>1. crossed'
          BY <4>1, <4>2
        <5>2. QED
          BY <5>1 DEF Checked
      <4>3. CASE jar' = jar /\ crossed' = crossed /\ session' \in {session, 0}
        BY <1>2, <2>1, <4>3 DEF JarInv, Checked
      <4>4. QED
        BY <2>2, <4>2, <4>3
    <3>2. CASE at[q] \notin LoggingIn
      BY <2>1, <3>2 DEF Checked, LoggingIn
    <3>3. QED
      BY <3>1, <3>2
  <2>4. QED
    BY <1>2, <2>1, <2>3 DEF JarInv
<1>3. ASSUME TypesInv, JarInv, Next
      PROVE  JarInv'
  BY <1>2, <1>3, Steps, JarLogin, JarElse
<1>4. QED
  BY <1>1, <1>3, TypesStep DEF SessionInv

LEMMA SessionInit ==
    Init => SessionInv
<1>1. ASSUME Init
      PROVE  JarInv
  BY <1>1 DEF Init, JarInv, LoggingIn, Checked
<1>2. QED
  BY <1>1, TypesInit DEF SessionInv

LEMMA SessionHolds == Spec => []SessionInv
BY SessionInit, JarStep, PTL DEF Spec

\* The jar goes back to an older session only under the lock of a login, or when
\* a login of the browser is adopted late: the rewriting of the jar at the end of
\* any other call never takes it back.
THEOREM SlowCallsThm == Spec => SlowCallsKeepJar
<1>1. ASSUME SessionInv, [Next]_vars
      PROVE  jar' < jar => lock # NoProc \/ browser # 0
  <2>1. TypesInv /\ JarInv
    BY <1>1 DEF SessionInv
  <2>2. jar \in Nat
    BY <2>1, BoundAssumption DEF TypesInv, Shared
  <2>3. CASE jar' = jar
    BY <2>2, <2>3
  <2>4. CASE jar' # jar
    <3>1. Adopt \/ \E p \in Procs : at[p] \in LoggingIn
      <4>1. Next
        BY <1>1, <2>4 DEF vars
      <4>2. CASE \E p \in Procs :
                    \/ TakeLock(p) \/ CheckPasses(p) \/ CheckFails(p)
                    \/ Challenge(p) \/ Login(p) \/ LoginFails(p) \/ LoginSaved(p)
        <5>1. PICK p \in Procs :
                    \/ TakeLock(p) \/ CheckPasses(p) \/ CheckFails(p)
                    \/ Challenge(p) \/ Login(p) \/ LoginFails(p) \/ LoginSaved(p)
          BY <4>2
        <5>2. ~TakeLock(p)
          BY <2>4 DEF TakeLock
        <5>3. at[p] \in LoggingIn
          BY <5>1, <5>2
             DEF CheckPasses, CheckFails, Challenge, Login, LoginFails, LoginSaved, LoggingIn
        <5>4. QED
          BY <5>3
      <4>3. CASE \E p \in Procs : TakeToken(p) \/ Answered(p) \/ Crash(p)
        BY <2>1, <2>4, <4>3, AnsweredLeaves DEF TakeToken, Crash
      <4>4. CASE \E p \in Procs, j \in Jobs : Start(p, j)
        BY <2>4, <4>4 DEF Start
      <4>5. CASE BrowserLogin \/ NotAdopted \/ Expire
        BY <2>4, <4>5 DEF BrowserLogin, NotAdopted, Expire
      <4>6. QED
        BY <4>1, <4>2, <4>3, <4>4, <4>5, Steps
    <3>2. CASE Adopt
      BY <3>2 DEF Adopt
    <3>3. CASE \E p \in Procs : at[p] \in LoggingIn
      BY <2>1, <3>3, ProcsAssumption DEF JarInv
    <3>4. QED
      BY <3>1, <3>2, <3>3
  <2>5. QED
    BY <2>3, <2>4
<1>2. QED
  BY <1>1, SessionHolds, PTL DEF Spec, SlowCallsKeepJar

\* As long as the check got its answer and the browser did not log in meanwhile,
\* no login of a process ends a session that the jar holds: two processes never
\* log in one after the other because each believes the session lost.
THEOREM LoginsNotWastedThm == Spec => LoginsNotWasted
<1>1. ASSUME SessionInv, [Next]_vars, NEW p \in Procs,
             at[p] = "LOGIN", session # 0, jar = session
      PROVE  crossed
  BY <1>1 DEF SessionInv, JarInv, Checked
<1>2. ASSUME SessionInv, [Next]_vars
      PROVE  \A p \in Procs :
                at[p] = "LOGIN" /\ session' # session /\ browser' = browser
                /\ session # 0 /\ jar = session => crossed
  BY <1>1, <1>2
<1>3. QED
  BY <1>2, SessionHolds, PTL DEF Spec, LoginsNotWasted

-----------------------------------------------------------------------------
(* The key of an exchange.  A process that has a key is between its          *)
(* handshake and its message or listing, and its key is still the session's  *)
(* unless it is in doubt; one that has none is in doubt, or talks to a       *)
(* device without the scheme, whose sessions have no key.                    *)

SmsJobs == {"list", "send"}

\* p, at phase a of command s of the job j, has a key or not (k); the session has
\* the key own.
Keyed(p, j, a, s, k, own, doubt, kind) ==
    /\ k => j \in SmsJobs /\ s = 2 /\ (p \in doubt \/ own = p)
    /\ j \in SmsJobs /\ s = 2 => p \in doubt \/ (k <=> kind = "MF833")
    /\ j \in SmsJobs /\ s = 1 /\ a = "POST" => kind = "MF833"

KeyInv ==
    /\ firmware = "MC801A" => key = NoProc
    /\ \A p \in Procs :
          Keyed(p, job[p], at[p], step[p], aes[p], key, doubtful, firmware)

SmsInv == TypesInv /\ KeyInv

\* Who else has a key keeps it, or is in doubt.
KeysStay(p) ==
    \A q \in Procs \ {p} :
        /\ q \in doubtful => q \in doubtful'
        /\ aes[q] => q \in doubtful' \/ key' = key

LEMMA KeyMove ==
    ASSUME TypesInv, KeyInv, NEW p \in Procs, OthersStay(p), firmware' = firmware,
           firmware = "MC801A" => key' = NoProc, KeysStay(p),
           Keyed(p, job'[p], at'[p], step'[p], aes'[p], key', doubtful', firmware')
    PROVE  KeyInv'
<1>1. ASSUME NEW q \in Procs, q # p
      PROVE  Keyed(q, job'[q], at'[q], step'[q], aes'[q], key', doubtful', firmware')
  <2>1. job'[q] = job[q] /\ at'[q] = at[q] /\ step'[q] = step[q] /\ aes'[q] = aes[q]
    BY <1>1 DEF TypesInv, OthersStay
  <2>2. Keyed(q, job[q], at[q], step[q], aes[q], key, doubtful, firmware)
    BY DEF KeyInv
  <2>3. QED
    BY <1>1, <2>1, <2>2 DEF Keyed, KeysStay
<1>2. QED
  BY <1>1 DEF KeyInv

\* p has no key, and no message to exchange or handshake to make next.
LEMMA NotKeyed ==
    ASSUME NEW p, NEW j, NEW a, NEW s, NEW k, NEW own, NEW doubt, NEW kind,
           ~k, j \notin SmsJobs \/ (s = 1 /\ a # "POST")
    PROVE  Keyed(p, j, a, s, k, own, doubt, kind)
BY DEF Keyed

\* Only an SMS job has a key.
LEMMA NoKeyYet ==
    ASSUME KeyInv, NEW p \in Procs, job[p] \notin SmsJobs \/ step[p] = 1
    PROVE  ~aes[p]
BY DEF KeyInv, Keyed

LEMMA KeyStart ==
    ASSUME TypesInv, KeyInv, NEW p \in Procs, NEW j \in Jobs, Start(p, j)
    PROVE  KeyInv'
<1>1. at[p] = "idle" /\ UNCHANGED <<device, step, aes, doubtful>>
      /\ at' = [at EXCEPT ![p] = "lock"]
  BY DEF Start, history
<1>2. OthersStay(p)
  BY StartTypes
<1>3. step[p] = 1
  BY <1>1 DEF TypesInv, Sound
<1>4. ~aes[p]
  BY <1>3, NoKeyYet
<1>5. at'[p] = "lock" /\ step'[p] = 1 /\ ~aes'[p]
  BY <1>1, <1>3, <1>4 DEF TypesInv
<1>6. Keyed(p, job'[p], at'[p], step'[p], aes'[p], key', doubtful', firmware')
  BY <1>5, NotKeyed
<1>7. QED
  BY <1>1, <1>2, <1>6, KeyMove DEF KeyInv, KeysStay, device

LEMMA KeyLogin ==
    ASSUME TypesInv, KeyInv, NEW p \in Procs,
           \/ TakeLock(p) \/ CheckPasses(p) \/ CheckFails(p)
           \/ Challenge(p) \/ Login(p) \/ LoginFails(p) \/ LoginSaved(p)
    PROVE  KeyInv'
<1>1. OthersStay(p)
  BY LoginTypes
<1>2. at[p] \in {"lock", "loginfo", "LD", "LOGIN", "saved"}
  BY DEF TakeLock, CheckPasses, CheckFails, Challenge, Login, LoginFails, LoginSaved
<1>3. step[p] = 1
  BY <1>2 DEF TypesInv, Sound
<1>4. ~aes[p]
  BY <1>3, NoKeyYet
<1>5. firmware' = firmware
  BY DEF TakeLock, CheckPasses, CheckFails, Challenge, Login, LoginFails, LoginSaved, device
<1>6. step'[p] = 1 /\ ~aes'[p] /\ at'[p] # "POST"
  <2>1. CASE CheckPasses(p) \/ LoginSaved(p)
    <3>1. step'[p] = 1 /\ at'[p] \in {"idle", "RD"} /\ aes'[p] \in {aes[p], FALSE}
      BY <2>1, SettledLeaves DEF CheckPasses, LoginSaved
    <3>2. QED
      BY <1>4, <3>1
  <2>2. CASE \/ TakeLock(p) \/ CheckFails(p)
             \/ Challenge(p) \/ Login(p) \/ LoginFails(p)
    BY <1>3, <1>4, <2>2
       DEF TypesInv, TakeLock, CheckFails, Challenge, Login, LoginFails
  <2>3. QED
    BY <2>1, <2>2
<1>7. Keyed(p, job'[p], at'[p], step'[p], aes'[p], key', doubtful', firmware')
  BY <1>6, NotKeyed
<1>8. KeysStay(p) /\ key' \in {key, NoProc}
  <2>1. CASE Login(p)
    BY <2>1 DEF Login, NewSession, KeysLost, KeysStay
  <2>2. CASE CheckPasses(p) \/ LoginSaved(p)
    <3>1. doubtful' \in {doubtful, doubtful \ {p}} /\ key' = key
      BY <2>2, SettledLeaves DEF CheckPasses, LoginSaved, device
    <3>2. QED
      BY <3>1 DEF KeysStay
  <2>3. CASE TakeLock(p) \/ CheckFails(p) \/ Challenge(p) \/ LoginFails(p)
    BY <2>3 DEF TakeLock, CheckFails, Challenge, LoginFails, history, device, KeysStay
  <2>4. QED
    BY <2>1, <2>2, <2>3
<1>9. QED
  BY <1>1, <1>5, <1>7, <1>8, KeyMove DEF KeyInv

\* With a handshake, made, failed or left out, p goes on to its message or listing.
LEMMA KeyHandshake ==
    ASSUME TypesInv, KeyInv, NEW p \in Procs,
           Handshake(p) \/ HandshakeFails(p) \/ NoCertificate(p)
    PROVE  KeyInv'
<1>1. /\ at[p] \in {"RD", "POST"} /\ Command(p) = "web_http_enstr_set" /\ Onward(p)
  BY DEF Handshake, HandshakeFails, NoCertificate, Accepted
<1>2. OthersStay(p)
  BY CommandTypes DEF Answered
<1>3. firmware' = firmware
  BY <1>1 DEF Onward
<1>4. job[p] \in SmsJobs /\ step[p] = 1
  BY <1>1, AtHandshakeOrReboot DEF SmsJobs
<1>5. job'[p] = job[p] /\ step'[p] = 2 /\ at'[p] = "RD"
  <2>1. step' = [step EXCEPT ![p] = step[p] + 1] /\ job' = job /\ at' = [at EXCEPT ![p] = "RD"]
    BY <1>1 DEF Onward
  <2>2. QED
    BY <1>4, <2>1 DEF TypesInv
<1>6. at[p] = "POST" => firmware = "MF833"
  BY <1>4 DEF KeyInv, Keyed
<1>7. ~aes[p]
  BY <1>4, NoKeyYet
<1>8. CASE Handshake(p)
  <2>1. /\ at[p] = "POST" /\ key' = p /\ aes' = [aes EXCEPT ![p] = TRUE]
        /\ doubtful' = doubtful \cup {q \in Procs \ {p} : aes[q]}
    BY <1>8 DEF Handshake, Accepted
  <2>2. firmware' = "MF833" /\ firmware # "MC801A"
    BY <1>3, <1>6, <2>1
  <2>3. aes'[p]
    BY <2>1 DEF TypesInv
  <2>4. Keyed(p, job'[p], at'[p], step'[p], aes'[p], key', doubtful', firmware')
    BY <1>4, <1>5, <2>1, <2>2, <2>3 DEF Keyed
  <2>5. KeysStay(p)
    BY <2>1 DEF KeysStay
  <2>6. QED
    BY <1>2, <1>3, <2>2, <2>4, <2>5, KeyMove
<1>9. CASE HandshakeFails(p)
  <2>1. /\ at[p] = "POST" /\ aes' = aes /\ p \in doubtful'
        /\ \/ key' = key /\ doubtful' = doubtful \cup {p}
           \/ doubtful' = doubtful \cup {p} \cup {q \in Procs : aes[q]}
    BY <1>9 DEF HandshakeFails
  <2>2. firmware # "MC801A"
    BY <1>6, <2>1
  <2>3. Keyed(p, job'[p], at'[p], step'[p], aes'[p], key', doubtful', firmware')
    BY <1>5, <1>7, <2>1 DEF Keyed
  <2>4. KeysStay(p)
    BY <2>1 DEF KeysStay
  <2>5. QED
    BY <1>2, <1>3, <2>2, <2>3, <2>4, KeyMove
<1>10. CASE NoCertificate(p)
  <2>1. /\ aes' = aes /\ key' = key
        /\ doubtful' = IF firmware = "MF833" THEN doubtful \cup {p} ELSE doubtful
    BY <1>10 DEF NoCertificate
  <2>2. Keyed(p, job'[p], at'[p], step'[p], aes'[p], key', doubtful', firmware')
    BY <1>3, <1>5, <1>7, <2>1 DEF Keyed
  <2>3. KeysStay(p)
    BY <2>1 DEF KeysStay
  <2>4. QED
    BY <1>2, <1>3, <2>1, <2>2, <2>3, KeyMove DEF KeyInv
<1>11. QED
  BY <1>8, <1>9, <1>10

\* A message or a listing is the last of its job, and so is a reboot; of the other
\* jobs none has a key.
LEMMA KeyOther ==
    ASSUME TypesInv, KeyInv, NEW p \in Procs,
           Fails(p) \/ SetRadio(p) \/ ExchangeSms(p) \/ DeleteSms(p) \/ Reboot(p)
    PROVE  KeyInv'
<1>1. Answered(p)
  BY DEF Answered
<1>2. OthersStay(p) /\ firmware' = firmware /\ at[p] = "POST"
  BY <1>1, AnsweredLeaves
     DEF Fails, SetRadio, ExchangeSms, DeleteSms, Reboot, Accepted
<1>3. key' \in {key, NoProc} /\ KeysStay(p)
  <2>1. CASE Reboot(p)
    BY <2>1 DEF Reboot, KeysLost, KeysStay
  <2>2. CASE Fails(p) \/ SetRadio(p) \/ ExchangeSms(p) \/ DeleteSms(p)
    <3>1. key' = key /\ doubtful' \in {doubtful, doubtful \ {p}}
      BY <2>2 DEF Fails, SetRadio, ExchangeSms, DeleteSms, Advance, Done
    <3>2. QED
      BY <3>1 DEF KeysStay
  <2>3. QED
    BY <2>1, <2>2
<1>4. CASE job'[p] = "none" /\ aes'[p] = FALSE
  <2>1. Keyed(p, job'[p], at'[p], step'[p], aes'[p], key', doubtful', firmware')
    <3>1. job'[p] \notin SmsJobs
      BY <1>4 DEF SmsJobs
    <3>2. QED
      BY <1>4, <3>1, NotKeyed
  <2>2. QED
    BY <1>2, <1>3, <2>1, KeyMove DEF KeyInv
<1>5. CASE ~(job'[p] = "none" /\ aes'[p] = FALSE)
  <2>1. step[p] + 1 \in 1 .. Len(Commands[job[p]]) /\ job'[p] = job[p]
    BY <1>1, <1>5, AnsweredLeaves
  <2>2. Advance(p) /\ Command(p) # "web_http_enstr_set"
    <3>1. CASE Reboot(p)
      <4>1. step[p] = 1 /\ Len(Commands[job[p]]) = 1
        BY <1>2, <3>1, AtHandshakeOrReboot DEF Reboot
      <4>2. QED
        BY <2>1, <4>1
    <3>2. CASE Fails(p) \/ SetRadio(p) \/ ExchangeSms(p) \/ DeleteSms(p)
      BY <3>2 DEF Fails, SetRadio, ExchangeSms, DeleteSms, Bearers
    <3>3. QED
      BY <3>1, <3>2
  <2>3. job[p] \notin SmsJobs
    <3>1. /\ job[p] \in DOMAIN Commands /\ step[p] \in 1 .. Len(Commands[job[p]])
          /\ Command(p) = Commands[job[p]][step[p]]
      BY <1>2, AtCommand
    <3>2. ASSUME job[p] \in SmsJobs
          PROVE  FALSE
      <4>1. Len(Commands[job[p]]) = 2
        BY <3>1, <3>2, CommandCounts DEF SmsJobs
      <4>2. step[p] = 1
        BY <2>1, <3>1, <4>1
      <4>3. Commands[job[p]][step[p]] = "web_http_enstr_set"
        BY <3>1, <3>2, <4>2, CommandPlaces DEF SmsJobs
      <4>4. QED
        BY <2>2, <3>1, <4>3
    <3>3. QED
      BY <3>2
  <2>4. ~aes'[p]
    <3>1. aes' = aes \/ aes' = [aes EXCEPT ![p] = FALSE]
      BY <2>2 DEF Advance, Done, Gone
    <3>2. ~aes[p]
      BY <2>3, NoKeyYet
    <3>3. QED
      BY <3>1, <3>2 DEF TypesInv
  <2>5. Keyed(p, job'[p], at'[p], step'[p], aes'[p], key', doubtful', firmware')
    BY <2>1, <2>3, <2>4, NotKeyed
  <2>6. QED
    BY <1>2, <1>3, <2>5, KeyMove DEF KeyInv
<1>6. QED
  BY <1>4, <1>5

\* A device without the scheme is sent no handshake.
LEMMA KeyTokenOrCrash ==
    ASSUME TypesInv, KeyInv, NEW p \in Procs, TakeToken(p) \/ Crash(p)
    PROVE  KeyInv'
<1>1. OthersStay(p)
  BY CommandTypes
<1>2. firmware' = firmware /\ key' = key /\ doubtful' \in {doubtful, doubtful \ {p}}
  BY DEF TakeToken, Crash, Done, history, device
<1>3. KeysStay(p)
  BY <1>2 DEF KeysStay
<1>4. Keyed(p, job'[p], at'[p], step'[p], aes'[p], key', doubtful', firmware')
  <2>1. CASE TakeToken(p)
    <3>1. at[p] = "RD" /\ UNCHANGED <<job, step, aes, doubtful>>
          /\ (Command(p) = "web_http_enstr_set" => firmware = "MF833")
      BY <2>1 DEF TakeToken, history
    <3>2. job[p] \in SmsJobs /\ step[p] = 1 => Command(p) = "web_http_enstr_set"
      <4>1. /\ job[p] \in DOMAIN Commands /\ step[p] \in 1 .. Len(Commands[job[p]])
            /\ Command(p) = Commands[job[p]][step[p]]
        BY <3>1, AtCommand
      <4>2. QED
        BY <4>1, CommandPlaces DEF SmsJobs
    <3>3. Keyed(p, job[p], at[p], step[p], aes[p], key, doubtful, firmware)
      BY DEF KeyInv
    <3>4. QED
      BY <1>2, <3>1, <3>2, <3>3 DEF Keyed
  <2>2. CASE Crash(p)
    <3>1. job'[p] = "none" /\ ~aes'[p]
      BY <2>2, GoneLeaves DEF Crash, Done
    <3>2. QED
      BY <3>1, NotKeyed DEF SmsJobs
  <2>3. QED
    BY <2>1, <2>2
<1>5. QED
  BY <1>1, <1>2, <1>3, <1>4, KeyMove DEF KeyInv

LEMMA KeyWorld ==
    ASSUME TypesInv, KeyInv, BrowserLogin \/ Adopt \/ NotAdopted \/ Expire
    PROVE  KeyInv'
<1>1. UNCHANGED <<firmware, job, at, step, aes>> /\ key' \in {key, NoProc}
  BY DEF BrowserLogin, NewSession, Adopt, NotAdopted, Expire, local, device
<1>2. \A q \in Procs :
         /\ q \in doubtful => q \in doubtful'
         /\ aes[q] => q \in doubtful' \/ key' = key
  BY DEF BrowserLogin, NewSession, KeysLost, Adopt, NotAdopted, Expire, device, history
<1>3. ASSUME NEW q \in Procs
      PROVE  Keyed(q, job'[q], at'[q], step'[q], aes'[q], key', doubtful', firmware')
  BY <1>1, <1>2 DEF KeyInv, Keyed
<1>4. QED
  BY <1>1, <1>3 DEF KeyInv

LEMMA KeyStep ==
    SmsInv /\ [Next]_vars => SmsInv'
<1>1. ASSUME TypesInv, KeyInv, UNCHANGED vars
      PROVE  KeyInv'
  BY <1>1 DEF KeyInv, Keyed, vars, device, local, history
<1>2. ASSUME TypesInv, KeyInv, Next
      PROVE  KeyInv'
  BY <1>2, Steps, KeyStart, KeyLogin, KeyTokenOrCrash, KeyHandshake, KeyOther,
     KeyWorld DEF Answered
<1>3. QED
  BY <1>1, <1>2, TypesStep DEF SmsInv

\* What the device and a job exchange is in a form that both can read: encrypted
\* with the key that the session has, or plain where there is none; unless the
\* job's handshake failed, or another's, or a new session, came between it and the
\* exchange.
THEOREM SmsReadableThm == Spec => []SmsReadable
<1>1. Init => SmsInv
  <2>1. ASSUME Init
        PROVE  KeyInv
    BY <2>1 DEF Init, KeyInv, Keyed, SmsJobs
  <2>2. QED
    BY <2>1, TypesInit DEF SmsInv
<1>2. SmsInv /\ [Next]_vars => SmsInv'
  BY KeyStep
<1>3. ASSUME TypesInv, KeyInv, NEW p \in Procs, at[p] = "POST", p \notin doubtful,
             Command(p) \in {"SEND_SMS", "sms_data_total"}
      PROVE  Legible(p)
  <2>1. job[p] \in SmsJobs /\ step[p] = 2
    <3>1. /\ job[p] \in DOMAIN Commands /\ step[p] \in 1 .. Len(Commands[job[p]])
          /\ Command(p) = Commands[job[p]][step[p]]
      BY <1>3, AtCommand
    <3>2. QED
      BY <1>3, <3>1, CommandPlaces DEF SmsJobs
  <2>2. Keyed(p, job[p], at[p], step[p], aes[p], key, doubtful, firmware)
    BY <1>3 DEF KeyInv
  <2>3. CASE aes[p]
    BY <1>3, <2>2, <2>3 DEF Keyed, Legible
  <2>4. CASE ~aes[p]
    <3>1. firmware = "MC801A"
      BY <1>3, <2>1, <2>2, <2>4 DEF Keyed, TypesInv, Shared
    <3>2. QED
      BY <1>3, <2>4, <3>1 DEF KeyInv, Legible
  <2>5. QED
    BY <2>3, <2>4
<1>4. SmsInv => SmsReadable
  BY <1>3 DEF SmsInv, SmsReadable, Accepted
<1>5. QED
  BY <1>1, <1>2, <1>4, PTL DEF Spec

-----------------------------------------------------------------------------
(* The radio.  Off line, it has a rotation under way that is still to        *)
(* connect it, or connecting it failed; down to 3G, a rotation that is still *)
(* to set it to automatic, with the command that this firmware understands,  *)
(* or that failed.                                                           *)

\* A process with the job j and the command s before it.
WillConnect(j, s) == j = "rotate" /\ s \in {2, 3, 4, 5}
WillFree(j, s, kind) == j = "rotate" /\ (s = 3 \/ (s = 4 /\ kind = "MC801A"))

RadioInv ==
    /\ \/ radio.online \/ "online" \in unrestored
       \/ \E p \in Procs : WillConnect(job[p], step[p])
    /\ \/ radio.bearer = "auto" \/ "bearer" \in unrestored
       \/ \E p \in Procs : WillFree(job[p], step[p], firmware)

RotationsInv == TypesInv /\ RadioInv

\* p leaves the radio on line, or the failure on record, or is to connect it; or it
\* changed nothing and was not the one to.
OnlineKept(p) ==
    \/ radio'.online \/ "online" \in unrestored' \/ WillConnect(job'[p], step'[p])
    \/ /\ radio'.online = radio.online /\ ("online" \in unrestored => "online" \in unrestored')
       /\ ~WillConnect(job[p], step[p])

BearerKept(p) ==
    \/ radio'.bearer = "auto" \/ "bearer" \in unrestored'
    \/ WillFree(job'[p], step'[p], firmware)
    \/ /\ radio'.bearer = radio.bearer /\ ("bearer" \in unrestored => "bearer" \in unrestored')
       /\ ~WillFree(job[p], step[p], firmware)

LEMMA RadioMove ==
    ASSUME TypesInv, RadioInv, NEW p \in Procs, OthersStay(p), firmware' = firmware,
           OnlineKept(p), BearerKept(p)
    PROVE  RadioInv'
<1>1. ASSUME NEW q \in Procs, q # p
      PROVE  job'[q] = job[q] /\ step'[q] = step[q]
  BY <1>1 DEF TypesInv, OthersStay
<1>2. \/ radio'.online \/ "online" \in unrestored'
      \/ \E q \in Procs : WillConnect(job'[q], step'[q])
  <2>1. CASE \/ radio'.online \/ "online" \in unrestored' \/ WillConnect(job'[p], step'[p])
    BY <2>1
  <2>2. CASE /\ radio'.online = radio.online /\ ~WillConnect(job[p], step[p])
             /\ "online" \in unrestored => "online" \in unrestored'
    <3>1. \/ radio.online \/ "online" \in unrestored
          \/ \E q \in Procs \ {p} : WillConnect(job[q], step[q])
      BY <2>2 DEF RadioInv
    <3>2. QED
      BY <1>1, <2>2, <3>1
  <2>3. QED
    BY <2>1, <2>2 DEF OnlineKept
<1>3. \/ radio'.bearer = "auto" \/ "bearer" \in unrestored'
      \/ \E q \in Procs : WillFree(job'[q], step'[q], firmware')
  <2>1. CASE \/ radio'.bearer = "auto" \/ "bearer" \in unrestored'
             \/ WillFree(job'[p], step'[p], firmware)
    BY <2>1
  <2>2. CASE /\ radio'.bearer = radio.bearer /\ ~WillFree(job[p], step[p], firmware)
             /\ "bearer" \in unrestored => "bearer" \in unrestored'
    <3>1. \/ radio.bearer = "auto" \/ "bearer" \in unrestored
          \/ \E q \in Procs \ {p} : WillFree(job[q], step[q], firmware)
      BY <2>2 DEF RadioInv
    <3>2. QED
      BY <1>1, <2>2, <3>1
  <2>3. QED
    BY <2>1, <2>2 DEF BearerKept
<1>4. QED
  BY <1>2, <1>3 DEF RadioInv

\* A process that was not to bring the radio back, and leaves it alone.
LEMMA RadioAlone ==
    ASSUME TypesInv, RadioInv, NEW p \in Procs, OthersStay(p),
           firmware' = firmware, radio' = radio, unrestored \subseteq unrestored',
           job[p] # "rotate" \/ step[p] = 1
    PROVE  RadioInv'
BY RadioMove DEF OnlineKept, BearerKept, WillConnect, WillFree

LEMMA RadioStart ==
    ASSUME TypesInv, RadioInv, NEW p \in Procs, NEW j \in Jobs, Start(p, j)
    PROVE  RadioInv'
<1>1. at[p] = "idle" /\ UNCHANGED device /\ unrestored' = unrestored
  BY DEF Start, history
<1>2. OthersStay(p)
  BY StartTypes
<1>3. job[p] = "none"
  BY <1>1 DEF TypesInv, Sound
<1>4. QED
  BY <1>1, <1>2, <1>3, RadioAlone DEF device

\* The place of a command of the radio in its rotation, and what comes after it.
LEMMA RotationPlaces ==
    ASSUME TypesInv, NEW p \in Procs, at[p] \in {"RD", "POST"}, job[p] = "rotate"
    PROVE  \/ step[p] = 1 /\ Command(p) = "DISCONNECT"
           \/ step[p] = 2 /\ Command(p) = "Only_WCDMA"
           \/ step[p] = 3 /\ Command(p) = "NETWORK_auto"
           \/ step[p] = 4 /\ Command(p) = "4G_AND_5G"
           \/ step[p] = 5 /\ Command(p) = "CONNECT"
<1>1. /\ job[p] \in DOMAIN Commands /\ step[p] \in 1 .. Len(Commands[job[p]])
      /\ Command(p) = Commands[job[p]][step[p]]
  BY AtCommand
<1>2. Len(Commands[job[p]]) = 5
  BY <1>1, CommandCounts
<1>3. step[p] \in {1, 2, 3, 4, 5}
  BY <1>1, <1>2
<1>4. QED
  BY <1>1, <1>3, CommandPlaces

LEMMA RotationGoesOn ==
    ASSUME TypesInv, NEW p \in Procs, Answered(p), job[p] = "rotate", step[p] # 5
    PROVE  job'[p] = "rotate" /\ step'[p] = step[p] + 1
<1>1. job[p] \in DOMAIN Commands
  BY AnsweredHow, AtCommand
<1>2. Len(Commands[job[p]]) = 5
  BY <1>1, CommandCounts
<1>3. QED
  BY <1>2, AnsweredLeaves

\* Each command of a rotation leaves the rest of it to do what is still to be done.
LEMMA RadioSet ==
    ASSUME TypesInv, RadioInv, NEW p \in Procs, SetRadio(p)
    PROVE  RadioInv'
<1>1. at[p] = "POST" /\ Answered(p) /\ OthersStay(p) /\ firmware' = firmware
  BY AnsweredLeaves DEF Answered, SetRadio, Accepted
<1>2. /\ Command(p) \in {"DISCONNECT", "Only_WCDMA", "NETWORK_auto", "4G_AND_5G", "CONNECT"}
      /\ unrestored' = unrestored \ {a \in Aspects : Command(p) = Restores(a)}
      /\ radio' =
            [bearer |-> IF Command(p) = "Only_WCDMA" THEN "3g"
                        ELSE IF Command(p) = AutoBearer THEN "auto" ELSE radio.bearer,
             online |-> IF Command(p) = "DISCONNECT" THEN FALSE
                        ELSE IF Command(p) = "CONNECT" THEN TRUE ELSE radio.online]
  BY DEF SetRadio, Bearers
<1>3. firmware \in {"MF833", "MC801A"}
  BY DEF TypesInv, Shared
<1>4. job[p] = "rotate"
  <2>1. /\ job[p] \in DOMAIN Commands /\ step[p] \in 1 .. Len(Commands[job[p]])
        /\ Command(p) = Commands[job[p]][step[p]]
    BY <1>1, AtCommand
  <2>2. QED
    BY <1>2, <2>1, CommandPlaces
<1>5. \/ step[p] = 1 /\ Command(p) = "DISCONNECT"
      \/ step[p] = 2 /\ Command(p) = "Only_WCDMA"
      \/ step[p] = 3 /\ Command(p) = "NETWORK_auto"
      \/ step[p] = 4 /\ Command(p) = "4G_AND_5G"
      \/ step[p] = 5 /\ Command(p) = "CONNECT"
  BY <1>1, <1>4, RotationPlaces
<1>6. step[p] # 5 => job'[p] = "rotate" /\ step'[p] = step[p] + 1
  BY <1>1, <1>4, RotationGoesOn
<1>7. OnlineKept(p)
  <2>1. CASE step[p] = 5
    <3>1. radio'.online = TRUE
      BY <1>2, <1>5, <2>1
    <3>2. QED
      BY <3>1 DEF OnlineKept
  <2>2. CASE step[p] \in {1, 2, 3, 4}
    <3>1. step'[p] \in {2, 3, 4, 5} /\ job'[p] = "rotate"
      BY <1>6, <2>2
    <3>2. QED
      BY <3>1 DEF OnlineKept, WillConnect
  <2>3. QED
    BY <1>5, <2>1, <2>2
<1>8. BearerKept(p)
  <2>1. CASE step[p] \in {1, 5} \/ (step[p] = 4 /\ firmware = "MF833")
    <3>1. radio'.bearer = radio.bearer
      BY <1>2, <1>3, <1>5, <2>1 DEF AutoBearer
    <3>2. Command(p) # Restores("bearer")
      BY <1>3, <1>5, <2>1 DEF AutoBearer, Restores
    <3>3. "bearer" \in unrestored => "bearer" \in unrestored'
      BY <1>2, <3>2
    <3>4. ~WillFree(job[p], step[p], firmware)
      BY <2>1 DEF WillFree
    <3>5. QED
      BY <3>1, <3>3, <3>4 DEF BearerKept
  <2>2. CASE step[p] = 2
    <3>1. step'[p] = 3 /\ job'[p] = "rotate"
      BY <1>6, <2>2
    <3>2. QED
      BY <3>1 DEF BearerKept, WillFree
  <2>3. CASE step[p] = 3 /\ firmware = "MC801A"
    <3>1. step'[p] = 4 /\ job'[p] = "rotate"
      BY <1>6, <2>3
    <3>2. QED
      BY <2>3, <3>1 DEF BearerKept, WillFree
  <2>4. CASE step[p] = 3 /\ firmware = "MF833"
    <3>1. radio'.bearer = "auto"
      BY <1>2, <1>5, <2>4 DEF AutoBearer
    <3>2. QED
      BY <3>1 DEF BearerKept
  <2>5. CASE step[p] = 4 /\ firmware = "MC801A"
    <3>1. radio'.bearer = "auto"
      BY <1>2, <1>5, <2>5 DEF AutoBearer
    <3>2. QED
      BY <3>1 DEF BearerKept
  <2>6. QED
    BY <1>3, <1>5, <2>1, <2>2, <2>3, <2>4, <2>5
<1>9. QED
  BY <1>1, <1>7, <1>8, RadioMove

\* A command that fails leaves it to the rest of the rotation, or was the last hope.
LEMMA RadioFails ==
    ASSUME TypesInv, RadioInv, NEW p \in Procs, Fails(p)
    PROVE  RadioInv'
<1>1. at[p] = "POST" /\ Answered(p) /\ OthersStay(p) /\ firmware' = firmware
  BY AnsweredLeaves DEF Answered, Fails
<1>2. /\ unrestored' = unrestored \cup {a \in Aspects : Command(p) = Restores(a)}
      /\ radio' = radio
  BY DEF Fails
<1>3. firmware \in {"MF833", "MC801A"}
  BY DEF TypesInv, Shared
<1>4. CASE job[p] # "rotate"
  BY <1>1, <1>2, <1>4, RadioAlone
<1>5. CASE job[p] = "rotate"
  <2>1. \/ step[p] = 1 /\ Command(p) = "DISCONNECT"
        \/ step[p] = 2 /\ Command(p) = "Only_WCDMA"
        \/ step[p] = 3 /\ Command(p) = "NETWORK_auto"
        \/ step[p] = 4 /\ Command(p) = "4G_AND_5G"
        \/ step[p] = 5 /\ Command(p) = "CONNECT"
    BY <1>1, <1>5, RotationPlaces
  <2>2. step[p] # 5 => job'[p] = "rotate" /\ step'[p] = step[p] + 1
    BY <1>1, <1>5, RotationGoesOn
  <2>3. OnlineKept(p)
    <3>1. CASE step[p] = 5
      <4>1. "online" \in unrestored'
        BY <1>2, <2>1, <3>1 DEF Aspects, Restores
      <4>2. QED
        BY <4>1 DEF OnlineKept
    <3>2. CASE step[p] \in {1, 2, 3, 4}
      <4>1. step'[p] \in {2, 3, 4, 5} /\ job'[p] = "rotate"
        BY <2>2, <3>2
      <4>2. QED
        BY <4>1 DEF OnlineKept, WillConnect
    <3>3. QED
      BY <2>1, <3>1, <3>2
  <2>4. BearerKept(p)
    <3>1. CASE Command(p) = Restores("bearer")
      <4>1. "bearer" \in unrestored'
        BY <1>2, <3>1 DEF Aspects
      <4>2. QED
        BY <4>1 DEF BearerKept
    <3>2. CASE step[p] = 3 /\ firmware = "MC801A"
      <4>1. step'[p] = 4 /\ job'[p] = "rotate"
        BY <2>2, <3>2
      <4>2. QED
        BY <3>2, <4>1 DEF BearerKept, WillFree
    <3>3. CASE ~WillFree(job[p], step[p], firmware)
      <4>1. radio'.bearer = radio.bearer /\ ("bearer" \in unrestored => "bearer" \in unrestored')
        BY <1>2
      <4>2. QED
        BY <3>3, <4>1 DEF BearerKept
    <3>4. QED
      BY <1>3, <2>1, <3>1, <3>2, <3>3 DEF WillFree, Restores, AutoBearer
  <2>5. QED
    BY <1>1, <2>3, <2>4, RadioMove
<1>6. QED
  BY <1>4, <1>5

\* What a killed rotation owed is on record.
LEMMA RadioCrash ==
    ASSUME TypesInv, RadioInv, NEW p \in Procs, Crash(p)
    PROVE  RadioInv'
<1>1. /\ at[p] # "idle" /\ radio' = radio /\ firmware' = firmware
      /\ unrestored' = unrestored \cup Owed(p)
  BY DEF Crash, device
<1>2. OthersStay(p)
  BY CommandTypes
<1>3. CASE job[p] # "rotate" \/ step[p] = 1
  BY <1>1, <1>2, <1>3, RadioAlone
<1>4. CASE job[p] = "rotate" /\ step[p] # 1
  <2>1. at[p] \in {"RD", "POST"}
    BY <1>4 DEF TypesInv, Sound
  <2>2. job[p] \in DOMAIN Commands /\ Len(Commands[job[p]]) = 5
    BY <1>1, <1>4, JobKnown, CommandCounts
  <2>3. step[p] \in {2, 3, 4, 5}
    <3>1. step[p] \in 1 .. Len(Commands[job[p]])
      BY <2>1, AtCommand
    <3>2. QED
      BY <1>4, <2>2, <3>1
  <2>4. ToCome(p) = {Commands[job[p]][i] : i \in step[p] .. 5}
    BY <2>2 DEF ToCome
  <2>5. ASSUME NEW i \in step[p] .. 5
        PROVE  /\ i \in 1 .. Len(Commands[job[p]]) /\ i # 1
               /\ step[p] \in {3, 4, 5} => i # 2
    BY <2>2, <2>3
  <2>6. "DISCONNECT" \notin ToCome(p)
    BY <1>4, <2>2, <2>4, <2>5, CommandPlaces
  <2>7. "CONNECT" \in ToCome(p)
    <3>1. 5 \in step[p] .. 5
      BY <2>3
    <3>2. Commands[job[p]][5] = "CONNECT"
      BY <1>4, <2>2, <2>5, <3>1, CommandPlaces
    <3>3. QED
      BY <2>4, <3>1, <3>2
  <2>8. OnlineKept(p)
    <3>1. "online" \in Owed(p)
      BY <2>6, <2>7 DEF Owed, Aspects, Lowers, Restores
    <3>2. QED
      BY <1>1, <3>1 DEF OnlineKept
  <2>9. BearerKept(p)
    <3>1. CASE WillFree(job[p], step[p], firmware)
      <4>1. step[p] \in {3, 4}
        BY <3>1 DEF WillFree
      <4>2. "Only_WCDMA" \notin ToCome(p)
        BY <1>4, <2>2, <2>4, <2>5, <4>1, CommandPlaces
      <4>3. AutoBearer \in ToCome(p)
        <5>1. CASE firmware = "MC801A"
          <6>1. 4 \in step[p] .. 5
            BY <4>1
          <6>2. Commands[job[p]][4] = "4G_AND_5G"
            BY <1>4, <2>2, <2>5, <6>1, CommandPlaces
          <6>3. QED
            BY <2>4, <5>1, <6>1, <6>2 DEF AutoBearer
        <5>2. CASE firmware # "MC801A"
          <6>1. step[p] = 3
            BY <3>1, <5>2 DEF WillFree
          <6>2. 3 \in step[p] .. 5
            BY <6>1
          <6>3. Commands[job[p]][3] = "NETWORK_auto"
            BY <1>4, <2>2, <2>5, <6>2, CommandPlaces
          <6>4. QED
            BY <2>4, <5>2, <6>2, <6>3 DEF AutoBearer
        <5>3. QED
          BY <5>1, <5>2
      <4>4. "bearer" \in Owed(p)
        BY <4>2, <4>3 DEF Owed, Aspects, Lowers, Restores
      <4>5. QED
        BY <1>1, <4>4 DEF BearerKept
    <3>2. CASE ~WillFree(job[p], step[p], firmware)
      BY <1>1, <3>2 DEF BearerKept
    <3>3. QED
      BY <3>1, <3>2
  <2>10. QED
    BY <1>1, <1>2, <2>8, <2>9, RadioMove
<1>5. QED
  BY <1>3, <1>4

LEMMA RadioCommand ==
    ASSUME TypesInv, RadioInv, NEW p \in Procs, TakeToken(p) \/ Answered(p) \/ Crash(p)
    PROVE  RadioInv'
<1>1. CASE TakeToken(p)
  <2>1. UNCHANGED <<job, step, firmware, unrestored, radio>>
    BY <1>1 DEF TakeToken, history
  <2>2. QED
    BY <2>1 DEF RadioInv
<1>2. CASE \/ Handshake(p) \/ HandshakeFails(p) \/ NoCertificate(p)
           \/ ExchangeSms(p) \/ DeleteSms(p) \/ Reboot(p)
  <2>1. OthersStay(p) /\ at[p] \in {"RD", "POST"} /\ firmware' = firmware
    BY <1>2, AnsweredLeaves DEF Answered
  <2>2. radio' = radio /\ unrestored' = unrestored
    BY <1>2 DEF Handshake, HandshakeFails, NoCertificate, ExchangeSms, DeleteSms, Reboot
  <2>3. Command(p) \in {"web_http_enstr_set", "sms_data_total", "SEND_SMS", "DELETE_SMS",
                        "REBOOT_DEVICE"}
    BY <1>2 DEF Handshake, HandshakeFails, NoCertificate, ExchangeSms, DeleteSms, Reboot
  <2>4. job[p] # "rotate"
    BY <2>1, <2>3, RotationPlaces
  <2>5. QED
    BY <2>1, <2>2, <2>4, RadioAlone
<1>3. QED
  BY <1>1, <1>2, RadioSet, RadioFails, RadioCrash DEF Answered

LEMMA RadioElse ==
    ASSUME TypesInv, RadioInv,
           \/ \E p \in Procs :
                 \/ TakeLock(p) \/ CheckPasses(p) \/ CheckFails(p)
                 \/ Challenge(p) \/ Login(p) \/ LoginFails(p) \/ LoginSaved(p)
           \/ BrowserLogin \/ Adopt \/ NotAdopted \/ Expire
    PROVE  RadioInv'
<1>1. CASE \E p \in Procs :
              \/ TakeLock(p) \/ CheckPasses(p) \/ CheckFails(p)
              \/ Challenge(p) \/ Login(p) \/ LoginFails(p) \/ LoginSaved(p)
  <2>1. PICK p \in Procs :
              \/ TakeLock(p) \/ CheckPasses(p) \/ CheckFails(p)
              \/ Challenge(p) \/ Login(p) \/ LoginFails(p) \/ LoginSaved(p)
    BY <1>1
  <2>2. OthersStay(p)
    BY <2>1, LoginTypes
  <2>3. UNCHANGED <<firmware, radio, unrestored>>
        /\ at[p] \in {"lock", "loginfo", "LD", "LOGIN", "saved"}
    BY <2>1 DEF TakeLock, CheckPasses, CheckFails, Challenge, Login, LoginFails, LoginSaved,
                device, history
  <2>4. step[p] = 1
    BY <2>3 DEF TypesInv, Sound
  <2>5. QED
    BY <2>2, <2>3, <2>4, RadioAlone
<1>2. CASE BrowserLogin \/ Adopt \/ NotAdopted \/ Expire
  <2>1. UNCHANGED <<firmware, radio, unrestored, job, step>>
    BY <1>2 DEF BrowserLogin, Adopt, NotAdopted, Expire, device, local, history
  <2>2. QED
    BY <2>1 DEF RadioInv
<1>3. QED
  BY <1>1, <1>2

LEMMA RadioStep ==
    RotationsInv /\ [Next]_vars => RotationsInv'
<1>1. ASSUME TypesInv, RadioInv, UNCHANGED vars
      PROVE  RadioInv'
  BY <1>1 DEF RadioInv, vars, device, local, history
<1>2. ASSUME TypesInv, RadioInv, Next
      PROVE  RadioInv'
  BY <1>2, Steps, RadioStart, RadioCommand, RadioElse
<1>3. QED
  BY <1>1, <1>2, TypesStep DEF RotationsInv

\* When no rotation is under way the radio is up and automatic again, whichever
\* family the device is of and however many rotations and logins overlapped, but
\* for what the last attempt to bring back failed, or a killed rotation had still
\* to bring back.
THEOREM RadioRestoredThm == Spec => []RadioRestored
<1>1. Init => RotationsInv
  <2>1. ASSUME Init
        PROVE  RadioInv
    BY <2>1 DEF Init, RadioInv, Up
  <2>2. QED
    BY <2>1, TypesInit DEF RotationsInv
<1>2. RotationsInv /\ [Next]_vars => RotationsInv'
  BY RadioStep
<1>3. RotationsInv => RadioRestored
  <2>1. SUFFICES ASSUME TypesInv, RadioInv,
                        \A p \in Procs : job[p] = "rotate" => at[p] = "idle"
                 PROVE  /\ radio.bearer = "auto" \/ "bearer" \in unrestored
                        /\ radio.online \/ "online" \in unrestored
    BY DEF RotationsInv, RadioRestored
  <2>2. ASSUME NEW p \in Procs
        PROVE  job[p] # "rotate"
    BY <2>1 DEF TypesInv, Sound
  <2>3. QED
    BY <2>1, <2>2 DEF RadioInv, WillConnect, WillFree
<1>4. QED
  BY <1>1, <1>2, <1>3, PTL DEF Spec

-----------------------------------------------------------------------------
(* The tables of the routers (Routing)                                       *)

\* The dongles have been found before a router is registered, none is registered
\* again during a discovery, and registrations do not overlap.
OneByOne ==
    /\ {"late dongle", "again"} \cap Hazards = {}
    /\ "overlap" \notin Hazards \/ \A p, q \in Threads : p = q

Places == Cardinality(Dongles)

Busy(j) == j.pc \in {"flush", "add", "unrule", "rule", "save"}

Registering(j) == j.loop = "idle" /\ j.save

Lists == Seq(Dongles \X (Addrs \cup {"none"}))

Todos == SUBSET (Routers \X Nat)

Calls ==
    [pc : {"idle", "flush", "add", "unrule", "rule", "save", "dongles", "routers"},
     m : R!Modems \cup {"none"}, from : Addrs \cup {"none"}, table : Int,
     save : BOOLEAN, loop : {"idle", "dongles", "routers"},
     list : Lists, at : Nat, todo : Todos]

Rows == [addr : Addrs \cup {"none"}, table : Int]

\* Router m has the table t in the rows r.
Has(r, m, t) == r[m] # R!NoRow /\ r[m].table = t

\* What p is in the middle of, j, given the rows r: a discovery carries the tables
\* that the routers have, a registration one that no other router has.
Shaped(p, j, r) ==
    /\ j.loop # "idle" => p \in Timers
    /\ Registering(j) => p \in Threads /\ Busy(j)
    /\ j.pc = "dongles" => j.loop = "dongles"
    /\ j.pc = "routers" => j.loop = "routers"
    /\ j.pc = "idle" => j.loop = "idle" /\ ~j.save
    /\ j.pc = "save" => j.save
    /\ j.loop = "routers" => \A m \in Routers, t \in Nat : <<m, t>> \in j.todo => Has(r, m, t)
    /\ Busy(j) => j.m \in R!Modems /\ j.table \in Nat
    /\ Busy(j) /\ j.loop = "dongles" => j.m \in Dongles
    /\ Busy(j) /\ j.loop = "routers" => j.m \in Routers /\ Has(r, j.m, j.table)
    /\ Busy(j) /\ Registering(j) =>
          /\ j.m \in Routers /\ j.table >= Places
          /\ \A q \in Routers \ {j.m} : r[q].table # j.table

Apart(r) ==
    \A q \in Routers : r[q] # R!NoRow =>
        /\ r[q].table >= Places
        /\ \A s \in Routers \ {q} : r[s].table # r[q].table

RowsOK(r) ==
    /\ r \in [R!Modems -> Rows]
    /\ \A m \in R!Modems : r[m] = R!NoRow \/ r[m].table \in Nat

\* One registration at a time, of a known router only beside idle timers.
Exclusive(c, r) ==
    /\ \A p, q \in R!Processes : Registering(c[p]) /\ Registering(c[q]) => p = q
    /\ \A p \in R!Processes :
          Registering(c[p]) /\ r[c[p].m] # R!NoRow
             => \A q \in Timers : c[q].loop = "idle"
    /\ "overlap" \notin Hazards =>
          \A p, q \in R!Processes : c[p].pc # "idle" /\ c[q].pc # "idle" => p = q

TablesInv ==
    /\ order \in Seq(Dongles) /\ addr \in [R!Modems -> Addrs \cup {"none"}]
    /\ RowsOK(row) /\ Apart(row)
    /\ calls \in [R!Processes -> Calls]
    /\ \A p \in R!Processes : Shaped(p, calls[p], row)
    /\ Exclusive(calls, row)

-----------------------------------------------------------------------------
(* The next table that is free *)

LessThan == {ss \in Nat \X Nat : ss[1] < ss[2]}

\* A set of naturals that has a member has a least one.
LEMMA LeastTable ==
    ASSUME NEW T, T \subseteq Nat, T # {}
    PROVE  \E x \in T : \A y \in T : x <= y
<1>1. IsWellFoundedOn(LessThan, Nat)
  BY NatLessThanWellFounded DEF OpToRel, LessThan
<1>2. PICK x \in T : \A y \in T : <<y, x>> \notin LessThan
  BY <1>1, WFMin
<1>3. ASSUME NEW y \in T
      PROVE  x <= y
  <2>1. <<y, x>> \in Nat \X Nat
    OBVIOUS
  <2>2. QED
    BY <1>2, <2>1 DEF LessThan
<1>4. QED
  BY <1>3

LEMMA SameCount ==
    ASSUME NEW S
    PROVE  R!Cardinality(S) = Cardinality(S)
BY DEF R!Cardinality, Cardinality

\* There are more tables than modems: one is free.
LEMMA NextTableFree ==
    ASSUME OneByOne, RowsOK(row)
    PROVE  /\ R!NextTable \in R!Tables
           /\ \A m \in R!Modems : row[m].table # R!NextTable
<1> DEFINE used == {row[m].table : m \in R!Modems}
           n == Cardinality(R!Modems)
<1>1. IsFiniteSet(R!Modems) /\ n \in Nat
  BY ModemsAssumption, FS_Union, FS_CardinalityType DEF R!Modems
<1>2. IsFiniteSet(used) /\ Cardinality(used) <= n
  <2>1. [m \in R!Modems |-> row[m].table] \in Surjection(R!Modems, used)
    BY DEF Surjection
  <2>2. QED
    BY <1>1, <2>1, FS_Surjection
<1>3. R!Tables = 0 .. n
  BY SameCount DEF R!Tables
<1>4. Cardinality(0 .. n) = n + 1 /\ Cardinality(used) \in Nat
  BY <1>1, <1>2, FS_Interval, FS_CardinalityType
<1>5. ~(0 .. n \subseteq used)
  <2>1. SUFFICES ASSUME 0 .. n \subseteq used
                 PROVE  FALSE
    OBVIOUS
  <2>2. Cardinality(0 .. n) <= Cardinality(used)
    BY <1>2, <2>1, FS_Subset
  <2>3. QED
    BY <1>1, <1>2, <1>4, <2>2
<1>6. \E t \in R!Tables \ used : \A u \in R!Tables \ used : t <= u
  <2>1. R!Tables \ used \subseteq Nat /\ R!Tables \ used # {}
    BY <1>1, <1>3, <1>5
  <2> HIDE DEF used
  <2>2. QED
    BY <2>1, LeastTable
<1>7. R!NextTable = CHOOSE t \in R!Tables \ used : \A u \in R!Tables \ used : t <= u
  BY DEF R!NextTable
<1>8. R!NextTable \in R!Tables \ used
  BY <1>6, <1>7
<1>9. QED
  BY <1>8

\* When every place of a dongle is on record, the next table is beyond them.
LEMMA NextTableBeyond ==
    ASSUME OneByOne, RowsOK(row), {row[d].table : d \in Dongles} = 0 .. Places - 1
    PROVE  R!NextTable \in Nat /\ R!NextTable >= Places
<1>1. IsFiniteSet(R!Modems) /\ Cardinality(R!Modems) \in Nat /\ Places \in Nat
  BY ModemsAssumption, FS_Union, FS_CardinalityType DEF R!Modems, Places
<1>2. R!NextTable \in Nat
  BY <1>1, NextTableFree DEF R!Tables
<1>3. R!NextTable \notin 0 .. Places - 1
  <2>1. \A d \in Dongles : row[d].table # R!NextTable
    BY NextTableFree DEF R!Modems
  <2>2. QED
    BY <2>1
<1>4. QED
  BY <1>1, <1>2, <1>3

-----------------------------------------------------------------------------
(* Steps of a process *)

LEMMA IdleCall ==
    R!Idle \in Calls /\ R!Idle.pc = "idle" /\ ~Registering(R!Idle)
BY DEF R!Idle, Calls, Lists, Todos, Registering

\* A process without anything to do fits any rows.
LEMMA IdleShaped ==
    ASSUME NEW p, NEW r
    PROVE  Shaped(p, R!Idle, r)
BY DEF R!Idle, Shaped, Registering, Busy

\* One process goes on with j, the rows stay as they are.
LEMMA CallMove ==
    ASSUME OneByOne, TablesInv, NEW p \in R!Processes, NEW j \in Calls, Shaped(p, j, row),
           calls' = [calls EXCEPT ![p] = j], row' = row,
           order' \in Seq(Dongles), addr' \in [R!Modems -> Addrs \cup {"none"}],
           Registering(j) =>
              \/ Registering(calls[p]) /\ j.m = calls[p].m
              \/ /\ \A q \in R!Processes : ~Registering(calls[q])
                 /\ row[j.m] # R!NoRow => \A q \in Timers : calls[q].loop = "idle",
           \/ j.loop = "idle" \/ calls[p].loop # "idle"
           \/ \A q \in R!Processes : ~(Registering(calls[q]) /\ row[calls[q].m] # R!NoRow),
           "overlap" \notin Hazards =>
              \/ j.pc = "idle" \/ calls[p].pc # "idle"
              \/ \A q \in R!Processes : calls[q].pc = "idle"
    PROVE  TablesInv'
<1>1. calls' \in [R!Processes -> Calls] /\ calls'[p] = j
      /\ \A q \in R!Processes : q # p => calls'[q] = calls[q]
  BY DEF TablesInv
<1>2. \A q \in R!Processes : Shaped(q, calls'[q], row')
  BY <1>1 DEF TablesInv
<1>3. ASSUME NEW a \in R!Processes, NEW b \in R!Processes,
             Registering(calls'[a]), Registering(calls'[b])
      PROVE  a = b
  BY <1>1, <1>3 DEF TablesInv, Exclusive
<1>4. ASSUME NEW a \in R!Processes, Registering(calls'[a]), row'[calls'[a].m] # R!NoRow,
             NEW q \in Timers
      PROVE  calls'[q].loop = "idle"
  <2>1. q \in R!Processes
    BY DEF R!Processes
  <2>2. CASE a = p
    <3>1. ~Registering(j) \/ p \in Threads
      BY DEF Shaped
    <3>2. q # p
      BY RoutingBounds, <1>1, <1>4, <2>2, <3>1
    <3>3. QED
      BY <1>1, <1>4, <2>1, <2>2, <3>2 DEF TablesInv, Exclusive
  <2>3. CASE a # p
    <3>1. calls[q].loop = "idle"
      BY <1>1, <1>4, <2>3 DEF TablesInv, Exclusive
    <3>2. q = p => j.loop = "idle"
      BY <1>1, <1>4, <2>3, <3>1 DEF Exclusive
    <3>3. QED
      BY <1>1, <2>1, <3>1, <3>2
  <2>4. QED
    BY <2>2, <2>3
<1>5. ASSUME "overlap" \notin Hazards, NEW a \in R!Processes, NEW b \in R!Processes,
             calls'[a].pc # "idle", calls'[b].pc # "idle"
      PROVE  a = b
  BY <1>1, <1>5 DEF TablesInv, Exclusive
<1>6. Exclusive(calls', row')
  BY <1>3, <1>4, <1>5 DEF Exclusive
<1>7. QED
  BY <1>1, <1>2, <1>6 DEF TablesInv

\* What an active process goes on with keeps its place among the others.
LEMMA GoesOn ==
    ASSUME OneByOne, TablesInv, NEW p \in R!Processes, NEW j \in Calls, Shaped(p, j, row),
           calls' = [calls EXCEPT ![p] = j], row' = row,
           order' = order, addr' = addr, calls[p].pc # "idle",
           j.loop \in {"idle", calls[p].loop},
           Registering(j) => Registering(calls[p]) /\ j.m = calls[p].m
    PROVE  TablesInv'
<1>1. order' \in Seq(Dongles) /\ addr' \in [R!Modems -> Addrs \cup {"none"}]
  BY DEF TablesInv
<1>2. QED
  BY <1>1, CallMove

\* What is left when setup_routing is over.
LEMMA ReturnedCall ==
    ASSUME NEW c \in Calls
    PROVE  /\ R!Returned(c) \in Calls /\ R!Returned(c).pc = c.loop
           /\ R!Returned(c).loop = c.loop /\ R!Returned(c).todo = c.todo
           /\ R!Returned(c).save = FALSE
           /\ c.loop \in {"idle", "dongles", "routers"}
<1> DEFINE j == R!Returned(c)
<1>1. j = [c EXCEPT !.pc = c.loop, !.m = "none", !.from = "none", !.table = -1,
                    !.save = FALSE]
  BY DEF R!Returned
<1>2. c.loop \in {"idle", "dongles", "routers"}
  BY DEF Calls
<1>3. j.pc = c.loop /\ j.loop = c.loop /\ j.todo = c.todo /\ j.save = FALSE
  BY <1>1 DEF Calls
<1>4. j \in Calls
  <2>1. /\ c.list \in Lists /\ c.at \in Nat /\ c.todo \in Todos
    BY DEF Calls
  <2>2. j = [pc |-> c.loop, m |-> "none", from |-> "none", table |-> -1, save |-> FALSE,
             loop |-> c.loop, list |-> c.list, at |-> c.at, todo |-> c.todo]
    BY <1>1 DEF Calls
  <2> HIDE DEF j
  <2>3. QED
    BY <1>2, <2>1, <2>2 DEF Calls
<1>5. QED
  BY <1>2, <1>3, <1>4

\* setup_routing, step by step, up to the row.
LEMMA SetupSteps ==
    ASSUME OneByOne, TablesInv, NEW p \in R!Processes,
           R!FlushTable(p) \/ R!AddRoute(p) \/ R!DelRule(p) \/ R!AddRule(p)
    PROVE  TablesInv'
<1> DEFINE c == calls[p]
           next == [c EXCEPT !.pc = IF c.pc = "flush" THEN "add"
                                    ELSE IF c.pc = "add" THEN "unrule"
                                    ELSE IF c.pc = "unrule" THEN "rule" ELSE "save"]
<1>1. c \in Calls /\ Shaped(p, c, row)
  BY DEF TablesInv
<1>2. c.pc \in {"flush", "add", "unrule", "rule"} /\ Busy(c)
      /\ row' = row /\ order' = order /\ addr' = addr
  BY DEF R!FlushTable, R!AddRoute, R!DelRule, R!AddRule, R!At, Busy
<1>3. \/ calls' = [calls EXCEPT ![p] = next] /\ (c.pc = "rule" => c.save)
      \/ calls' = [calls EXCEPT ![p] = R!Returned(c)] /\ c.pc = "rule" /\ ~c.save
  BY DEF R!FlushTable, R!AddRoute, R!DelRule, R!AddRule, R!At, R!Set
<1>4. CASE calls' = [calls EXCEPT ![p] = next] /\ (c.pc = "rule" => c.save)
  <2>1. /\ next \in Calls /\ Busy(next) /\ next.loop = c.loop /\ next.save = c.save
        /\ next.m = c.m /\ next.table = c.table /\ next.todo = c.todo
        /\ next.pc = "save" => c.save
        /\ next.pc \notin {"idle", "dongles", "routers"}
    BY <1>1, <1>2, <1>4 DEF Calls, Busy
  <2> HIDE DEF next
  <2>2. Registering(next) <=> Registering(c)
    BY <2>1 DEF Registering
  <2>3. Shaped(p, next, row)
    BY <1>1, <1>2, <2>1, <2>2 DEF Shaped
  <2>4. QED
    BY <1>2, <1>4, <2>1, <2>2, <2>3, GoesOn
<1>5. CASE calls' = [calls EXCEPT ![p] = R!Returned(c)] /\ c.pc = "rule" /\ ~c.save
  <2> DEFINE j == R!Returned(c)
  <2>1. /\ j \in Calls /\ j.pc = c.loop /\ j.loop = c.loop /\ j.todo = c.todo /\ ~j.save
        /\ c.loop \in {"idle", "dongles", "routers"}
    BY <1>1, ReturnedCall
  <2>2. calls' = [calls EXCEPT ![p] = j]
    BY <1>5
  <2> HIDE DEF j
  <2>3. ~Registering(j) /\ ~Busy(j)
    BY <2>1 DEF Registering, Busy
  <2>4. Shaped(p, j, row)
    BY <1>1, <2>1, <2>3 DEF Shaped
  <2>5. QED
    BY <1>2, <1>5, <2>1, <2>2, <2>3, <2>4, GoesOn
<1>6. QED
  BY <1>3, <1>4, <1>5

HandedOn(c, m, from, t, j) == j = R!SetupRouting(c, m, from, t, TRUE)

Applied(c, m, from, t, j) == j = R!SetupRouting(c, m, from, t, FALSE)

\* The loop of discover hands the next modem to setup_routing.
LEMMA SetupToSave ==
    ASSUME NEW c \in Calls, NEW m \in R!Modems, NEW from \in Addrs \cup {"none"}, NEW t \in Nat,
           NEW j, HandedOn(c, m, from, t, j)
    PROVE  /\ j \in Calls /\ Busy(j) /\ j.pc = "flush"
           /\ j.m = m /\ j.table = t /\ j.save /\ j.loop = c.loop
           /\ j.todo = c.todo
<1>1. j = [c EXCEPT !.pc = "flush", !.m = m, !.from = from, !.table = t, !.save = TRUE]
  BY DEF HandedOn, R!SetupRouting
<1>2. /\ j.pc = "flush" /\ j.m = m /\ j.table = t /\ j.save = TRUE /\ j.loop = c.loop
      /\ j.todo = c.todo
  BY <1>1 DEF Calls
<1>3. j \in Calls
  <2>1. /\ c.loop \in {"idle", "dongles", "routers"} /\ c.list \in Lists /\ c.at \in Nat
        /\ c.todo \in Todos
    BY DEF Calls
  <2>2. j = [pc |-> "flush", m |-> m, from |-> from, table |-> t, save |-> TRUE,
             loop |-> c.loop, list |-> c.list, at |-> c.at, todo |-> c.todo]
    BY <1>1 DEF Calls
  <2>3. QED
    BY ONLY <2>1, <2>2, m \in R!Modems, from \in Addrs \cup {"none"}, t \in Nat DEF Calls
<1>4. QED
  BY <1>2, <1>3 DEF Busy

\* apply_port saves no row.
LEMMA SetupToApply ==
    ASSUME NEW c \in Calls, NEW m \in R!Modems, NEW from \in Addrs \cup {"none"}, NEW t \in Nat,
           NEW j, Applied(c, m, from, t, j)
    PROVE  /\ j \in Calls /\ Busy(j) /\ j.pc = "flush"
           /\ j.m = m /\ j.table = t /\ ~j.save /\ j.loop = c.loop
           /\ j.todo = c.todo
<1>1. j = [c EXCEPT !.pc = "flush", !.m = m, !.from = from, !.table = t, !.save = FALSE]
  BY DEF Applied, R!SetupRouting
<1>2. /\ j.pc = "flush" /\ j.m = m /\ j.table = t /\ j.save = FALSE /\ j.loop = c.loop
      /\ j.todo = c.todo
  BY <1>1 DEF Calls
<1>3. j \in Calls
  <2>1. /\ c.loop \in {"idle", "dongles", "routers"} /\ c.list \in Lists /\ c.at \in Nat
        /\ c.todo \in Todos
    BY DEF Calls
  <2>2. j = [pc |-> "flush", m |-> m, from |-> from, table |-> t, save |-> FALSE,
             loop |-> c.loop, list |-> c.list, at |-> c.at, todo |-> c.todo]
    BY <1>1 DEF Calls
  <2>3. QED
    BY ONLY <2>1, <2>2, m \in R!Modems, from \in Addrs \cup {"none"}, t \in Nat DEF Calls
<1>4. QED
  BY <1>2, <1>3 DEF Busy

\* discover, from its list of dongles on.
LEMMA DiscoverSteps ==
    ASSUME OneByOne, TablesInv, NEW p \in R!Processes,
           \/ R!RefreshDongle(p) \/ R!ListRouters(p) \/ R!EndDiscover(p)
           \/ \E m \in Routers, t \in R!Tables : R!RefreshRouter(p, m, t)
    PROVE  TablesInv'
<1> DEFINE c == calls[p]
<1>1. c \in Calls /\ Shaped(p, c, row)
  BY DEF TablesInv
<1>2. row' = row /\ order' = order /\ addr' = addr /\ c.pc \in {"dongles", "routers"}
  BY DEF R!RefreshDongle, R!ListRouters, R!EndDiscover, R!RefreshRouter, R!At
<1>3. c.loop = c.pc /\ p \in Timers
  BY <1>1, <1>2 DEF Shaped
<1>4. CASE R!RefreshDongle(p)
  <2> DEFINE next == c.list[c.at + 1]
             b == [c EXCEPT !.at = @ + 1]
             d == next[1]
             from == next[2]
             t == c.at
             j == R!SetupRouting(b, d, from, t, TRUE)
  <2>1. calls' = [calls EXCEPT ![p] = j] /\ c.pc = "dongles" /\ c.at < Len(c.list)
    BY <1>4 DEF R!RefreshDongle, R!Set, R!At
  <2>2. c.list \in Seq(Dongles \X (Addrs \cup {"none"})) /\ t \in Nat
    BY <1>1 DEF Calls, Lists
  <2>3. next \in Dongles \X (Addrs \cup {"none"})
    BY <2>1, <2>2
  <2>4. /\ d \in Dongles /\ d \in R!Modems
        /\ from \in Addrs \cup {"none"}
    BY <2>3 DEF R!Modems
  <2>5. b \in Calls /\ b.loop = c.loop /\ b.todo = c.todo
    BY <1>1, <2>2 DEF Calls
  <2> HIDE DEF b, d, from, t
  <2>6. /\ j \in Calls /\ Busy(j) /\ j.pc = "flush"
        /\ j.m = d /\ j.table = t /\ j.save /\ j.loop = c.loop
        /\ j.todo = c.todo
    <3>1. HandedOn(b, d, from, t, j)
      BY DEF HandedOn
    <3> HIDE DEF j
    <3>2. t \in Nat
      BY <2>2
    <3>3. /\ j \in Calls /\ Busy(j) /\ j.pc = "flush"
          /\ j.m = d /\ j.table = t /\ j.save /\ j.loop = b.loop
          /\ j.todo = b.todo
      BY <2>4, <2>5, <3>1, <3>2, SetupToSave
    <3>4. QED
      BY <2>5, <3>3
  <2> HIDE DEF j
  <2>7. Shaped(p, j, row) /\ ~Registering(j)
    BY <1>1, <1>3, <2>1, <2>2, <2>4, <2>6 DEF Shaped, Registering
  <2>8. QED
    BY <1>2, <2>1, <2>6, <2>7, GoesOn
<1>5. CASE R!ListRouters(p)
  <2> DEFINE j == [R!Idle EXCEPT !.pc = "routers", !.loop = "routers",
                      !.todo = {<<m, row[m].table>> : m \in {r \in Routers : R!Known(r)}}]
  <2>1. calls' = [calls EXCEPT ![p] = j] /\ c.pc = "dongles"
    BY <1>5 DEF R!ListRouters, R!Set, R!At
  <2>2. j.todo = {<<m, row[m].table>> : m \in {r \in Routers : R!Known(r)}}
    BY DEF R!Idle
  <2>3. j.todo \in SUBSET (Routers \X Nat)
    <3>1. ASSUME NEW m \in Routers, R!Known(m)
          PROVE  row[m].table \in Nat
      BY <3>1 DEF TablesInv, RowsOK, R!Known, R!Modems
    <3>2. QED
      BY <2>2, <3>1
  <2>4. j \in Calls /\ j.pc = "routers" /\ j.loop = "routers" /\ ~j.save
    <3>1. j.todo \in Todos
      BY <2>3 DEF Todos
    <3>2. /\ j = [R!Idle EXCEPT !.pc = "routers", !.loop = "routers", !.todo = j.todo]
          /\ j.pc = "routers" /\ j.loop = "routers" /\ j.save = FALSE
      BY DEF R!Idle
    <3> HIDE DEF j
    <3>3. QED
      BY <3>1, <3>2, IdleCall DEF Calls
  <2>5. \A m \in Routers, t \in Nat : <<m, t>> \in j.todo => Has(row, m, t)
    BY <2>2 DEF Has, R!Known
  <2> HIDE DEF j
  <2>6. Shaped(p, j, row) /\ ~Registering(j)
    BY <1>3, <2>4, <2>5 DEF Shaped, Registering, Busy
  <2>7. QED
    BY <1>2, <1>3, <2>1, <2>4, <2>6, CallMove DEF TablesInv
<1>6. CASE R!EndDiscover(p)
  <2>1. calls' = [calls EXCEPT ![p] = R!Idle]
    BY <1>6 DEF R!EndDiscover, R!Set
  <2>2. R!Idle.loop = "idle"
    BY DEF R!Idle
  <2>3. QED
    BY <1>2, <2>1, <2>2, IdleCall, IdleShaped, GoesOn
<1>7. CASE \E m \in Routers, t \in R!Tables : R!RefreshRouter(p, m, t)
  <2>1. PICK m \in Routers, t \in R!Tables : R!RefreshRouter(p, m, t)
    BY <1>7
  <2> DEFINE b == [c EXCEPT !.todo = @ \ {<<m, t>>}]
             j == IF addr[m] = "none" THEN b ELSE R!SetupRouting(b, m, addr[m], t, TRUE)
  <2>2. calls' = [calls EXCEPT ![p] = j] /\ c.pc = "routers" /\ <<m, t>> \in c.todo
    BY <2>1 DEF R!RefreshRouter, R!Set, R!At
  <2>3. c.todo \in SUBSET (Routers \X Nat)
    BY <1>1 DEF Calls, Todos
  <2>4. t \in Nat /\ Has(row, m, t) /\ m \in R!Modems /\ addr[m] \in Addrs \cup {"none"}
    BY <1>1, <2>2, <2>3 DEF Shaped, TablesInv, R!Modems
  <2>5. /\ b \in Calls /\ b.loop = c.loop /\ b.todo \subseteq c.todo /\ b.pc = c.pc
        /\ b.save = c.save
    <3>1. c.todo \ {<<m, t>>} \in Todos
      BY <2>3 DEF Todos
    <3>2. QED
      BY <1>1, <3>1 DEF Calls
  <2> HIDE DEF b
  <2>6. CASE addr[m] = "none"
    <3>1. Shaped(p, b, row) /\ ~Registering(b)
      BY <1>1, <1>3, <2>2, <2>5 DEF Shaped, Registering, Busy
    <3>2. QED
      BY <1>2, <2>2, <2>5, <2>6, <3>1, GoesOn
  <2>7. CASE addr[m] # "none"
    <3> DEFINE from == addr[m]
    <3>1. HandedOn(b, m, from, t, j)
      BY <2>7 DEF HandedOn
    <3> HIDE DEF j, from
    <3>2. /\ j \in Calls /\ Busy(j) /\ j.pc = "flush"
          /\ j.m = m /\ j.table = t /\ j.save /\ j.loop = c.loop
          /\ j.todo \subseteq c.todo
      <4>1. b \in Calls /\ m \in R!Modems /\ from \in Addrs \cup {"none"} /\ t \in Nat
        BY <2>4, <2>5 DEF from
      <4>2. /\ j \in Calls /\ Busy(j) /\ j.pc = "flush"
            /\ j.m = m /\ j.table = t /\ j.save /\ j.loop = b.loop
            /\ j.todo = b.todo
        BY ONLY <3>1, <4>1, SetupToSave
      <4>3. QED
        BY <2>5, <4>2
    <3>3. Shaped(p, j, row) /\ ~Registering(j)
      BY <1>1, <1>3, <2>2, <2>4, <3>2 DEF Shaped, Registering
    <3>4. QED
      BY <1>2, <2>2, <3>2, <3>3, GoesOn
  <2>8. QED
    BY <2>6, <2>7
<1>8. QED
  BY <1>4, <1>5, <1>6, <1>7

\* The row is written: a discovery writes the table that a router has, a
\* registration one that no other router has.
LEMMA SaveSteps ==
    ASSUME OneByOne, TablesInv, NEW p \in R!Processes, R!SaveRow(p)
    PROVE  TablesInv'
<1> DEFINE c == calls[p]
           k == R!Returned(c)
<1>1. /\ c \in Calls /\ Shaped(p, c, row) /\ RowsOK(row)
      /\ \A q \in R!Processes : Shaped(q, calls[q], row)
  BY DEF TablesInv
<1>2. /\ c.pc = "save" /\ Busy(c) /\ c.save
      /\ row' = [row EXCEPT ![c.m] = [addr |-> c.from, table |-> c.table]]
      /\ calls' = [calls EXCEPT ![p] = k]
      /\ order' = order /\ addr' = addr
  BY <1>1 DEF R!SaveRow, R!At, R!Set, Busy, Shaped
<1>3. /\ c.m \in R!Modems /\ c.table \in Nat /\ c.from \in Addrs \cup {"none"}
  BY <1>1, <1>2 DEF Shaped, Calls
<1>4. k \in Calls /\ k.pc = c.loop /\ k.loop = c.loop /\ k.todo = c.todo /\ ~k.save
      /\ c.loop \in {"idle", "dongles", "routers"}
  BY <1>1, ReturnedCall
<1> HIDE DEF k
<1>5. /\ calls' \in [R!Processes -> Calls] /\ calls'[p] = k
      /\ \A q \in R!Processes : q # p => calls'[q] = calls[q]
  BY <1>2, <1>4 DEF TablesInv
<1>6. ~Registering(k) /\ ~Busy(k) /\ k.pc # "save"
  BY <1>4 DEF Registering, Busy
<1>7. RowsOK(row') /\ Has(row', c.m, c.table)
      /\ \A m \in R!Modems : m # c.m => row'[m] = row[m]
  <2> DEFINE new == [addr |-> c.from, table |-> c.table]
  <2>1. new \in Rows /\ new.table = c.table /\ new # R!NoRow
    BY <1>3 DEF Rows, R!NoRow
  <2>2. row' = [row EXCEPT ![c.m] = new]
    BY <1>2
  <2> HIDE DEF new
  <2>3. QED
    BY <1>1, <1>3, <2>1, <2>2 DEF RowsOK, Has
<1>8. "overlap" \notin Hazards =>
         \A a, b \in R!Processes : calls'[a].pc # "idle" /\ calls'[b].pc # "idle" => a = b
  BY <1>2, <1>5 DEF TablesInv, Exclusive
<1>9. \A a \in R!Processes : Registering(calls'[a]) => a # p /\ Registering(calls[a])
  BY <1>5, <1>6
<1>10. CASE c.loop # "idle"
  <2>1. ASSUME NEW m \in Routers
        PROVE  /\ row'[m].table = row[m].table
               /\ row'[m] # R!NoRow <=> row[m] # R!NoRow
    <3>1. m \in R!Modems
      BY DEF R!Modems
    <3>2. CASE m = c.m
      <4>1. Has(row, m, c.table)
        BY ModemsAssumption, <1>1, <1>2, <1>4, <1>10, <3>2 DEF Shaped
      <4>2. QED
        BY <1>7, <3>2, <4>1 DEF Has
    <3>3. QED
      BY <1>7, <3>1, <3>2
  <2>2. ASSUME NEW q \in R!Processes, NEW j, Shaped(q, j, row)
        PROVE  Shaped(q, j, row')
    BY <2>1, <2>2 DEF Shaped, Has
  <2>3. Shaped(p, k, row')
    <3>1. Shaped(p, k, row)
      BY <1>1, <1>4, <1>6 DEF Shaped
    <3>2. QED
      BY <2>2, <3>1
  <2>4. \A q \in R!Processes : Shaped(q, calls'[q], row')
    BY <1>1, <1>5, <2>2, <2>3
  <2>5. Apart(row')
    BY <2>1 DEF TablesInv, Apart
  <2>6. Exclusive(calls', row')
    <3>1. ASSUME NEW a \in R!Processes, Registering(calls'[a]), row'[calls'[a].m] # R!NoRow,
                 NEW q \in Timers
          PROVE  calls'[q].loop = "idle"
      <4>1. a # p /\ Registering(calls[a]) /\ calls'[a] = calls[a]
        BY <1>5, <1>9, <3>1
      <4>2. calls[a].m \in Routers
        BY <1>1, <4>1 DEF Shaped
      <4>3. row[calls[a].m] # R!NoRow
        BY <2>1, <3>1, <4>1, <4>2
      <4>4. \A t \in Timers : calls[t].loop = "idle"
        BY <4>1, <4>3 DEF TablesInv, Exclusive
      <4>5. p \in Timers
        BY <1>1, <1>10 DEF Shaped
      <4>6. QED
        BY <1>10, <4>4, <4>5
    <3>2. QED
      BY <1>5, <1>8, <1>9, <3>1 DEF TablesInv, Exclusive
  <2>7. QED
    BY <1>2, <1>5, <1>7, <2>4, <2>5, <2>6 DEF TablesInv
<1>11. CASE c.loop = "idle"
  <2>1. Registering(c)
    BY <1>2, <1>11 DEF Registering
  <2>2. /\ c.m \in Routers /\ c.table >= Places
        /\ \A q \in Routers \ {c.m} : row[q].table # c.table
    BY <1>1, <1>2, <2>1 DEF Shaped
  <2>3. \A a \in R!Processes : ~Registering(calls'[a])
    BY <1>9, <2>1 DEF TablesInv, Exclusive
  <2>4. ASSUME NEW q \in R!Processes, calls[q].loop = "routers"
        PROVE  row[c.m] = R!NoRow
    BY <1>1, <2>1, <2>4 DEF TablesInv, Exclusive, Shaped
  <2>5. ASSUME NEW q \in R!Processes, NEW m \in Routers, NEW t, calls[q].loop = "routers",
               Has(row, m, t)
        PROVE  Has(row', m, t)
    <3>1. m # c.m /\ m \in R!Modems
      BY <2>4, <2>5 DEF Has, R!Modems
    <3>2. QED
      BY <1>7, <2>5, <3>1 DEF Has
  <2>6. ASSUME NEW q \in R!Processes, q # p
        PROVE  Shaped(q, calls[q], row')
    <3>1. ~Registering(calls[q]) /\ Shaped(q, calls[q], row)
      BY <1>1, <1>5, <2>3, <2>6
    <3>2. QED
      BY <2>5, <3>1 DEF Shaped
  <2>7. Shaped(p, k, row')
    BY <1>1, <1>4, <1>6, <1>11 DEF Shaped
  <2>8. \A q \in R!Processes : Shaped(q, calls'[q], row')
    BY <1>5, <2>6, <2>7
  <2>9. Apart(row')
    <3>1. \A m \in Routers : m \in R!Modems
      BY DEF R!Modems
    <3>2. row'[c.m].table = c.table
      BY <1>7 DEF Has
    <3>3. QED
      BY <1>7, <2>2, <3>1, <3>2 DEF TablesInv, Apart
  <2>10. Exclusive(calls', row')
    BY <1>8, <2>3 DEF Exclusive
  <2>11. QED
    BY <1>2, <1>5, <1>7, <2>8, <2>9, <2>10 DEF TablesInv
<1>12. QED
  BY <1>10, <1>11

\* A discovery begins, a port is applied, a router is registered.
LEMMA BeginSteps ==
    ASSUME OneByOne, TablesInv, NEW p \in R!Processes,
           \/ R!Discover(p)
           \/ \E m \in R!Modems : R!ApplyPort(p, m)
           \/ \E m \in Routers : R!RegisterManual(p, m)
    PROVE  TablesInv'
<1>1. /\ RowsOK(row) /\ order \in Seq(Dongles) /\ addr \in [R!Modems -> Addrs \cup {"none"}]
      /\ \A q \in R!Processes : Shaped(q, calls[q], row)
  BY DEF TablesInv
<1>2. /\ calls[p].pc = "idle" /\ row' = row /\ order' = order /\ addr' = addr
      /\ "overlap" \notin Hazards => \A q \in R!Processes : calls[q].pc = "idle"
  BY DEF R!Discover, R!ApplyPort, R!RegisterManual, R!Asked, R!MayBegin, R!At
<1>3. order' \in Seq(Dongles) /\ addr' \in [R!Modems -> Addrs \cup {"none"}]
  BY <1>1, <1>2
<1>4. R!Idle \in Calls /\ R!Idle.loop = "idle" /\ R!Idle.todo = {}
  BY IdleCall DEF R!Idle
<1>5. CASE R!Discover(p)
  <2> DEFINE list == [i \in DOMAIN order |-> <<order[i], addr[order[i]]>>]
             j == [R!Idle EXCEPT !.pc = "dongles", !.loop = "dongles", !.list = list]
  <2>1. /\ calls' = [calls EXCEPT ![p] = j] /\ p \in Timers
        /\ \A q \in Threads : ~R!Renews(q)
    BY <1>5 DEF R!Discover, R!Set, OneByOne
  <2>2. list \in Lists
    <3>1. DOMAIN order = 1 .. Len(order) /\ Len(order) \in Nat
          /\ \A i \in 1 .. Len(order) : order[i] \in Dongles
      BY <1>1
    <3>2. \A i \in 1 .. Len(order) : addr[order[i]] \in Addrs \cup {"none"}
      BY <1>1, <3>1 DEF R!Modems
    <3>3. list \in [1 .. Len(order) -> Dongles \X (Addrs \cup {"none"})]
      BY <3>1, <3>2
    <3>4. QED
      BY <3>1, <3>3 DEF Lists
  <2> HIDE DEF list
  <2>3. j \in Calls /\ j.pc = "dongles" /\ j.loop = "dongles" /\ ~j.save
    <3>1. /\ j = [R!Idle EXCEPT !.pc = "dongles", !.loop = "dongles", !.list = list]
          /\ j.pc = "dongles" /\ j.loop = "dongles" /\ j.save = FALSE
      BY DEF R!Idle
    <3> HIDE DEF j
    <3>2. QED
      BY <1>4, <2>2, <3>1 DEF Calls
  <2> HIDE DEF j
  <2>4. Shaped(p, j, row) /\ ~Registering(j)
    BY <2>1, <2>3 DEF Shaped, Registering, Busy
  <2>5. \A q \in R!Processes : ~(Registering(calls[q]) /\ row[calls[q].m] # R!NoRow)
    BY <1>1, <2>1 DEF Shaped, Registering, R!Renews, R!Known
  <2>6. QED
    BY <1>2, <1>3, <2>1, <2>3, <2>4, <2>5, CallMove
<1>6. CASE \E m \in R!Modems : R!ApplyPort(p, m)
  <2>1. PICK m \in R!Modems : R!ApplyPort(p, m)
    BY <1>6
  <2> DEFINE from == row[m].addr
             t == row[m].table
             j == R!SetupRouting(R!Idle, m, from, t, FALSE)
  <2>2. calls' = [calls EXCEPT ![p] = j] /\ row[m] # R!NoRow
    BY <2>1 DEF R!ApplyPort, R!Set, R!Known
  <2>3. from \in Addrs \cup {"none"} /\ t \in Nat
    BY <1>1, <2>2 DEF RowsOK, Rows
  <2> HIDE DEF from, t
  <2>4. Applied(R!Idle, m, from, t, j)
    BY DEF Applied
  <2> HIDE DEF j
  <2>5. /\ j \in Calls /\ Busy(j) /\ j.pc = "flush" /\ j.m = m /\ j.table = t
        /\ ~j.save /\ j.loop = "idle"
    BY <1>4, <2>3, <2>4, SetupToApply
  <2>6. Shaped(p, j, row) /\ ~Registering(j)
    BY <2>3, <2>5 DEF Shaped, Registering
  <2>7. QED
    BY <1>2, <1>3, <2>2, <2>5, <2>6, CallMove
<1>7. CASE \E m \in Routers : R!RegisterManual(p, m)
  <2>1. PICK m \in Routers : R!RegisterManual(p, m)
    BY <1>7
  <2> DEFINE from == addr[m]
             t == R!NextTable
             j == R!SetupRouting(R!Idle, m, from, t, TRUE)
  <2>2. calls' = [calls EXCEPT ![p] = j] /\ p \in Threads /\ m \in R!Modems
    BY <2>1 DEF R!RegisterManual, R!Asked, R!Set, R!Modems
  <2>3. {row[d].table : d \in Dongles} = 0 .. Places - 1
    BY <2>1, SameCount DEF R!RegisterManual, OneByOne, Places
  <2>4. /\ from \in Addrs \cup {"none"} /\ t \in Nat /\ t >= Places
        /\ \A q \in R!Modems : row[q].table # t
    BY <1>1, <2>2, <2>3, NextTableBeyond, NextTableFree
  <2>5. row[m] # R!NoRow => \A q \in Timers : calls[q].loop = "idle"
    <3>1. row[m] # R!NoRow => \A q \in Timers : calls[q].pc = "idle"
      BY <2>1 DEF R!RegisterManual, R!Known, R!At, OneByOne
    <3>2. QED
      BY <1>1, <3>1 DEF Shaped, R!Processes
  <2>6. \A q \in R!Processes : ~Registering(calls[q])
    <3>1. SUFFICES ASSUME NEW q \in R!Processes, Registering(calls[q])
                   PROVE  FALSE
      OBVIOUS
    <3>2. q \in Threads /\ calls[q].pc # "idle"
      BY <1>1, <3>1 DEF Shaped, Busy
    <3>3. QED
      BY <1>2, <2>2, <3>2 DEF OneByOne
  <2> HIDE DEF from, t
  <2>7. HandedOn(R!Idle, m, from, t, j)
    BY DEF HandedOn
  <2> HIDE DEF j
  <2>8. /\ j \in Calls /\ Busy(j) /\ j.pc = "flush" /\ j.m = m /\ j.table = t
        /\ j.save /\ j.loop = "idle"
    BY <1>4, <2>2, <2>4, <2>7, SetupToSave
  <2>9. Shaped(p, j, row)
    BY <2>2, <2>4, <2>8 DEF Shaped, Registering, R!Modems
  <2>10. QED
    BY <1>2, <1>3, <2>2, <2>5, <2>6, <2>8, <2>9, CallMove
<1>8. QED
  BY <1>5, <1>6, <1>7

\* A process is killed; modems come and go.
LEMMA AroundSteps ==
    ASSUME OneByOne, TablesInv,
           \/ \E p \in R!Processes : R!Kill(p)
           \/ \E m \in R!Modems, a \in Addrs : R!Plug(m, a)
           \/ \E m \in R!Modems : R!Unplug(m)
    PROVE  TablesInv'
<1>1. order \in Seq(Dongles) /\ addr \in [R!Modems -> Addrs \cup {"none"}]
  BY DEF TablesInv
<1>2. CASE \E p \in R!Processes : R!Kill(p)
  <2>1. PICK p \in R!Processes : R!Kill(p)
    BY <1>2
  <2>2. /\ calls' = [calls EXCEPT ![p] = R!Idle] /\ calls[p].pc # "idle"
        /\ row' = row /\ order' = order /\ addr' = addr /\ R!Idle.loop = "idle"
    BY <2>1 DEF R!Kill, R!Set, R!At, R!Idle
  <2>3. QED
    BY <2>2, IdleCall, IdleShaped, GoesOn
<1>3. CASE \E m \in R!Modems, a \in Addrs : R!Plug(m, a)
  <2>1. PICK m \in R!Modems, a \in Addrs : R!Plug(m, a)
    BY <1>3
  <2>2. addr' = [addr EXCEPT ![m] = a] /\ row' = row /\ calls' = calls
        /\ order' = IF m \in Dongles THEN Append(order, m) ELSE order
    BY <2>1 DEF R!Plug
  <2>3. addr' \in [R!Modems -> Addrs \cup {"none"}] /\ order' \in Seq(Dongles)
    BY <1>1, <2>2
  <2>4. QED
    BY <2>2, <2>3 DEF TablesInv
<1>4. CASE \E m \in R!Modems : R!Unplug(m)
  <2>1. PICK m \in R!Modems : R!Unplug(m)
    BY <1>4
  <2>2. /\ addr' = [addr EXCEPT ![m] = "none"] /\ row' = row /\ calls' = calls
        /\ order' = order \/ \E i \in DOMAIN order : order' = R!RemoveAt(order, i)
    BY <2>1 DEF R!Unplug
  <2>3. addr' \in [R!Modems -> Addrs \cup {"none"}]
    BY <1>1, <2>2
  <2>4. order' \in Seq(Dongles)
    <3>1. ASSUME NEW i \in DOMAIN order
          PROVE  R!RemoveAt(order, i) \in Seq(Dongles)
      <4>1. i \in 1 .. Len(order) /\ Len(order) \in Nat
        BY <1>1
      <4>2. SubSeq(order, 1, i - 1) \in Seq(Dongles)
        BY <1>1, <4>1, SubSeqProperties
      <4>3. SubSeq(order, i + 1, Len(order)) \in Seq(Dongles)
        BY <1>1, <4>1, SubSeqProperties
      <4>4. QED
        BY <4>2, <4>3, ConcatProperties DEF R!RemoveAt
    <3>2. QED
      BY <1>1, <2>2, <3>1
  <2>5. QED
    BY <2>2, <2>3, <2>4 DEF TablesInv
<1>5. QED
  BY <1>2, <1>3, <1>4

LEMMA TablesStep ==
    ASSUME OneByOne, TablesInv, [R!Next]_(R!vars)
    PROVE  TablesInv'
<1>1. CASE UNCHANGED R!vars
  BY <1>1 DEF R!vars, TablesInv
<1>2. CASE R!Next
  BY <1>2, SetupSteps, DiscoverSteps, SaveSteps, BeginSteps, AroundSteps
     DEF R!Next, R!Continue
<1>3. QED
  BY <1>1, <1>2

LEMMA TablesInit ==
    ASSUME OneByOne, R!Init
    PROVE  TablesInv
<1>1. order \in Seq(Dongles)
  <2>1. Cardinality(Dongles) \in Nat
    BY ModemsAssumption, FS_CardinalityType
  <2>2. order \in [1 .. Cardinality(Dongles) -> Dongles]
    BY SameCount DEF R!Init, R!SetToSeqs
  <2>3. QED
    BY <2>1, <2>2
<1>2. addr \in [R!Modems -> Addrs \cup {"none"}]
  BY DEF R!Init
<1>3. RowsOK(row) /\ Apart(row)
  BY DEF R!Init, RowsOK, Apart, Rows, R!NoRow, R!Modems
<1>4. calls \in [R!Processes -> Calls] /\ \A p \in R!Processes : calls[p] = R!Idle
  BY IdleCall DEF R!Init
<1>5. \A p \in R!Processes : Shaped(p, calls[p], row)
  BY <1>4, IdleShaped
<1>6. Exclusive(calls, row)
  BY <1>4, IdleCall DEF Exclusive
<1>7. QED
  BY <1>1, <1>2, <1>3, <1>4, <1>5, <1>6 DEF TablesInv

\* Routers keep tables of their own, out of reach of the dongles (_next_table), when
\* they are registered one at a time after the dongles, and none a second time
\* beside a discovery.
THEOREM RoutersApartThm ==
    ASSUME OneByOne
    PROVE  R!Spec => []RoutersApart
<1>1. R!Init => TablesInv
  BY TablesInit
<1>2. TablesInv /\ [R!Next]_(R!vars) => TablesInv'
  BY TablesStep
<1>3. TablesInv => RoutersApart
  BY SameCount DEF TablesInv, Apart, RoutersApart, R!RoutersApart, R!Known, Places
<1>4. QED
  BY <1>1, <1>2, <1>3, PTL DEF R!Spec
=============================================================================
