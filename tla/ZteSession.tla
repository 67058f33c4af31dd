----------------------------- MODULE ZteSession -----------------------------
(***************************************************************************)
(* The login session of one ZTE device (modems/netdev.py), shared by every *)
(* process of this program and by the operator's browser, which reaches    *)
(* the device through the panel's router proxy (web/app.py).               *)
(*                                                                         *)
(* The device honours only its latest login.  Sessions are numbered in the *)
(* order in which the device issued them, 0 being none.  A call reads the  *)
(* cookie jar when it starts, and another process may rewrite the jar      *)
(* before its answer arrives.  flock guards check-and-login, not the       *)
(* commands that follow it, and the browser's login takes no lock.         *)
(***************************************************************************)
EXTENDS Naturals, Sequences

CONSTANTS Procs,      \* web workers, timers and command line that use the device
          Jobs,       \* what they do: a subset of DOMAIN Commands
          NoProc,
          MaxSession  \* bound on the logins of a behaviour

VARIABLES
    firmware,   \* "MF833" (encrypted SMS) or "MC801A" (AD tokens); never changes
    session,    \* the login the device honours
    issued,     \* logins so far
    token,      \* the process whose RD the device last issued
    key,        \* the process whose AES key the session uses
    radio,      \* [bearer, online]
    jar,        \* the session in the cookie file
    lock,       \* holder of <jar>.lock
    browser,    \* a login of the browser that the panel has not adopted yet
    job, at, step,  \* process -> its job, the call it waits for, its command
    cookie,     \* process -> the cookie of that call
    aes,        \* process -> it encrypts with a key of its own
    crossed,    \* since the lock was taken, the browser logged in or was adopted,
                \* or the check got no answer
    unrestored, \* what of the radio a failed command or a killed rotation left down
    doubtful    \* processes that may not have the session's key: their handshake
                \* failed, or another's, or a new session, came after it

device == <<firmware, session, issued, token, key, radio>>
local == <<job, at, step, cookie, aes>>
history == <<crossed, unrestored, doubtful>>
vars == <<device, jar, lock, browser, local, history>>

-----------------------------------------------------------------------------
(* What each job asks of the device *)

Bearers == {"Only_WCDMA", "NETWORK_auto", "4G_AND_5G"}

\* Mutant: only the preference of the MF firmware is restored.
RotateCommandsOneFamily ==
    <<"DISCONNECT", "Only_WCDMA", "NETWORK_auto", "CONNECT">>

\* _rotate_zte
RotateCommands ==
    <<"DISCONNECT", "Only_WCDMA", "NETWORK_auto", "4G_AND_5G", "CONNECT">>

\* reboot_zte
RebootCommands == <<"REBOOT_DEVICE">>

\* list_sms_zte, send_sms_zte, delete_sms_zte
ListCommands == <<"web_http_enstr_set", "sms_data_total">>
SendCommands == <<"web_http_enstr_set", "SEND_SMS">>
DeleteCommands == <<"DELETE_SMS">>

\* _status_zte only needs the session.
Commands ==
    [rotate |-> RotateCommands, reboot |-> RebootCommands,
     list |-> ListCommands, send |-> SendCommands, delete |-> DeleteCommands,
     status |-> <<>>]

ASSUME ProcsAssumption == NoProc \notin Procs

ASSUME JobsAssumption == Jobs \subseteq DOMAIN Commands

ASSUME BoundAssumption == MaxSession \in Nat

\* Of the two preferences that restore 4G the unsupported one is answered with
\* a failure and ignored.
AutoBearer == IF firmware = "MC801A" THEN "4G_AND_5G" ELSE "NETWORK_auto"

Up == [bearer |-> "auto", online |-> TRUE]

\* What a rotation takes down, and the command that brings it back.
Aspects == {"bearer", "online"}
Lowers(a) == IF a = "bearer" THEN "Only_WCDMA" ELSE "DISCONNECT"
Restores(a) == IF a = "bearer" THEN AutoBearer ELSE "CONNECT"

TypeOK ==
    /\ firmware \in {"MF833", "MC801A"}
    /\ issued \in 0 .. MaxSession
    /\ {session, jar, browser} \subseteq 0 .. issued
    /\ {token, key, lock} \subseteq Procs \cup {NoProc}
    /\ radio \in [bearer : {"3g", "auto"}, online : BOOLEAN]
    /\ job \in [Procs -> Jobs \cup {"none"}]
    /\ at \in [Procs -> {"idle", "lock", "loginfo", "LD", "LOGIN", "saved", "RD", "POST"}]
    /\ \A p \in Procs : at[p] = "POST" => step[p] \in DOMAIN Commands[job[p]]
    /\ cookie \in [Procs -> 0 .. issued]
    /\ aes \in [Procs -> BOOLEAN]
    /\ unrestored \subseteq Aspects /\ doubtful \subseteq Procs

Init ==
    /\ firmware \in {"MF833", "MC801A"}
    /\ session = 0 /\ issued = 0 /\ jar = 0 /\ browser = 0
    /\ token = NoProc /\ key = NoProc /\ lock = NoProc
    /\ radio = Up
    /\ job = [p \in Procs |-> "none"]
    /\ at = [p \in Procs |-> "idle"]
    /\ step = [p \in Procs |-> 1]
    /\ cookie = [p \in Procs |-> 0]
    /\ aes = [p \in Procs |-> FALSE]
    /\ crossed = FALSE /\ unrestored = {} /\ doubtful = {}

-----------------------------------------------------------------------------
(* _zte_session: check and, if need be, log in, under the lock *)

\* A poll asks for a session only after its own call came back blank.
Start(p, j) ==
    /\ at[p] = "idle"
    /\ j = "status" => jar # session
    /\ job' = [job EXCEPT ![p] = j]
    /\ at' = [at EXCEPT ![p] = "lock"]
    /\ UNCHANGED <<device, jar, lock, browser, step, cookie, aes, history>>

\* Mutant: the lock is not waited for.
TakeLockUnguarded(p) ==
    /\ at[p] = "lock"
    /\ lock' = p
    /\ cookie' = [cookie EXCEPT ![p] = jar]
    /\ at' = [at EXCEPT ![p] = "loginfo"]
    /\ crossed' = FALSE
    /\ UNCHANGED <<device, jar, browser, job, step, aes, unrestored, doubtful>>

TakeLock(p) ==
    /\ at[p] = "lock"
    /\ lock = NoProc
    /\ lock' = p
    /\ cookie' = [cookie EXCEPT ![p] = jar]
    /\ at' = [at EXCEPT ![p] = "loginfo"]
    /\ crossed' = FALSE
    /\ UNCHANGED <<device, jar, browser, job, step, aes, unrestored, doubtful>>

\* p's job is done, or gone: nothing of it is left in the process.
Gone(p) ==
    /\ job' = [job EXCEPT ![p] = "none"]
    /\ at' = [at EXCEPT ![p] = "idle"]
    /\ step' = [step EXCEPT ![p] = 1]
    /\ cookie' = [cookie EXCEPT ![p] = 0]
    /\ aes' = [aes EXCEPT ![p] = FALSE]

Done(p) == Gone(p) /\ doubtful' = doubtful \ {p}

\* The session is settled: the lock is released, the commands follow.
Settled(p) ==
    /\ lock' = NoProc
    /\ IF Commands[job[p]] = <<>> THEN Done(p)
       ELSE /\ at' = [at EXCEPT ![p] = "RD"]
            /\ cookie' = [cookie EXCEPT ![p] = 0]
            /\ UNCHANGED <<job, step, aes, doubtful>>

Current(p) == cookie[p] = session /\ session # 0

\* Mutant: every call writes the jar back when it ends.
JarAfterAny(p) == cookie[p]

\* _http: curl is given `-c` only in the calls of the login.
JarAfter(p) == IF at[p] \in {"LD", "LOGIN", "saved"} THEN cookie[p] ELSE jar

\* _zte_logged_in: the session is the device's own; nothing to do.
CheckPasses(p) ==
    /\ at[p] = "loginfo"
    /\ Current(p)
    /\ jar' = JarAfter(p)
    /\ Settled(p)
    /\ UNCHANGED <<device, browser, crossed, unrestored>>

\* The answer says otherwise, or there is none in five seconds.
CheckFails(p) ==
    /\ at[p] = "loginfo"
    /\ crossed' = (crossed \/ Current(p))
    /\ jar' = JarAfter(p)
    /\ cookie' = [cookie EXCEPT ![p] = jar']
    /\ at' = [at EXCEPT ![p] = "LD"]
    /\ UNCHANGED <<device, lock, browser, job, step, aes, unrestored, doubtful>>

\* The challenge of _zte_login; curl rewrites the jar with what it had read.
Challenge(p) ==
    /\ at[p] = "LD"
    /\ jar' = JarAfter(p)
    /\ at' = [at EXCEPT ![p] = "LOGIN"]
    /\ UNCHANGED <<device, lock, browser, job, step, cookie, aes, history>>

\* Whoever agreed on a key has it no longer, or not for certain.
KeysLost == doubtful' = doubtful \cup {q \in Procs : aes[q]}

\* The device opens a new session and forgets the one it had, with its key.
NewSession ==
    /\ issued < MaxSession
    /\ issued' = issued + 1
    /\ session' = issued'
    /\ key' = NoProc
    /\ token' = NoProc
    /\ KeysLost

\* The answer brings the cookie of the new session; it may be lost.
Login(p) ==
    /\ at[p] = "LOGIN"
    /\ NewSession
    /\ cookie' \in {cookie, [cookie EXCEPT ![p] = issued']}
    /\ at' = [at EXCEPT ![p] = "saved"]
    /\ UNCHANGED <<firmware, radio, jar, lock, browser, job, step, aes, crossed, unrestored>>

\* Wrong password, or the device is not reached: the commands go out without a
\* session.
LoginFails(p) ==
    /\ at[p] = "LOGIN"
    /\ at' = [at EXCEPT ![p] = "saved"]
    /\ UNCHANGED <<device, jar, lock, browser, job, step, cookie, aes, history>>

LoginSaved(p) ==
    /\ at[p] = "saved"
    /\ jar' = JarAfter(p)
    /\ Settled(p)
    /\ UNCHANGED <<device, browser, crossed, unrestored>>

-----------------------------------------------------------------------------
(* Commands of a job.  Any call may go unanswered, and the code takes that   *)
(* for a refusal.  What the device does of a command whose answer is lost,   *)
(* it does; only for a login, a handshake and a reading does that differ     *)
(* from an answered one.                                                     *)

Command(p) == Commands[job[p]][step[p]]

\* zte_set, first half: a fresh RD nonce, which the device replaces with every
\* request for one.  Unanswered, like the base hash, it leaves the command without
\* AD.  A listing and reboot_zte ask for none.  The call that follows reads the
\* jar.
TakeToken(p) ==
    /\ at[p] = "RD"
    /\ Command(p) = "web_http_enstr_set" => firmware = "MF833"
    /\ token' \in IF Command(p) \in {"sms_data_total", "REBOOT_DEVICE"}
                  THEN {token} ELSE {p, token, NoProc}
    /\ cookie' = [cookie EXCEPT ![p] = jar]
    /\ at' = [at EXCEPT ![p] = "POST"]
    /\ UNCHANGED <<firmware, session, issued, key, radio, jar, lock, browser,
                   job, step, aes, history>>

\* Only the MC801A insists on AD, which a reading needs not and reboot_zte lacks.
Accepted(p) ==
    /\ at[p] = "POST"
    /\ Current(p)
    /\ firmware = "MC801A" =>
         \/ Command(p) = "sms_data_total"
         \/ token = p /\ Command(p) # "REBOOT_DEVICE"

\* On to the next command, which asks for its own token.
Onward(p) ==
    /\ step' = [step EXCEPT ![p] = @ + 1]
    /\ at' = [at EXCEPT ![p] = "RD"]
    /\ cookie' = [cookie EXCEPT ![p] = 0]
    /\ jar' = JarAfter(p)
    /\ UNCHANGED <<firmware, issued, token, lock, browser, job, crossed>>

\* The command was the last one and the job is done, or the next one follows.
Advance(p) ==
    \/ /\ step[p] < Len(Commands[job[p]])
       /\ Onward(p)
       /\ UNCHANGED <<aes, doubtful>>
    \/ /\ step[p] = Len(Commands[job[p]])
       /\ Done(p)
       /\ jar' = JarAfter(p)
       /\ UNCHANGED <<firmware, issued, token, lock, browser, crossed>>

\* Refused by the device, or never received.
Fails(p) ==
    /\ at[p] = "POST"
    /\ Command(p) # "web_http_enstr_set"
    /\ unrestored' = unrestored \cup {a \in Aspects : Command(p) = Restores(a)}
    /\ Advance(p)
    /\ UNCHANGED <<session, key, radio>>

\* _rotate_zte: link down, down to 3G, back to automatic, link up.
SetRadio(p) ==
    /\ Accepted(p)
    /\ Command(p) \in Bearers \cup {"DISCONNECT", "CONNECT"}
    /\ radio' =
         [bearer |-> IF Command(p) = "Only_WCDMA" THEN "3g"
                     ELSE IF Command(p) = AutoBearer THEN "auto" ELSE radio.bearer,
          online |-> IF Command(p) = "DISCONNECT" THEN FALSE
                     ELSE IF Command(p) = "CONNECT" THEN TRUE ELSE radio.online]
    /\ unrestored' = unrestored \ {a \in Aspects : Command(p) = Restores(a)}
    /\ Advance(p)
    /\ UNCHANGED <<session, key>>

\* Mutant: only a listing posts its key; a send trusts one the device does not have.
HandshakeOnlyOnList(p) ==
    /\ Accepted(p)
    /\ Command(p) = "web_http_enstr_set"
    /\ key' = IF job[p] = "list" THEN p ELSE key
    /\ aes' = [aes EXCEPT ![p] = TRUE]
    /\ doubtful' = doubtful \cup {q \in Procs \ {p} : aes[q]}
    /\ Onward(p)
    /\ UNCHANGED <<session, radio, unrestored>>

\* _zte_enc_key: this session's fields are encrypted with p's key from now on.
Handshake(p) ==
    /\ Accepted(p)
    /\ Command(p) = "web_http_enstr_set"
    /\ key' = p
    /\ aes' = [aes EXCEPT ![p] = TRUE]
    /\ doubtful' = doubtful \cup {q \in Procs \ {p} : aes[q]}
    /\ Onward(p)
    /\ UNCHANGED <<session, radio, unrestored>>

\* _zte_enc_key returns None, and the fields are taken for plain: the handshake was
\* refused or not received, or its answer was lost.
HandshakeFails(p) ==
    /\ at[p] = "POST"
    /\ Command(p) = "web_http_enstr_set"
    /\ \/ /\ UNCHANGED key
          /\ doubtful' = doubtful \cup {p}
       \/ /\ Accepted(p)
          /\ key' = p
          /\ doubtful' = doubtful \cup {p} \cup {q \in Procs : aes[q]}
    /\ Onward(p)
    /\ UNCHANGED <<session, radio, aes, unrestored>>

\* No certificate, no handshake: a device without the scheme has none, a call that
\* is not answered brings none.
NoCertificate(p) ==
    /\ at[p] = "RD"
    /\ Command(p) = "web_http_enstr_set"
    /\ doubtful' = IF firmware = "MF833" THEN doubtful \cup {p} ELSE doubtful
    /\ Onward(p)
    /\ UNCHANGED <<session, key, radio, aes, unrestored>>

\* A message sent, or the messages read, in the form that Legible is about.
ExchangeSms(p) ==
    /\ Accepted(p)
    /\ Command(p) \in {"SEND_SMS", "sms_data_total"}
    /\ Advance(p)
    /\ UNCHANGED <<session, key, radio, unrestored>>

DeleteSms(p) ==
    /\ Accepted(p)
    /\ Command(p) = "DELETE_SMS"
    /\ Advance(p)
    /\ UNCHANGED <<session, key, radio, unrestored>>

\* The session ends, and p's job; p itself encrypts nothing.
Reboot(p) ==
    /\ Accepted(p)
    /\ Command(p) = "REBOOT_DEVICE"
    /\ session' = 0
    /\ key' = NoProc
    /\ KeysLost
    /\ Gone(p)
    /\ jar' = JarAfter(p)
    /\ UNCHANGED <<firmware, issued, token, radio, lock, browser, crossed, unrestored>>

\* What a killed rotation has taken down and would still have brought back.
ToCome(p) == {Commands[job[p]][i] : i \in step[p] .. Len(Commands[job[p]])}
Owed(p) == {a \in Aspects : Lowers(a) \notin ToCome(p) /\ Restores(a) \in ToCome(p)}

\* The process is killed; the kernel drops its flock.
Crash(p) ==
    /\ at[p] # "idle"
    /\ Done(p)
    /\ lock' = IF lock = p THEN NoProc ELSE lock
    /\ unrestored' = unrestored \cup Owed(p)
    /\ UNCHANGED <<device, jar, browser, crossed>>

-----------------------------------------------------------------------------
(* The browser, through _forward_to_router, and the device itself *)

BrowserLogin ==
    /\ browser = 0
    /\ NewSession
    /\ browser' = issued'
    /\ crossed' = (lock # NoProc)
    /\ UNCHANGED <<firmware, radio, jar, lock, local, unrestored>>

\* zte_adopt_session: the answer to the login had a stok cookie.
Adopt ==
    /\ browser # 0
    /\ jar' = browser
    /\ browser' = 0
    /\ crossed' = (lock # NoProc)
    /\ UNCHANGED <<device, lock, local, unrestored, doubtful>>

\* The panel never saw the answer (504), or it carried another cookie.
NotAdopted ==
    /\ browser # 0
    /\ browser' = 0
    /\ UNCHANGED <<device, jar, lock, local, history>>

\* The session times out in the device.
Expire ==
    /\ session # 0
    /\ session' = 0
    /\ key' = NoProc
    /\ KeysLost
    /\ UNCHANGED <<firmware, issued, token, radio, jar, lock, browser, local,
                   crossed, unrestored>>

Step(p) ==
    \/ \E j \in Jobs : Start(p, j)
    \/ TakeLock(p) \/ CheckPasses(p) \/ CheckFails(p)
    \/ Challenge(p) \/ Login(p) \/ LoginFails(p) \/ LoginSaved(p)
    \/ TakeToken(p) \/ Fails(p) \/ SetRadio(p)
    \/ Handshake(p) \/ HandshakeFails(p) \/ NoCertificate(p)
    \/ ExchangeSms(p) \/ DeleteSms(p) \/ Reboot(p) \/ Crash(p)

Next == (\E p \in Procs : Step(p)) \/ BrowserLogin \/ Adopt \/ NotAdopted \/ Expire

Spec == Init /\ [][Next]_vars

-----------------------------------------------------------------------------
(* Properties *)

\* "A slow call started before the panel adopted a newer session must not put
\* the stale cookie back" (netdev.py:315): the jar goes back to an older session
\* only by a login under way or by a late adoption, never by any other call.
SlowCallsKeepJar ==
    [][jar' < jar => lock # NoProc \/ browser # 0]_vars

\* "We only log in when that session is really gone" (netdev.py:378), "so two of
\* them never log in back to back and invalidate each other": a login of ours
\* ends a session that the jar holds only if the browser's login crossed it or
\* the check got no answer.
LoginsNotWasted ==
    [][\A p \in Procs :
          at[p] = "LOGIN" /\ session' # session /\ browser' = browser
          /\ session # 0 /\ jar = session => crossed]_vars

\* "Neither family is left stuck on 3G" (netdev.py:828), nor off line: rotations
\* may overlap and sessions may change hands under them, but when none is under way
\* the radio is down only for want of the one command that brings it back: the last
\* attempt at it failed, or a rotation was killed that had still to give it.
RadioRestored ==
    (\A p \in Procs : job[p] = "rotate" => at[p] = "idle") =>
        /\ radio.bearer = "auto" \/ "bearer" \in unrestored
        /\ radio.online \/ "online" \in unrestored

\* Both sides of an exchange use one key or none; p also reads what is plain,
\* whatever key it has (_zte_gcm_decrypt falls back to the raw field).
Legible(p) ==
    \/ key = IF aes[p] THEN p ELSE NoProc
    \/ Command(p) = "sms_data_total" /\ key = NoProc

\* The keys of successive SMS jobs in one shared session do not get mixed up: what
\* the device and a job exchange is legible to both, unless the job's own handshake
\* failed, or another's, or a new session, came between it and the exchange.
SmsReadable ==
    \A p \in Procs :
        Accepted(p) /\ Command(p) \in {"SEND_SMS", "sms_data_total"} =>
            Legible(p) \/ p \in doubtful

=============================================================================
