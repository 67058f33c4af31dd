------------------------------ MODULE PoolSync ------------------------------
(***************************************************************************)
(* The rotating pool port: sync_pool of proxy/generator.py with the config *)
(* file it takes its switch and its password from (config.py), the 3proxy  *)
(* config it writes, and the systemd unit that runs it.                    *)
(*                                                                         *)
(* sync_pool is called by every discovery and by every operation on a      *)
(* proxy, in the web service (which lives on and caches the configuration) *)
(* and in one-shot processes (which load it afresh).  Nothing excludes two *)
(* calls from one another.  Every access to a file or to systemd is a step *)
(* of its own.                                                             *)
(***************************************************************************)
EXTENDS Integers, FiniteSets

CONSTANTS Modems,       \* modems that may be live
          Threads,      \* worker threads of the web service
          Timers,       \* one-shot processes: discovery, quota, expiry, CLI
          MaxChanges,   \* bound: changes of the modems, the switch, failures
          MaxPasswords, \* bound: passwords generated
          Hazards       \* which of the optional events below may happen

ASSUME PoolHazards ==
    Hazards \subseteq {"overlap", "kill", "reboot", "unit dies", "blank password"}

ASSUME PoolBounds == MaxChanges \in Nat /\ MaxPasswords \in Nat \ {0}

ASSUME PoolProcs == Threads \cap Timers = {} /\ "web" \notin Timers

VARIABLES
    live,     \* the modems that _pool_members selects
    saved,    \* config.yaml: pool_enable and pool_password
    cached,   \* process -> its cached configuration
    file,     \* 3proxy.pool.cfg
    running,  \* the config that the running pool has loaded
    up,       \* systemd was last told to run the unit
    boot,     \* the unit is enabled
    job,      \* what a thread or timer is in the middle of
    issued,   \* history: how many passwords were generated
    chosen,   \* history: the administrator's last choice of pool_enable
    idly,     \* history: a restart cut connections and changed nothing
    torn,     \* history: what a killed call left half done
    budget    \* environment changes left

vars == <<live, saved, cached, file, running, up, boot, job,
          issued, chosen, idly, torn, budget>>

Procs == Threads \cup Timers

\* The operating-system process; worker threads share their cache.
Host(p) == IF p \in Threads THEN "web" ELSE p

Conf == [enable : BOOLEAN, pw : 0 .. MaxPasswords]    \* pw 0: blank
NoConf == [enable |-> FALSE, pw |-> -1]               \* not loaded
Defaults == [enable |-> TRUE, pw |-> 0]               \* an empty file

Text == [members : (SUBSET Modems) \ {{}}, pw : 1 .. MaxPasswords]
NoText == [members |-> {}, pw |-> 0]                  \* None, no file, not running

Idle == [pc |-> "idle", enable |-> FALSE, text |-> NoText, draft |-> NoConf,
         changed |-> FALSE]

Steps == {"idle", "toggle", "toggle fill", "text", "save", "fill", "exists",
          "compare", "write", "enable", "start", "stop", "disable", "unlink"}

Job == [pc : Steps, enable : BOOLEAN, text : Text \cup {NoText},
        draft : Conf \cup {NoConf}, changed : BOOLEAN]

TypeOK ==
    /\ live \in SUBSET Modems
    /\ saved \in Conf
    /\ cached \in [Timers \cup {"web"} -> Conf \cup {NoConf}]
    /\ file \in Text \cup {NoText}
    /\ running \in Text \cup {NoText}
    /\ up \in BOOLEAN /\ boot \in BOOLEAN
    /\ job \in [Procs -> Job]
    /\ \A p \in Procs :
          job[p].pc \in {"toggle", "toggle fill", "save", "fill"} => job[p].draft \in Conf
    /\ issued \in 0 .. MaxPasswords
    /\ chosen \in BOOLEAN /\ idly \in BOOLEAN
    /\ torn \subseteq {"config", "unit"}
    /\ budget \in 0 .. MaxChanges
    /\ running # NoText => up

Init ==
    /\ live = {}
    /\ saved = [enable |-> TRUE, pw |-> IF "blank password" \in Hazards THEN 0 ELSE 1]
    /\ cached = [h \in Timers \cup {"web"} |-> NoConf]
    /\ file = NoText /\ running = NoText
    /\ up = FALSE /\ boot = FALSE
    /\ job = [p \in Procs |-> Idle]
    /\ issued = 0 /\ chosen = TRUE /\ idly = FALSE /\ torn = {}
    /\ budget = MaxChanges

-----------------------------------------------------------------------------
(* Helpers *)

\* get_config: loaded once per process.
GetConfig(p) == IF cached[Host(p)] = NoConf THEN saved ELSE cached[Host(p)]

Quiet == \A p \in Procs : job[p].pc = "idle"

\* p may begin: without "overlap" the calls come one at a time.
MayBegin(p) ==
    /\ job[p].pc = "idle"
    /\ "overlap" \notin Hazards => Quiet

At(p, pc) == job[p].pc = pc
Goto(p, pc) == job' = [job EXCEPT ![p].pc = pc]

\* The call returns; a one-shot process ends with it.
Ended(h, p) == IF p \in Threads THEN h ELSE [h EXCEPT ![p] = NoConf]
Finish(p) ==
    /\ job' = [job EXCEPT ![p] = Idle]
    /\ cached' = Ended(cached, p)

Units == <<running, up, boot>>
History == <<issued, chosen, idly, torn>>

-----------------------------------------------------------------------------
(* api_pool_rotating_set: update_config({"pool_enable": ...}), then sync *)

\* Mutant: the key is merged into the cached configuration, not the file.
ToggleReadCached(p, on) ==
    /\ p \in Threads
    /\ MayBegin(p)
    /\ budget > 0
    /\ budget' = budget - 1
    /\ job' = [job EXCEPT ![p] = [Idle EXCEPT !.pc = "toggle", !.draft =
                                    [GetConfig(p) EXCEPT !.enable = on]]]
    /\ chosen' = on
    /\ UNCHANGED <<live, saved, cached, file, Units, issued, idly, torn>>

\* Read and merge, then open the file for writing, which empties it.
ToggleRead(p, on) ==
    /\ p \in Threads
    /\ MayBegin(p)
    /\ budget > 0
    /\ budget' = budget - 1
    /\ job' = [job EXCEPT ![p] = [Idle EXCEPT !.pc = "toggle", !.draft =
                                    [saved EXCEPT !.enable = on]]]
    /\ chosen' = on
    /\ UNCHANGED <<live, saved, cached, file, Units, issued, idly, torn>>

ToggleTruncate(p) ==
    /\ At(p, "toggle")
    /\ saved' = Defaults
    /\ Goto(p, "toggle fill")
    /\ UNCHANGED <<live, cached, file, Units, History, budget>>

\* Write the merged keys and reload the cache from the file; sync_pool starts.
ToggleFill(p) ==
    /\ At(p, "toggle fill")
    /\ saved' = job[p].draft
    /\ cached' = [cached EXCEPT !["web"] = job[p].draft]
    /\ job' = [job EXCEPT ![p] = [Idle EXCEPT !.pc = "text",
                                              !.enable = job[p].draft.enable]]
    /\ UNCHANGED <<live, file, Units, History, budget>>

-----------------------------------------------------------------------------
(* sync_pool *)

\* cfg = get_config()
Begin(p) ==
    /\ MayBegin(p)
    /\ cached' = [cached EXCEPT ![Host(p)] = GetConfig(p)]
    /\ job' = [job EXCEPT ![p] = [Idle EXCEPT !.pc = "text",
                                              !.enable = GetConfig(p).enable]]
    /\ UNCHANGED <<live, saved, file, Units, History, budget>>

\* _render_pool_text: the members are one query.  A blank password is
\* generated, and saved by a read-merge-write of the config file.
RenderText(p) ==
    LET pw == GetConfig(p).pw IN
    /\ At(p, "text")
    /\ \/ /\ ~ job[p].enable \/ live = {}
          /\ Goto(p, "stop")
          /\ UNCHANGED issued
       \/ /\ job[p].enable /\ live # {} /\ pw # 0
          /\ job' = [job EXCEPT ![p].pc = "exists",
                                ![p].text = [members |-> live, pw |-> pw]]
          /\ UNCHANGED issued
       \/ /\ job[p].enable /\ live # {} /\ pw = 0
          /\ issued < MaxPasswords
          /\ issued' = issued + 1
          /\ job' = [job EXCEPT ![p].pc = "save",
                                ![p].text = [members |-> live, pw |-> issued + 1],
                                ![p].draft = [saved EXCEPT !.pw = issued + 1]]
    /\ UNCHANGED <<live, saved, cached, file, Units, chosen, idly, torn, budget>>

SaveTruncate(p) ==
    /\ At(p, "save")
    /\ saved' = Defaults
    /\ Goto(p, "fill")
    /\ UNCHANGED <<live, cached, file, Units, History, budget>>

SaveFill(p) ==
    /\ At(p, "fill")
    /\ saved' = job[p].draft
    /\ cached' = [cached EXCEPT ![Host(p)] = job[p].draft]
    /\ Goto(p, "exists")
    /\ UNCHANGED <<live, file, Units, History, budget>>

\* changed = not out.exists() or out.read_text() != text
CheckExists(p) ==
    /\ At(p, "exists")
    /\ job' = [job EXCEPT ![p].pc = IF file = NoText THEN "write" ELSE "compare",
                          ![p].changed = (file = NoText)]
    /\ UNCHANGED <<live, saved, cached, file, Units, History, budget>>

\* Mutant: the texts are not compared, an existing file counts as current.
CompareNever(p) ==
    /\ At(p, "compare")
    /\ file # NoText
    /\ Goto(p, "enable")
    /\ UNCHANGED <<live, saved, cached, file, Units, History, budget>>

\* A file that was unlinked since raises; the callers swallow it.
Compare(p) ==
    /\ At(p, "compare")
    /\ \/ /\ file # NoText
          /\ job' = [job EXCEPT ![p].pc = IF file # job[p].text THEN "write" ELSE "enable",
                                ![p].changed = (file # job[p].text)]
          /\ UNCHANGED cached
       \/ file = NoText /\ Finish(p)
    /\ UNCHANGED <<live, saved, file, Units, History, budget>>

WriteFile(p) ==
    /\ At(p, "write")
    /\ file' = job[p].text
    /\ Goto(p, "enable")
    /\ UNCHANGED <<live, saved, cached, Units, History, budget>>

EnableUnit(p) ==
    /\ At(p, "enable")
    /\ boot' = TRUE
    /\ Goto(p, "start")
    /\ UNCHANGED <<live, saved, cached, file, running, up, History, budget>>

\* Mutant: `restart` and `start` are mixed up.
StartOnly(p) ==
    /\ At(p, "start")
    /\ up' = TRUE
    /\ running' = IF running # NoText THEN running ELSE file
    /\ Finish(p)
    /\ UNCHANGED <<live, saved, file, boot, History, budget>>

\* Mutant: a blind restart, whether or not the config changed.
RestartAlways(p) ==
    /\ At(p, "start")
    /\ up' = TRUE
    /\ running' = file
    /\ idly' = (idly \/ (running # NoText /\ running = file))
    /\ Finish(p)
    /\ UNCHANGED <<live, saved, file, boot, issued, chosen, torn, budget>>

\* restart loads the file anew; start leaves a running pool alone.
StartUnit(p) ==
    LET restart == job[p].changed IN
    /\ At(p, "start")
    /\ up' = TRUE
    /\ running' = IF running # NoText /\ ~ restart THEN running ELSE file
    /\ idly' = (idly \/ (restart /\ running # NoText /\ running = file))
    /\ Finish(p)
    /\ UNCHANGED <<live, saved, file, boot, issued, chosen, torn, budget>>

\* Mutant: the unit is only disabled later, not stopped now.
StopUnitLater(p) ==
    /\ At(p, "stop")
    /\ up' = FALSE
    /\ Goto(p, "disable")
    /\ UNCHANGED <<live, saved, cached, file, running, boot, History, budget>>

StopUnit(p) ==
    /\ At(p, "stop")
    /\ up' = FALSE
    /\ running' = NoText
    /\ Goto(p, "disable")
    /\ UNCHANGED <<live, saved, cached, file, boot, History, budget>>

DisableUnit(p) ==
    /\ At(p, "disable")
    /\ boot' = FALSE
    /\ Goto(p, "unlink")
    /\ UNCHANGED <<live, saved, cached, file, running, up, History, budget>>

UnlinkFile(p) ==
    /\ At(p, "unlink")
    /\ file' = NoText
    /\ Finish(p)
    /\ UNCHANGED <<live, saved, Units, History, budget>>

-----------------------------------------------------------------------------
(* The environment *)

\* Modems come online and go offline, are disabled, locked, expire.
ModemsChange(members) ==
    /\ budget > 0
    /\ budget' = budget - 1
    /\ live' = members
    /\ UNCHANGED <<saved, cached, file, Units, job, History>>

\* 3proxy exits; Restart=always starts it again, as long as it finds a file.
UnitDies ==
    /\ "unit dies" \in Hazards
    /\ budget > 0
    /\ budget' = budget - 1
    /\ running # NoText
    /\ running' = NoText
    /\ UNCHANGED <<live, saved, cached, file, up, boot, job, History>>

Respawn ==
    /\ up
    /\ running = NoText
    /\ file # NoText
    /\ running' = file
    /\ UNCHANGED <<live, saved, cached, file, up, boot, job, History, budget>>

\* What a call leaves half done when it dies: a change of the config file, or
\* a new config that the unit has not been told of.
HalfDone(p) ==
    (IF job[p].pc \in {"toggle", "toggle fill", "save", "fill"} THEN {"config"} ELSE {})
    \cup
    (IF job[p].pc \in {"enable", "start"} /\ job[p].changed THEN {"unit"} ELSE {})

\* A process is killed in the middle of a call (for the web service, all its
\* threads and its cache).
Kill(h) ==
    /\ "kill" \in Hazards
    /\ budget > 0
    /\ budget' = budget - 1
    /\ job' = [p \in Procs |-> IF Host(p) = h THEN Idle ELSE job[p]]
    /\ cached' = [cached EXCEPT ![h] = NoConf]
    /\ torn' = torn \cup UNION {HalfDone(p) : p \in {q \in Procs : Host(q) = h}}
    /\ UNCHANGED <<live, saved, file, Units, issued, chosen, idly>>

Reboot ==
    /\ "reboot" \in Hazards
    /\ budget > 0
    /\ budget' = budget - 1
    /\ job' = [p \in Procs |-> Idle]
    /\ cached' = [h \in Timers \cup {"web"} |-> NoConf]
    /\ torn' = torn \cup ((UNION {HalfDone(p) : p \in Procs}) \ {"unit"})
    /\ up' = boot
    /\ running' = IF boot THEN file ELSE NoText
    /\ UNCHANGED <<live, saved, file, boot, issued, chosen, idly>>

-----------------------------------------------------------------------------
Continue(p) ==
    \/ ToggleTruncate(p) \/ ToggleFill(p)
    \/ RenderText(p)
    \/ SaveTruncate(p) \/ SaveFill(p)
    \/ CheckExists(p) \/ Compare(p) \/ WriteFile(p)
    \/ EnableUnit(p) \/ StartUnit(p)
    \/ StopUnit(p) \/ DisableUnit(p) \/ UnlinkFile(p)

World ==
    \/ \E members \in SUBSET Modems : ModemsChange(members)
    \/ UnitDies
    \/ Respawn
    \/ \E h \in Timers \cup {"web"} : Kill(h)
    \/ Reboot

Next ==
    \/ World
    \/ \E p \in Procs : \/ \E on \in BOOLEAN : ToggleRead(p, on)
                        \/ Begin(p)
                        \/ Continue(p)

Spec == Init /\ [][Next]_vars

\* Calls are finished, systemd respawns, and the discovery timer keeps firing.
Fairness ==
    /\ WF_vars(Respawn)
    /\ \A p \in Procs : WF_vars(Continue(p))
    /\ \A p \in Timers : SF_vars(Begin(p))

FairSpec == Spec /\ Fairness

-----------------------------------------------------------------------------
(* Properties *)

\* "Bring the pool instance in line with config + live modems"
\* (generator.py:357): once the modems and the switch stop changing, the pool
\* that runs comes to be the one they ask for, and stays it - unless a process
\* died between the writing of the file and the restart: later calls compare
\* with the file only, and find it unchanged.
InLine ==
    /\ running.members = IF saved.enable THEN live ELSE {}
    /\ running = file
    /\ boot <=> up

PoolComesInLine == <>[](InLine \/ "unit" \in torn)

\* The test that sync_pool relies on: whenever no call is under way, a running
\* pool has loaded the file that is on disk, so that an unchanged file really
\* means that no restart is needed; and it comes back after a reboot.
RunningIsFile ==
    Quiet /\ running # NoText /\ "unit" \notin torn => running = file /\ boot

\* "Restarts the instance ONLY when its config actually changed ... a blind
\* restart would cut in-flight pool connections" (generator.py:357-359).  After a
\* restart was torn off, the file no longer tells what the unit runs.
NoIdleRestart == idly => "unit" \in torn

\* update_config "merge[s] keys into the YAML config file" (config.py:166):
\* the administrator's choice and the last password survive every later writer
\* of the other key, in whatever process and with whatever stale cache, unless
\* one of them dies on the way.
KeysKept ==
    Quiet /\ "config" \notin torn =>
        saved.enable = chosen /\ (issued > 0 => saved.pw = issued)

-----------------------------------------------------------------------------
(* Inductive invariant without "overlap" (PoolSyncProofs) *)

\* What the one call under way knows of the file and the unit.
JobInv(p) ==
    /\ job[p].pc = "write" => job[p].text # NoText /\ job[p].changed
    /\ job[p].pc \in {"save", "fill", "exists", "compare"} => job[p].text # NoText
    /\ job[p].pc \in {"compare", "enable", "start"} => file # NoText
    /\ job[p].pc = "start" => boot
    /\ job[p].pc \in {"disable", "unlink"} => ~ up

\* The pool that runs may be older than the file only between the writing of
\* the file and the restart, and then the restart is certain or on record as
\* torn off.
PoolInv ==
    /\ up => boot
    /\ running # NoText =>
          \/ running = file
          \/ "unit" \in torn
          \/ \E p \in Procs : job[p].pc \in {"enable", "start"} /\ job[p].changed
    /\ \A p, q \in Procs : p = q \/ job[p].pc = "idle" \/ job[q].pc = "idle"
    /\ \A p \in Procs : JobInv(p)

=============================================================================
