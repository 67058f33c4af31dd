------------------------------ MODULE BandLock ------------------------------
(***************************************************************************)
(* The band lock of one ZTE modem (modems/bands.py): locking it to LTE and *)
(* 5G bands, unlocking it, scanning the bands one by one, and the guard of *)
(* the health check that unlocks a modem whose locked band has died.       *)
(*                                                                         *)
(* Two states have to agree: what the device is set to, and the band_lock  *)
(* column that remembers it.  Every request to the device and every        *)
(* transaction is a step; Procs are the web threads, CLI runs and health   *)
(* checks that may be in the middle of an operation.                       *)
(***************************************************************************)
EXTENDS Integers, FiniteSets

CONSTANTS Bands,       \* LTE bands of the device; its own mask allows all
          NrBands,     \* 5G bands of the device
          Procs,       \* threads, CLI runs and health checks
          Strikes,     \* GUARD_STRIKES
          MaxRequests, \* bound: locks, unlocks and scans requested
          Hazards      \* which of the optional events below may happen

ASSUME BandsAssumption == IsFiniteSet(Bands) /\ Cardinality(Bands) >= 2

ASSUME BandBounds == MaxRequests \in Nat /\ Strikes \in Nat \ {0}

ASSUME BandHazards ==
    Hazards \subseteq {"overlap", "kill", "refuse", "refuse 5G", "narrow", "lost",
                       "switch"}

VARIABLES
    device,   \* the masks the modem is set to
    saved,    \* the band_lock column
    covered,  \* the LTE bands on which there is a cell
    job,      \* what a process is in the middle of
    requests, \* requests left
    enabled   \* the modem has a proxy that is switched on

vars == <<device, saved, covered, job, requests, enabled>>

\* {} stands for a missing key, an empty list and an empty mask; `set` tells
\* whether the key default_nr is present, as setdefault needs to know.
Saved == [mask : SUBSET Bands, nr0 : SUBSET NrBands, set : BOOLEAN,
          lte : SUBSET Bands, nr : SUBSET NrBands, strikes : 0 .. Strikes]

Device == [lte : SUBSET Bands, nr : SUBSET NrBands]

NoLock == [mask |-> {}, nr0 |-> {}, set |-> FALSE,
           lte |-> {}, nr |-> {}, strikes |-> 0]

\* then: what follows the reading that is under way.  lte, nr, remember: the
\* arguments of apply.  scan: inside a scan; was, orig: its `before` (the lock
\* on record) and original_mask.  st: the local copy of the column.  seen: the
\* last reading.
Job == [pc : {"idle", "read", "load", "keep", "lte", "nr", "save", "clear",
              "unlock", "unlock nr", "cleared", "guard", "probe", "scan", "mask"},
        then : {"done", "lte", "scan"}, scan : BOOLEAN, remember : BOOLEAN,
        lte : SUBSET Bands, nr : SUBSET NrBands, seen : Device,
        st : Saved, was : Device, orig : SUBSET Bands]

Nothing == [lte |-> {}, nr |-> {}]

Idle == [pc |-> "idle", then |-> "done", scan |-> FALSE, remember |-> FALSE,
         lte |-> {}, nr |-> {}, seen |-> Nothing,
         st |-> NoLock, was |-> Nothing, orig |-> {}]

TypeOK ==
    /\ device \in Device
    /\ saved \in Saved
    /\ covered \in SUBSET Bands
    /\ job \in [Procs -> Job]
    /\ requests \in 0 .. MaxRequests
    /\ enabled \in BOOLEAN

Init ==
    /\ device = [lte |-> Bands, nr |-> NrBands]
    /\ saved = NoLock
    /\ covered \in SUBSET Bands
    /\ job = [p \in Procs |-> Idle]
    /\ requests = MaxRequests
    /\ enabled = TRUE

-----------------------------------------------------------------------------
(* Helpers *)

Online == device.lte \cap covered # {}

Quiet == \A p \in Procs : job[p].pc = "idle"

At(p, pc) == job[p].pc = pc

\* What a status request may say: the masks that are set; while the radio
\* re-attaches, only the band in use; nothing, when no answer comes.
Readings ==
    {device}
    \cup (IF "narrow" \in Hazards
          THEN {[lte |-> {b}, nr |-> device.nr] : b \in device.lte} ELSE {})
    \cup (IF "lost" \in Hazards THEN {Nothing} ELSE {})

\* Mutant: any reading is taken as the device's own mask.
WidestLatest(mask, reading) == IF reading = {} THEN mask ELSE reading

\* _remember_capabilities: "the widest mask seen wins".
Widest(mask, reading) ==
    IF Cardinality(reading) > 1 /\ Cardinality(reading) > Cardinality(mask)
    THEN reading ELSE mask

Refusable == Hazards \cap {"refuse"} # {}
Refusable5G == Hazards \cap {"refuse", "refuse 5G"} # {}

\* The operation of p is over; inside a scan, only the test of a band is.
Scanning(was, orig) ==
    [Idle EXCEPT !.pc = "scan", !.scan = TRUE, !.was = was, !.orig = orig]
Ended(j) == IF j.scan THEN Scanning(j.was, j.orig) ELSE Idle

\* An idle process begins an operation that was asked for.
Request(p, j) ==
    /\ At(p, "idle")
    /\ "overlap" \notin Hazards => Quiet
    /\ requests > 0
    /\ requests' = requests - 1
    /\ job' = [job EXCEPT ![p] = j]
    /\ UNCHANGED <<device, saved, covered, enabled>>

-----------------------------------------------------------------------------
(* read, and the first half of apply: ask the device, keep its widest mask *)

Apply(p, lte, nr) ==
    Request(p, [Idle EXCEPT !.pc = "read", !.then = "lte", !.remember = TRUE,
                            !.lte = lte, !.nr = nr])

Read(p) == Request(p, [Idle EXCEPT !.pc = "read"])

AskDevice(p, reading) ==
    /\ At(p, "read")
    /\ reading \in Readings
    /\ job' = [job EXCEPT ![p].pc = "load", ![p].seen = reading]
    /\ UNCHANGED <<device, saved, covered, requests, enabled>>

\* What follows once the reading is remembered.
Follow(j) ==
    CASE j.then = "done" -> Ended(j)
      [] j.then = "lte" -> [j EXCEPT !.pc = "lte"]
      [] j.then = "scan" ->
            Scanning([lte |-> j.st.lte, nr |-> j.st.nr],
                     IF j.st.mask # {} THEN j.st.mask ELSE j.seen.lte)

\* _saved_lock, in a transaction of its own ...
LoadLock(p) ==
    LET mask == Widest(saved.mask, job[p].seen.lte)
        j == [job[p] EXCEPT !.st = [saved EXCEPT !.mask = mask]]
    IN  /\ At(p, "load")
        /\ job' = [job EXCEPT ![p] =
                    IF mask # saved.mask THEN [j EXCEPT !.pc = "keep"] ELSE Follow(j)]
        /\ UNCHANGED <<device, saved, covered, requests, enabled>>

\* ... and _save_lock of the whole column, when the mask is a wider one.
KeepMask(p) ==
    /\ At(p, "keep")
    /\ saved' = job[p].st
    /\ job' = [job EXCEPT ![p] = Follow(job[p])]
    /\ UNCHANGED <<device, covered, requests, enabled>>

-----------------------------------------------------------------------------
(* apply *)

\* The 5G default is what this reading says, unless the key is there already.
WithDefaultNr(j) ==
    IF j.st.set THEN j.st ELSE [j.st EXCEPT !.nr0 = j.seen.nr, !.set = TRUE]

\* Refused before anything is written when the full mask is not known yet.  An
\* answer that is lost raises like a refusal, whatever the device has done.  The
\* local copy is used again only when the lock is to be remembered.
LockLte(p) ==
    LET j == job[p]
        next == IF j.nr # {} THEN "nr" ELSE IF j.remember THEN "save" ELSE "read"
    IN  /\ At(p, "lte")
        /\ \/ /\ Cardinality(j.st.mask) >= 2
              /\ device' = [device EXCEPT !.lte = j.lte]
              /\ job' = [job EXCEPT ![p] =
                    [j EXCEPT !.pc = next, !.then = "done", !.seen = Nothing,
                        !.st = IF j.remember THEN WithDefaultNr(j) ELSE NoLock]]
           \/ /\ Cardinality(j.st.mask) < 2
              /\ job' = [job EXCEPT ![p] = Ended(j)]
              /\ UNCHANGED device
           \/ /\ Cardinality(j.st.mask) >= 2 /\ Refusable
              /\ job' = [job EXCEPT ![p] = Ended(j)]
              /\ device' \in {device, [device EXCEPT !.lte = j.lte]}
        /\ UNCHANGED <<saved, covered, requests, enabled>>

\* A refusal raises, when the LTE mask has been written already.
LockNr(p) ==
    LET j == job[p] IN
    /\ At(p, "nr")
    /\ \/ /\ device' = [device EXCEPT !.nr = j.nr]
          /\ job' = [job EXCEPT ![p].pc = IF j.remember THEN "save" ELSE "read"]
       \/ /\ Refusable5G
          /\ job' = [job EXCEPT ![p] = Ended(j)]
          /\ device' \in {device, [device EXCEPT !.nr = j.nr]}
    /\ UNCHANGED <<saved, covered, requests, enabled>>

SaveLock(p) ==
    LET j == job[p] IN
    /\ At(p, "save")
    /\ saved' = [j.st EXCEPT !.lte = j.lte, !.nr = j.nr, !.strikes = 0]
    /\ job' = [job EXCEPT ![p] = [Idle EXCEPT !.pc = "read"]]
    /\ UNCHANGED <<device, covered, requests, enabled>>

-----------------------------------------------------------------------------
(* clear *)

Clear(p) == Request(p, [Idle EXCEPT !.pc = "clear"])

\* Mutant: unlocking does not ask whether the own mask is known.
ClearLoadUnasked(p) ==
    /\ At(p, "clear")
    /\ job' = [job EXCEPT ![p] = [job[p] EXCEPT !.pc = "unlock", !.st = saved]]
    /\ UNCHANGED <<device, saved, covered, requests, enabled>>

ClearLoad(p) ==
    /\ At(p, "clear")
    /\ job' = [job EXCEPT ![p] =
                IF saved.mask = {} THEN Idle
                ELSE [job[p] EXCEPT !.pc = "unlock", !.st = saved]]
    /\ UNCHANGED <<device, saved, covered, requests, enabled>>

UnlockLte(p) ==
    LET j == job[p] IN
    /\ At(p, "unlock")
    /\ \/ /\ device' = [device EXCEPT !.lte = j.st.mask]
          /\ job' = [job EXCEPT ![p].pc =
                        IF j.st.nr0 # {} THEN "unlock nr" ELSE "cleared"]
       \/ /\ Refusable
          /\ job' = [job EXCEPT ![p] = Idle]
          /\ device' \in {device, [device EXCEPT !.lte = j.st.mask]}
    /\ UNCHANGED <<saved, covered, requests, enabled>>

\* Nobody looks at the device's answer.
UnlockNr(p) ==
    /\ At(p, "unlock nr")
    /\ \/ device' = [device EXCEPT !.nr = job[p].st.nr0]
       \/ Refusable5G /\ UNCHANGED device
    /\ job' = [job EXCEPT ![p].pc = "cleared"]
    /\ UNCHANGED <<saved, covered, requests, enabled>>

\* default_nr is written even when it was never known: the key is there now.
SaveCleared(p) ==
    /\ At(p, "cleared")
    /\ saved' = [job[p].st EXCEPT !.set = TRUE, !.lte = {}, !.nr = {}, !.strikes = 0]
    /\ job' = [job EXCEPT ![p] = [Idle EXCEPT !.pc = "read"]]
    /\ UNCHANGED <<device, covered, requests, enabled>>

-----------------------------------------------------------------------------
(* scan *)

Scan(p) == Request(p, [Idle EXCEPT !.pc = "read", !.then = "scan"])

\* apply(modem, [band], remember=False)
TestBand(p, band) ==
    /\ At(p, "scan")
    /\ job' = [job EXCEPT ![p] =
                [job[p] EXCEPT !.pc = "read", !.then = "lte", !.remember = FALSE,
                               !.lte = {band}, !.nr = {}]]
    /\ UNCHANGED <<device, saved, covered, requests, enabled>>

\* The `finally`: lock again what was locked, or put the mask back.
Restore(p) ==
    LET j == job[p] IN
    /\ At(p, "scan")
    /\ job' = [job EXCEPT ![p] =
                IF j.was.lte # {}
                THEN [Idle EXCEPT !.pc = "read", !.then = "lte", !.remember = TRUE,
                                  !.lte = j.was.lte, !.nr = j.was.nr]
                ELSE [Idle EXCEPT !.pc = "mask", !.orig = j.orig]]
    /\ UNCHANGED <<device, saved, covered, requests, enabled>>

\* Mutant: the band that was tested last stays.
SetMaskNot(p) ==
    /\ At(p, "mask")
    /\ job' = [job EXCEPT ![p] = Idle]
    /\ UNCHANGED <<device, saved, covered, requests, enabled>>

\* _set_mask; the device does not accept an empty mask.
SetMask(p) ==
    /\ At(p, "mask")
    /\ \/ job[p].orig # {} /\ device' = [device EXCEPT !.lte = job[p].orig]
       \/ (job[p].orig = {} \/ Refusable) /\ UNCHANGED device
    /\ job' = [job EXCEPT ![p] = Idle]
    /\ UNCHANGED <<saved, covered, requests, enabled>>

-----------------------------------------------------------------------------
(* guard, called by the health check *)

\* A run of the health check lists the modems whose proxy is enabled, and comes
\* to their guards when it has checked the proxies.
HealthCheck(p) ==
    /\ At(p, "idle")
    /\ "overlap" \notin Hazards => Quiet
    /\ enabled
    /\ job' = [job EXCEPT ![p] = [Idle EXCEPT !.pc = "guard"]]
    /\ UNCHANGED <<device, saved, covered, requests, enabled>>

GuardLoad(p) ==
    /\ At(p, "guard")
    /\ job' = [job EXCEPT ![p] =
                IF saved.lte = {} THEN Idle
                ELSE [Idle EXCEPT !.pc = "probe", !.st = saved]]
    /\ UNCHANGED <<device, saved, covered, requests, enabled>>

\* Mutant: the strikes are reset by every check.
GuardProbeForgets(p) ==
    /\ At(p, "probe")
    /\ saved' = [job[p].st EXCEPT !.strikes = IF Online THEN 0 ELSE 1]
    /\ job' = [job EXCEPT ![p] = Idle]
    /\ UNCHANGED <<device, covered, requests, enabled>>

\* Strikes beyond the limit are all alike: clear is tried again.
GuardProbe(p) ==
    LET st == job[p].st
        strikes == IF st.strikes < Strikes THEN st.strikes + 1 ELSE Strikes
    IN  /\ At(p, "probe")
        /\ \/ /\ Online
              /\ saved' = IF st.strikes # 0 THEN [st EXCEPT !.strikes = 0] ELSE saved
              /\ job' = [job EXCEPT ![p] = Idle]
           \/ /\ ~ Online
              /\ saved' = [st EXCEPT !.strikes = strikes]
              /\ job' = [job EXCEPT ![p] =
                    IF strikes < Strikes THEN Idle ELSE [Idle EXCEPT !.pc = "clear"]]
        /\ UNCHANGED <<device, covered, requests, enabled>>

-----------------------------------------------------------------------------
(* The environment *)

\* Cells come and go.
Coverage(bands) ==
    /\ covered' = bands
    /\ UNCHANGED <<device, saved, job, requests, enabled>>

\* The operator, the quota or an expiry switches the proxy on or off.
Toggle ==
    /\ "switch" \in Hazards
    /\ enabled' = ~ enabled
    /\ UNCHANGED <<device, saved, covered, job, requests>>

\* The service restarts, or the one-shot process is killed.
Kill(p) ==
    /\ "kill" \in Hazards
    /\ job' = [job EXCEPT ![p] = Idle]
    /\ UNCHANGED <<device, saved, covered, requests, enabled>>

-----------------------------------------------------------------------------
Continue(p) ==
    \/ \E reading \in Readings : AskDevice(p, reading)
    \/ LoadLock(p) \/ KeepMask(p)
    \/ LockLte(p) \/ LockNr(p) \/ SaveLock(p)
    \/ ClearLoad(p) \/ UnlockLte(p) \/ UnlockNr(p) \/ SaveCleared(p)
    \/ \E band \in Bands : TestBand(p, band)
    \/ Restore(p) \/ SetMask(p)
    \/ GuardLoad(p) \/ GuardProbe(p)

Next ==
    \/ \E p \in Procs :
        \/ \E lte \in (SUBSET Bands) \ {{}}, nr \in SUBSET NrBands : Apply(p, lte, nr)
        \/ Read(p) \/ Clear(p) \/ Scan(p)
        \/ HealthCheck(p)
        \/ Continue(p)
        \/ Kill(p)
    \/ \E bands \in SUBSET Bands : Coverage(bands)
    \/ Toggle

Spec == Init /\ [][Next]_vars

\* Operations are finished: a scan tests finitely many bands and then restores.
\* The timer of the health check keeps firing.
Fairness ==
    \A p \in Procs :
        /\ WF_vars(Continue(p))
        /\ SF_vars(Restore(p))
        /\ SF_vars(HealthCheck(p))

FairSpec == Spec /\ Fairness

-----------------------------------------------------------------------------
(* Properties *)

\* "Taking whatever it says as the device's own mask once wrote a single-band
\* mask as the restore point" (bands.py:109-114): what is remembered as the
\* device's own mask is either nothing or really its own mask, whoever reads
\* and writes the column at the same time and whatever gets lost.
RestorePointIsOwnMask == saved.mask \in {{}, Bands}

\* "A narrow reading never overwrites it" (bands.py:114): the own mask, once it is
\* known, stays known, though every operation writes the whole column back from a
\* copy of its own, which may be older than what another has found out.
MaskIsKept ==
    [][saved.mask # {} => saved'.mask = saved.mask]_vars

\* Device and database agree whenever no operation is under way: a modem that
\* is on record as unlocked is not stuck on a band, and a locked one is on the
\* bands on record.  "An interrupted scan never leaves a customer stuck on a
\* test band" (bands.py:254-255).
NotStuck ==
    Quiet => device.lte = IF saved.lte = {} THEN Bands ELSE saved.lte

\* "The guard unlocks automatically after a sustained failure ... so a dead
\* cell never costs a night of downtime" (bands.py:18-19): a modem held on
\* bands without a cell gets its own mask back, or a cell returns, if its proxy
\* is on from some point on; whatever strikes the guard had counted, and
\* whoever locked it, while the proxy went on and off.
DeadCellFreed ==
    <>[]enabled =>
        (device.lte # Bands /\ ~ Online) ~> (device.lte = Bands \/ Online)

=============================================================================
