--------------------------- MODULE BandLockProofs ---------------------------
(***************************************************************************)
(* Proofs about BandLock, for any bands and any number of overlapping      *)
(* operations that are killed, refused and misread: every step stays       *)
(* within its type, and what is remembered as the device's own mask is     *)
(* nothing or really its own mask, and is not forgotten.                   *)
(***************************************************************************)
EXTENDS BandLock, FiniteSetTheorems, TLAPS

-----------------------------------------------------------------------------
(* Masks *)

\* A reading that nobody can mistake for a wide one, or the device's own mask.
Trusty(mask) == mask = Bands \/ Cardinality(mask) <= 1

LEMMA TrustyFact ==
    /\ Trusty({}) /\ Trusty(Bands)
    /\ \A b : Trusty({b})
<1>1. Trusty({}) /\ Trusty(Bands)
  BY FS_EmptySet DEF Trusty
<1>2. ASSUME NEW b PROVE Trusty({b})
  <2>1. Cardinality({b}) = 1
    BY FS_Singleton
  <2> QED BY <2>1 DEF Trusty
<1> QED BY <1>1, <1>2

LEMMA CardFact ==
    ASSUME NEW reading \in SUBSET Bands
    PROVE  Cardinality(reading) \in Nat /\ Cardinality(reading) <= Cardinality(Bands)
BY BandsAssumption, FS_Subset, FS_CardinalityType

\* "The widest mask seen wins": the own mask stays, and only it is ever taken.
LEMMA WidestFact ==
    ASSUME NEW mask \in {{}, Bands}, NEW reading \in SUBSET Bands,
           mask = Bands \/ Trusty(reading)
    PROVE  /\ Widest(mask, reading) \in {{}, Bands}
           /\ mask = Bands => Widest(mask, reading) = Bands
           /\ Widest(mask, reading) = {} => mask = {} /\ Trusty(reading)
<1>1. CASE mask = Bands
  <2>1. Bands # {}
    BY BandsAssumption, FS_EmptySet
  <2>2. Widest(mask, reading) = Bands
    BY <1>1, CardFact, BandsAssumption DEF Widest
  <2> QED BY <1>1, <2>1, <2>2
<1>2. CASE mask = {}
  BY <1>2, CardFact, BandsAssumption, FS_EmptySet DEF Widest, Trusty
<1> QED BY <1>1, <1>2

-----------------------------------------------------------------------------
(* The helpers on jobs *)

LEMMA RecordFact == /\ NoLock \in Saved /\ NoLock.mask = {}
                    /\ Nothing \in Device /\ Nothing.lte = {}
BY BandBounds DEF NoLock, Saved, Nothing, Device

\* Rewriting what is locked leaves the own mask alone.
LEMMA RewrittenFact ==
    ASSUME NEW st \in Saved, NEW lte \in SUBSET Bands, NEW nr \in SUBSET NrBands
    PROVE  /\ [st EXCEPT !.lte = lte, !.nr = nr, !.strikes = 0] \in Saved
           /\ [st EXCEPT !.lte = lte, !.nr = nr, !.strikes = 0].mask = st.mask
           /\ [st EXCEPT !.set = TRUE, !.lte = {}, !.nr = {}, !.strikes = 0] \in Saved
           /\ [st EXCEPT !.set = TRUE, !.lte = {}, !.nr = {}, !.strikes = 0].mask
                = st.mask
<1>1. 0 \in 0 .. Strikes
  BY BandBounds
<1> QED BY <1>1 DEF Saved

LEMMA IdleFact ==
    /\ Idle \in Job
    /\ Idle.pc = "idle" /\ Idle.st.mask = {} /\ Idle.orig = {} /\ Idle.seen.lte = {}
BY RecordFact DEF Idle, Job

LEMMA ScanningFact ==
    ASSUME NEW was \in Device, NEW orig \in SUBSET Bands
    PROVE  /\ Scanning(was, orig) \in Job
           /\ Scanning(was, orig).pc = "scan"
           /\ Scanning(was, orig).st = Idle.st
           /\ Scanning(was, orig).orig = orig
<1> DEFINE j == [Idle EXCEPT !.pc = "scan", !.scan = TRUE, !.was = was, !.orig = orig]
<1>1. j \in Job /\ j.pc = "scan" /\ j.st = Idle.st /\ j.orig = orig
  BY IdleFact DEF Job
<1> QED BY <1>1 DEF Scanning

LEMMA EndedFact ==
    ASSUME NEW j \in Job
    PROVE  /\ Ended(j) \in Job
           /\ Ended(j).pc \in {"idle", "scan"}
           /\ Ended(j).st = Idle.st
           /\ Ended(j).orig \in {{}, j.orig}
<1>1. j.was \in Device /\ j.orig \in SUBSET Bands
  BY DEF Job
<1> QED BY <1>1, IdleFact, ScanningFact DEF Ended

\* What comes after a reading whose lock on record is st.
LEMMA FollowFact ==
    ASSUME NEW j \in Job
    PROVE  /\ Follow(j) \in Job
           /\ Follow(j).pc \in {"idle", "scan", "lte"}
           /\ Follow(j).st \in {Idle.st, j.st}
           /\ \/ Follow(j).orig \in {{}, j.orig, j.st.mask}
              \/ j.st.mask = {} /\ Follow(j).orig = j.seen.lte
<1>1. /\ j.then \in {"done", "lte", "scan"} /\ j.st \in Saved
      /\ j.st.mask \in SUBSET Bands /\ j.seen.lte \in SUBSET Bands
      /\ j.st.lte \in SUBSET Bands /\ j.st.nr \in SUBSET NrBands
  BY DEF Job, Saved, Device
<1>2. CASE j.then = "done"
  BY <1>2, EndedFact DEF Follow
<1>3. CASE j.then = "lte"
  <2>1. Follow(j) = [j EXCEPT !.pc = "lte"]
    BY <1>3 DEF Follow
  <2>2. /\ [j EXCEPT !.pc = "lte"] \in Job /\ [j EXCEPT !.pc = "lte"].pc = "lte"
        /\ [j EXCEPT !.pc = "lte"].st = j.st /\ [j EXCEPT !.pc = "lte"].orig = j.orig
    BY DEF Job
  <2> QED BY <2>1, <2>2
<1>4. CASE j.then = "scan"
  <2> DEFINE was == [lte |-> j.st.lte, nr |-> j.st.nr]
             orig == IF j.st.mask # {} THEN j.st.mask ELSE j.seen.lte
  <2>1. was \in Device
    BY <1>1 DEF Device
  <2>2. orig \in SUBSET Bands
    BY <1>1
  <2>3. Follow(j) = Scanning(was, orig)
    BY <1>4 DEF Follow
  <2> HIDE DEF was
  <2> QED BY <2>1, <2>2, <2>3, ScanningFact
<1> QED BY <1>1, <1>2, <1>3, <1>4

-----------------------------------------------------------------------------
(* The invariant *)

\* known: the own mask is on record.  What an operation will write as the own
\* mask is the own mask; it holds a test band's reading only as what it is.
JobOK(j, known) ==
    /\ j \in Job
    /\ j.st.mask \in {{}, Bands}
    /\ j.pc \in {"keep", "save", "unlock", "unlock nr", "cleared", "probe"}
          => j.st.mask = Bands
    /\ j.pc = "nr" /\ j.remember => j.st.mask = Bands
    /\ j.pc = "lte" /\ j.st.mask # {} => known
    /\ j.pc = "load" => known \/ Trusty(j.seen.lte)
    /\ known \/ Trusty(j.orig)

Known == saved.mask = Bands

RecordOK ==
    /\ saved \in Saved
    /\ saved.mask \in {{}, Bands}
    /\ saved.lte # {} => Known

\* Only a modem whose own mask is on record is ever locked to some of its bands.
DeviceOK ==
    /\ device \in Device
    /\ Known \/ Trusty(device.lte)

BandInv ==
    /\ RecordOK /\ DeviceOK
    /\ covered \in SUBSET Bands /\ requests \in 0 .. MaxRequests
    /\ DOMAIN job = Procs
    /\ job \in [Procs -> Job]
    /\ \A p \in Procs : JobOK(job[p], Known)

LEMMA JobGrows ==
    ASSUME NEW j, NEW k, NEW l, JobOK(j, k), k => l
    PROVE  JobOK(j, l)
BY DEF JobOK

\* One process steps; the own mask, once on record, stays there.
LEMMA SetJob ==
    ASSUME BandInv, NEW p \in Procs, NEW j, job' = [job EXCEPT ![p] = j],
           JobOK(j, Known'), Known => Known',
           RecordOK', DeviceOK', covered' \in SUBSET Bands,
           requests' \in 0 .. MaxRequests
    PROVE  BandInv'
<1>1. ASSUME NEW q \in Procs PROVE JobOK(job'[q], Known')
  <2>1. CASE q = p
    BY <2>1 DEF BandInv
  <2>2. CASE q # p
    BY <2>2, JobGrows DEF BandInv
  <2> QED BY <2>1, <2>2
<1>2. job' \in [Procs -> Job] /\ DOMAIN job' = Procs
  BY DEF BandInv, JobOK
<1> QED BY <1>1, <1>2 DEF BandInv

\* The column is left alone.
LEMMA SetJobOnly ==
    ASSUME BandInv, NEW p \in Procs, NEW j, job' = [job EXCEPT ![p] = j],
           JobOK(j, Known), saved' = saved, DeviceOK', covered' = covered,
           requests' \in 0 .. MaxRequests
    PROVE  BandInv'
<1>1. Known' = Known /\ RecordOK'
  BY DEF BandInv, RecordOK, Known
<1>2. JobOK(j, Known')
  BY <1>1
<1> QED BY <1>1, <1>2, SetJob DEF BandInv

LEMMA IdleOK == ASSUME NEW k \in BOOLEAN PROVE JobOK(Idle, k)
BY IdleFact, TrustyFact DEF JobOK

LEMMA EndedOK ==
    ASSUME NEW j \in Job, NEW k \in BOOLEAN, k \/ Trusty(j.orig)
    PROVE  JobOK(Ended(j), k)
BY EndedFact, IdleFact, TrustyFact DEF JobOK

LEMMA FollowOK ==
    ASSUME NEW j \in Job, NEW k \in BOOLEAN, j.st.mask \in {{}, Bands},
           k \/ Trusty(j.orig), j.st.mask # {} => k,
           j.st.mask = {} => Trusty(j.seen.lte)
    PROVE  JobOK(Follow(j), k)
BY FollowFact, IdleFact, TrustyFact DEF JobOK

LEMMA InitBand == Init => BandInv
<1> SUFFICES ASSUME Init PROVE BandInv
  OBVIOUS
<1>1. RecordOK
  BY RecordFact DEF Init, RecordOK, NoLock
<1>2. DeviceOK
  BY TrustyFact DEF Init, DeviceOK, Device
<1>3. covered \in SUBSET Bands /\ requests \in 0 .. MaxRequests
  BY BandBounds DEF Init
<1>4. \A p \in Procs : job[p] = Idle
  BY DEF Init
<1>5. JobOK(Idle, Known)
  BY IdleOK DEF Known
<1>6. job \in [Procs -> Job] /\ DOMAIN job = Procs
  BY IdleFact DEF Init
<1> QED BY <1>1, <1>2, <1>3, <1>4, <1>5, <1>6 DEF BandInv

-----------------------------------------------------------------------------
(* The steps *)

\* An operation is asked for: it has a new job.
LEMMA RequestBand ==
    ASSUME BandInv, NEW p \in Procs, NEW j \in Job, Request(p, j),
           j.pc \in {"read", "clear"}, j.st = Idle.st, j.orig = {}
    PROVE  BandInv'
<1>1. JobOK(j, Known)
  BY IdleFact, TrustyFact DEF JobOK
<1>2. /\ job' = [job EXCEPT ![p] = j] /\ saved' = saved /\ device' = device
      /\ covered' = covered
  BY DEF Request
<1>3. requests' \in 0 .. MaxRequests
  BY BandBounds DEF Request, BandInv
<1>4. DeviceOK'
  BY <1>2 DEF BandInv, DeviceOK, Known
<1> QED BY <1>1, <1>2, <1>3, <1>4, SetJobOnly

LEMMA ApplyBand ==
    ASSUME BandInv, NEW p \in Procs,
           NEW lte \in SUBSET Bands, NEW nr \in SUBSET NrBands, Apply(p, lte, nr)
    PROVE  BandInv'
<1> DEFINE j == [Idle EXCEPT !.pc = "read", !.then = "lte", !.remember = TRUE,
                             !.lte = lte, !.nr = nr]
<1>1. j \in Job /\ j.pc = "read" /\ j.st = Idle.st /\ j.orig = {}
  BY IdleFact DEF Job
<1>2. Request(p, j)
  BY DEF Apply
<1> HIDE DEF j
<1> QED BY <1>1, <1>2, RequestBand

LEMMA AskBand ==
    ASSUME BandInv, NEW p \in Procs, Read(p) \/ Clear(p) \/ Scan(p)
    PROVE  BandInv'
<1>1. ASSUME NEW pc \in {"read", "clear"}, NEW then \in {"done", "scan"},
             Request(p, [Idle EXCEPT !.pc = pc, !.then = then])
      PROVE  BandInv'
  <2> DEFINE j == [Idle EXCEPT !.pc = pc, !.then = then]
  <2>1. j \in Job /\ j.pc = pc /\ j.st = Idle.st /\ j.orig = {}
    BY IdleFact DEF Job
  <2> HIDE DEF j
  <2> QED BY <1>1, <2>1, RequestBand DEF j
<1>2. ASSUME NEW pc \in {"read", "clear"}, Request(p, [Idle EXCEPT !.pc = pc])
      PROVE  BandInv'
  <2> DEFINE j == [Idle EXCEPT !.pc = pc]
  <2>1. j \in Job /\ j.pc = pc /\ j.st = Idle.st /\ j.orig = {}
    BY IdleFact DEF Job
  <2>2. Request(p, j)
    BY <1>2
  <2> HIDE DEF j
  <2> QED BY <2>1, <2>2, RequestBand
<1> QED BY <1>1, <1>2 DEF Read, Clear, Scan

LEMMA ReadingFact ==
    ASSUME BandInv, NEW reading \in Readings
    PROVE  /\ reading \in Device
           /\ Known \/ Trusty(reading.lte)
<1>0. device \in Device /\ (Known \/ Trusty(device.lte))
  BY DEF BandInv, DeviceOK
<1>1. CASE reading = device
  BY <1>0, <1>1
<1>2. CASE reading \in {[lte |-> {b}, nr |-> device.nr] : b \in device.lte}
  <2>1. PICK b \in device.lte : reading = [lte |-> {b}, nr |-> device.nr]
    BY <1>2
  <2>2. reading \in Device /\ reading.lte = {b}
    BY <1>0, <2>1 DEF Device
  <2> QED BY <2>2, TrustyFact
<1>3. CASE reading = Nothing
  BY <1>3, RecordFact, TrustyFact
<1> QED BY <1>1, <1>2, <1>3 DEF Readings

LEMMA ReadBand ==
    ASSUME BandInv, NEW p \in Procs,
           \/ \E reading \in Readings : AskDevice(p, reading)
           \/ LoadLock(p) \/ KeepMask(p)
    PROVE  BandInv'
<1>0. /\ JobOK(job[p], Known) /\ job[p] \in Job /\ Known \in BOOLEAN
      /\ requests \in 0 .. MaxRequests /\ DeviceOK /\ RecordOK
      /\ job \in [Procs -> Job]
  BY DEF BandInv, Known
<1>1. ASSUME NEW reading \in Readings, AskDevice(p, reading) PROVE BandInv'
  <2> DEFINE j == [job[p] EXCEPT !.pc = "load", !.seen = reading]
  <2>1. reading \in Device /\ (Known \/ Trusty(reading.lte))
    BY ReadingFact
  <2>2. /\ j \in Job /\ j.pc = "load" /\ j.seen = reading
        /\ j.st = job[p].st /\ j.orig = job[p].orig
    BY <1>0, <2>1 DEF Job
  <2>3. job' = [job EXCEPT ![p] = j]
    BY <1>0, <1>1 DEF AskDevice
  <2> HIDE DEF j
  <2>4. JobOK(j, Known)
    BY <1>0, <2>1, <2>2 DEF JobOK
  <2>5. UNCHANGED <<device, saved, covered, requests>>
    BY <1>1 DEF AskDevice
  <2>6. DeviceOK'
    BY <1>0, <2>5 DEF DeviceOK, Known
  <2> QED BY <1>0, <2>3, <2>4, <2>5, <2>6, SetJobOnly
<1>2. CASE LoadLock(p)
  <2> DEFINE mask == Widest(saved.mask, job[p].seen.lte)
             st == [saved EXCEPT !.mask = mask]
             j == [job[p] EXCEPT !.st = st]
             k == [j EXCEPT !.pc = "keep"]
  <2>1. /\ job[p].pc = "load" /\ saved.mask \in {{}, Bands} /\ saved \in Saved
        /\ UNCHANGED <<device, saved, covered, requests>>
    BY <1>0, <1>2 DEF LoadLock, At, RecordOK
  <2>2. job[p].seen.lte \in SUBSET Bands
    BY <1>0 DEF Job, Device
  <2>3. saved.mask = Bands \/ Trusty(job[p].seen.lte)
    BY <1>0, <2>1 DEF JobOK, Known
  <2>4. /\ mask \in {{}, Bands} /\ (saved.mask = Bands => mask = Bands)
        /\ mask = {} => Trusty(job[p].seen.lte)
    BY <2>1, <2>2, <2>3, WidestFact
  <2>5. job' = [job EXCEPT ![p] = IF mask # saved.mask THEN k ELSE Follow(j)]
    BY <1>2 DEF LoadLock
  <2> HIDE DEF mask
  <2>6. st \in Saved /\ st.mask = mask
    BY <2>1, <2>4 DEF Saved
  <2> HIDE DEF st
  <2>7. /\ j \in Job /\ j.st = st /\ j.orig = job[p].orig
        /\ j.seen = job[p].seen
    BY <1>0, <2>6 DEF Job
  <2> HIDE DEF j
  <2>8. /\ k \in Job /\ k.pc = "keep" /\ k.st = st /\ k.orig = j.orig
    BY <2>7 DEF Job
  <2> HIDE DEF k
  <2>9. Known \/ Trusty(j.orig)
    BY <1>0, <2>7 DEF JobOK
  <2>10. CASE mask # saved.mask
    <3>1. JobOK(k, Known)
      BY <2>1, <2>4, <2>6, <2>7, <2>8, <2>9, <2>10 DEF JobOK
    <3>2. DeviceOK'
      BY <1>0, <2>1 DEF DeviceOK, Known
    <3> QED BY <1>0, <2>1, <2>5, <2>10, <3>1, <3>2, SetJobOnly
  <2>11. CASE mask = saved.mask
    <3>1. JobOK(Follow(j), Known)
      BY <1>0, <2>1, <2>4, <2>6, <2>7, <2>9, <2>11, FollowOK DEF Known
    <3>2. DeviceOK'
      BY <1>0, <2>1 DEF DeviceOK, Known
    <3> QED BY <1>0, <2>1, <2>5, <2>11, <3>1, <3>2, SetJobOnly
  <2> QED BY <2>10, <2>11
<1>3. CASE KeepMask(p)
  <2>1. /\ job[p].st.mask = Bands /\ saved' = job[p].st
        /\ job' = [job EXCEPT ![p] = Follow(job[p])]
        /\ UNCHANGED <<device, covered, requests>>
    BY <1>0, <1>3 DEF KeepMask, At, JobOK
  <2>2. job[p].st \in Saved
    BY <1>0 DEF Job
  <2>3. Known' /\ RecordOK' /\ DeviceOK'
    BY <1>0, <2>1, <2>2 DEF RecordOK, DeviceOK, Known
  <2>4. Bands # {}
    BY BandsAssumption, FS_EmptySet
  <2>5. JobOK(Follow(job[p]), TRUE)
    BY <1>0, <2>1, <2>4, FollowOK
  <2> QED BY <1>0, <2>1, <2>3, <2>5, SetJob DEF BandInv
<1> QED BY <1>1, <1>2, <1>3

LEMMA LockBand ==
    ASSUME BandInv, NEW p \in Procs, LockLte(p) \/ LockNr(p) \/ SaveLock(p)
    PROVE  BandInv'
<1>0. /\ JobOK(job[p], Known) /\ job[p] \in Job /\ Known \in BOOLEAN
      /\ requests \in 0 .. MaxRequests /\ DeviceOK /\ RecordOK
      /\ device \in Device /\ job[p].lte \in SUBSET Bands
      /\ job[p].nr \in SUBSET NrBands /\ job[p].st \in Saved
      /\ job[p].seen \in Device /\ job \in [Procs -> Job]
  BY DEF BandInv, Known, DeviceOK, Job
<1>1. Known \/ Trusty(job[p].orig)
  BY <1>0 DEF JobOK
<1>2. JobOK(Ended(job[p]), Known)
  BY <1>0, <1>1, EndedOK
<1>3. CASE LockLte(p)
  <2> DEFINE j == job[p]
             next == IF j.nr # {} THEN "nr" ELSE IF j.remember THEN "save" ELSE "read"
             st == IF j.remember THEN WithDefaultNr(j) ELSE NoLock
             k == [j EXCEPT !.pc = next, !.then = "done", !.seen = Nothing, !.st = st]
  <2>1. j.pc = "lte" /\ UNCHANGED <<saved, covered, requests>>
    BY <1>3 DEF LockLte, At
  <2>2. CASE /\ Cardinality(j.st.mask) >= 2
             /\ device' = [device EXCEPT !.lte = j.lte]
             /\ job' = [job EXCEPT ![p] = k]
    <3>0. /\ j.st.mask \in {{}, Bands} /\ (j.st.mask # {} => Known)
          /\ Cardinality(j.st.mask) >= 2
      BY <1>0, <2>1, <2>2 DEF JobOK
    <3>1. j.st.mask = Bands /\ Known
      BY <3>0, FS_EmptySet
    <3>2. /\ WithDefaultNr(j) \in Saved
          /\ WithDefaultNr(j).mask = j.st.mask
      BY <1>0 DEF WithDefaultNr, Saved, Device
    <3>3. st \in Saved /\ (j.remember => st.mask = Bands) /\ st.mask \in {{}, Bands}
      BY <3>1, <3>2, RecordFact
    <3>4. next \in {"nr", "save", "read"} /\ (next = "save" => j.remember)
      OBVIOUS
    <3> HIDE DEF st, next
    <3>5. /\ k \in Job /\ k.pc = next /\ k.st = st /\ k.remember = j.remember
          /\ k.orig = j.orig
      BY <1>0, <3>3, <3>4, RecordFact DEF Job
    <3>6. job' = [job EXCEPT ![p] = k]
      BY <2>2
    <3> HIDE DEF k
    <3>7. JobOK(k, Known)
      BY <3>1, <3>3, <3>4, <3>5 DEF JobOK
    <3>8. DeviceOK'
      BY <1>0, <2>1, <2>2, <3>1 DEF DeviceOK, Device, Known
    <3> QED BY <1>0, <2>1, <3>6, <3>7, <3>8, SetJobOnly
  <2>3. CASE device' = device /\ job' = [job EXCEPT ![p] = Ended(j)]
    <3>1. DeviceOK'
      BY <1>0, <2>1, <2>3 DEF DeviceOK, Known
    <3> QED BY <1>0, <1>2, <2>1, <2>3, <3>1, SetJobOnly
  <2>4. CASE /\ Cardinality(j.st.mask) >= 2
             /\ device' = [device EXCEPT !.lte = j.lte]
             /\ job' = [job EXCEPT ![p] = Ended(j)]
    <3>0. /\ j.st.mask # {} => Known
          /\ Cardinality(j.st.mask) >= 2
      BY <1>0, <2>1, <2>4 DEF JobOK
    <3>1. Known
      BY <3>0, FS_EmptySet
    <3>2. DeviceOK'
      BY <1>0, <2>1, <2>4, <3>1 DEF DeviceOK, Device, Known
    <3> QED BY <1>0, <1>2, <2>1, <2>4, <3>2, SetJobOnly
  <2> QED BY <1>3, <2>2, <2>3, <2>4 DEF LockLte
<1>4. CASE LockNr(p)
  <2> DEFINE pc == IF job[p].remember THEN "save" ELSE "read"
             k == [job[p] EXCEPT !.pc = pc]
  <2>1. job[p].pc = "nr" /\ UNCHANGED <<saved, covered, requests>>
    BY <1>4 DEF LockNr, At
  <2>2. CASE device' = [device EXCEPT !.nr = job[p].nr] /\ job' = [job EXCEPT ![p] = k]
    <3>1. pc \in {"save", "read"} /\ (pc = "save" => job[p].remember)
      OBVIOUS
    <3> HIDE DEF pc
    <3>2. /\ k \in Job /\ k.pc = pc /\ k.st = job[p].st /\ k.orig = job[p].orig
      BY <1>0, <3>1 DEF Job
    <3>3. job' = [job EXCEPT ![p] = k]
      BY <2>2
    <3> HIDE DEF k
    <3>4. JobOK(k, Known)
      BY <1>0, <2>1, <3>1, <3>2 DEF JobOK
    <3>5. DeviceOK'
      BY <1>0, <2>1, <2>2 DEF DeviceOK, Device, Known
    <3> QED BY <1>0, <2>1, <3>3, <3>4, <3>5, SetJobOnly
  <2>3. CASE device' = device /\ job' = [job EXCEPT ![p] = Ended(job[p])]
    <3>1. DeviceOK'
      BY <1>0, <2>1, <2>3 DEF DeviceOK, Known
    <3> QED BY <1>0, <1>2, <2>1, <2>3, <3>1, SetJobOnly
  <2>4. CASE /\ device' = [device EXCEPT !.nr = job[p].nr]
             /\ job' = [job EXCEPT ![p].pc = pc]
    <3>1. job' = [job EXCEPT ![p] = k]
      BY <1>0, <2>4
    <3> QED BY <2>2, <2>4, <3>1
  <2>5. CASE /\ device' = [device EXCEPT !.nr = job[p].nr]
             /\ job' = [job EXCEPT ![p] = Ended(job[p])]
    <3>1. DeviceOK'
      BY <1>0, <2>1, <2>5 DEF DeviceOK, Device, Known
    <3> QED BY <1>0, <1>2, <2>1, <2>5, <3>1, SetJobOnly
  <2> QED BY <1>4, <2>3, <2>4, <2>5 DEF LockNr
<1>5. CASE SaveLock(p)
  <2> DEFINE new == [job[p].st EXCEPT !.lte = job[p].lte, !.nr = job[p].nr, !.strikes = 0]
             k == [Idle EXCEPT !.pc = "read"]
  <2>1. /\ job[p].pc = "save" /\ saved' = new
        /\ job' = [job EXCEPT ![p] = k]
        /\ UNCHANGED <<device, covered, requests>>
    BY <1>5 DEF SaveLock, At
  <2>2. job[p].st.mask = Bands
    BY <1>0, <2>1 DEF JobOK
  <2>3. new \in Saved /\ new.mask = Bands
    <3>1. /\ job[p].st \in Saved /\ job[p].lte \in SUBSET Bands
          /\ job[p].nr \in SUBSET NrBands
      BY <1>0
    <3>2. new \in Saved /\ new.mask = job[p].st.mask
      BY <3>1, RewrittenFact
    <3> QED BY <2>2, <3>2
  <2> HIDE DEF new
  <2>4. Known' /\ RecordOK' /\ DeviceOK'
    BY <1>0, <2>1, <2>3 DEF RecordOK, DeviceOK, Known
  <2>5. k \in Job /\ k.pc = "read" /\ k.st = Idle.st /\ k.orig = {}
    BY IdleFact DEF Job
  <2> HIDE DEF k
  <2>6. JobOK(k, TRUE)
    BY <2>5, IdleFact DEF JobOK
  <2> QED BY <1>0, <2>1, <2>4, <2>6, SetJob DEF BandInv
<1> QED BY <1>3, <1>4, <1>5

LEMMA ClearBand ==
    ASSUME BandInv, NEW p \in Procs,
           ClearLoad(p) \/ UnlockLte(p) \/ UnlockNr(p) \/ SaveCleared(p)
    PROVE  BandInv'
<1>0. /\ JobOK(job[p], Known) /\ job[p] \in Job /\ Known \in BOOLEAN
      /\ requests \in 0 .. MaxRequests /\ DeviceOK /\ RecordOK
      /\ device \in Device /\ job[p].st \in Saved /\ job \in [Procs -> Job]
      /\ saved \in Saved
  BY DEF BandInv, Known, DeviceOK, RecordOK, Job
<1>1. JobOK(Idle, Known)
  BY <1>0, IdleOK
<1>2. CASE ClearLoad(p)
  <2> DEFINE k == [job[p] EXCEPT !.pc = "unlock", !.st = saved]
  <2>1. UNCHANGED <<device, saved, covered, requests>>
    BY <1>2 DEF ClearLoad
  <2>2. DeviceOK'
    BY <1>0, <2>1 DEF DeviceOK, Known
  <2>3. CASE saved.mask = {} /\ job' = [job EXCEPT ![p] = Idle]
    BY <1>0, <1>1, <2>1, <2>2, <2>3, SetJobOnly
  <2>4. CASE saved.mask # {} /\ job' = [job EXCEPT ![p] = k]
    <3>1. /\ k \in Job /\ k.pc = "unlock" /\ k.st = saved /\ k.orig = job[p].orig
      BY <1>0 DEF Job
    <3>2. job' = [job EXCEPT ![p] = k]
      BY <2>4
    <3> HIDE DEF k
    <3>3. JobOK(k, Known)
      BY <1>0, <2>4, <3>1 DEF JobOK, RecordOK
    <3> QED BY <1>0, <2>1, <2>2, <3>2, <3>3, SetJobOnly
  <2> QED BY <1>2, <2>3, <2>4 DEF ClearLoad
<1>3. ASSUME NEW pc \in {"unlock nr", "cleared"}, job[p].pc \in {"unlock", "unlock nr"},
             job' = [job EXCEPT ![p].pc = pc],
             UNCHANGED <<saved, covered, requests>>, DeviceOK'
      PROVE  BandInv'
  <2> DEFINE k == [job[p] EXCEPT !.pc = pc]
  <2>1. k \in Job /\ k.pc = pc /\ k.st = job[p].st /\ k.orig = job[p].orig
    BY <1>0 DEF Job
  <2>2. job' = [job EXCEPT ![p] = k]
    BY <1>0, <1>3
  <2> HIDE DEF k
  <2>3. JobOK(k, Known)
    BY <1>0, <1>3, <2>1 DEF JobOK
  <2> QED BY <1>0, <1>3, <2>2, <2>3, SetJobOnly
<1>4. CASE UnlockLte(p)
  <2>1. job[p].pc = "unlock" /\ UNCHANGED <<saved, covered, requests>>
    BY <1>4 DEF UnlockLte, At
  <2>2. job[p].st.mask = Bands
    BY <1>0, <2>1 DEF JobOK
  <2>3. CASE /\ device' = [device EXCEPT !.lte = job[p].st.mask]
             /\ job' = [job EXCEPT ![p].pc =
                          IF job[p].st.nr0 # {} THEN "unlock nr" ELSE "cleared"]
    <3>1. DeviceOK'
      BY <1>0, <2>1, <2>2, <2>3, TrustyFact DEF DeviceOK, Device, Known
    <3> QED BY <1>3, <2>1, <2>3, <3>1
  <2>4. CASE job' = [job EXCEPT ![p] = Idle] /\ device' = device
    <3>1. DeviceOK'
      BY <1>0, <2>1, <2>4 DEF DeviceOK, Known
    <3> QED BY <1>0, <1>1, <2>1, <2>4, <3>1, SetJobOnly
  <2>5. CASE /\ job' = [job EXCEPT ![p] = Idle]
             /\ device' = [device EXCEPT !.lte = job[p].st.mask]
    <3>1. DeviceOK'
      BY <1>0, <2>1, <2>2, <2>5, TrustyFact DEF DeviceOK, Device, Known
    <3> QED BY <1>0, <1>1, <2>1, <2>5, <3>1, SetJobOnly
  <2> QED BY <1>4, <2>3, <2>4, <2>5 DEF UnlockLte
<1>5. CASE UnlockNr(p)
  <2>1. /\ job[p].pc = "unlock nr" /\ UNCHANGED <<saved, covered, requests>>
        /\ job' = [job EXCEPT ![p].pc = "cleared"]
        /\ device' \in {device, [device EXCEPT !.nr = job[p].st.nr0]}
    BY <1>5 DEF UnlockNr, At
  <2>2. DeviceOK'
    BY <1>0, <2>1 DEF DeviceOK, Device, Known, Saved
  <2> QED BY <1>3, <2>1, <2>2
<1>6. CASE SaveCleared(p)
  <2> DEFINE new == [job[p].st EXCEPT !.set = TRUE, !.lte = {}, !.nr = {}, !.strikes = 0]
             k == [Idle EXCEPT !.pc = "read"]
  <2>1. /\ job[p].pc = "cleared" /\ saved' = new
        /\ job' = [job EXCEPT ![p] = k]
        /\ UNCHANGED <<device, covered, requests>>
    BY <1>6 DEF SaveCleared, At
  <2>2. job[p].st.mask = Bands
    BY <1>0, <2>1 DEF JobOK
  <2>3. new \in Saved /\ new.mask = Bands
    BY <1>0, <2>2, RewrittenFact
  <2> HIDE DEF new
  <2>4. Known' /\ RecordOK' /\ DeviceOK'
    BY <1>0, <2>1, <2>3 DEF RecordOK, DeviceOK, Known
  <2>5. k \in Job /\ k.pc = "read" /\ k.st = Idle.st /\ k.orig = {}
    BY IdleFact DEF Job
  <2> HIDE DEF k
  <2>6. JobOK(k, TRUE)
    BY <2>5, IdleFact DEF JobOK
  <2> QED BY <1>0, <2>1, <2>4, <2>6, SetJob DEF BandInv
<1> QED BY <1>2, <1>4, <1>5, <1>6

LEMMA ScanBand ==
    ASSUME BandInv, NEW p \in Procs,
           (\E band \in Bands : TestBand(p, band)) \/ Restore(p) \/ SetMask(p)
    PROVE  BandInv'
<1>0. /\ JobOK(job[p], Known) /\ job[p] \in Job /\ Known \in BOOLEAN
      /\ requests \in 0 .. MaxRequests /\ DeviceOK /\ device \in Device
      /\ job[p].was \in Device /\ job[p].orig \in SUBSET Bands
      /\ job \in [Procs -> Job]
  BY DEF BandInv, Known, DeviceOK, Job
<1>1. Known \/ Trusty(job[p].orig)
  BY <1>0 DEF JobOK
<1>2. ASSUME NEW band \in Bands, TestBand(p, band) PROVE BandInv'
  <2> DEFINE k == [job[p] EXCEPT !.pc = "read", !.then = "lte", !.remember = FALSE,
                                 !.lte = {band}, !.nr = {}]
  <2>1. /\ job' = [job EXCEPT ![p] = k]
        /\ UNCHANGED <<device, saved, covered, requests>>
    BY <1>2 DEF TestBand
  <2>2. k \in Job /\ k.pc = "read" /\ k.st = job[p].st /\ k.orig = job[p].orig
    BY <1>0 DEF Job
  <2> HIDE DEF k
  <2>3. JobOK(k, Known)
    BY <1>0, <1>1, <2>2 DEF JobOK
  <2>4. DeviceOK'
    BY <1>0, <2>1 DEF DeviceOK, Known
  <2> QED BY <1>0, <2>1, <2>3, <2>4, SetJobOnly
<1>3. CASE Restore(p)
  <2> DEFINE k == [Idle EXCEPT !.pc = "read", !.then = "lte", !.remember = TRUE,
                               !.lte = job[p].was.lte, !.nr = job[p].was.nr]
             l == [Idle EXCEPT !.pc = "mask", !.orig = job[p].orig]
  <2>1. /\ job' = [job EXCEPT ![p] = IF job[p].was.lte # {} THEN k ELSE l]
        /\ UNCHANGED <<device, saved, covered, requests>>
    BY <1>3 DEF Restore
  <2>2. k \in Job /\ k.pc = "read" /\ k.st = Idle.st /\ k.orig = {}
    BY <1>0, IdleFact DEF Job, Device
  <2>3. l \in Job /\ l.pc = "mask" /\ l.st = Idle.st /\ l.orig = job[p].orig
    BY <1>0, IdleFact DEF Job
  <2> HIDE DEF k, l
  <2>4. JobOK(k, Known) /\ JobOK(l, Known)
    BY <1>0, <1>1, <2>2, <2>3, IdleFact, TrustyFact DEF JobOK
  <2>5. DeviceOK'
    BY <1>0, <2>1 DEF DeviceOK, Known
  <2> QED BY <1>0, <2>1, <2>4, <2>5, SetJobOnly
<1>4. CASE SetMask(p)
  <2>1. /\ job' = [job EXCEPT ![p] = Idle]
        /\ UNCHANGED <<saved, covered, requests>>
        /\ device' \in {device, [device EXCEPT !.lte = job[p].orig]}
    BY <1>4 DEF SetMask
  <2>2. DeviceOK'
    BY <1>0, <1>1, <2>1 DEF DeviceOK, Device, Known
  <2> QED BY <1>0, <2>1, <2>2, IdleOK, SetJobOnly
<1> QED BY <1>2, <1>3, <1>4

LEMMA GuardBand ==
    ASSUME BandInv, NEW p \in Procs, HealthCheck(p) \/ GuardLoad(p) \/ GuardProbe(p)
    PROVE  BandInv'
<1>0. /\ JobOK(job[p], Known) /\ job[p] \in Job /\ Known \in BOOLEAN
      /\ requests \in 0 .. MaxRequests /\ DeviceOK /\ RecordOK
      /\ job[p].st \in Saved /\ job \in [Procs -> Job] /\ saved \in Saved
  BY DEF BandInv, Known, RecordOK, Job
<1>1. CASE HealthCheck(p)
  <2> DEFINE k == [Idle EXCEPT !.pc = "guard"]
  <2>1. /\ job' = [job EXCEPT ![p] = k]
        /\ UNCHANGED <<device, saved, covered, requests>>
    BY <1>1 DEF HealthCheck
  <2>2. k \in Job /\ k.pc = "guard" /\ k.st = Idle.st /\ k.orig = {}
    BY IdleFact DEF Job
  <2> HIDE DEF k
  <2>3. JobOK(k, Known)
    BY <1>0, <2>2, IdleFact, TrustyFact DEF JobOK
  <2>4. DeviceOK'
    BY <1>0, <2>1 DEF DeviceOK, Known
  <2> QED BY <1>0, <2>1, <2>3, <2>4, SetJobOnly
<1>3. CASE GuardLoad(p)
  <2> DEFINE k == [Idle EXCEPT !.pc = "probe", !.st = saved]
  <2>1. UNCHANGED <<device, saved, covered, requests>>
    BY <1>3 DEF GuardLoad
  <2>2. k \in Job /\ k.pc = "probe" /\ k.st = saved /\ k.orig = {}
    BY <1>0, IdleFact DEF Job
  <2>3. DeviceOK'
    BY <1>0, <2>1 DEF DeviceOK, Known
  <2>4. CASE saved.lte = {} /\ job' = [job EXCEPT ![p] = Idle]
    BY <1>0, <2>1, <2>3, <2>4, IdleOK, SetJobOnly
  <2>5. CASE saved.lte # {} /\ job' = [job EXCEPT ![p] = k]
    <3> HIDE DEF k
    <3>1. JobOK(k, Known)
      BY <1>0, <2>2, <2>5, TrustyFact DEF JobOK, RecordOK, Known
    <3> QED BY <1>0, <2>1, <2>3, <2>5, <3>1, SetJobOnly
  <2> QED BY <1>3, <2>4, <2>5 DEF GuardLoad
<1>2. CASE GuardProbe(p)
  <2> DEFINE st == job[p].st
             n == IF st.strikes < Strikes THEN st.strikes + 1 ELSE Strikes
             c == [Idle EXCEPT !.pc = "clear"]
  <2>1. st.mask = Bands
    BY <1>0, <1>2 DEF GuardProbe, At, JobOK
  <2>2. st \in Saved /\ st.strikes \in 0 .. Strikes
    BY <1>0 DEF Saved
  <2>3. 0 \in 0 .. Strikes /\ n \in 0 .. Strikes
    BY <2>2, BandBounds
  <2>4. /\ UNCHANGED <<device, covered, requests>>
        /\ \/ saved' = saved
           \/ \E i \in {0, n} : saved' = [st EXCEPT !.strikes = i]
        /\ job' = [job EXCEPT ![p] = Idle] \/ job' = [job EXCEPT ![p] = c]
    <3>1. CASE n < Strikes
      BY <1>2, <3>1 DEF GuardProbe
    <3>2. CASE ~ (n < Strikes)
      BY <1>2, <3>2 DEF GuardProbe
    <3> QED BY <3>1, <3>2
  <2> HIDE DEF n, st
  <2>5. saved' = saved \/ (saved' \in Saved /\ saved'.mask = Bands)
    BY <2>1, <2>2, <2>3, <2>4 DEF Saved
  <2>6. (Known => Known') /\ RecordOK' /\ DeviceOK'
    BY <1>0, <2>4, <2>5 DEF RecordOK, DeviceOK, Known
  <2>7. c \in Job /\ c.pc = "clear" /\ c.st = Idle.st /\ c.orig = {}
    BY IdleFact DEF Job
  <2> HIDE DEF c
  <2>8. JobOK(c, Known')
    BY <2>7, IdleFact, TrustyFact DEF JobOK
  <2>9. JobOK(Idle, Known')
    BY IdleFact, TrustyFact DEF JobOK
  <2>10. covered' \in SUBSET Bands /\ requests' \in 0 .. MaxRequests
    BY <2>4 DEF BandInv
  <2>11. CASE job' = [job EXCEPT ![p] = Idle]
    BY <2>6, <2>9, <2>10, <2>11, SetJob
  <2>12. CASE job' = [job EXCEPT ![p] = c]
    BY <2>6, <2>8, <2>10, <2>12, SetJob
  <2> QED BY <2>4, <2>11, <2>12
<1> QED BY <1>1, <1>2, <1>3

LEMMA StepBand == BandInv /\ [Next]_vars => BandInv'
<1> SUFFICES ASSUME BandInv, [Next]_vars PROVE BandInv'
  OBVIOUS
<1>1. ASSUME NEW p \in Procs, Continue(p) PROVE BandInv'
  BY <1>1, ReadBand, LockBand, ClearBand, ScanBand, GuardBand DEF Continue
<1>2. ASSUME NEW p \in Procs,
             \/ \E lte \in (SUBSET Bands) \ {{}}, nr \in SUBSET NrBands : Apply(p, lte, nr)
             \/ Read(p) \/ Clear(p) \/ Scan(p) \/ HealthCheck(p)
      PROVE  BandInv'
  BY <1>2, ApplyBand, AskBand, GuardBand
<1>3. ASSUME NEW p \in Procs, Kill(p) PROVE BandInv'
  <2>1. /\ job' = [job EXCEPT ![p] = Idle]
        /\ UNCHANGED <<device, saved, covered, requests>>
    BY <1>3 DEF Kill
  <2>2. DeviceOK' /\ requests' \in 0 .. MaxRequests /\ Known \in BOOLEAN
    BY <2>1 DEF BandInv, DeviceOK, Known
  <2> QED BY <2>1, <2>2, IdleOK, SetJobOnly
<1>4. ASSUME NEW bands \in SUBSET Bands, Coverage(bands) PROVE BandInv'
  BY <1>4 DEF Coverage, BandInv, RecordOK, DeviceOK, Known
<1>5. CASE UNCHANGED vars
  BY <1>5 DEF vars, BandInv, RecordOK, DeviceOK, Known
<1>6. CASE Toggle
  BY <1>6 DEF Toggle, BandInv, RecordOK, DeviceOK, Known
<1> QED BY <1>1, <1>2, <1>3, <1>4, <1>5, <1>6 DEF Next

LEMMA BandInvThm == Spec => []BandInv
BY InitBand, StepBand, PTL DEF Spec

\* No operation on the bands touches the switch of the proxy.
SwitchOK == enabled \in BOOLEAN

LEMMA SwitchThm == Spec => []SwitchOK
<1>1. Init => SwitchOK
  BY DEF Init, SwitchOK
<1>2. SwitchOK /\ [Next]_vars => SwitchOK'
  <2> SUFFICES ASSUME enabled \in BOOLEAN, [Next]_vars PROVE enabled' \in BOOLEAN
    BY DEF SwitchOK
  <2>1. ASSUME NEW p \in Procs, Continue(p) PROVE enabled' = enabled
    BY <2>1 DEF Continue, AskDevice, LoadLock, KeepMask, LockLte, LockNr, SaveLock,
       ClearLoad, UnlockLte, UnlockNr, SaveCleared, TestBand, Restore, SetMask,
       GuardLoad, GuardProbe
  <2>2. ASSUME NEW p \in Procs,
               \/ \E lte \in (SUBSET Bands) \ {{}}, nr \in SUBSET NrBands : Apply(p, lte, nr)
               \/ Read(p) \/ Clear(p) \/ Scan(p)
        PROVE  enabled' = enabled
    BY <2>2 DEF Apply, Read, Clear, Scan, Request
  <2>3. ASSUME NEW p \in Procs, HealthCheck(p) \/ Kill(p) PROVE enabled' = enabled
    BY <2>3 DEF HealthCheck, Kill
  <2>4. ASSUME NEW bands \in SUBSET Bands, Coverage(bands) PROVE enabled' = enabled
    BY <2>4 DEF Coverage
  <2>5. CASE Toggle
    BY <2>5 DEF Toggle
  <2>6. CASE UNCHANGED vars
    BY <2>6 DEF vars
  <2> QED BY <2>1, <2>2, <2>3, <2>4, <2>5, <2>6 DEF Next
<1> QED BY <1>1, <1>2, PTL DEF Spec

\* Every step of an operation on the bands stays within its type.
THEOREM BandTypes == Spec => []TypeOK
<1>1. BandInv /\ SwitchOK => TypeOK
  BY DEF SwitchOK, BandInv, RecordOK, DeviceOK, TypeOK
<1> QED BY <1>1, BandInvThm, SwitchThm, PTL

\* What is remembered as the device's own mask is nothing or its own mask,
\* whoever overlaps, is killed, refused or misreads the device.
THEOREM RestorePointThm == Spec => []RestorePointIsOwnMask
<1>1. BandInv => RestorePointIsOwnMask
  BY DEF BandInv, RecordOK, RestorePointIsOwnMask
<1> QED BY <1>1, BandInvThm, PTL

\* Whatever copy of the column is written back, the own mask is in it if it is
\* known: a narrow reading never overwrites it, and no operation that overlaps with
\* the one that found it out forgets it.
THEOREM MaskIsKeptThm == Spec => MaskIsKept
<1>1. ASSUME BandInv, [Next]_vars, saved.mask # {}
      PROVE  saved'.mask = saved.mask
  <2>1. saved.mask = Bands
    BY <1>1 DEF BandInv, RecordOK
  <2>2. CASE saved' = saved
    BY <2>2
  <2>3. CASE \E p \in Procs : KeepMask(p) \/ SaveLock(p) \/ SaveCleared(p) \/ GuardProbe(p)
    <3>1. PICK p \in Procs : KeepMask(p) \/ SaveLock(p) \/ SaveCleared(p) \/ GuardProbe(p)
      BY <2>3
    <3>2. /\ job[p].pc \in {"keep", "save", "cleared", "probe"}
          /\ job[p].st \in Saved /\ JobOK(job[p], Known)
      BY <1>1, <3>1 DEF KeepMask, SaveLock, SaveCleared, GuardProbe, At, BandInv, Job
    <3>3. job[p].st.mask = Bands
      BY <3>2 DEF JobOK
    <3>4. saved' = saved \/ saved'.mask = job[p].st.mask
      BY <3>1, <3>2 DEF KeepMask, SaveLock, SaveCleared, GuardProbe, Saved
    <3> QED BY <2>1, <3>3, <3>4
  <2>4. Next /\ ~ (\E p \in Procs : KeepMask(p) \/ SaveLock(p) \/ SaveCleared(p)
                                    \/ GuardProbe(p))
           => saved' = saved
    BY DEF Next, Apply, Read, Clear, Scan, Request, HealthCheck, Continue, AskDevice,
       LoadLock, LockLte, LockNr, ClearLoad, UnlockLte, UnlockNr, TestBand, Restore,
       SetMask, GuardLoad, Kill, Coverage, Toggle
  <2> QED BY <1>1, <2>2, <2>3, <2>4 DEF vars
<1>2. ASSUME BandInv, [Next]_vars
      PROVE  [saved.mask # {} => saved'.mask = saved.mask]_vars
  BY <1>1, <1>2
<1> QED BY <1>2, BandInvThm, PTL DEF Spec, MaskIsKept

-----------------------------------------------------------------------------
(* One operation at a time, on a device that obeys *)

\* The device is set to what is on record.
Settled(d, s) == d.lte = IF s.lte = {} THEN Bands ELSE s.lte

\* What the operation under way knows of the device d and the column s.  A
\* scan remembers how the modem was; whoever locks it will save what it locks;
\* everybody else finds the device settled and leaves it so.
Steady(j, d, s) ==
    /\ j.scan => s.mask = Bands /\ j.was.lte = s.lte /\ j.orig = Bands
    /\ j.pc = "scan" => j.scan
    /\ j.pc \in {"read", "load", "keep"} /\ j.then # "lte" /\ ~ j.scan => Settled(d, s)
    /\ j.pc \in {"clear", "guard", "probe"} => Settled(d, s)
    /\ j.pc = "load" => s.mask = Bands \/ j.seen.lte = Bands
    /\ j.pc \in {"keep", "lte"} => j.st.mask = Bands
    /\ j.pc \in {"keep", "probe"} => j.st.lte = s.lte
    /\ j.pc \in {"read", "load", "keep", "lte"} /\ j.then = "lte" => j.lte # {}
    /\ j.pc = "lte" => j.then = "lte"
    /\ j.pc \in {"read", "load", "keep", "lte", "nr"} /\ (j.then = "lte" \/ j.pc = "nr")
          => j.remember \/ j.scan
    /\ j.pc \in {"nr", "save"} => j.lte # {} /\ d.lte = j.lte /\ j.then = "done"
    /\ j.pc \in {"unlock nr", "cleared"} => d.lte = Bands
    /\ j.pc = "mask" => j.orig = Bands /\ s.lte = {}

Fine(j, d, s) == IF j.pc = "idle" THEN Settled(d, s) ELSE Steady(j, d, s)

\* Nobody has touched a device whose own mask is not on record.
CalmInv ==
    /\ saved.mask = Bands \/ device.lte = Bands
    /\ Quiet => Settled(device, saved)
    /\ \A p, q \in Procs : At(p, "idle") \/ At(q, "idle") \/ p = q
    /\ \A p \in Procs : At(p, "idle") \/ Steady(job[p], device, saved)

LEMMA CalmMoves ==
    ASSUME BandInv, NEW p \in Procs, NEW j, job' = [job EXCEPT ![p] = j],
           \A q \in Procs \ {p} : At(q, "idle"),
           Fine(j, device', saved'), saved'.mask = Bands \/ device'.lte = Bands
    PROVE  CalmInv'
<1>1. /\ \A q \in Procs \ {p} : job'[q] = job[q] /\ job'[q].pc = "idle"
      /\ job'[p] = j
  BY DEF BandInv, At
<1>2. Quiet' => Settled(device', saved')
  BY <1>1 DEF Quiet, Fine
<1>3. \A q \in Procs : (At(q, "idle") \/ Steady(job[q], device, saved))'
  <2> SUFFICES ASSUME NEW q \in Procs PROVE job'[q].pc = "idle" \/ Steady(job'[q], device', saved')
    BY DEF At
  <2> QED BY <1>1 DEF Fine
<1> QED BY <1>1, <1>2, <1>3 DEF CalmInv, At, Settled

\* A process that is at work is the only one.
LEMMA OnlyOne ==
    ASSUME CalmInv, BandInv, NEW p \in Procs, ~ At(p, "idle")
    PROVE  /\ Steady(job[p], device, saved)
           /\ \A q \in Procs \ {p} : At(q, "idle")
           /\ JobOK(job[p], Known) /\ job[p] \in Job /\ job \in [Procs -> Job]
           /\ saved.mask = Bands \/ device.lte = Bands
           /\ saved \in Saved /\ device \in Device
BY DEF CalmInv, BandInv, RecordOK, DeviceOK

LEMMA ScanningIs ==
    ASSUME NEW was \in Device, NEW orig \in SUBSET Bands, NEW d, NEW s,
           s.mask = Bands, was.lte = s.lte, orig = Bands
    PROVE  Fine(Scanning(was, orig), d, s)
<1> DEFINE j == [Idle EXCEPT !.pc = "scan", !.scan = TRUE, !.was = was, !.orig = orig]
<1>1. j.pc = "scan" /\ j.scan = TRUE /\ j.was = was /\ j.orig = orig
  BY IdleFact DEF Job
<1> HIDE DEF j
<1>2. Fine(j, d, s)
  BY <1>1 DEF Fine, Steady
<1> QED BY <1>2 DEF Scanning, j

LEMMA EndedFine ==
    ASSUME NEW j \in Job, NEW d, NEW s, Settled(d, s) \/ j.scan,
           j.scan => s.mask = Bands /\ j.was.lte = s.lte /\ j.orig = Bands
    PROVE  Fine(Ended(j), d, s)
<1>1. CASE j.scan
  <2>1. j.was \in Device /\ j.orig \in SUBSET Bands
    BY DEF Job
  <2> QED BY <1>1, <2>1, ScanningIs DEF Ended
<1>2. CASE ~ j.scan
  BY <1>2, IdleFact DEF Ended, Fine
<1> QED BY <1>1, <1>2

\* What follows a reading whose lock on record is the one in the column.
LEMMA FollowFine ==
    ASSUME NEW j \in Job, NEW d, NEW s, j.st.mask = Bands, j.st.lte = s.lte,
           s.mask = Bands,
           j.then # "lte" /\ ~ j.scan => Settled(d, s),
           j.then = "lte" => j.lte # {} /\ (j.remember \/ j.scan),
           j.scan => j.was.lte = s.lte /\ j.orig = Bands
    PROVE  Fine(Follow(j), d, s)
<1>1. CASE j.then = "done"
  BY <1>1, EndedFine DEF Follow
<1>2. CASE j.then = "lte"
  <2> DEFINE k == [j EXCEPT !.pc = "lte"]
  <2>1. /\ k.pc = "lte" /\ k.st = j.st /\ k.orig = j.orig /\ k.scan = j.scan
        /\ k.was = j.was /\ k.lte = j.lte /\ k.then = j.then /\ k.remember = j.remember
    BY DEF Job
  <2>2. Follow(j) = k
    BY <1>2 DEF Follow
  <2> HIDE DEF k
  <2>3. Fine(k, d, s)
    BY <1>2, <2>1 DEF Fine, Steady
  <2> QED BY <2>2, <2>3
<1>3. CASE j.then = "scan"
  <2> DEFINE was == [lte |-> j.st.lte, nr |-> j.st.nr]
             orig == IF j.st.mask # {} THEN j.st.mask ELSE j.seen.lte
  <2>1. was \in Device /\ was.lte = s.lte
    BY DEF Job, Saved, Device
  <2>2. orig = Bands /\ orig \in SUBSET Bands
    BY BandsAssumption, FS_EmptySet
  <2>3. Follow(j) = Scanning(was, orig)
    BY <1>3 DEF Follow
  <2> HIDE DEF was, orig
  <2> QED BY <2>1, <2>2, <2>3, ScanningIs
<1> QED BY <1>1, <1>2, <1>3 DEF Job

LEMMA InitCalm == Init => CalmInv
<1> SUFFICES ASSUME Init PROVE CalmInv
  OBVIOUS
<1>1. device.lte = Bands /\ saved.lte = {}
  BY DEF Init, NoLock
<1>2. \A p \in Procs : job[p].pc = "idle"
  BY IdleFact DEF Init
<1> QED BY <1>1, <1>2 DEF CalmInv, Settled, At

\* An operation begins when all is quiet, and the device is settled.
LEMMA BeginCalm ==
    ASSUME CalmInv, BandInv, "overlap" \notin Hazards, NEW p \in Procs, At(p, "idle"),
           "overlap" \notin Hazards => Quiet, NEW j \in Job,
           job' = [job EXCEPT ![p] = j], UNCHANGED <<device, saved>>,
           j.pc \in {"read", "clear", "guard"}, j.scan = FALSE,
           j.then = "lte" => j.lte # {} /\ j.remember
    PROVE  CalmInv'
<1>1. /\ \A q \in Procs \ {p} : At(q, "idle")
      /\ Settled(device, saved)
      /\ saved.mask = Bands \/ device.lte = Bands
  BY DEF CalmInv, Quiet, At
<1>2. Fine(j, device, saved)
  BY <1>1 DEF Fine, Steady
<1> QED BY <1>1, <1>2, CalmMoves

LEMMA AskCalm ==
    ASSUME CalmInv, BandInv, "overlap" \notin Hazards, NEW p \in Procs,
           \/ \E lte \in (SUBSET Bands) \ {{}}, nr \in SUBSET NrBands : Apply(p, lte, nr)
           \/ Read(p) \/ Clear(p) \/ Scan(p) \/ HealthCheck(p)
    PROVE  CalmInv'
<1>0. Idle \in Job /\ Idle.scan = FALSE /\ Idle.then = "done"
  BY IdleFact DEF Idle
<1>1. ASSUME NEW lte \in (SUBSET Bands) \ {{}}, NEW nr \in SUBSET NrBands, Apply(p, lte, nr)
      PROVE  CalmInv'
  <2> DEFINE j == [Idle EXCEPT !.pc = "read", !.then = "lte", !.remember = TRUE,
                               !.lte = lte, !.nr = nr]
  <2>1. /\ j \in Job /\ j.pc = "read" /\ j.scan = FALSE /\ j.lte = lte
        /\ j.remember = TRUE
    BY <1>0 DEF Job
  <2>2. Request(p, j)
    BY <1>1 DEF Apply
  <2> HIDE DEF j
  <2> QED BY <2>1, <2>2, BeginCalm DEF Request
<1>2. ASSUME NEW pc \in {"read", "clear", "guard"}, NEW then \in {"done", "scan"},
             At(p, "idle"), "overlap" \notin Hazards => Quiet, UNCHANGED <<device, saved>>,
             job' = [job EXCEPT ![p] = [Idle EXCEPT !.pc = pc, !.then = then]]
      PROVE  CalmInv'
  <2> DEFINE j == [Idle EXCEPT !.pc = pc, !.then = then]
  <2>1. j \in Job /\ j.pc = pc /\ j.scan = FALSE /\ j.then = then
    BY <1>0 DEF Job
  <2>2. job' = [job EXCEPT ![p] = j]
    BY <1>2
  <2> HIDE DEF j
  <2> QED BY <1>2, <2>1, <2>2, BeginCalm
<1>3. ASSUME NEW pc \in {"read", "clear", "guard"},
             At(p, "idle"), "overlap" \notin Hazards => Quiet, UNCHANGED <<device, saved>>,
             job' = [job EXCEPT ![p] = [Idle EXCEPT !.pc = pc]]
      PROVE  CalmInv'
  <2> DEFINE j == [Idle EXCEPT !.pc = pc]
  <2>1. j \in Job /\ j.pc = pc /\ j.scan = FALSE /\ j.then = "done"
    BY <1>0 DEF Job
  <2>2. job' = [job EXCEPT ![p] = j]
    BY <1>3
  <2> HIDE DEF j
  <2> QED BY <1>3, <2>1, <2>2, BeginCalm
<1>4. CASE Read(p)
  BY <1>3, <1>4 DEF Read, Request
<1>5. CASE Clear(p)
  BY <1>3, <1>5 DEF Clear, Request
<1>6. CASE Scan(p)
  BY <1>2, <1>6 DEF Scan, Request
<1>7. CASE HealthCheck(p)
  BY <1>3, <1>7 DEF HealthCheck
<1> QED BY <1>1, <1>4, <1>5, <1>6, <1>7

LEMMA ReadCalm ==
    ASSUME CalmInv, BandInv, Readings = {device}, NEW p \in Procs,
           \/ \E reading \in Readings : AskDevice(p, reading)
           \/ LoadLock(p) \/ KeepMask(p)
    PROVE  CalmInv'
<1>1. ~ At(p, "idle")
  BY DEF AskDevice, LoadLock, KeepMask, At
<1>2. /\ Steady(job[p], device, saved)
      /\ \A q \in Procs \ {p} : At(q, "idle")
      /\ JobOK(job[p], Known) /\ job[p] \in Job /\ job \in [Procs -> Job]
      /\ saved.mask = Bands \/ device.lte = Bands
      /\ saved \in Saved /\ device \in Device
  BY <1>1, OnlyOne
<1>3. CASE AskDevice(p, device)
  <2> DEFINE j == [job[p] EXCEPT !.pc = "load", !.seen = device]
  <2>1. /\ j.pc = "load" /\ j.seen = device /\ j.scan = job[p].scan
        /\ j.was = job[p].was /\ j.orig = job[p].orig /\ j.lte = job[p].lte
        /\ j.then = job[p].then /\ j.remember = job[p].remember
    BY <1>2 DEF Job
  <2>2. /\ job[p].pc = "read" /\ UNCHANGED <<device, saved>>
        /\ job' = [job EXCEPT ![p] = j]
    BY <1>2, <1>3 DEF AskDevice, At
  <2> HIDE DEF j
  <2>3. Fine(j, device, saved)
    BY <1>2, <2>1, <2>2 DEF Fine, Steady
  <2> QED BY <1>2, <2>2, <2>3, CalmMoves
<1>4. CASE LoadLock(p)
  <2> DEFINE mask == Widest(saved.mask, job[p].seen.lte)
             st == [saved EXCEPT !.mask = mask]
             j == [job[p] EXCEPT !.st = st]
             k == [j EXCEPT !.pc = "keep"]
  <2>1. /\ job[p].pc = "load" /\ UNCHANGED <<device, saved>>
        /\ job' = [job EXCEPT ![p] = IF mask # saved.mask THEN k ELSE Follow(j)]
    BY <1>4 DEF LoadLock, At
  <2>2. saved.mask \in {{}, Bands}
    BY DEF BandInv, RecordOK
  <2>3. mask = Bands
    <3>1. CASE saved.mask = Bands
      <4>1. job[p].seen.lte \in SUBSET Bands
        BY <1>2 DEF Job, Device
      <4>2. ~ Cardinality(job[p].seen.lte) > Cardinality(Bands)
        BY <4>1, CardFact, BandsAssumption, FS_CardinalityType
      <4> QED BY <3>1, <4>2 DEF Widest
    <3>2. CASE saved.mask = {}
      <4>1. saved.mask # Bands /\ Cardinality({}) = 0
        BY <3>2, BandsAssumption, FS_EmptySet
      <4>2. job[p].seen.lte = Bands
        BY <1>2, <2>1, <4>1 DEF Steady
      <4>3. Cardinality(Bands) > 1 /\ Cardinality(Bands) > Cardinality({})
        <5>1. Cardinality(Bands) \in Nat /\ Cardinality(Bands) >= 2
          BY BandsAssumption, FS_CardinalityType
        <5> QED BY <4>1, <5>1
      <4> QED BY <3>2, <4>2, <4>3 DEF Widest
    <3> QED BY <2>2, <3>1, <3>2
  <2> HIDE DEF mask
  <2>4. st \in Saved /\ st.mask = Bands /\ st.lte = saved.lte
    BY <1>2, <2>3 DEF Saved
  <2> HIDE DEF st
  <2>5. /\ j \in Job /\ j.st = st /\ j.scan = job[p].scan /\ j.pc = "load"
        /\ j.was = job[p].was /\ j.orig = job[p].orig /\ j.lte = job[p].lte
        /\ j.then = job[p].then /\ j.remember = job[p].remember
    BY <1>2, <2>1, <2>4 DEF Job
  <2> HIDE DEF j
  <2>6. /\ k.pc = "keep" /\ k.st = j.st /\ k.scan = j.scan /\ k.seen = j.seen
        /\ k.was = j.was /\ k.orig = j.orig /\ k.lte = j.lte
        /\ k.then = j.then /\ k.remember = j.remember
    BY <2>5 DEF Job
  <2> HIDE DEF k
  <2>7. CASE mask # saved.mask
    <3>1. Fine(k, device, saved)
      BY <1>2, <2>1, <2>4, <2>5, <2>6 DEF Fine, Steady
    <3> QED BY <1>2, <2>1, <2>7, <3>1, CalmMoves
  <2>8. CASE mask = saved.mask
    <3>1. Fine(Follow(j), device, saved)
      <4>1. saved.mask = Bands
        BY <2>3, <2>8
      <4> QED BY <1>2, <2>1, <2>4, <2>5, <4>1, FollowFine DEF Steady
    <3> QED BY <1>2, <2>1, <2>8, <3>1, CalmMoves
  <2> QED BY <2>7, <2>8
<1>5. CASE KeepMask(p)
  <2>1. /\ job[p].pc = "keep" /\ UNCHANGED device /\ saved' = job[p].st
        /\ job' = [job EXCEPT ![p] = Follow(job[p])]
    BY <1>5 DEF KeepMask, At
  <2>2. saved'.mask = Bands /\ saved'.lte = saved.lte
    BY <1>2, <2>1 DEF Steady
  <2>3. Settled(device, saved) => Settled(device', saved')
    BY <2>1, <2>2 DEF Settled
  <2>4. Fine(Follow(job[p]), device', saved')
    BY <1>2, <2>1, <2>2, <2>3, FollowFine DEF Steady
  <2> QED BY <1>2, <2>1, <2>2, <2>4, CalmMoves
<1> QED BY <1>3, <1>4, <1>5

\* Nothing is refused: what is asked of the device is what it is set to.
LEMMA LockCalm ==
    ASSUME CalmInv, BandInv, ~ Refusable, ~ Refusable5G, NEW p \in Procs,
           LockLte(p) \/ LockNr(p) \/ SaveLock(p)
    PROVE  CalmInv'
<1>1. ~ At(p, "idle")
  BY DEF LockLte, LockNr, SaveLock, At
<1>2. /\ Steady(job[p], device, saved)
      /\ \A q \in Procs \ {p} : At(q, "idle")
      /\ JobOK(job[p], Known) /\ job[p] \in Job /\ job \in [Procs -> Job]
      /\ saved.mask = Bands \/ device.lte = Bands
      /\ saved \in Saved /\ device \in Device
  BY <1>1, OnlyOne
<1>3. CASE LockLte(p)
  <2> DEFINE j == job[p]
             next == IF j.nr # {} THEN "nr" ELSE IF j.remember THEN "save" ELSE "read"
             st == IF j.remember THEN WithDefaultNr(j) ELSE NoLock
             k == [j EXCEPT !.pc = next, !.then = "done", !.seen = Nothing, !.st = st]
  <2>1. /\ j.pc = "lte" /\ j.st.mask = Bands /\ j.then = "lte" /\ j.lte # {}
        /\ j.remember \/ j.scan
        /\ j.scan => saved.mask = Bands /\ j.was.lte = saved.lte /\ j.orig = Bands
    BY <1>2, <1>3 DEF LockLte, At, Steady
  <2>2. saved.mask = Bands
    BY <1>2, <2>1, BandsAssumption, FS_EmptySet DEF JobOK, Known
  <2>3. Cardinality(j.st.mask) >= 2 /\ ~ (Cardinality(j.st.mask) < 2)
    BY <2>1, BandsAssumption, CardFact
  <2>4. /\ device' = [device EXCEPT !.lte = j.lte] /\ UNCHANGED saved
        /\ job' = [job EXCEPT ![p] = k]
    BY <1>3, <2>3 DEF LockLte
  <2>5. next \in {"nr", "save", "read"} /\ (next = "read" => ~ j.remember)
    OBVIOUS
  <2> HIDE DEF next, st
  <2>6. /\ k.pc = next /\ k.then = "done" /\ k.scan = j.scan /\ k.was = j.was
        /\ k.orig = j.orig /\ k.lte = j.lte /\ k.remember = j.remember
    BY <1>2 DEF Job
  <2>7. device'.lte = j.lte
    BY <1>2, <2>4 DEF Device
  <2> HIDE DEF k
  <2>8. Fine(k, device', saved')
    BY <2>1, <2>2, <2>4, <2>5, <2>6, <2>7 DEF Fine, Steady
  <2> QED BY <1>2, <2>2, <2>4, <2>8, CalmMoves
<1>4. CASE LockNr(p)
  <2> DEFINE j == job[p]
             pc == IF j.remember THEN "save" ELSE "read"
             k == [j EXCEPT !.pc = pc]
  <2>1. /\ j.pc = "nr" /\ UNCHANGED saved
        /\ device' = [device EXCEPT !.nr = j.nr]
        /\ job' = [job EXCEPT ![p] = k]
    BY <1>2, <1>4 DEF LockNr, At
  <2>2. device'.lte = device.lte
    BY <1>2, <2>1 DEF Device
  <2>3. /\ k.pc = pc /\ k.then = j.then /\ k.scan = j.scan /\ k.was = j.was
        /\ k.orig = j.orig /\ k.lte = j.lte /\ k.remember = j.remember
    BY <1>2 DEF Job
  <2>4. pc \in {"save", "read"} /\ (pc = "read" => ~ j.remember)
    OBVIOUS
  <2> HIDE DEF k, pc
  <2>5. Fine(k, device', saved')
    BY <1>2, <2>1, <2>2, <2>3, <2>4 DEF Fine, Steady
  <2> QED BY <1>2, <2>1, <2>2, <2>5, CalmMoves
<1>5. CASE SaveLock(p)
  <2> DEFINE j == job[p]
             new == [j.st EXCEPT !.lte = j.lte, !.nr = j.nr, !.strikes = 0]
             k == [Idle EXCEPT !.pc = "read"]
  <2>1. /\ j.pc = "save" /\ UNCHANGED device /\ saved' = new
        /\ job' = [job EXCEPT ![p] = k]
    BY <1>5 DEF SaveLock, At
  <2>2. j.st.mask = Bands /\ j.lte # {} /\ device.lte = j.lte
    BY <1>2, <2>1 DEF Steady, JobOK
  <2>3. new.mask = Bands /\ new.lte = j.lte
    <3>1. j.st \in Saved /\ j.lte \in SUBSET Bands /\ j.nr \in SUBSET NrBands
      BY <1>2 DEF Job
    <3> QED BY <2>2, <3>1 DEF Saved
  <2>4. Settled(device', new)
    BY <2>1, <2>2, <2>3 DEF Settled
  <2>5. k.pc = "read" /\ k.scan = FALSE /\ k.then = "done"
    BY IdleFact DEF Idle
  <2> HIDE DEF new, k
  <2>6. Fine(k, device', saved')
    BY <2>1, <2>4, <2>5 DEF Fine, Steady
  <2> QED BY <1>2, <2>1, <2>3, <2>6, CalmMoves
<1> QED BY <1>3, <1>4, <1>5

LEMMA ClearCalm ==
    ASSUME CalmInv, BandInv, ~ Refusable, ~ Refusable5G, NEW p \in Procs,
           ClearLoad(p) \/ UnlockLte(p) \/ UnlockNr(p) \/ SaveCleared(p)
    PROVE  CalmInv'
<1>1. ~ At(p, "idle")
  BY DEF ClearLoad, UnlockLte, UnlockNr, SaveCleared, At
<1>2. /\ Steady(job[p], device, saved)
      /\ \A q \in Procs \ {p} : At(q, "idle")
      /\ JobOK(job[p], Known) /\ job[p] \in Job /\ job \in [Procs -> Job]
      /\ saved.mask = Bands \/ device.lte = Bands
      /\ saved \in Saved /\ device \in Device
  BY <1>1, OnlyOne
<1>3. CASE ClearLoad(p)
  <2> DEFINE k == [job[p] EXCEPT !.pc = "unlock", !.st = saved]
  <2>1. /\ job[p].pc = "clear" /\ UNCHANGED <<device, saved>>
        /\ job' = [job EXCEPT ![p] = IF saved.mask = {} THEN Idle ELSE k]
    BY <1>3 DEF ClearLoad, At
  <2>2. Settled(device, saved)
    BY <1>2, <2>1 DEF Steady
  <2>3. Fine(Idle, device, saved)
    BY <2>2, IdleFact DEF Fine
  <2>4. k.pc = "unlock" /\ k.scan = job[p].scan /\ k.was = job[p].was /\ k.orig = job[p].orig
    BY <1>2 DEF Job
  <2> HIDE DEF k
  <2>5. Fine(k, device, saved)
    BY <1>2, <2>4 DEF Fine, Steady
  <2> QED BY <1>2, <2>1, <2>3, <2>5, CalmMoves
<1>4. ASSUME NEW pc \in {"unlock nr", "cleared"}, job' = [job EXCEPT ![p].pc = pc],
             device'.lte = Bands, UNCHANGED saved
      PROVE  CalmInv'
  <2> DEFINE k == [job[p] EXCEPT !.pc = pc]
  <2>1. k.pc = pc /\ k.scan = job[p].scan /\ k.was = job[p].was /\ k.orig = job[p].orig
    BY <1>2 DEF Job
  <2>2. job' = [job EXCEPT ![p] = k]
    BY <1>2, <1>4
  <2> HIDE DEF k
  <2>3. Fine(k, device', saved')
    BY <1>2, <1>4, <2>1 DEF Fine, Steady
  <2> QED BY <1>2, <1>4, <2>2, <2>3, CalmMoves
<1>5. CASE UnlockLte(p)
  <2>1. /\ job[p].pc = "unlock" /\ UNCHANGED saved
        /\ device' = [device EXCEPT !.lte = job[p].st.mask]
        /\ job' = [job EXCEPT ![p].pc =
                      IF job[p].st.nr0 # {} THEN "unlock nr" ELSE "cleared"]
    BY <1>5 DEF UnlockLte, At
  <2>2. device'.lte = Bands
    BY <1>2, <2>1 DEF JobOK, Device
  <2> QED BY <1>4, <2>1, <2>2
<1>6. CASE UnlockNr(p)
  <2>1. /\ job[p].pc = "unlock nr" /\ UNCHANGED saved
        /\ device' = [device EXCEPT !.nr = job[p].st.nr0]
        /\ job' = [job EXCEPT ![p].pc = "cleared"]
    BY <1>6 DEF UnlockNr, At
  <2>2. device'.lte = Bands
    BY <1>2, <2>1 DEF Steady, Device
  <2> QED BY <1>4, <2>1, <2>2
<1>7. CASE SaveCleared(p)
  <2> DEFINE new == [job[p].st EXCEPT !.set = TRUE, !.lte = {}, !.nr = {}, !.strikes = 0]
             k == [Idle EXCEPT !.pc = "read"]
  <2>1. /\ job[p].pc = "cleared" /\ UNCHANGED device /\ saved' = new
        /\ job' = [job EXCEPT ![p] = k]
    BY <1>7 DEF SaveCleared, At
  <2>2. job[p].st.mask = Bands /\ device.lte = Bands
    BY <1>2, <2>1 DEF Steady, JobOK
  <2>3. new.mask = Bands /\ new.lte = {}
    <3>1. job[p].st \in Saved
      BY <1>2 DEF Job
    <3> QED BY <2>2, <3>1 DEF Saved
  <2>4. Settled(device', new)
    BY <2>1, <2>2, <2>3 DEF Settled
  <2>5. k.pc = "read" /\ k.scan = FALSE /\ k.then = "done"
    BY IdleFact DEF Idle
  <2> HIDE DEF new, k
  <2>6. Fine(k, device', saved')
    BY <2>1, <2>4, <2>5 DEF Fine, Steady
  <2> QED BY <1>2, <2>1, <2>3, <2>6, CalmMoves
<1> QED BY <1>3, <1>5, <1>6, <1>7

LEMMA ScanCalm ==
    ASSUME CalmInv, BandInv, ~ Refusable, NEW p \in Procs,
           (\E band \in Bands : TestBand(p, band)) \/ Restore(p) \/ SetMask(p)
    PROVE  CalmInv'
<1>1. ~ At(p, "idle")
  BY DEF TestBand, Restore, SetMask, At
<1>2. /\ Steady(job[p], device, saved)
      /\ \A q \in Procs \ {p} : At(q, "idle")
      /\ JobOK(job[p], Known) /\ job[p] \in Job /\ job \in [Procs -> Job]
      /\ saved.mask = Bands \/ device.lte = Bands
      /\ saved \in Saved /\ device \in Device
  BY <1>1, OnlyOne
<1>3. ASSUME NEW band \in Bands, TestBand(p, band) PROVE CalmInv'
  <2> DEFINE k == [job[p] EXCEPT !.pc = "read", !.then = "lte", !.remember = FALSE,
                                 !.lte = {band}, !.nr = {}]
  <2>1. /\ job[p].pc = "scan" /\ UNCHANGED <<device, saved>>
        /\ job' = [job EXCEPT ![p] = k]
    BY <1>3 DEF TestBand, At
  <2>2. /\ k.pc = "read" /\ k.then = "lte" /\ k.lte = {band} /\ k.scan = job[p].scan
        /\ k.was = job[p].was /\ k.orig = job[p].orig
    BY <1>2 DEF Job
  <2> HIDE DEF k
  <2>3. Fine(k, device, saved)
    BY <1>2, <2>1, <2>2 DEF Fine, Steady
  <2> QED BY <1>2, <2>1, <2>3, CalmMoves
<1>4. CASE Restore(p)
  <2> DEFINE k == [Idle EXCEPT !.pc = "read", !.then = "lte", !.remember = TRUE,
                               !.lte = job[p].was.lte, !.nr = job[p].was.nr]
             l == [Idle EXCEPT !.pc = "mask", !.orig = job[p].orig]
  <2>1. /\ job[p].pc = "scan" /\ UNCHANGED <<device, saved>>
        /\ job' = [job EXCEPT ![p] = IF job[p].was.lte # {} THEN k ELSE l]
    BY <1>4 DEF Restore, At
  <2>2. /\ k.pc = "read" /\ k.then = "lte" /\ k.lte = job[p].was.lte
        /\ k.scan = FALSE /\ k.remember = TRUE
    BY DEF Idle
  <2>3. l.pc = "mask" /\ l.orig = job[p].orig /\ l.scan = FALSE
    BY DEF Idle
  <2> HIDE DEF k, l
  <2>4. CASE job[p].was.lte # {}
    <3>1. Fine(k, device, saved)
      BY <1>2, <2>2, <2>4 DEF Fine, Steady
    <3> QED BY <1>2, <2>1, <2>4, <3>1, CalmMoves
  <2>5. CASE job[p].was.lte = {}
    <3>1. Fine(l, device, saved)
      BY <1>2, <2>1, <2>3, <2>5 DEF Fine, Steady
    <3> QED BY <1>2, <2>1, <2>5, <3>1, CalmMoves
  <2> QED BY <2>4, <2>5
<1>5. CASE SetMask(p)
  <2>1. job[p].pc = "mask" /\ UNCHANGED saved /\ job' = [job EXCEPT ![p] = Idle]
    BY <1>5 DEF SetMask, At
  <2>2. job[p].orig = Bands /\ saved.lte = {} /\ Bands # {}
    BY <1>2, <2>1, BandsAssumption, FS_EmptySet DEF Steady
  <2>3. device' = [device EXCEPT !.lte = Bands]
    BY <1>5, <2>2 DEF SetMask
  <2>4. device'.lte = Bands
    BY <1>2, <2>3 DEF Device
  <2>5. Fine(Idle, device', saved')
    BY <2>1, <2>2, <2>4, IdleFact DEF Fine, Settled
  <2> QED BY <1>2, <2>1, <2>4, <2>5, CalmMoves
<1> QED BY <1>3, <1>4, <1>5

LEMMA GuardCalm ==
    ASSUME CalmInv, BandInv, NEW p \in Procs, GuardLoad(p) \/ GuardProbe(p)
    PROVE  CalmInv'
<1>1. ~ At(p, "idle")
  BY DEF GuardLoad, GuardProbe, At
<1>2. /\ Steady(job[p], device, saved)
      /\ \A q \in Procs \ {p} : At(q, "idle")
      /\ JobOK(job[p], Known) /\ job[p] \in Job /\ job \in [Procs -> Job]
      /\ saved.mask = Bands \/ device.lte = Bands
      /\ saved \in Saved /\ device \in Device
  BY <1>1, OnlyOne
<1>3. CASE GuardLoad(p)
  <2> DEFINE k == [Idle EXCEPT !.pc = "probe", !.st = saved]
  <2>1. /\ job[p].pc = "guard" /\ UNCHANGED <<device, saved>>
        /\ job' = [job EXCEPT ![p] = IF saved.lte = {} THEN Idle ELSE k]
    BY <1>3 DEF GuardLoad, At
  <2>2. Settled(device, saved)
    BY <1>2, <2>1 DEF Steady
  <2>3. k.pc = "probe" /\ k.st = saved /\ k.scan = FALSE
    BY DEF Idle
  <2> HIDE DEF k
  <2>4. Fine(k, device, saved) /\ Fine(Idle, device, saved)
    BY <2>2, <2>3, IdleFact DEF Fine, Steady
  <2> QED BY <1>2, <2>1, <2>4, CalmMoves
<1>4. CASE GuardProbe(p)
  <2> DEFINE st == job[p].st
             n == IF st.strikes < Strikes THEN st.strikes + 1 ELSE Strikes
             c == [Idle EXCEPT !.pc = "clear"]
  <2>1. /\ job[p].pc = "probe" /\ UNCHANGED device
        /\ \/ saved' = saved
           \/ \E i \in {0, n} : saved' = [st EXCEPT !.strikes = i]
        /\ job' = [job EXCEPT ![p] = Idle] \/ job' = [job EXCEPT ![p] = c]
    <3>1. CASE n < Strikes
      BY <1>4, <3>1 DEF GuardProbe, At
    <3>2. CASE ~ (n < Strikes)
      BY <1>4, <3>2 DEF GuardProbe, At
    <3> QED BY <3>1, <3>2
  <2>2. st \in Saved /\ st.mask = Bands /\ st.lte = saved.lte
    BY <1>2, <2>1 DEF Steady, JobOK, Job
  <2> HIDE DEF n, st
  <2>3. saved'.lte = saved.lte /\ (saved' = saved \/ saved'.mask = Bands)
    BY <2>1, <2>2 DEF Saved
  <2>4. Settled(device', saved')
    BY <1>2, <2>1, <2>3 DEF Steady, Settled
  <2>5. c.pc = "clear" /\ c.scan = FALSE
    BY DEF Idle
  <2> HIDE DEF c
  <2>6. Fine(Idle, device', saved') /\ Fine(c, device', saved')
    BY <2>4, <2>5, IdleFact DEF Fine, Steady
  <2>7. saved'.mask = Bands \/ device'.lte = Bands
    BY <1>2, <2>1, <2>3
  <2> QED BY <1>2, <2>1, <2>6, <2>7, CalmMoves
<1> QED BY <1>3, <1>4

LEMMA StepCalm ==
    ASSUME Hazards \subseteq {"switch"}
    PROVE  (BandInv /\ CalmInv) /\ [Next]_vars => (BandInv /\ CalmInv)'
<1> SUFFICES ASSUME BandInv, CalmInv, [Next]_vars PROVE CalmInv'
  BY StepBand
<1>1. /\ "overlap" \notin Hazards /\ "kill" \notin Hazards
      /\ Readings = {device} /\ ~ Refusable /\ ~ Refusable5G
  BY DEF Readings, Refusable, Refusable5G
<1>2. ASSUME NEW p \in Procs, Continue(p) PROVE CalmInv'
  BY <1>1, <1>2, ReadCalm, LockCalm, ClearCalm, ScanCalm, GuardCalm DEF Continue
<1>3. ASSUME NEW p \in Procs,
             \/ \E lte \in (SUBSET Bands) \ {{}}, nr \in SUBSET NrBands : Apply(p, lte, nr)
             \/ Read(p) \/ Clear(p) \/ Scan(p) \/ HealthCheck(p)
      PROVE  CalmInv'
  BY <1>1, <1>3, AskCalm
<1>4. ASSUME NEW p \in Procs, Kill(p) PROVE FALSE
  BY <1>1, <1>4 DEF Kill
<1>5. ASSUME UNCHANGED <<device, saved, job>> PROVE CalmInv'
  BY <1>5 DEF CalmInv, Quiet, At, Settled, Steady
<1>6. ASSUME NEW bands \in SUBSET Bands, Coverage(bands) PROVE CalmInv'
  BY <1>5, <1>6 DEF Coverage
<1>7. CASE Toggle \/ UNCHANGED vars
  BY <1>5, <1>7 DEF Toggle, vars
<1> QED BY <1>2, <1>3, <1>4, <1>6, <1>7 DEF Next

\* With one operation at a time on a device that carries out what it is asked,
\* a modem is never left on a band that is not on record: after every scan, and
\* after everything a guard does, it is on its own mask or on the locked bands,
\* however many bands there are and whatever was scanned, locked and unlocked.
THEOREM NotStuckThm ==
    ASSUME Hazards \subseteq {"switch"}
    PROVE  Spec => []NotStuck
<1>1. Init => BandInv /\ CalmInv
  BY InitBand, InitCalm
<1>2. (BandInv /\ CalmInv) /\ [Next]_vars => (BandInv /\ CalmInv)'
  BY StepCalm
<1>3. BandInv /\ CalmInv => NotStuck
  BY DEF CalmInv, Settled, NotStuck
<1> QED BY <1>1, <1>2, <1>3, PTL DEF Spec

=============================================================================
