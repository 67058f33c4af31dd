------------------------ MODULE PortAllocationProofs ------------------------
(***************************************************************************)
(* Proofs about PortAllocation: the search for a free port, the range of   *)
(* the ports under any interleaving, and distinct ports with one process.  *)
(***************************************************************************)
EXTENDS PortAllocation, FiniteSetTheorems, WellFoundedInduction, TLAPS

-----------------------------------------------------------------------------
(* Lemmas about FirstFree *)

LessThan == {ss \in Nat \X Nat : ss[1] < ss[2]}

\* The order of the naturals, as a set of pairs, is well-founded.
LEMMA LessThanWF == IsWellFoundedOn(LessThan, Nat)
  BY NatLessThanWellFounded DEF OpToRel, LessThan

\* A nonempty set of naturals has a least element.
LEMMA LeastNat ==
  ASSUME NEW T, T \subseteq Nat, T # {}
  PROVE  \E x \in T : \A y \in T : x <= y
<1>1. PICK x \in T : \A y \in T : <<y, x>> \notin LessThan
  BY LessThanWF, WFMin
<1>2. ASSUME NEW y \in T PROVE x <= y
  <2>1. <<y, x>> \in Nat \X Nat
    OBVIOUS
  <2>. QED  BY <1>1, <2>1 DEF LessThan
<1>. QED  BY <1>2

\* The loop of allocate_port ends: |used| steps always leave the used ports.
LEMMA FirstFreeExists ==
  ASSUME NEW start \in Nat, NEW used \in SUBSET Nat, IsFiniteSet(used)
  PROVE  \E x \in start .. start + Cardinality(used) :
            x \notin used /\ \A q \in start .. x - 1 : q \in used
<1>. DEFINE C == Cardinality(used)
            I == start .. start + C
            T == I \ used
<1>1. C \in Nat
  BY FS_CardinalityType
<1>2. IsFiniteSet(I) /\ Cardinality(I) = C + 1
  <2>1. start + C \in Int /\ start \in Int /\ start <= start + C
    BY <1>1
  <2>. QED  BY <1>1, <2>1, FS_Interval
<1>3. ~ (I \subseteq used)
  <2>. SUFFICES ASSUME I \subseteq used PROVE FALSE
    OBVIOUS
  <2>1. Cardinality(I) <= C
    BY FS_Subset
  <2>. QED  BY <1>1, <1>2, <2>1
<1>4. T # {} /\ T \subseteq Nat
  BY <1>1, <1>3
<1>5. PICK x \in T : \A y \in T : x <= y
  <2>. HIDE DEF T
  <2>. QED  BY <1>4, LeastNat
<1>6. ASSUME NEW q \in start .. x - 1 PROVE q \in used
  BY <1>1, <1>5
<1>. QED  BY <1>5, <1>6

\* What FirstFree returns: the least port from start upwards that is free.
LEMMA FirstFreeProperties ==
  ASSUME NEW start \in Nat, NEW used \in SUBSET Nat, IsFiniteSet(used)
  PROVE  /\ FirstFree(start, used) \in start .. start + Cardinality(used)
         /\ FirstFree(start, used) \notin used
         /\ \A q \in start .. FirstFree(start, used) - 1 : q \in used
  BY FirstFreeExists DEF FirstFree

\* Only one port has the properties of the previous lemma.
LEMMA FirstFreeUnique ==
  ASSUME NEW start \in Nat, NEW used \in SUBSET Nat, IsFiniteSet(used),
         NEW x \in Nat, x >= start, x \notin used,
         \A q \in start .. x - 1 : q \in used
  PROVE  FirstFree(start, used) = x
<1>. DEFINE y == FirstFree(start, used)
<1>1. y \in start .. start + Cardinality(used) /\ y \notin used
      /\ \A q \in start .. y - 1 : q \in used
  BY FirstFreeProperties
<1>2. Cardinality(used) \in Nat
  BY FS_CardinalityType
<1>3. y \in Nat /\ y >= start
  BY <1>1, <1>2
<1>. HIDE DEF y
<1>4. ~ (x < y) /\ ~ (y < x)
  <2>1. CASE x < y
    <3>1. x \in start .. y - 1
      BY <1>3, <2>1
    <3>. QED  BY <1>1, <3>1
  <2>2. CASE y < x
    <3>1. y \in start .. x - 1
      BY <1>3, <2>2
    <3>. QED  BY <1>1, <3>1
  <2>. QED  BY <2>1, <2>2
<1>5. x = y
  BY <1>3, <1>4
<1>. QED  BY <1>5 DEF y

\* Shifting the used ports and the start by d shifts the result by d.
LEMMA FirstFreeShift ==
  ASSUME NEW start \in Nat, NEW used \in SUBSET Nat, IsFiniteSet(used),
         NEW d \in Nat
  PROVE  /\ IsFiniteSet({h + d : h \in used})
         /\ FirstFree(start + d, {h + d : h \in used}) = FirstFree(start, used) + d
<1>. DEFINE V == {h + d : h \in used}
            x == FirstFree(start, used)
<1>1. IsFiniteSet(V)
  <2>1. [h \in used |-> h + d] \in Surjection(used, V)
    BY DEF Surjection
  <2>. QED  BY <2>1, FS_Surjection
<1>2. V \in SUBSET Nat
  OBVIOUS
<1>3. x \in start .. start + Cardinality(used) /\ x \notin used
      /\ \A q \in start .. x - 1 : q \in used
  BY FirstFreeProperties
<1>4. x \in Nat /\ x >= start
  BY <1>3, FS_CardinalityType
<1>. HIDE DEF x
<1>5. x + d \in Nat /\ start + d \in Nat /\ x + d >= start + d
  BY <1>4
<1>6. x + d \notin V
  BY <1>3, <1>4
<1>7. ASSUME NEW q \in (start + d) .. (x + d) - 1 PROVE q \in V
  <2>1. q - d \in start .. x - 1
    BY <1>4
  <2>2. q - d \in used /\ q = (q - d) + d
    BY <1>3, <1>4, <2>1
  <2>. QED  BY <2>2
<1>8. FirstFree(start + d, V) = x + d
  <2>. HIDE DEF V
  <2>. QED  BY <1>1, <1>2, <1>5, <1>6, <1>7, FirstFreeUnique
<1>. QED  BY <1>1, <1>8 DEF x

-----------------------------------------------------------------------------
(* Any number of processes: type correctness and the range of the ports *)

\* The positional index of a known modem lies between 1 and N.
LEMMA IndexRange ==
  ASSUME TypeOK, NEW m \in known
  PROVE  ModemIndex(m) \in 1 .. N /\ N \in Nat
<1>. DEFINE S == {n \in known : n <= m}
<1>1. IsFiniteSet(known) /\ Cardinality(known) <= N /\ N \in Nat
  BY FS_Subset, FS_CardinalityType, ModemsAssumption DEF TypeOK, N
<1>2. IsFiniteSet(S) /\ Cardinality(S) <= Cardinality(known)
  BY <1>1, FS_Subset
<1>3. m \in Nat /\ m \in S
  BY ModemsAssumption DEF TypeOK
<1>4. Cardinality(S) \in Nat /\ Cardinality(S) # 0
  BY <1>2, <1>3, FS_CardinalityType, FS_EmptySet
<1>5. Cardinality(known) \in Nat
  BY <1>1, FS_CardinalityType
<1>. QED  BY <1>1, <1>2, <1>4, <1>5 DEF ModemIndex

\* The number of modems is a natural number and the gap leaves room for twice
\* as many ports.
LEMMA Bases ==
  /\ N \in Nat /\ HttpBase \in Nat /\ HttpBase > 0 /\ SocksBase \in Nat
  /\ Gap \in Nat /\ Gap >= 2 * N /\ SocksBase = HttpBase + Gap
BY ModemsAssumption, BasesAssumption, FS_CardinalityType DEF N, Gap

\* The port picked after a complete scan is in range, free of the collected
\* ports, and its SOCKS twin is in step with it.
LEMMA PickedRow ==
  ASSUME TypeOK, RangeInv, NEW p \in Procs, pc[p] = "scan", todo[p] = {}
  PROVE  LET idx == ModemIndex(target[p])
             h == FirstFree(HttpBase + idx, usedHttp[p])
             s == FirstFree(SocksBase + idx, usedSocks[p])
         IN  /\ h \in HttpBase + 1 .. HttpBase + 2 * N - 1
             /\ s = h + Gap
             /\ h \notin usedHttp[p]
<1>. DEFINE idx == ModemIndex(target[p])
            U == usedHttp[p]
            h == FirstFree(HttpBase + idx, U)
            s == FirstFree(SocksBase + idx, usedSocks[p])
<1>1. GoodScan(p) /\ U \in SUBSET Nat /\ IsFiniteSet(U) /\ Cardinality(U) \in Nat
  BY FS_CardinalityType DEF RangeInv, GoodScan, TypeOK
<1>2. Cardinality(U) <= N - 1
  <2>1. Cardinality(U) + Cardinality(todo[p]) <= N - 1
    BY <1>1 DEF GoodScan
  <2>2. Cardinality(todo[p]) = 0
    BY FS_EmptySet
  <2>. QED  BY <1>1, <2>1, <2>2, Bases
<1>3. idx \in 1 .. N
  BY <1>1, IndexRange DEF GoodScan
<1>4. /\ h \in HttpBase + idx .. HttpBase + idx + Cardinality(U)
      /\ h \notin U
  <2>1. HttpBase + idx \in Nat
    BY <1>3, Bases
  <2>. QED  BY <1>1, <2>1, FirstFreeProperties
<1>5. h \in HttpBase + 1 .. HttpBase + 2 * N - 1
  <2>. HIDE DEF h, idx
  <2>. QED  BY <1>1, <1>2, <1>3, <1>4, Bases
<1>6. s = h + Gap
  <2>1. usedSocks[p] = {x + Gap : x \in U}
    BY <1>1 DEF GoodScan
  <2>2. SocksBase + idx = (HttpBase + idx) + Gap /\ HttpBase + idx \in Nat
    BY <1>3, Bases
  <2>3. FirstFree((HttpBase + idx) + Gap, {x + Gap : x \in U}) = h + Gap
    BY <1>1, <2>2, Bases, FirstFreeShift
  <2>. QED  BY <2>1, <2>2, <2>3
<1>. QED  BY <1>4, <1>5, <1>6

\* Every variable keeps its type; the collected ports are never NULL.
LEMMA TypeStep == TypeOK /\ RangeInv /\ [Next]_vars => TypeOK'
<1>. SUFFICES ASSUME TypeOK, RangeInv, [Next]_vars PROVE TypeOK'
  OBVIOUS
<1>. USE DEF TypeOK, PortPair
<1>1. ASSUME NEW p \in Procs, NEW m \in Modems, GetExisting(p, m) PROVE TypeOK'
  BY <1>1 DEF GetExisting
<1>2. ASSUME NEW p \in Procs, ListModems(p) PROVE TypeOK'
  BY <1>2 DEF ListModems
<1>3. ASSUME NEW p \in Procs, NEW n \in Modems, ReadTaken(p, n) PROVE TypeOK'
  <2>1. ports[n].http \in Nat /\ ports[n].socks \in Nat
    OBVIOUS
  <2>. QED  BY <1>3, <2>1 DEF ReadTaken
<1>4. ASSUME NEW p \in Procs, PickPorts(p) PROVE TypeOK'
  <2>. DEFINE idx == ModemIndex(target[p])
              h == FirstFree(HttpBase + idx, usedHttp[p])
              s == FirstFree(SocksBase + idx, usedSocks[p])
              row == [http |-> IF pick[p].http = 0 THEN h ELSE pick[p].http,
                      socks |-> IF pick[p].socks = 0 THEN s ELSE pick[p].socks]
  <2>1. h \in Nat /\ s \in Nat
    <3>1. pc[p] = "scan" /\ todo[p] = {}
      BY <1>4 DEF PickPorts
    <3>2. h \in HttpBase + 1 .. HttpBase + 2 * N - 1 /\ s = h + Gap
      BY <3>1, PickedRow
    <3>. HIDE DEF h, s
    <3>. QED  BY <3>2, Bases
  <2>2. row \in PortPair
    <3>. HIDE DEF h, s
    <3>. QED  BY <2>1
  <2>3. /\ pick' = [pick EXCEPT ![p] = row]
        /\ pc' = [pc EXCEPT ![p] = "write"]
        /\ UNCHANGED <<known, ports, target, todo, usedHttp, usedSocks>>
    BY <1>4 DEF PickPorts
  <2>. HIDE DEF row
  <2>. QED  BY <2>2, <2>3
<1>5. ASSUME NEW p \in Procs, SetPort(p) PROVE TypeOK'
  <2>1. target[p] \in Modems \cup {NoModem} /\ pick[p] \in PortPair
    OBVIOUS
  <2>. QED  BY <1>5, <2>1 DEF SetPort, NoPorts
<1>6. ASSUME NEW p \in Procs, NEW m \in Modems, PurgePort(p, m) PROVE TypeOK'
  BY <1>6 DEF PurgePort, NoPorts
<1>7. ASSUME NEW p \in Procs, NEW m \in Modems, Discover(p, m) PROVE TypeOK'
  BY <1>7 DEF Discover
<1>8. CASE UNCHANGED vars
  BY <1>8 DEF vars
<1>. QED  BY <1>1, <1>2, <1>3, <1>4, <1>5, <1>6, <1>7, <1>8 DEF Next, Step

\* The scan bookkeeping of a process that reads one more row: the sets stay in
\* step and the count of collected plus pending modems does not grow.
LEMMA ReadTakenScan ==
  ASSUME TypeOK, RangeInv, NEW p \in Procs, NEW n \in Modems, ReadTaken(p, n)
  PROVE  GoodScan(p)'
<1>. DEFINE H == {ports[n].http} \ {0}
            S == {ports[n].socks} \ {0}
            U == usedHttp[p]
            W == U \cup H
<1>1. GoodScan(p) /\ pc[p] = "scan" /\ n \in todo[p]
  BY DEF RangeInv, ReadTaken
<1>2. /\ usedHttp'[p] = U \cup H
      /\ usedSocks'[p] = usedSocks[p] \cup S
      /\ todo'[p] = todo[p] \ {n}
      /\ pc'[p] = pc[p] /\ target'[p] = target[p] /\ known' = known
  BY DEF ReadTaken, TypeOK
<1>3. S = {h + Gap : h \in H}
  <2>1. GoodRow(ports[n])
    BY DEF RangeInv
  <2>2. CASE ports[n] = NoPorts
    BY <2>2 DEF NoPorts
  <2>3. CASE /\ ports[n].http \in HttpBase + 1 .. HttpBase + 2 * N - 1
             /\ ports[n].socks = ports[n].http + Gap
    <3>1. ports[n].http # 0 /\ ports[n].socks # 0
      BY <2>3, Bases
    <3>. QED  BY <2>3, <3>1
  <2>. QED  BY <2>1, <2>2, <2>3 DEF GoodRow
<1>4. usedSocks'[p] = {h + Gap : h \in usedHttp'[p]}
  <2>. HIDE DEF H, S
  <2>1. usedSocks[p] = {h + Gap : h \in U}
    BY <1>1 DEF GoodScan
  <2>. QED  BY <1>2, <1>3, <2>1
<1>5. IsFiniteSet(W) /\ Cardinality(W) <= Cardinality(U) + 1
      /\ Cardinality(U) \in Nat /\ Cardinality(W) \in Nat
  <2>1. IsFiniteSet(U)
    BY <1>1 DEF GoodScan
  <2>2. Cardinality(U) \in Nat
    BY <2>1, FS_CardinalityType
  <2>3. CASE W = U
    <3>. HIDE DEF U, W
    <3>. QED  BY <2>1, <2>2, <2>3, Z3
  <2>4. CASE W # U
    <3>. DEFINE X == U \cup {ports[n].http}
    <3>1. W = X
      BY <2>4
    <3>2. IsFiniteSet(X) /\ Cardinality(X) \in {Cardinality(U), Cardinality(U) + 1}
      BY <2>1, FS_AddElement
    <3>. HIDE DEF U, W, X
    <3>. QED  BY <2>2, <3>1, <3>2, Z3
  <2>. QED  BY <2>3, <2>4
<1>6. /\ Cardinality(todo[p] \ {n}) = Cardinality(todo[p]) - 1
      /\ Cardinality(todo[p]) \in Nat
  <2>1. IsFiniteSet(todo[p])
    BY FS_Subset, ModemsAssumption DEF TypeOK
  <2>. QED  BY <1>1, <2>1, FS_RemoveElement, FS_CardinalityType
<1>7. Cardinality(usedHttp'[p]) + Cardinality(todo'[p]) <= N - 1
  <2>1. Cardinality(U) + Cardinality(todo[p]) <= N - 1
    BY <1>1 DEF GoodScan
  <2>. HIDE DEF U, H
  <2>. QED  BY <1>2, <1>5, <1>6, <2>1, Bases
<1>. QED  BY <1>1, <1>2, <1>4, <1>5, <1>7 DEF GoodScan

\* Every step keeps rows, picks and scans in range and in step.
LEMMA RangeStep == TypeOK /\ RangeInv /\ [Next]_vars => RangeInv'
<1>. SUFFICES ASSUME TypeOK, RangeInv, [Next]_vars PROVE RangeInv'
  OBVIOUS
<1>. DEFINE Others(p) == \A q \in Procs \ {p} : GoodRow(pick[q])' /\ GoodScan(q)'
<1>1. ASSUME NEW p \in Procs, NEW m \in Modems, GetExisting(p, m) PROVE RangeInv'
  <2>1. Others(p)
    BY <1>1 DEF GetExisting, RangeInv, GoodScan, TypeOK
  <2>2. GoodRow(pick[p])' /\ \A n \in Modems : GoodRow(ports[n])'
    BY <1>1 DEF GetExisting, RangeInv, GoodRow, TypeOK
  <2>3. GoodScan(p)'
    BY <1>1 DEF GetExisting, RangeInv, GoodScan, TypeOK
  <2>. QED  BY <2>1, <2>2, <2>3 DEF RangeInv
<1>2. ASSUME NEW p \in Procs, ListModems(p) PROVE RangeInv'
  <2>1. Others(p)
    BY <1>2 DEF ListModems, RangeInv, GoodScan, TypeOK
  <2>2. GoodRow(pick[p])' /\ \A n \in Modems : GoodRow(ports[n])'
    BY <1>2 DEF ListModems, RangeInv
  <2>3. GoodScan(p)'
    <3>1. GoodScan(p) /\ usedHttp[p] = {} /\ target[p] \in known
      BY <1>2 DEF ListModems, RangeInv, GoodScan
    <3>2. /\ todo'[p] = known \ {target[p]} /\ pc'[p] = "scan"
          /\ UNCHANGED <<known, target, usedHttp, usedSocks>>
      BY <1>2 DEF ListModems, TypeOK
    <3>3. Cardinality(known \ {target[p]}) <= N - 1
      <4>1. IsFiniteSet(known) /\ Cardinality(known) <= N
        BY FS_Subset, ModemsAssumption DEF TypeOK, N
      <4>2. Cardinality(known \ {target[p]}) = Cardinality(known) - 1
        BY <3>1, <4>1, FS_RemoveElement
      <4>3. Cardinality(known) \in Nat
        BY <4>1, FS_CardinalityType
      <4>. QED  BY <4>1, <4>2, <4>3, Bases
    <3>4. Cardinality(known \ {target[p]}) \in Nat /\ Cardinality({}) = 0
      <4>1. IsFiniteSet(known \ {target[p]})
        BY FS_Subset, ModemsAssumption DEF TypeOK
      <4>. QED  BY <4>1, FS_CardinalityType, FS_EmptySet
    <3>5. known \ {target[p]} \subseteq Modems \ {target[p]}
      BY DEF TypeOK
    <3>6. Cardinality(usedHttp'[p]) + Cardinality(todo'[p]) <= N - 1
      <4>. DEFINE K == known \ {target[p]}
      <4>1. todo'[p] = K /\ usedHttp'[p] = {}
        BY <3>1, <3>2
      <4>2. Cardinality(K) <= N - 1 /\ Cardinality(K) \in Nat /\ Cardinality({}) = 0
        BY <3>3, <3>4
      <4>3. Cardinality(todo'[p]) = Cardinality(K)
        BY <4>1
      <4>4. Cardinality(usedHttp'[p]) = 0
        BY <4>1, <4>2
      <4>. HIDE DEF K
      <4>. QED  BY <4>2, <4>3, <4>4, Bases
    <3>. QED  BY <3>1, <3>2, <3>5, <3>6 DEF GoodScan
  <2>. QED  BY <2>1, <2>2, <2>3 DEF RangeInv
<1>3. ASSUME NEW p \in Procs, NEW n \in Modems, ReadTaken(p, n) PROVE RangeInv'
  <2>1. Others(p)
    BY <1>3 DEF ReadTaken, RangeInv, GoodScan, TypeOK
  <2>2. GoodRow(pick[p])' /\ \A m \in Modems : GoodRow(ports[m])'
    BY <1>3 DEF ReadTaken, RangeInv
  <2>3. GoodScan(p)'
    BY <1>3, ReadTakenScan
  <2>. QED  BY <2>1, <2>2, <2>3 DEF RangeInv
<1>4. ASSUME NEW p \in Procs, PickPorts(p) PROVE RangeInv'
  <2>. DEFINE idx == ModemIndex(target[p])
              h == FirstFree(HttpBase + idx, usedHttp[p])
              s == FirstFree(SocksBase + idx, usedSocks[p])
              row == [http |-> IF pick[p].http = 0 THEN h ELSE pick[p].http,
                      socks |-> IF pick[p].socks = 0 THEN s ELSE pick[p].socks]
  <2>1. pc[p] = "scan" /\ todo[p] = {}
    BY <1>4 DEF PickPorts
  <2>2. h \in HttpBase + 1 .. HttpBase + 2 * N - 1 /\ s = h + Gap
    BY <2>1, PickedRow
  <2>3. /\ pick' = [pick EXCEPT ![p] = row]
        /\ pc' = [pc EXCEPT ![p] = "write"]
        /\ UNCHANGED <<known, ports, target, todo, usedHttp, usedSocks>>
    BY <1>4 DEF PickPorts
  <2>4. GoodRow(row)
    <3>. HIDE DEF h, s
    <3>1. GoodRow(pick[p])
      BY DEF RangeInv
    <3>2. CASE pick[p] = NoPorts
      BY <2>2, <3>2 DEF GoodRow, NoPorts
    <3>3. CASE /\ pick[p].http \in HttpBase + 1 .. HttpBase + 2 * N - 1
               /\ pick[p].socks = pick[p].http + Gap
      <4>1. pick[p].http # 0 /\ pick[p].socks # 0
        BY <3>3, Bases
      <4>. QED  BY <3>3, <4>1 DEF GoodRow
    <3>. QED  BY <3>1, <3>2, <3>3 DEF GoodRow
  <2>. HIDE DEF row
  <2>5. Others(p)
    BY <2>3 DEF RangeInv, GoodScan, TypeOK
  <2>6. pick'[p] = row
    BY <2>3 DEF TypeOK
  <2>7. GoodScan(p)'
    BY <2>1, <2>3 DEF RangeInv, GoodScan, TypeOK
  <2>. QED  BY <2>3, <2>4, <2>5, <2>6, <2>7 DEF RangeInv
<1>5. ASSUME NEW p \in Procs, SetPort(p) PROVE RangeInv'
  <2>1. Others(p)
    BY <1>5 DEF SetPort, RangeInv, GoodScan, TypeOK
  <2>2. \A n \in Modems : GoodRow(ports[n])'
    BY <1>5 DEF SetPort, RangeInv, TypeOK
  <2>3. GoodRow(pick[p])' /\ GoodScan(p)'
    <3>1. /\ pick'[p] = NoPorts /\ usedHttp'[p] = {} /\ usedSocks'[p] = {}
          /\ pc'[p] = "idle"
      BY <1>5 DEF SetPort, TypeOK
    <3>. QED  BY <3>1, FS_EmptySet DEF GoodRow, GoodScan
  <2>. QED  BY <2>1, <2>2, <2>3 DEF RangeInv
<1>6. ASSUME NEW p \in Procs, NEW m \in Modems, PurgePort(p, m) PROVE RangeInv'
  <2>1. \A n \in Modems : GoodRow(ports[n])'
    BY <1>6 DEF PurgePort, RangeInv, GoodRow, TypeOK
  <2>. QED  BY <1>6, <2>1 DEF PurgePort, RangeInv, GoodScan
<1>7. ASSUME NEW p \in Procs, NEW m \in Modems, Discover(p, m) PROVE RangeInv'
  BY <1>7 DEF Discover, RangeInv, GoodScan
<1>8. CASE UNCHANGED vars
  BY <1>8 DEF vars, RangeInv, GoodScan
<1>. QED  BY <1>1, <1>2, <1>3, <1>4, <1>5, <1>6, <1>7, <1>8 DEF Next, Step

\* Initially nothing is allocated.
LEMMA InitRange == Init => TypeOK /\ RangeInv
BY FS_EmptySet DEF Init, TypeOK, RangeInv, GoodRow, GoodScan, PortPair, NoPorts

\* Whatever the interleaving of allocations, purges and discoveries, rows stay
\* well-typed, in step and in range.
THEOREM RangeInvariance == Spec => [](TypeOK /\ RangeInv)
<1>1. Init => TypeOK /\ RangeInv
  BY InitRange
<1>2. (TypeOK /\ RangeInv) /\ [Next]_vars => (TypeOK /\ RangeInv)'
  BY TypeStep, RangeStep
<1>. QED  BY <1>1, <1>2, PTL DEF Spec

\* With any number of concurrent processes the HTTP and SOCKS ports of a modem
\* are twins: the same offset from their bases.
THEOREM PortsInStepThm == Spec => []PortsInStep
<1>1. TypeOK /\ RangeInv => PortsInStep
  BY Bases DEF RangeInv, GoodRow, PortsInStep, TypeOK, PortPair
<1>. QED  BY <1>1, RangeInvariance, PTL

\* With any number of concurrent processes no modem gets the pool's ports, and
\* HTTP and SOCKS ports never meet.
THEOREM ListenersDisjointThm == Spec => []ListenersDisjoint
<1>1. TypeOK /\ RangeInv => ListenersDisjoint
  <2>. SUFFICES ASSUME TypeOK, RangeInv, NEW m \in Modems, NEW n \in Modems,
                       ports[m] # NoPorts
                PROVE  /\ ports[m].http \notin {HttpBase, SocksBase, ports[n].socks}
                       /\ ports[m].socks \notin {HttpBase, SocksBase, ports[n].http}
    BY DEF ListenersDisjoint
  <2>1. /\ ports[m].http \in HttpBase + 1 .. HttpBase + 2 * N - 1
        /\ ports[m].socks = ports[m].http + Gap
    BY DEF RangeInv, GoodRow
  <2>2. CASE ports[n] = NoPorts
    BY <2>1, <2>2, Bases DEF NoPorts
  <2>3. CASE /\ ports[n].http \in HttpBase + 1 .. HttpBase + 2 * N - 1
             /\ ports[n].socks = ports[n].http + Gap
    BY <2>1, <2>3, Bases
  <2>. QED  BY <2>2, <2>3 DEF RangeInv, GoodRow
<1>. QED  BY <1>1, RangeInvariance, PTL

-----------------------------------------------------------------------------
(* A single process: ports are distinct and stable *)

Serial == \A p, q \in Procs : p = q

\* Two good rows with different HTTP ports have different SOCKS ports.
LEMMA DistinctByHttp ==
  ASSUME TypeOK, RangeInv, NEW m \in Modems, NEW n \in Modems,
         ports[m] # NoPorts, ports[m].http # ports[n].http
  PROVE  ports[m].socks # ports[n].socks
<1>1. /\ ports[m].http \in HttpBase + 1 .. HttpBase + 2 * N - 1
      /\ ports[m].socks = ports[m].http + Gap
  BY DEF RangeInv, GoodRow
<1>2. CASE ports[n] = NoPorts
  BY <1>1, <1>2, Bases DEF NoPorts
<1>3. CASE /\ ports[n].http \in HttpBase + 1 .. HttpBase + 2 * N - 1
           /\ ports[n].socks = ports[n].http + Gap
  BY <1>1, <1>3, Bases
<1>. QED  BY <1>2, <1>3 DEF RangeInv, GoodRow

\* A good row has ports exactly when its HTTP port is not NULL.
LEMMA GoodRowPorts ==
  ASSUME NEW row, GoodRow(row)
  PROVE  /\ row = NoPorts <=> row.http = 0
         /\ HasPorts(row) <=> row # NoPorts
  BY Bases DEF GoodRow, NoPorts, HasPorts

\* The write of a sound scan keeps all ports distinct and does not move a port.
LEMMA SetPortSound ==
  ASSUME SerialInv, SerialInv', NEW p \in Procs, SetPort(p), NEW m \in Modems
  PROVE  ports[m] # NoPorts => ports'[m] \in {ports[m], NoPorts}
<1>1. ports' = [ports EXCEPT ![target[p]] = pick[p]] /\ pc[p] = "write"
  BY DEF SetPort
<1>2. CASE m = target[p]
  BY <1>1, <1>2 DEF SerialInv, ScanSound, TypeOK
<1>3. CASE m # target[p]
  BY <1>1, <1>3 DEF SerialInv, TypeOK
<1>. QED  BY <1>2, <1>3

\* What a single process knows stays true: the strengthening of DistinctPorts
\* is inductive.
LEMMA SerialStep ==
  ASSUME Serial, SerialInv, [Next]_vars
  PROVE  SerialInv'
<1>. USE DEF SerialInv
<1>1. TypeOK' /\ RangeInv'
  BY TypeStep, RangeStep
<1>. DEFINE Rest == /\ DistinctPorts'
                    /\ \A m \in Modems : ports'[m] # NoPorts => m \in known'
<1>. SUFFICES Rest /\ \A p \in Procs : ScanSound(p)'
  BY <1>1
<1>2. ASSUME NEW p \in Procs, NEW m \in Modems, GetExisting(p, m)
      PROVE  Rest /\ ScanSound(p)'
  <2>1. Rest
    BY <1>2 DEF GetExisting, DistinctPorts
  <2>2. /\ target'[p] = m /\ pick'[p] = ports[m] /\ ports' = ports
        /\ pc'[p] = IF HasPorts(ports[m]) THEN "write" ELSE "list"
    BY <1>2 DEF GetExisting, TypeOK
  <2>3. HasPorts(ports[m]) <=> ports[m] # NoPorts
    BY GoodRowPorts DEF RangeInv
  <2>4. ports[m] # NoPorts => \A n \in Modems \ {m} : ports[n].http # ports[m].http
    BY DEF DistinctPorts
  <2>. QED  BY <2>1, <2>2, <2>3, <2>4 DEF ScanSound
<1>3. ASSUME NEW p \in Procs, ListModems(p) PROVE Rest /\ ScanSound(p)'
  <2>1. Rest
    BY <1>3 DEF ListModems, DistinctPorts
  <2>2. /\ pc[p] = "list" /\ pc'[p] = "scan" /\ todo'[p] = known \ {target[p]}
        /\ UNCHANGED <<known, ports, target, pick, usedHttp>>
    BY <1>3 DEF ListModems, TypeOK
  <2>. QED  BY <2>1, <2>2 DEF ScanSound
<1>4. ASSUME NEW p \in Procs, NEW n \in Modems, ReadTaken(p, n)
      PROVE  Rest /\ ScanSound(p)'
  <2>1. Rest
    BY <1>4 DEF ReadTaken, DistinctPorts
  <2>2. /\ pc[p] = "scan" /\ pc'[p] = "scan" /\ todo'[p] = todo[p] \ {n}
        /\ usedHttp'[p] = usedHttp[p] \cup ({ports[n].http} \ {0})
        /\ UNCHANGED <<known, ports, target, pick>>
    BY <1>4 DEF ReadTaken, TypeOK
  <2>3. ports[n] # NoPorts => ports[n].http # 0
    BY GoodRowPorts DEF RangeInv
  <2>. QED  BY <2>1, <2>2, <2>3 DEF ScanSound
<1>5. ASSUME NEW p \in Procs, PickPorts(p) PROVE Rest /\ ScanSound(p)'
  <2>. DEFINE idx == ModemIndex(target[p])
              h == FirstFree(HttpBase + idx, usedHttp[p])
              s == FirstFree(SocksBase + idx, usedSocks[p])
              row == [http |-> IF pick[p].http = 0 THEN h ELSE pick[p].http,
                      socks |-> IF pick[p].socks = 0 THEN s ELSE pick[p].socks]
  <2>1. Rest
    BY <1>5 DEF PickPorts, DistinctPorts
  <2>2. /\ pc[p] = "scan" /\ todo[p] = {}
        /\ pick' = [pick EXCEPT ![p] = row]
        /\ pc' = [pc EXCEPT ![p] = "write"]
        /\ UNCHANGED <<known, ports, target, todo, usedHttp, usedSocks>>
    BY <1>5 DEF PickPorts
  <2>3. h \in HttpBase + 1 .. HttpBase + 2 * N - 1 /\ h \notin usedHttp[p]
    BY <2>2, PickedRow
  <2>. HIDE DEF h, s
  <2>4. pick[p] = NoPorts /\ ports[target[p]] = NoPorts
    BY <2>2 DEF ScanSound
  <2>5. pick'[p] = [http |-> h, socks |-> s]
    BY <2>2, <2>4 DEF TypeOK, NoPorts
  <2>6. pick'[p] # NoPorts /\ pick'[p].http # 0
    BY <2>3, <2>5, Bases DEF NoPorts
  <2>7. \A n \in Modems \ {target[p]} : ports[n].http # h
    <3>. SUFFICES ASSUME NEW n \in Modems \ {target[p]} PROVE ports[n].http # h
      OBVIOUS
    <3>1. CASE ports[n] = NoPorts
      BY <2>5, <2>6, <3>1 DEF NoPorts
    <3>2. CASE ports[n] # NoPorts
      BY <2>2, <2>3, <3>2 DEF ScanSound
    <3>. QED  BY <3>1, <3>2
  <2>8. pc'[p] = "write"
    BY <2>2 DEF TypeOK
  <2>. HIDE DEF row
  <2>. QED  BY <2>1, <2>2, <2>4, <2>5, <2>6, <2>7, <2>8 DEF ScanSound
<1>6. ASSUME NEW p \in Procs, SetPort(p) PROVE Rest /\ ScanSound(p)'
  <2>1. /\ pc[p] = "write" /\ target[p] \in known /\ known \subseteq Modems
        /\ ports' = [ports EXCEPT ![target[p]] = pick[p]]
        /\ pc'[p] = "idle" /\ known' = known
    BY <1>6 DEF SetPort, RangeInv, GoodScan, TypeOK
  <2>2. \A n \in Modems \ {target[p]} : ports[n].http # pick[p].http
    BY <2>1 DEF ScanSound
  <2>3. ASSUME NEW m \in Modems, NEW n \in Modems, m # n, ports'[m] # NoPorts
        PROVE  ports'[m].http # ports'[n].http
    <3>1. CASE m = target[p]
      BY <2>1, <2>2, <2>3, <3>1 DEF TypeOK
    <3>2. CASE n = target[p]
      BY <2>1, <2>2, <2>3, <3>2 DEF TypeOK
    <3>3. CASE m # target[p] /\ n # target[p]
      BY <2>1, <2>3, <3>3 DEF DistinctPorts, TypeOK
    <3>. QED  BY <3>1, <3>2, <3>3
  <2>4. ASSUME NEW m \in Modems, NEW n \in Modems, m # n, ports'[m] # NoPorts
        PROVE  ports'[m].socks # ports'[n].socks
    <3>1. ports'[m].http # ports'[n].http
      BY <2>3, <2>4
    <3>2. /\ ports'[m].http \in HttpBase + 1 .. HttpBase + 2 * N - 1
          /\ ports'[m].socks = ports'[m].http + Gap
      BY <1>1, <2>4 DEF RangeInv, GoodRow
    <3>3. CASE ports'[n] = NoPorts
      BY <3>2, <3>3, Bases DEF NoPorts
    <3>4. CASE /\ ports'[n].http \in HttpBase + 1 .. HttpBase + 2 * N - 1
               /\ ports'[n].socks = ports'[n].http + Gap
      BY <3>1, <3>2, <3>4, Bases
    <3>. QED  BY <1>1, <3>3, <3>4 DEF RangeInv, GoodRow
  <2>5. \A m \in Modems : ports'[m] # NoPorts => m \in known'
    BY <2>1 DEF TypeOK
  <2>. QED  BY <2>1, <2>3, <2>4, <2>5 DEF DistinctPorts, ScanSound
<1>7. ASSUME NEW p \in Procs, NEW m \in Modems, PurgePort(p, m)
      PROVE  Rest /\ ScanSound(p)'
  <2>1. /\ pc'[p] = "idle" /\ known' = known
        /\ \A n \in Modems : ports'[n] = IF n = m THEN NoPorts ELSE ports[n]
    BY <1>7 DEF PurgePort, TypeOK
  <2>2. \A n \in Modems : ports[n] # NoPorts =>
            ports[n].http # NoPorts.http /\ ports[n].socks # NoPorts.socks
    BY Bases DEF RangeInv, GoodRow, NoPorts
  <2>. QED  BY <2>1, <2>2 DEF DistinctPorts, ScanSound
<1>8. ASSUME NEW p \in Procs, NEW m \in Modems, Discover(p, m)
      PROVE  Rest /\ ScanSound(p)'
  BY <1>8 DEF Discover, DistinctPorts, ScanSound
<1>9. CASE UNCHANGED vars
  BY <1>9 DEF vars, DistinctPorts, ScanSound
<1>10. ASSUME NEW p \in Procs, Step(p) PROVE Rest /\ ScanSound(p)'
  BY <1>2, <1>3, <1>4, <1>5, <1>6, <1>7, <1>8, <1>10 DEF Step
<1>11. CASE Next
  BY <1>10, <1>11 DEF Next, Serial
<1>. QED  BY <1>9, <1>11

\* Initially no process knows anything and no port is taken.
LEMMA InitSerial == Init => SerialInv
BY InitRange DEF Init, SerialInv, DistinctPorts, ScanSound, NoPorts

\* With one process at a time (no allocation overlaps another allocation or a
\* purge) no two modems share a port, however many modems there are and in
\* whatever order they are discovered, allocated and purged.
THEOREM DistinctPortsThm == Serial => (Spec => []DistinctPorts)
<1>. SUFFICES ASSUME Serial PROVE Spec => []DistinctPorts
  OBVIOUS
<1>1. Init => SerialInv
  BY InitSerial
<1>2. SerialInv /\ [Next]_vars => SerialInv'
  BY SerialStep
<1>3. SerialInv => DistinctPorts
  BY DEF SerialInv
<1>. QED  BY <1>1, <1>2, <1>3, PTL DEF Spec

\* With one process at a time a proxy keeps its ports until it is purged.
THEOREM PortsStableThm == Serial => (Spec => PortsStable)
<1>. SUFFICES ASSUME Serial PROVE Spec => PortsStable
  OBVIOUS
<1>1. Init => SerialInv
  BY InitSerial
<1>2. SerialInv /\ [Next]_vars => SerialInv'
  BY SerialStep
<1>. DEFINE Stable == \A m \in Modems :
                         ports[m] # NoPorts => ports'[m] \in {ports[m], NoPorts}
<1>3. ASSUME SerialInv, SerialInv', Next PROVE Stable
  <2>1. ASSUME NEW p \in Procs, SetPort(p) PROVE Stable
    BY <1>3, <2>1, SetPortSound
  <2>2. ASSUME NEW p \in Procs, NEW m \in Modems, PurgePort(p, m) PROVE Stable
    BY <1>3, <2>2 DEF PurgePort, SerialInv, TypeOK
  <2>3. CASE UNCHANGED ports
    BY <2>3
  <2>. QED
    BY <1>3, <2>1, <2>2, <2>3
    DEF Next, Step, GetExisting, ListModems, ReadTaken, PickPorts, Discover
<1>4. SerialInv /\ SerialInv' /\ [Next]_vars => [Stable]_vars
  BY <1>3
<1>. HIDE DEF Stable
<1>5. Spec => [][Stable]_vars
  BY <1>1, <1>2, <1>4, PTL DEF Spec
<1>. QED  BY <1>5 DEF PortsStable, Stable

-----------------------------------------------------------------------------
(* Refinement of PortTable *)

\* The write of a sound scan is one Assign, or changes nothing.
LEMMA SetPortAssigns ==
  ASSUME SerialInv, SerialInv', NEW p \in Procs, SetPort(p)
  PROVE  (\E m \in Modems : Table!Assign(m)) \/ UNCHANGED <<known, ports>>
<1>. DEFINE m == target[p]
<1>1. /\ pc[p] = "write" /\ m \in known /\ m \in Modems /\ UNCHANGED known
      /\ ports' = [ports EXCEPT ![m] = pick[p]]
  BY DEF SetPort, SerialInv, RangeInv, GoodScan, TypeOK
<1>2. /\ pick[p] # NoPorts /\ GoodRow(pick[p])
      /\ ports[m] \in {NoPorts, pick[p]}
      /\ \A n \in Modems \ {m} : ports[n].http # pick[p].http /\ GoodRow(ports[n])
  BY <1>1 DEF SerialInv, ScanSound, RangeInv
<1>3. CASE ports[m] = pick[p]
  <2>1. ports' = ports
    BY <1>1, <1>3 DEF SerialInv, TypeOK
  <2>. QED  BY <1>1, <2>1
<1>4. CASE ports[m] = NoPorts
  <2>. DEFINE offset == pick[p].http - HttpBase
  <2>1. /\ pick[p].http \in HttpBase + 1 .. HttpBase + 2 * N - 1
        /\ pick[p].socks = pick[p].http + Gap
    BY <1>2 DEF GoodRow
  <2>2. /\ offset \in 1 .. 2 * N - 1
        /\ pick[p].http = HttpBase + offset
        /\ pick[p].socks = SocksBase + offset
    BY <2>1, Bases DEF Gap
  <2>3. pick[p] = [http |-> HttpBase + offset, socks |-> SocksBase + offset]
    BY <2>2 DEF SerialInv, TypeOK, PortPair
  <2>4. ASSUME NEW n \in Modems
        PROVE  /\ ports[n].http # HttpBase + offset
               /\ ports[n].socks # SocksBase + offset
    <3>1. CASE n = m
      BY <3>1, <1>4, <2>2, Bases DEF NoPorts
    <3>2. CASE n # m
      BY <3>2, <1>2, <2>2, Bases DEF GoodRow, NoPorts, Gap
    <3>. QED  BY <3>1, <3>2
  <2>5. ports' = [ports EXCEPT ![m] = [http |-> HttpBase + offset,
                                       socks |-> SocksBase + offset]]
    BY <1>1, <2>3
  <2>6. offset \in 1 .. 2 * N - 1 /\ ports[m] = Table!NoPorts
    BY <1>4, <2>2 DEF Table!NoPorts, NoPorts
  <2>. HIDE DEF offset
  <2>7. Table!Assign(m)
    BY <1>1, <2>4, <2>5, <2>6 DEF Table!Assign
  <2>. QED  BY <1>1, <2>7
<1>. QED  BY <1>2, <1>3, <1>4

\* Every step of the detailed allocation is a step of the table or a stutter.
LEMMA TableStep ==
  ASSUME SerialInv, SerialInv', [Next]_vars
  PROVE  [Table!Next]_<<known, ports>>
<1>1. ASSUME NEW p \in Procs, SetPort(p) PROVE [Table!Next]_<<known, ports>>
  BY <1>1, SetPortAssigns DEF Table!Next
<1>2. ASSUME NEW p \in Procs, NEW m \in Modems, PurgePort(p, m)
      PROVE  [Table!Next]_<<known, ports>>
  <2>1. Table!Release(m)
    BY <1>2 DEF PurgePort, Table!Release, Table!NoPorts, NoPorts
  <2>. QED  BY <2>1 DEF Table!Next
<1>3. ASSUME NEW p \in Procs, NEW m \in Modems, Discover(p, m)
      PROVE  [Table!Next]_<<known, ports>>
  <2>1. Table!Discover(m)
    BY <1>3 DEF Discover, Table!Discover
  <2>. QED  BY <2>1 DEF Table!Next
<1>4. CASE UNCHANGED <<known, ports>>
  BY <1>4
<1>. QED
  BY <1>1, <1>2, <1>3, <1>4
  DEF Next, Step, vars, GetExisting, ListModems, ReadTaken, PickPorts

\* With one process at a time, allocate_port with its separate reads and write
\* implements the atomic table, for any number of modems.
THEOREM ImplementsTableThm == Serial => (Spec => ImplementsTable)
<1>. SUFFICES ASSUME Serial PROVE Spec => ImplementsTable
  OBVIOUS
<1>1. Init => SerialInv /\ Table!Init
  BY InitSerial DEF Init, Table!Init, Table!NoPorts, NoPorts
<1>2. SerialInv /\ [Next]_vars => SerialInv'
  BY SerialStep
<1>3. SerialInv /\ SerialInv' /\ [Next]_vars => [Table!Next]_<<known, ports>>
  BY TableStep
<1>. QED  BY <1>1, <1>2, <1>3, PTL DEF Spec, ImplementsTable, Table!Spec

=============================================================================
