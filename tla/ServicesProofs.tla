--------------------------- MODULE ServicesProofs ---------------------------
(***************************************************************************)
(* Proofs about what customers rely on: the logins and the way in          *)
(* (Access), for any modems, workers, passwords and number of operations;  *)
(* the sticky keys (StickySession), for any clients and times; and what    *)
(* they are billed (Bandwidth), for any addresses, traffic and samples.    *)
(***************************************************************************)
EXTENDS MCServices, SequenceTheorems, WellFoundedInduction, TLAPS

-----------------------------------------------------------------------------
(* What the operations and the rows are *)

Operations ==
    [pc : Pcs, imei : Modems \cup {NoModem}, main : Secrets \cup {0},
     todo : SUBSET Modems, alone : BOOLEAN, owns : BOOLEAN]

PortRows ==
    [has : BOOLEAN, ports : BOOLEAN, enabled : BOOLEAN,
     main : Secrets \cup {0}, store : Secrets \cup {0}]

Logins == {"main", StoreName} \X Secrets

\* A row is of a port or it is blank.
Whole(r) == r \in PortRows /\ (r.has \/ r = NoRow)

\* An operation on one modem has the modem; an idle worker has nothing.
Fit(o) ==
    /\ o \in Operations
    /\ o.pc = "idle" => o = Idle
    /\ o.pc \in {"allocate", "setPort", "render", "restart", "stop", "unlink", "mint"}
          => o.imei \in Modems

TypesInv ==
    /\ row \in [Modems -> PortRows] /\ \A m \in Modems : Whole(row[m])
    /\ cfg \in [Modems -> SUBSET Logins] /\ proxy \in [Modems -> SUBSET Logins]
    /\ mode \in {"relay", "direct"}
    /\ frpcFile \subseteq Modems /\ frpc \subseteq Modems /\ opened \subseteq Modems
    /\ unsure \subseteq Modems
    /\ op \in [Workers -> Operations] /\ \A w \in Workers : Fit(op[w])
    /\ ops \in 0 .. MaxOps
    /\ stale \in BOOLEAN

LEMMA IdleFit ==
    Fit(Idle) /\ Idle.pc = "idle" /\ Idle.imei = NoModem /\ Idle.todo = {}
    /\ Idle.alone = FALSE /\ Idle.owns = FALSE /\ Idle.main = 0
BY DEF Idle, Fit, Operations, Pcs

LEMMA BlankRows ==
    /\ Whole(NoRow) /\ NoRow.has = FALSE /\ NoRow.enabled = FALSE /\ NoRow.ports = FALSE
    /\ Whole(BlankRow) /\ BlankRow.has = TRUE
BY DEF NoRow, BlankRow, Whole, PortRows

\* set_port leaves a row that is there.
LEMMA Upserted ==
    ASSUME TypesInv, NEW m \in Modems
    PROVE  Whole(Upsert(m)) /\ Upsert(m).has = TRUE
<1>1. Whole(row[m]) /\ row[m].has \in BOOLEAN
  BY DEF TypesInv, Whole, PortRows
<1>2. QED
  BY <1>1, BlankRows DEF Upsert

\* A new operation on one modem.
LEMMA AtModem ==
    ASSUME NEW m \in Modems, NEW pc \in Pcs \ {"idle", "entry", "sync", "reload", "allow"}
    PROVE  /\ Fit(At(pc, m)) /\ At(pc, m).pc = pc /\ At(pc, m).imei = m
           /\ At(pc, m).todo = {}
BY DEF At, Idle, Fit, Operations, Pcs

\* The operations o and n are at the same point, about the same modems.
Same(o, n) == o.pc = n.pc /\ o.imei = n.imei /\ o.main = n.main /\ o.todo = n.todo

LEMMA SameFit ==
    ASSUME NEW o \in Operations, NEW n, Fit(n), Same(o, n), n.pc # "idle"
    PROVE  Fit(o)
BY DEF Fit, Same

LEMMA IdleTouched ==
    ASSUME NEW o, Fit(o), o.pc = "idle"
    PROVE  o = Idle /\ Touched(o) = {}
BY IdleFit DEF Fit, Touched

\* What the start of an operation does to all the operations.
LEMMA Started ==
    ASSUME TypesInv, NEW w \in Workers, NEW ms \in SUBSET Modems, NEW new, Fit(new),
           Start(w, ms, new)
    PROVE  /\ op[w] = Idle
           /\ op' \in [Workers -> Operations] /\ \A v \in Workers : Fit(op'[v])
           /\ Same(op'[w], new)
           /\ \A v \in Workers \ {w} : Same(op'[v], op[v])
           /\ ops' \in 0 .. MaxOps
<1> DEFINE others == {v \in Workers : op[v].pc # "idle"}
           shared == {v \in others : Touched(op[v]) \cap ms # {}}
           born == IF new.pc = "idle" THEN Idle
                   ELSE [new EXCEPT !.alone = others = {}, !.owns = shared = {}]
           other(v) == [op[v] EXCEPT !.alone = FALSE, !.owns = @ /\ v \notin shared]
<1>1. /\ op \in [Workers -> Operations] /\ \A v \in Workers : Fit(op[v])
      /\ ops \in 0 .. MaxOps
  BY DEF TypesInv
<1>2. /\ op[w].pc = "idle" /\ ops < MaxOps /\ ops' = ops + 1
      /\ op' = [v \in Workers |-> IF v = w THEN born
                                  ELSE IF v \in others THEN other(v) ELSE op[v]]
  BY DEF Start
<1>3. born \in Operations /\ Same(born, new) /\ Fit(born)
  <2>1. CASE new.pc = "idle"
    BY <2>1, IdleFit, IdleTouched DEF Same, Fit
  <2>2. CASE new.pc # "idle"
    <3>1. new \in Operations
      BY DEF Fit
    <3>2. \A a, b \in BOOLEAN : LET n == [new EXCEPT !.alone = a, !.owns = b]
                                IN  n \in Operations /\ Same(n, new)
      BY <3>1 DEF Operations, Same
    <3>3. (others = {}) \in BOOLEAN /\ (shared = {}) \in BOOLEAN
      OBVIOUS
    <3> HIDE DEF others, shared
    <3>4. born \in Operations /\ Same(born, new)
      BY <2>2, <3>2, <3>3
    <3>5. QED
      BY <2>2, <3>4, SameFit
  <2>3. QED
    BY <2>1, <2>2
<1>4. ASSUME NEW v \in others
      PROVE  other(v) \in Operations /\ Same(other(v), op[v]) /\ Fit(other(v))
  <2>1. op[v] \in Operations /\ op[v].owns \in BOOLEAN /\ op[v].pc # "idle" /\ Fit(op[v])
    BY <1>1 DEF Operations
  <2>2. \A b \in BOOLEAN : LET n == [op[v] EXCEPT !.alone = FALSE, !.owns = b]
                           IN  n \in Operations /\ Same(n, op[v])
    BY <2>1 DEF Operations, Same
  <2>3. other(v) = [op[v] EXCEPT !.alone = FALSE, !.owns = op[v].owns /\ v \notin shared]
    BY <2>1 DEF Operations
  <2>4. (op[v].owns /\ v \notin shared) \in BOOLEAN
    OBVIOUS
  <2> HIDE DEF shared, other, others
  <2>5. other(v) \in Operations /\ Same(other(v), op[v])
    BY <2>2, <2>3, <2>4
  <2>6. QED
    BY <2>1, <2>5, SameFit
<1> HIDE DEF born, other
<1>5. op[w] = Idle /\ ops' \in 0 .. MaxOps
  BY <1>1, <1>2, IdleTouched, MaxOpsAssumption
<1>6. op'[w] = born /\ op' \in [Workers -> Operations]
  BY <1>1, <1>2, <1>3, <1>4
<1>7. ASSUME NEW v \in Workers \ {w}
      PROVE  Same(op'[v], op[v]) /\ Fit(op'[v])
  BY <1>1, <1>2, <1>4 DEF Same
<1>8. QED
  BY <1>3, <1>5, <1>6, <1>7

\* Who is alone after it, and who shares a modem.
LEMMA StartedFlags ==
    ASSUME TypesInv, NEW w \in Workers, NEW ms \in SUBSET Modems, NEW new, Fit(new),
           Start(w, ms, new)
    PROVE  /\ op'[w].alone => \A v \in Workers \ {w} : op[v].pc = "idle"
           /\ new.pc # "idle" /\ (\A v \in Workers \ {w} : op[v].pc = "idle") => op'[w].alone
           /\ \A v \in Workers \ {w} : ~op'[v].alone
           /\ ~stale' => ~stale /\ \A v \in Workers \ {w} : op[v].pc = "idle"
           /\ stale' \in BOOLEAN
           /\ op'[w].owns => \A v \in Workers \ {w} : Touched(op[v]) \cap ms = {}
           /\ \A v \in Workers \ {w} : op'[v].owns => op[v].owns /\ Touched(op[v]) \cap ms = {}
           /\ unsure \subseteq unsure' /\ unsure' \subseteq unsure \cup ms
           /\ new.pc = "idle" => ms \subseteq unsure'
           /\ \A v \in Workers \ {w} : ms \cap Touched(op[v]) \subseteq unsure'
<1> DEFINE others == {v \in Workers : op[v].pc # "idle"}
           shared == {v \in others : Touched(op[v]) \cap ms # {}}
           born == IF new.pc = "idle" THEN Idle
                   ELSE [new EXCEPT !.alone = others = {}, !.owns = shared = {}]
           other(v) == [op[v] EXCEPT !.alone = FALSE, !.owns = @ /\ v \notin shared]
<1>1. /\ op \in [Workers -> Operations] /\ \A v \in Workers : Fit(op[v])
  BY DEF TypesInv
<1>2. /\ op[w].pc = "idle"
      /\ op' = [v \in Workers |-> IF v = w THEN born
                                  ELSE IF v \in others THEN other(v) ELSE op[v]]
      /\ stale' = (stale \/ others # {})
      /\ unsure' = unsure \cup (ms \cap UNION {Touched(op[v]) : v \in others})
                          \cup (IF new.pc = "idle" THEN ms ELSE {})
  BY DEF Start
<1>3. \A v \in Workers : v \notin others => op[v] = Idle /\ Touched(op[v]) = {}
  BY <1>1, IdleTouched
<1>4. /\ w \notin others /\ others \subseteq Workers
      /\ others = {} <=> \A v \in Workers \ {w} : op[v].pc = "idle"
      /\ shared = {} <=> \A v \in Workers \ {w} : Touched(op[v]) \cap ms = {}
  BY <1>2, <1>3
<1>5. op'[w] = born
  BY <1>2
<1>6. /\ born.alone => others = {}
      /\ new.pc # "idle" /\ others = {} => born.alone
      /\ born.owns => shared = {}
  <2>1. CASE new.pc = "idle"
    BY <2>1, IdleFit
  <2>2. CASE new.pc # "idle"
    <3>1. new \in Operations
      BY DEF Fit
    <3>2. \A a, b \in BOOLEAN : LET n == [new EXCEPT !.alone = a, !.owns = b]
                                IN  n.alone = a /\ n.owns = b
      BY <3>1 DEF Operations
    <3>3. (others = {}) \in BOOLEAN /\ (shared = {}) \in BOOLEAN
      OBVIOUS
    <3>4. born = [new EXCEPT !.alone = others = {}, !.owns = shared = {}]
      BY <2>2
    <3> HIDE DEF others, shared, born
    <3>5. born.alone = (others = {}) /\ born.owns = (shared = {})
      BY <3>2, <3>3, <3>4
    <3>6. QED
      BY <3>5
  <2>3. QED
    BY <2>1, <2>2
<1>7. ASSUME NEW v \in Workers \ {w}
      PROVE  /\ ~op'[v].alone
             /\ op'[v].owns => op[v].owns /\ Touched(op[v]) \cap ms = {}
  <2>1. CASE v \notin others
    BY <1>2, <1>3, <2>1, IdleFit
  <2>2. CASE v \in others
    <3>1. op[v] \in Operations /\ op[v].owns \in BOOLEAN
      BY <1>1 DEF Operations
    <3>2. \A b \in BOOLEAN : LET n == [op[v] EXCEPT !.alone = FALSE, !.owns = b]
                             IN  n.alone = FALSE /\ n.owns = b
      BY <3>1 DEF Operations
    <3>3. other(v) = [op[v] EXCEPT !.alone = FALSE, !.owns = op[v].owns /\ v \notin shared]
      BY <3>1 DEF Operations
    <3>4. (op[v].owns /\ v \notin shared) \in BOOLEAN
      OBVIOUS
    <3>5. op'[v] = other(v)
      BY <1>2, <2>2
    <3> HIDE DEF other, shared, others
    <3>6. op'[v].alone = FALSE /\ op'[v].owns = (op[v].owns /\ v \notin shared)
      BY <3>2, <3>3, <3>4, <3>5
    <3>7. op'[v].owns => op[v].owns /\ v \notin shared
      BY <3>6
    <3>8. v \notin shared => Touched(op[v]) \cap ms = {}
      BY <2>2 DEF shared
    <3>9. QED
      BY <3>6, <3>7, <3>8
  <2>3. QED
    BY <2>1, <2>2
<1> HIDE DEF born, other
<1>8. (~stale' => ~stale /\ others = {}) /\ stale' \in BOOLEAN
  BY <1>2
<1>9. unsure \subseteq unsure' /\ unsure' \subseteq unsure \cup ms /\ (new.pc = "idle" => ms \subseteq unsure')
  BY <1>2
<1>10. ASSUME NEW v \in Workers \ {w}
       PROVE  ms \cap Touched(op[v]) \subseteq unsure'
  <2>1. CASE v \notin others
    BY <1>3, <2>1
  <2>2. CASE v \in others
    BY <1>2, <2>2
  <2>3. QED
    BY <2>1, <2>2
<1> HIDE DEF others, shared
<1>11. QED
  BY <1>4, <1>5, <1>6, <1>7, <1>8, <1>9, <1>10

-----------------------------------------------------------------------------
(* How an operation goes on *)

\* w's operation becomes o, which is about no other modems; the others stay.
GoesOn(w, o) ==
    /\ op[w].pc # "idle"
    /\ op' \in [Workers -> Operations] /\ \A v \in Workers : Fit(op'[v])
    /\ op'[w] = o
    /\ \A v \in Workers \ {w} : op'[v] = op[v]
    /\ Touched(o) \subseteq Touched(op[w])
    /\ o = Idle \/ (o.alone = op[w].alone /\ o.owns = op[w].owns)

LEMMA Replaced ==
    ASSUME TypesInv, NEW w \in Workers, NEW o, Fit(o), op' = [op EXCEPT ![w] = o],
           op[w].pc # "idle", Touched(o) \subseteq Touched(op[w]),
           o = Idle \/ (o.alone = op[w].alone /\ o.owns = op[w].owns)
    PROVE  GoesOn(w, o) /\ op[w] \in Operations /\ Fit(op[w])
<1>1. op \in [Workers -> Operations] /\ \A v \in Workers : Fit(op[v])
  BY DEF TypesInv
<1>2. o \in Operations
  BY DEF Fit
<1>3. op' \in [Workers -> Operations] /\ op'[w] = o /\ \A v \in Workers \ {w} : op'[v] = op[v]
  BY <1>1, <1>2
<1>4. QED
  BY <1>1, <1>3 DEF GoesOn

\* Its next step is at pc.
LEMMA Went ==
    ASSUME TypesInv, NEW w \in Workers, NEW pc \in Pcs \ {"idle"}, Goto(w, pc),
           op[w].pc # "idle",
           op[w].imei \in Modems \/ pc \in {"sync", "reload", "allow", "entry"}
    PROVE  /\ GoesOn(w, op'[w])
           /\ op'[w].pc = pc /\ op'[w].imei = op[w].imei /\ op'[w].main = op[w].main
           /\ op'[w].todo = op[w].todo
           /\ op'[w].alone = op[w].alone /\ op'[w].owns = op[w].owns
<1> DEFINE c == op[w]
           o == [c EXCEPT !.pc = pc]
<1>1. c \in Operations /\ op \in [Workers -> Operations]
  BY DEF TypesInv
<1>2. /\ o \in Operations /\ o.pc = pc /\ o.imei = c.imei /\ o.main = c.main
      /\ o.todo = c.todo /\ o.alone = c.alone /\ o.owns = c.owns
  BY <1>1 DEF Operations
<1>3. op' = [op EXCEPT ![w] = o]
  BY <1>1 DEF Goto
<1> HIDE DEF o
<1>4. Fit(o) /\ Touched(o) = Touched(c)
  BY <1>2 DEF Fit, Touched
<1>5. GoesOn(w, o)
  BY <1>2, <1>3, <1>4, Replaced
<1>6. op'[w] = o
  BY <1>5 DEF GoesOn
<1>7. QED
  BY <1>2, <1>5, <1>6

\* The operation is over.
LEMMA Ended ==
    ASSUME TypesInv, NEW w \in Workers, op' = [op EXCEPT ![w] = Idle], op[w].pc # "idle"
    PROVE  GoesOn(w, Idle)
BY IdleFit, IdleTouched, Replaced

\* It is over, or the next entry of a list follows.
LEMMA Finished ==
    ASSUME TypesInv, NEW w \in Workers, Done(w), op[w].pc # "idle"
    PROVE  /\ GoesOn(w, op'[w])
           /\ op'[w] = Idle \/ (op'[w].pc = "entry" /\ op'[w].imei = NoModem)
<1> DEFINE c == op[w]
           o == [c EXCEPT !.pc = "entry", !.imei = NoModem]
<1>1. c \in Operations /\ op \in [Workers -> Operations]
  BY DEF TypesInv
<1>2. op' = [op EXCEPT ![w] = IF c.todo = {} THEN Idle ELSE o]
  BY <1>1 DEF Done
<1>3. CASE c.todo = {}
  <2>1. GoesOn(w, Idle)
    BY <1>2, <1>3, Ended
  <2>2. op'[w] = Idle
    BY <2>1 DEF GoesOn
  <2>3. QED
    BY <2>1, <2>2
<1>4. CASE c.todo # {}
  <2>1. /\ o \in Operations /\ o.pc = "entry" /\ o.imei = NoModem
        /\ o.todo = c.todo /\ o.alone = c.alone /\ o.owns = c.owns
    BY <1>1 DEF Operations, Pcs
  <2>2. op' = [op EXCEPT ![w] = o]
    BY <1>2, <1>4
  <2> HIDE DEF o
  <2>3. Fit(o) /\ Touched(o) \subseteq Touched(c)
    BY <2>1 DEF Fit, Touched
  <2>4. GoesOn(w, o)
    BY <2>1, <2>2, <2>3, Replaced
  <2>5. op'[w] = o
    BY <2>4 DEF GoesOn
  <2>6. QED
    BY <2>1, <2>4, <2>5
<1>5. QED
  BY <1>3, <1>4

\* An entry of a list is made, or a login has to be.
LEMMA Entered ==
    ASSUME TypesInv, NEW w \in Workers, NEW m \in Modems, Entry(w, m)
    PROVE  /\ op[w].pc = "entry"
           /\ GoesOn(w, op'[w])
           /\ \/ op'[w] = Idle
              \/ op'[w].pc = "entry"
              \/ op'[w].pc = "mint" /\ op'[w].imei = m
<1> DEFINE c == op[w]
           rest == c.todo \ {m}
           mint == [c EXCEPT !.pc = "mint", !.imei = m, !.todo = rest]
           next == [c EXCEPT !.todo = rest]
<1>1. c \in Operations /\ op \in [Workers -> Operations]
  BY DEF TypesInv
<1>2. /\ c.pc = "entry" /\ m \in c.todo /\ c.todo \subseteq Modems
      /\ \/ op' = [op EXCEPT ![w] = Idle]
         \/ op' = [op EXCEPT ![w] = mint]
         \/ op' = [op EXCEPT ![w] = next]
  BY <1>1 DEF Entry, Operations
<1>3. CASE op' = [op EXCEPT ![w] = Idle]
  <2>1. GoesOn(w, Idle)
    BY <1>2, <1>3, Ended
  <2>2. op'[w] = Idle
    BY <2>1 DEF GoesOn
  <2>3. QED
    BY <1>2, <2>1, <2>2
<1>4. CASE op' = [op EXCEPT ![w] = mint]
  <2>1. /\ mint \in Operations /\ mint.pc = "mint" /\ mint.imei = m /\ mint.todo = rest
        /\ mint.alone = c.alone /\ mint.owns = c.owns
    BY <1>1, <1>2 DEF Operations, Pcs
  <2> HIDE DEF mint
  <2>2. Fit(mint) /\ Touched(mint) \subseteq Touched(c)
    BY <1>2, <2>1, NoModemAssumption DEF Fit, Touched
  <2>3. GoesOn(w, mint)
    BY <1>2, <1>4, <2>1, <2>2, Replaced
  <2>4. op'[w] = mint
    BY <2>3 DEF GoesOn
  <2>5. QED
    BY <1>2, <2>1, <2>3, <2>4
<1>5. CASE op' = [op EXCEPT ![w] = next]
  <2>1. /\ next \in Operations /\ next.pc = "entry" /\ next.imei = c.imei
        /\ next.todo = rest /\ next.alone = c.alone /\ next.owns = c.owns
    BY <1>1, <1>2 DEF Operations
  <2> HIDE DEF next
  <2>2. Fit(next) /\ Touched(next) \subseteq Touched(c)
    BY <2>1 DEF Fit, Touched
  <2>3. GoesOn(w, next)
    BY <1>2, <1>5, <2>1, <2>2, Replaced
  <2>4. op'[w] = next
    BY <2>3 DEF GoesOn
  <2>5. QED
    BY <1>2, <2>1, <2>3, <2>4
<1>6. QED
  BY <1>2, <1>3, <1>4, <1>5

-----------------------------------------------------------------------------
(* How an operation starts *)

LiveRow(r) == r.enabled /\ r.ports

\* w starts new, about the modems ms.  The row that it changes is of a modem that
\* new goes on with, from pc on, or of one that is in doubt then.
Begun(w, ms, new) ==
    /\ Fit(new) /\ Start(w, ms, new) /\ Touched(new) \subseteq ms
    /\ new.pc \in {"idle", "allocate", "stop", "unlink", "sync", "entry"}
    /\ row' \in [Modems -> PortRows] /\ \A m \in Modems : Whole(row'[m])
    /\ mode' \in {"relay", "direct"}
    /\ new.pc \in {"idle", "entry"} =>
          mode' = mode /\ \A m \in Modems : LiveRow(row'[m]) <=> LiveRow(row[m])
    /\ \A m \in Modems :
          \/ row'[m] = row[m]
          \/ m \in ms /\ new.pc = "idle"
          \/ m = new.imei /\ new.pc \in {"allocate", "stop", "unlink"}
    /\ new.pc \in {"stop", "unlink"} => ~LiveRow(row'[new.imei])
    /\ UnchangedFiles

\* One row is replaced.
LEMMA RowReplaced ==
    ASSUME TypesInv, NEW m \in Modems, NEW r, Whole(r), row' = [row EXCEPT ![m] = r]
    PROVE  /\ row' \in [Modems -> PortRows] /\ \A n \in Modems : Whole(row'[n])
           /\ row'[m] = r /\ \A n \in Modems : n # m => row'[n] = row[n]
<1>1. row \in [Modems -> PortRows] /\ \A n \in Modems : Whole(row[n])
  BY DEF TypesInv
<1>2. r \in PortRows
  BY DEF Whole
<1>3. QED
  BY <1>1, <1>2

\* A login is replaced.
LEMMA RowEdited ==
    ASSUME NEW r, Whole(r), r.has, NEW s \in Secrets \cup {0}, NEW n,
           n \in {[r EXCEPT !.main = s], [r EXCEPT !.store = s], [r EXCEPT !.enabled = FALSE]}
    PROVE  /\ Whole(n) /\ n.has
           /\ n = [r EXCEPT !.store = s] => n.enabled = r.enabled /\ n.ports = r.ports
           /\ n = [r EXCEPT !.enabled = FALSE] => ~LiveRow(n)
<1>1. r \in PortRows /\ r.has = TRUE
  BY DEF Whole, PortRows
<1>2. CASE n = [r EXCEPT !.main = s]
  BY <1>1, <1>2 DEF Whole, PortRows, LiveRow
<1>3. CASE n = [r EXCEPT !.store = s]
  BY <1>1, <1>3 DEF Whole, PortRows, LiveRow
<1>4. CASE n = [r EXCEPT !.enabled = FALSE]
  BY <1>1, <1>4 DEF Whole, PortRows, LiveRow
<1>5. QED
  BY <1>2, <1>3, <1>4

LEMMA BeginShape ==
    ASSUME TypesInv, NEW w \in Workers, Begin(w)
    PROVE  \E ms \in SUBSET Modems, new \in Operations : Begun(w, ms, new)
<1>1. /\ row \in [Modems -> PortRows] /\ mode \in {"relay", "direct"}
      /\ \A m \in Modems : Whole(row[m])
  BY DEF TypesInv
<1>2. ASSUME NEW m \in Modems, NEW pc \in {"allocate", "stop", "unlink"},
             NEW r, Whole(r), row' = [row EXCEPT ![m] = r], mode' = mode,
             pc \in {"stop", "unlink"} => ~LiveRow(r),
             Start(w, {m}, At(pc, m)), UnchangedFiles
      PROVE  Begun(w, {m}, At(pc, m)) /\ At(pc, m) \in Operations
  <2> DEFINE new == At(pc, m)
  <2>1. Fit(new) /\ new.pc = pc /\ new.imei = m /\ new.todo = {} /\ new \in Operations
    BY AtModem DEF Fit, Pcs
  <2>2. Start(w, {m}, new)
    BY <1>2
  <2> HIDE DEF new
  <2>3. Touched(new) \subseteq {m}
    BY <2>1 DEF Touched
  <2>4. /\ row' \in [Modems -> PortRows] /\ \A n \in Modems : Whole(row'[n])
        /\ row'[m] = r /\ \A n \in Modems : n # m => row'[n] = row[n]
    BY <1>2, RowReplaced
  <2>5. Begun(w, {m}, new)
    BY <1>1, <1>2, <2>1, <2>2, <2>3, <2>4 DEF Begun
  <2>6. QED
    BY <2>1, <2>5 DEF new
<1>3. ASSUME NEW m \in Modems, \/ Apply(w, m) \/ SetPassword(w, m) \/ StopProxy(w, m)
                               \/ PurgePort(w, m) \/ DropLogin(w, m)
      PROVE  \E ms \in SUBSET Modems, new \in Operations : Begun(w, ms, new)
  <2>1. Whole(row[m]) /\ row = [row EXCEPT ![m] = row[m]]
    BY <1>1
  <2>2. Whole(Upsert(m)) /\ Upsert(m).has
    BY Upserted
  <2>3. CASE Apply(w, m)
    BY <1>2, <2>1, <2>3 DEF Apply
  <2>4. CASE SetPassword(w, m)
    <3>1. PICK s \in Secrets : row' = [row EXCEPT ![m] = [Upsert(m) EXCEPT !.main = s]]
      BY <2>4 DEF SetPassword
    <3>2. Whole([Upsert(m) EXCEPT !.main = s])
      BY <2>2, RowEdited
    <3>3. QED
      BY <1>2, <2>4, <3>1, <3>2 DEF SetPassword
  <2>5. CASE StopProxy(w, m)
    <3>1. /\ Whole([Upsert(m) EXCEPT !.enabled = FALSE])
          /\ ~LiveRow([Upsert(m) EXCEPT !.enabled = FALSE])
      BY <2>2, RowEdited
    <3>2. QED
      BY <1>2, <2>5, <3>1 DEF StopProxy
  <2>6. CASE PurgePort(w, m)
    <3>1. Whole(NoRow) /\ ~LiveRow(NoRow)
      BY BlankRows DEF LiveRow
    <3>2. QED
      BY <1>2, <2>6, <3>1 DEF PurgePort
  <2>7. CASE DropLogin(w, m)
    <3>1. CASE row[m].has
      <4>1. Whole([row[m] EXCEPT !.store = 0])
        BY <2>1, <3>1, RowEdited
      <4>2. row' = [row EXCEPT ![m] = [row[m] EXCEPT !.store = 0]]
        BY <1>1, <2>7, <3>1 DEF DropLogin
      <4>3. QED
        BY <1>2, <2>7, <4>1, <4>2 DEF DropLogin
    <3>2. CASE ~row[m].has
      BY <1>2, <2>1, <2>7, <3>2 DEF DropLogin
    <3>3. QED
      BY <3>1, <3>2
  <2>8. QED
    BY <1>3, <2>3, <2>4, <2>5, <2>6, <2>7
<1>4. ASSUME NEW m \in Modems, StorePort(w, m)
      PROVE  \E ms \in SUBSET Modems, new \in Operations : Begun(w, ms, new)
  <2>1. PICK s \in Secrets : row' = [row EXCEPT ![m].store = s]
    BY <1>4 DEF StorePort
  <2> DEFINE r == [row[m] EXCEPT !.store = s]
  <2>2. Whole(r) /\ r.enabled = row[m].enabled /\ r.ports = row[m].ports
    BY <1>1, <1>4, RowEdited DEF StorePort
  <2>3. row' = [row EXCEPT ![m] = r]
    BY <1>1, <2>1
  <2> HIDE DEF r
  <2>4. /\ row' \in [Modems -> PortRows] /\ \A n \in Modems : Whole(row'[n])
        /\ row'[m] = r /\ \A n \in Modems : n # m => row'[n] = row[n]
    BY <2>2, <2>3, RowReplaced
  <2>5. \A n \in Modems : LiveRow(row'[n]) <=> LiveRow(row[n])
    BY <2>2, <2>4 DEF LiveRow
  <2>6. Start(w, {m}, Idle) /\ mode' = mode /\ UnchangedFiles
    BY <1>4 DEF StorePort
  <2>7. Fit(Idle) /\ Touched(Idle) \subseteq {m} /\ Idle.pc = "idle" /\ Idle \in Operations
    BY IdleFit, IdleTouched DEF Fit
  <2>8. Begun(w, {m}, Idle)
    BY <1>1, <2>4, <2>5, <2>6, <2>7 DEF Begun
  <2>9. QED
    BY <2>7, <2>8
<1>5. ASSUME NEW to \in {"relay", "direct"}, SetAccess(w, to)
      PROVE  \E ms \in SUBSET Modems, new \in Operations : Begun(w, ms, new)
  <2> DEFINE new == At("sync", NoModem)
  <2>1. /\ Fit(new) /\ new.pc = "sync" /\ new.imei = NoModem /\ new.todo = {}
        /\ new \in Operations
    BY DEF At, Idle, Fit, Operations, Pcs
  <2>2. Start(w, {}, new) /\ mode' = to /\ row' = row /\ UnchangedFiles
    BY <1>5 DEF SetAccess
  <2> HIDE DEF new
  <2>3. Touched(new) \subseteq {}
    BY <2>1 DEF Touched
  <2>4. Begun(w, {}, new)
    BY <1>1, <2>1, <2>2, <2>3 DEF Begun
  <2>5. QED
    BY <2>1, <2>4
<1>6. ASSUME ListPorts(w)
      PROVE  \E ms \in SUBSET Modems, new \in Operations : Begun(w, ms, new)
  <2> DEFINE new == [Idle EXCEPT !.pc = "entry", !.todo = Live]
  <2>1. /\ Fit(new) /\ new.pc = "entry" /\ new.imei = NoModem /\ new.todo = Live
        /\ new \in Operations /\ Live \subseteq Modems
    BY DEF Idle, Fit, Operations, Pcs, Live
  <2>2. Start(w, Live, new) /\ mode' = mode /\ row' = row /\ UnchangedFiles
    BY <1>6 DEF ListPorts
  <2> HIDE DEF new
  <2>3. Touched(new) \subseteq Live
    BY <2>1 DEF Touched
  <2>4. /\ row' \in [Modems -> PortRows]
        /\ \A m \in Modems : Whole(row'[m]) /\ row'[m] = row[m]
        /\ \A m \in Modems : LiveRow(row'[m]) <=> LiveRow(row[m])
    BY <1>1, <2>2
  <2>5. Begun(w, Live, new)
    BY <1>1, <2>1, <2>2, <2>3, <2>4 DEF Begun
  <2>6. QED
    BY <2>1, <2>5
<1>7. QED
  BY <1>3, <1>4, <1>5, <1>6 DEF Begin

-----------------------------------------------------------------------------
(* The invariants *)

WayRight ==
    \/ mode = "relay" /\ frpc = Live
    \/ mode = "direct" /\ frpc = {} /\ Live \subseteq opened

\* What an operation that runs alone has prepared for its sync.
Prepared(o) ==
    o.alone =>
        /\ o.pc = "reload" => mode = "relay" /\ frpcFile = Live
        /\ o.pc = "allow" => mode = "direct" /\ frpc = {}
        /\ o.pc = "render" => row[o.imei].has

\* Alone means alone; and when nothing was cut or overlapped since the last sync,
\* the way in is right but for the operation that is on its way to one.
WayInv ==
    /\ \A v, w \in Workers : v # w /\ op[w].alone => op[v].pc = "idle"
    /\ ~stale => \A w \in Workers : op[w].pc # "idle" => op[w].alone
    /\ ~stale /\ (\A w \in Workers : op[w].pc \in {"idle", "entry", "mint"}) => WayRight
    /\ \A w \in Workers : Prepared(op[w])

\* The proxy of a modem with row r accepts what its operations have rendered.
Accepted(r) == IF LiveRow(r) THEN AllUsers(r) ELSE {}

\* Points of an operation at which it has nothing in hand, or has restarted the
\* proxy of its modem.
Upkeep == {"idle", "entry", "mint", "sync", "reload", "allow"}

\* How far o is with its modem, whose row is r and whose file c.
Phase(o, r, c) ==
    /\ o.pc \in {"render", "restart"} => LiveRow(r)
    /\ o.pc = "restart" => c = AllUsers(r)
    /\ o.pc \in {"unlink", "stop"} => ~LiveRow(r)

\* Two operations share a modem only when it is in doubt and neither will clear it;
\* of the others, a proxy that no operation has in hand accepts what its row says.
LoginsInv ==
    /\ \A v, w \in Workers : v # w =>
          \A m \in Touched(op[v]) \cap Touched(op[w]) : m \in unsure /\ ~op[v].owns
    /\ \A m \in Modems \ unsure :
          (\A w \in Workers : op[w].imei = m => op[w].pc \in Upkeep) =>
             proxy[m] = Accepted(row[m])
    /\ \A w \in Workers :
          op[w].imei \in Modems /\ (op[w].imei \notin unsure \/ op[w].owns) =>
             Phase(op[w], row[op[w].imei], cfg[op[w].imei])

AccessInv == TypesInv /\ WayInv /\ LoginsInv

LEMMA UsersTyped ==
    ASSUME NEW r, Whole(r)
    PROVE  AllUsers(r) \in SUBSET Logins
<1>1. r.main \in Secrets \cup {0} /\ r.store \in Secrets \cup {0}
  BY DEF Whole, PortRows
<1>2. QED
  BY <1>1 DEF AllUsers, Logins

-----------------------------------------------------------------------------
(* The start of an operation *)

LEMMA BeginTypes ==
    ASSUME TypesInv, NEW w \in Workers, NEW ms \in SUBSET Modems, NEW new, Begun(w, ms, new)
    PROVE  TypesInv'
<1>1. Fit(new) /\ Start(w, ms, new) /\ UnchangedFiles
  BY DEF Begun
<1>2. /\ op' \in [Workers -> Operations] /\ \A v \in Workers : Fit(op'[v])
      /\ ops' \in 0 .. MaxOps
  BY <1>1, Started
<1>3. stale' \in BOOLEAN /\ unsure' \subseteq Modems
  BY <1>1, StartedFlags DEF TypesInv
<1>4. QED
  BY <1>1, <1>2, <1>3 DEF Begun, TypesInv, UnchangedFiles

LEMMA BeginWay ==
    ASSUME TypesInv, WayInv, NEW w \in Workers, NEW ms \in SUBSET Modems, NEW new,
           Begun(w, ms, new)
    PROVE  WayInv'
<1>1. /\ Fit(new) /\ Start(w, ms, new) /\ UnchangedFiles
      /\ new.pc \in {"idle", "allocate", "stop", "unlink", "sync", "entry"}
      /\ new.pc \in {"idle", "entry"} =>
            mode' = mode /\ \A m \in Modems : LiveRow(row'[m]) <=> LiveRow(row[m])
  BY DEF Begun
<1>2. op[w] = Idle /\ Same(op'[w], new) /\ \A v \in Workers \ {w} : Same(op'[v], op[v])
  BY <1>1, Started
<1>3. /\ op'[w].alone => \A v \in Workers \ {w} : op[v].pc = "idle"
      /\ new.pc # "idle" /\ (\A v \in Workers \ {w} : op[v].pc = "idle") => op'[w].alone
      /\ \A v \in Workers \ {w} : ~op'[v].alone
      /\ ~stale' => ~stale /\ \A v \in Workers \ {w} : op[v].pc = "idle"
  BY <1>1, StartedFlags
<1>4. op'[w].pc = new.pc /\ op[w].pc = "idle" /\ \A v \in Workers \ {w} : op'[v].pc = op[v].pc
  BY <1>2, IdleFit DEF Same
<1>5. ASSUME NEW a \in Workers, NEW v \in Workers, v # a, op'[a].alone
      PROVE  op'[v].pc = "idle"
  BY <1>3, <1>4, <1>5
<1>6. ASSUME ~stale', NEW a \in Workers, op'[a].pc # "idle"
      PROVE  op'[a].alone
  BY <1>3, <1>4, <1>6
<1>7. ASSUME ~stale', \A a \in Workers : op'[a].pc \in {"idle", "entry", "mint"}
      PROVE  WayRight'
  <2>1. new.pc \in {"idle", "entry"}
    BY <1>1, <1>4, <1>7
  <2>2. WayRight
    BY <1>3, <1>4, <1>7 DEF WayInv
  <2>3. Live' = Live
    BY <1>1, <2>1 DEF Live, LiveRow
  <2>4. QED
    BY <1>1, <2>1, <2>2, <2>3 DEF WayRight, UnchangedFiles
<1>8. ASSUME NEW a \in Workers
      PROVE  Prepared(op[a])'
  <2>1. CASE a = w
    BY <1>1, <1>4, <2>1 DEF Prepared
  <2>2. CASE a # w
    BY <1>3, <2>2 DEF Prepared
  <2>3. QED
    BY <2>1, <2>2
<1>9. QED
  BY <1>5, <1>6, <1>7, <1>8 DEF WayInv

LEMMA BeginLogins ==
    ASSUME TypesInv, LoginsInv, NEW w \in Workers, NEW ms \in SUBSET Modems, NEW new,
           Begun(w, ms, new)
    PROVE  LoginsInv'
<1>1. /\ Fit(new) /\ Start(w, ms, new) /\ UnchangedFiles /\ Touched(new) \subseteq ms
      /\ new.pc \in {"idle", "allocate", "stop", "unlink", "sync", "entry"}
      /\ \A m \in Modems :
            \/ row'[m] = row[m]
            \/ m \in ms /\ new.pc = "idle"
            \/ m = new.imei /\ new.pc \in {"allocate", "stop", "unlink"}
      /\ new.pc \in {"stop", "unlink"} => ~LiveRow(row'[new.imei])
  BY DEF Begun
<1>2. op[w] = Idle /\ Same(op'[w], new) /\ \A v \in Workers \ {w} : Same(op'[v], op[v])
  BY <1>1, Started
<1>3. /\ op'[w].owns => \A v \in Workers \ {w} : Touched(op[v]) \cap ms = {}
      /\ \A v \in Workers \ {w} : op'[v].owns => op[v].owns /\ Touched(op[v]) \cap ms = {}
      /\ unsure \subseteq unsure'
      /\ new.pc = "idle" => ms \subseteq unsure'
      /\ \A v \in Workers \ {w} : ms \cap Touched(op[v]) \subseteq unsure'
  BY <1>1, StartedFlags
<1>4. /\ op'[w].pc = new.pc /\ op'[w].imei = new.imei /\ Touched(op'[w]) \subseteq ms
      /\ \A v \in Workers \ {w} : /\ op'[v].pc = op[v].pc /\ op'[v].imei = op[v].imei
                                  /\ Touched(op'[v]) = Touched(op[v])
  BY <1>1, <1>2 DEF Same, Touched
<1>5. op[w].imei = NoModem /\ op[w].pc = "idle"
  BY <1>2, IdleFit
<1>6. ASSUME NEW a \in Workers, NEW v \in Workers, v # a,
             NEW m \in Touched(op'[v]) \cap Touched(op'[a])
      PROVE  m \in unsure' /\ ~op'[v].owns
  <2>1. CASE v = w
    BY <1>3, <1>4, <1>6, <2>1
  <2>2. CASE v # w /\ a = w
    BY <1>3, <1>4, <1>6, <2>2
  <2>3. CASE v # w /\ a # w
    BY <1>3, <1>4, <1>6, <2>3 DEF LoginsInv
  <2>4. QED
    BY <2>1, <2>2, <2>3
<1>7. ASSUME NEW m \in Modems \ unsure', \A a \in Workers : op'[a].imei = m => op'[a].pc \in Upkeep
      PROVE  proxy'[m] = Accepted(row[m])'
  <2>1. m \notin unsure /\ \A a \in Workers : op[a].imei = m => op[a].pc \in Upkeep
    <3>1. op[w].pc \in Upkeep
      BY <1>5 DEF Upkeep
    <3>2. QED
      BY <1>3, <1>4, <1>7, <3>1
  <2>2. row'[m] = row[m]
    BY <1>1, <1>3, <1>4, <1>7 DEF Upkeep
  <2>3. proxy[m] = Accepted(row[m])
    BY <2>1 DEF LoginsInv
  <2>4. QED
    BY <1>1, <2>2, <2>3 DEF Accepted, LiveRow, AllUsers, UnchangedFiles
<1>8. ASSUME NEW a \in Workers, op'[a].imei \in Modems,
             op'[a].imei \notin unsure' \/ op'[a].owns
      PROVE  Phase(op'[a], row'[op'[a].imei], cfg'[op'[a].imei])
  <2>1. CASE a = w
    BY <1>1, <1>4, <1>8, <2>1 DEF Phase
  <2>2. CASE a # w
    <3>1. op[a].imei \in Modems /\ op[a].imei \in Touched(op[a]) /\ op'[a].imei = op[a].imei
      BY <1>4, <1>8, <2>2, NoModemAssumption DEF Touched
    <3>2. op[a].imei \notin ms /\ (op[a].imei \notin unsure \/ op[a].owns)
      BY <1>3, <1>8, <2>2, <3>1
    <3>3. row'[op[a].imei] = row[op[a].imei] /\ cfg' = cfg
      <4>1. new.imei \in ms \/ new.imei \notin Modems
        BY <1>1, NoModemAssumption DEF Touched
      <4>2. QED
        BY <1>1, <3>1, <3>2, <4>1 DEF UnchangedFiles
    <3>4. Phase(op[a], row[op[a].imei], cfg[op[a].imei])
      BY <3>1, <3>2 DEF LoginsInv
    <3>5. QED
      BY <1>4, <2>2, <3>1, <3>3, <3>4 DEF Phase
  <2>3. QED
    BY <2>1, <2>2
<1>9. QED
  BY <1>6, <1>7, <1>8 DEF LoginsInv

-----------------------------------------------------------------------------
(* The steps of an operation *)

\* An operation goes on: what its step must leave right for the way in.
LEMMA WayMove ==
    ASSUME TypesInv, WayInv, NEW w \in Workers, GoesOn(w, op'[w]),
           ~stale' => ~stale \/ op[w].alone,
           op[w].alone /\ ~stale' /\ op'[w].pc \in {"idle", "entry", "mint"} => WayRight',
           op[w].alone => Prepared(op[w])'
    PROVE  WayInv'
<1>1. /\ op[w].pc # "idle" /\ \A v \in Workers \ {w} : op'[v] = op[v]
      /\ op'[w].alone => op[w].alone
      /\ op'[w].pc # "idle" /\ op[w].alone => op'[w].alone
  BY IdleFit DEF GoesOn
<1>2. \A a \in Workers \ {w} : ~op[a].alone
  BY <1>1 DEF WayInv
<1>3. op[w].alone => \A v \in Workers \ {w} : op[v].pc = "idle"
  BY DEF WayInv
<1>4. ASSUME NEW a \in Workers, NEW v \in Workers, v # a, op'[a].alone
      PROVE  op'[v].pc = "idle"
  BY <1>1, <1>2, <1>3, <1>4
<1>5. ~stale' => op[w].alone
  BY <1>1 DEF WayInv
<1>6. ASSUME ~stale', NEW a \in Workers, op'[a].pc # "idle"
      PROVE  op'[a].alone
  BY <1>1, <1>3, <1>5, <1>6
<1>7. ~stale' /\ (\A a \in Workers : op'[a].pc \in {"idle", "entry", "mint"}) => WayRight'
  BY <1>5
<1>8. ASSUME NEW a \in Workers
      PROVE  Prepared(op[a])'
  <2>1. CASE a = w
    BY <1>1, <2>1 DEF Prepared
  <2>2. CASE a # w
    BY <1>1, <1>2, <2>2 DEF Prepared
  <2>3. QED
    BY <2>1, <2>2
<1>9. QED
  BY <1>4, <1>6, <1>7, <1>8 DEF WayInv

\* And for the logins.
LEMMA LoginsMove ==
    ASSUME TypesInv, LoginsInv, NEW w \in Workers, GoesOn(w, op'[w]),
           \A m \in Modems \ {op[w].imei} :
              /\ row'[m] = row[m] /\ cfg'[m] = cfg[m] /\ proxy'[m] = proxy[m]
              /\ m \in unsure' <=> m \in unsure,
           op[w].imei \in unsure \ unsure' => op[w].owns,
           op[w].imei \in Modems \ unsure'
                 /\ (op'[w].imei = op[w].imei => op'[w].pc \in Upkeep)
              => proxy'[op[w].imei] = Accepted(row'[op[w].imei]),
           op'[w].imei \in Modems /\ (op'[w].imei \notin unsure' \/ op'[w].owns)
              => Phase(op'[w], row'[op'[w].imei], cfg'[op'[w].imei])
    PROVE  LoginsInv'
<1> DEFINE M == op[w].imei
<1>1. /\ op[w].pc # "idle" /\ \A v \in Workers \ {w} : op'[v] = op[v]
      /\ Touched(op'[w]) \subseteq Touched(op[w])
      /\ op'[w].owns => op[w].owns
  BY IdleFit DEF GoesOn
<1>2. \A a \in Workers : op[a].imei \in Modems => op[a].imei \in Touched(op[a])
  BY NoModemAssumption DEF Touched
<1>3. ASSUME NEW v \in Workers \ {w}, NEW m \in Touched(op[v]) \cap Touched(op[w])
      PROVE  m \in unsure' /\ ~op[v].owns /\ ~op[w].owns
  <2>1. m \in unsure /\ ~op[v].owns /\ ~op[w].owns
    BY DEF LoginsInv
  <2>2. m \in Modems
    BY <2>1 DEF TypesInv
  <2>3. QED
    BY <2>1, <2>2
<1>4. ASSUME NEW a \in Workers, NEW v \in Workers, v # a,
             NEW m \in Touched(op'[v]) \cap Touched(op'[a])
      PROVE  m \in unsure' /\ ~op'[v].owns
  <2>1. CASE v = w
    BY <1>1, <1>3, <1>4, <2>1
  <2>2. CASE v # w /\ a = w
    BY <1>1, <1>3, <1>4, <2>2
  <2>3. CASE v # w /\ a # w
    <3>1. m \in unsure /\ ~op[v].owns /\ m \in Touched(op[v])
      BY <1>1, <1>4, <2>3 DEF LoginsInv
    <3>2. m \in Modems
      BY <3>1 DEF TypesInv
    <3>3. CASE m = M
      <4>1. m \in Touched(op[w])
        BY <1>2, <3>2, <3>3
      <4>2. QED
        BY <1>1, <1>3, <2>3, <3>1, <4>1
    <3>4. QED
      BY <1>1, <2>3, <3>1, <3>2, <3>3
  <2>4. QED
    BY <2>1, <2>2, <2>3
<1>5. ASSUME NEW m \in Modems \ unsure', \A a \in Workers : op'[a].imei = m => op'[a].pc \in Upkeep
      PROVE  proxy'[m] = Accepted(row'[m])
  <2>1. CASE m = M
    BY <1>5, <2>1
  <2>2. CASE m # M
    <3>1. m \notin unsure /\ \A a \in Workers : op[a].imei = m => op[a].pc \in Upkeep
      BY <1>1, <1>5, <2>2
    <3>2. proxy[m] = Accepted(row[m])
      BY <3>1 DEF LoginsInv
    <3>3. QED
      BY <2>2, <3>2
  <2>3. QED
    BY <2>1, <2>2
<1>6. ASSUME NEW a \in Workers, op'[a].imei \in Modems,
             op'[a].imei \notin unsure' \/ op'[a].owns
      PROVE  Phase(op'[a], row'[op'[a].imei], cfg'[op'[a].imei])
  <2>1. CASE a = w
    BY <1>6, <2>1
  <2>2. CASE a # w
    <3>1. op'[a] = op[a] /\ op[a].imei \in Modems /\ op[a].imei \in Touched(op[a])
      BY <1>1, <1>2, <1>6, <2>2
    <3>2. op[a].imei # M
      <4>1. SUFFICES ASSUME op[a].imei = M
                     PROVE  FALSE
        OBVIOUS
      <4>2. M \in Touched(op[a]) \cap Touched(op[w])
        BY <1>2, <3>1, <4>1
      <4>3. QED
        BY <1>3, <1>6, <2>2, <3>1, <4>1, <4>2
    <3>3. op[a].imei \notin unsure \/ op[a].owns
      BY <1>6, <3>1, <3>2
    <3>4. Phase(op[a], row[op[a].imei], cfg[op[a].imei])
      BY <3>1, <3>3 DEF LoginsInv
    <3>5. QED
      BY <3>1, <3>2, <3>4
  <2>3. QED
    BY <2>1, <2>2
<1>7. (\A m \in Modems \ unsure :
          (\A a \in Workers : op[a].imei = m => op[a].pc \in Upkeep) =>
             proxy[m] = Accepted(row[m]))'
  BY <1>5 DEF Accepted, LiveRow, AllUsers
<1>8. QED
  BY <1>4, <1>6, <1>7 DEF LoginsInv

\* The proxy of a modem that an operation has nothing in hand of.
LEMMA Settled ==
    ASSUME LoginsInv, NEW w \in Workers, op[w].imei \in Modems \ unsure, op[w].pc \in Upkeep
    PROVE  proxy[op[w].imei] = Accepted(row[op[w].imei])
<1>1. ASSUME NEW v \in Workers, op[v].imei = op[w].imei
      PROVE  v = w
  BY <1>1, NoModemAssumption DEF LoginsInv, Touched
<1>2. QED
  BY <1>1 DEF LoginsInv

\* The way in is right while an operation that runs alone has not changed it.
LEMMA WayKept ==
    ASSUME WayInv, NEW w \in Workers, op[w].alone, ~stale, op[w].pc \in {"entry", "mint"}
    PROVE  WayRight
BY DEF WayInv

LEMMA EntrySteps ==
    ASSUME AccessInv, NEW w \in Workers, NEW m \in Modems, Entry(w, m)
    PROVE  AccessInv'
<1>1. /\ op[w].pc = "entry" /\ GoesOn(w, op'[w])
      /\ op'[w].pc \in {"idle", "entry", "mint"}
  BY Entered, IdleFit DEF AccessInv
<1>2. /\ row' = row /\ mode' = mode /\ ops' = ops /\ unsure' = unsure /\ stale' = stale
      /\ cfg' = cfg /\ proxy' = proxy /\ frpcFile' = frpcFile /\ frpc' = frpc
      /\ opened' = opened
  BY DEF Entry, UnchangedFiles
<1>3. TypesInv'
  BY <1>1, <1>2 DEF AccessInv, TypesInv, GoesOn
<1>4. WayInv'
  <2>1. op[w].alone /\ ~stale => WayRight
    BY <1>1, WayKept DEF AccessInv
  <2>2. Live' = Live
    BY <1>2 DEF Live
  <2>3. op[w].alone /\ ~stale' => WayRight'
    BY <1>2, <2>1, <2>2 DEF WayRight
  <2>4. Prepared(op[w])'
    BY <1>1 DEF Prepared
  <2>5. QED
    BY <1>1, <1>2, <2>3, <2>4, WayMove DEF AccessInv
<1>5. LoginsInv'
  <2>1. op[w].imei \in Modems \ unsure => proxy[op[w].imei] = Accepted(row[op[w].imei])
    BY <1>1, Settled DEF AccessInv, Upkeep
  <2>2. \A r, c : Phase(op'[w], r, c)
    BY <1>1 DEF Phase
  <2>3. QED
    BY <1>1, <1>2, <2>1, <2>2, LoginsMove DEF AccessInv
<1>6. QED
  BY <1>3, <1>4, <1>5 DEF AccessInv

LEMMA MintSteps ==
    ASSUME AccessInv, NEW w \in Workers, Mint(w)
    PROVE  AccessInv'
<1> DEFINE M == op[w].imei
<1>1. /\ op[w].pc = "mint" /\ M \in Modems /\ Whole(row[M])
      /\ row \in [Modems -> PortRows]
  BY DEF Mint, AccessInv, TypesInv, Fit
<1>2. /\ mode' = mode /\ ops' = ops /\ unsure' = unsure /\ stale' = stale
      /\ cfg' = cfg /\ proxy' = proxy /\ frpcFile' = frpcFile /\ frpc' = frpc
      /\ opened' = opened
  BY DEF Mint, UnchangedFiles
<1>3. CASE row[M].has
  <2>1. PICK s \in Secrets : row' = [row EXCEPT ![M].store = s]
    BY <1>3 DEF Mint
  <2>2. Goto(w, "allocate")
    BY <1>3 DEF Mint
  <2>3. GoesOn(w, op'[w]) /\ op'[w].pc = "allocate" /\ op'[w].imei = M
    BY <1>1, <2>2, Went DEF AccessInv, Pcs
  <2> DEFINE r == [row[M] EXCEPT !.store = s]
  <2>4. Whole(r)
    BY <1>1, <1>3, RowEdited
  <2>5. row' = [row EXCEPT ![M] = r]
    BY <1>1, <2>1
  <2> HIDE DEF r
  <2>6. /\ row' \in [Modems -> PortRows] /\ \A n \in Modems : Whole(row'[n])
        /\ row'[M] = r /\ \A n \in Modems : n # M => row'[n] = row[n]
    BY <1>1, <2>4, <2>5, RowReplaced DEF AccessInv
  <2>7. TypesInv'
    BY <1>2, <2>3, <2>6 DEF AccessInv, TypesInv, GoesOn
  <2>8. WayInv'
    <3>1. Prepared(op[w])'
      BY <2>3 DEF Prepared
    <3>2. QED
      BY <1>2, <2>3, <3>1, WayMove DEF AccessInv
  <2>9. LoginsInv'
    <3>1. \A x, c : Phase(op'[w], x, c)
      BY <2>3 DEF Phase
    <3>2. op'[w].pc \notin Upkeep
      BY <2>3 DEF Upkeep
    <3>3. QED
      BY <1>2, <2>3, <2>6, <3>1, <3>2, LoginsMove DEF AccessInv
  <2>10. QED
    BY <2>7, <2>8, <2>9 DEF AccessInv
<1>4. CASE ~row[M].has
  <2>1. row' = row /\ op' = [op EXCEPT ![w] = Idle]
    BY <1>4 DEF Mint
  <2>2. GoesOn(w, Idle)
    BY <1>1, <2>1, Ended DEF AccessInv
  <2>3. op'[w] = Idle /\ GoesOn(w, op'[w]) /\ op'[w].pc = "idle"
    BY <2>2, IdleFit DEF GoesOn
  <2>4. TypesInv'
    BY <1>2, <2>1, <2>3 DEF AccessInv, TypesInv, GoesOn
  <2>5. WayInv'
    <3>1. op[w].alone /\ ~stale => WayRight
      BY <1>1, WayKept DEF AccessInv
    <3>2. Live' = Live
      BY <2>1 DEF Live
    <3>3. op[w].alone /\ ~stale' => WayRight'
      BY <1>2, <3>1, <3>2 DEF WayRight
    <3>4. Prepared(op[w])'
      BY <2>3 DEF Prepared
    <3>5. QED
      BY <1>2, <2>3, <3>3, <3>4, WayMove DEF AccessInv
  <2>6. LoginsInv'
    <3>1. M \in Modems \ unsure => proxy[M] = Accepted(row[M])
      BY <1>1, Settled DEF AccessInv, Upkeep
    <3>2. \A x, c : Phase(op'[w], x, c)
      BY <2>3 DEF Phase
    <3>3. QED
      BY <1>2, <2>1, <2>3, <3>1, <3>2, LoginsMove DEF AccessInv
  <2>7. QED
    BY <2>4, <2>5, <2>6 DEF AccessInv
<1>5. QED
  BY <1>3, <1>4

\* The next step is at pc, with the password x.
LEMMA WentWith ==
    ASSUME TypesInv, NEW w \in Workers, NEW pc \in Pcs \ {"idle"},
           NEW x \in Secrets \cup {0}, op' = [op EXCEPT ![w].pc = pc, ![w].main = x],
           op[w].pc # "idle", op[w].imei \in Modems
    PROVE  /\ GoesOn(w, op'[w])
           /\ op'[w].pc = pc /\ op'[w].imei = op[w].imei /\ op'[w].main = x
           /\ op'[w].alone = op[w].alone /\ op'[w].owns = op[w].owns
<1> DEFINE c == op[w]
           o == [c EXCEPT !.pc = pc, !.main = x]
<1>1. c \in Operations /\ op \in [Workers -> Operations]
  BY DEF TypesInv
<1>2. /\ o \in Operations /\ o.pc = pc /\ o.imei = c.imei /\ o.main = x
      /\ o.todo = c.todo /\ o.alone = c.alone /\ o.owns = c.owns
  BY <1>1 DEF Operations
<1>3. op' = [op EXCEPT ![w] = o]
  BY <1>1
<1> HIDE DEF o
<1>4. Fit(o) /\ Touched(o) = Touched(c)
  BY <1>2 DEF Fit, Touched
<1>5. GoesOn(w, o)
  BY <1>2, <1>3, <1>4, Replaced
<1>6. op'[w] = o
  BY <1>5 DEF GoesOn
<1>7. QED
  BY <1>2, <1>5, <1>6

\* allocate_port reads the row, then writes it.
LEMMA AllocateSteps ==
    ASSUME AccessInv, NEW w \in Workers, Allocate(w) \/ SetPort(w)
    PROVE  AccessInv'
<1> DEFINE M == op[w].imei
<1>1. /\ op[w].pc \in {"allocate", "setPort"} /\ M \in Modems /\ Whole(row[M])
      /\ row \in [Modems -> PortRows] /\ op[w].main \in Secrets \cup {0}
  BY DEF Allocate, SetPort, AccessInv, TypesInv, Fit, Operations
<1>2. /\ mode' = mode /\ ops' = ops /\ unsure' = unsure /\ stale' = stale
      /\ cfg' = cfg /\ proxy' = proxy /\ frpcFile' = frpcFile /\ frpc' = frpc
      /\ opened' = opened
  BY DEF Allocate, SetPort, UnchangedFiles
<1>3. /\ GoesOn(w, op'[w]) /\ op'[w].imei = M /\ op'[w].pc \in {"setPort", "render"}
      /\ row' \in [Modems -> PortRows] /\ \A n \in Modems : Whole(row'[n])
      /\ \A n \in Modems : n # M => row'[n] = row[n]
      /\ op'[w].pc = "render" => LiveRow(row'[M]) /\ row'[M].has
  <2>1. CASE Allocate(w)
    <3>1. PICK s \in Secrets :
             op' = [op EXCEPT ![w].pc = "setPort",
                              ![w].main = IF row[M].main # 0 THEN row[M].main ELSE s]
      BY <2>1 DEF Allocate
    <3> DEFINE x == IF row[M].main # 0 THEN row[M].main ELSE s
    <3>2. x \in Secrets \cup {0}
      BY <1>1 DEF Whole, PortRows
    <3>3. op' = [op EXCEPT ![w].pc = "setPort", ![w].main = x]
      BY <3>1
    <3> HIDE DEF x
    <3>4. GoesOn(w, op'[w]) /\ op'[w].pc = "setPort" /\ op'[w].imei = M
      BY <1>1, <3>2, <3>3, WentWith DEF AccessInv, Pcs
    <3>5. row' = row
      BY <2>1 DEF Allocate
    <3>6. QED
      BY <3>4, <3>5 DEF AccessInv, TypesInv
  <2>2. CASE SetPort(w)
    <3> DEFINE u == Upsert(M)
               r == [u EXCEPT !.ports = TRUE, !.enabled = TRUE, !.main = op[w].main]
    <3>1. row' = [row EXCEPT ![M] = r] /\ op' = [op EXCEPT ![w].pc = "render", ![w].main = 0]
      BY <2>2 DEF SetPort
    <3>2. Whole(u) /\ u.has = TRUE
      BY <1>1, Upserted DEF AccessInv
    <3> HIDE DEF u
    <3>3. Whole(r) /\ LiveRow(r) /\ r.has
      BY <1>1, <3>2 DEF Whole, PortRows, LiveRow
    <3> HIDE DEF r
    <3>4. /\ row' \in [Modems -> PortRows] /\ \A n \in Modems : Whole(row'[n])
          /\ row'[M] = r /\ \A n \in Modems : n # M => row'[n] = row[n]
      BY <1>1, <3>1, <3>3, RowReplaced DEF AccessInv
    <3>5. GoesOn(w, op'[w]) /\ op'[w].pc = "render" /\ op'[w].imei = M
      BY <1>1, <3>1, WentWith DEF AccessInv, Pcs
    <3>6. QED
      BY <3>3, <3>4, <3>5
  <2>3. QED
    BY <2>1, <2>2
<1>4. TypesInv'
  BY <1>2, <1>3 DEF AccessInv, TypesInv, GoesOn
<1>5. WayInv'
  <2>1. Prepared(op[w])'
    BY <1>3 DEF Prepared
  <2>2. QED
    BY <1>2, <1>3, <2>1, WayMove DEF AccessInv
<1>6. LoginsInv'
  <2>1. \A c : Phase(op'[w], row'[M], c)
    BY <1>3 DEF Phase
  <2>2. op'[w].pc \notin Upkeep
    BY <1>3 DEF Upkeep
  <2>3. QED
    BY <1>2, <1>3, <2>1, <2>2, LoginsMove DEF AccessInv
<1>7. QED
  BY <1>4, <1>5, <1>6 DEF AccessInv

LEMMA RenderSteps ==
    ASSUME AccessInv, NEW w \in Workers, Render(w)
    PROVE  AccessInv'
<1> DEFINE M == op[w].imei
<1>1. /\ op[w].pc = "render" /\ M \in Modems /\ Whole(row[M])
      /\ cfg \in [Modems -> SUBSET Logins]
  BY DEF Render, AccessInv, TypesInv, Fit
<1>2. /\ row' = row /\ mode' = mode /\ ops' = ops /\ unsure' = unsure /\ stale' = stale
      /\ proxy' = proxy /\ frpcFile' = frpcFile /\ frpc' = frpc /\ opened' = opened
  BY DEF Render
<1>3. M \notin unsure \/ op[w].owns => LiveRow(row[M])
  BY <1>1 DEF AccessInv, LoginsInv, Phase
<1>4. CASE row[M].has
  <2>1. cfg' = [cfg EXCEPT ![M] = AllUsers(row[M])] /\ Goto(w, "restart")
    BY <1>4 DEF Render
  <2>2. /\ GoesOn(w, op'[w]) /\ op'[w].pc = "restart" /\ op'[w].imei = M
        /\ op'[w].owns = op[w].owns
    BY <1>1, <2>1, Went DEF AccessInv, Pcs
  <2>3. /\ cfg' \in [Modems -> SUBSET Logins] /\ cfg'[M] = AllUsers(row[M])
        /\ \A m \in Modems : m # M => cfg'[m] = cfg[m]
    BY <1>1, <2>1, UsersTyped
  <2>4. TypesInv'
    BY <1>2, <2>2, <2>3 DEF AccessInv, TypesInv, GoesOn
  <2>5. WayInv'
    <3>1. Prepared(op[w])'
      BY <2>2 DEF Prepared
    <3>2. QED
      BY <1>2, <2>2, <3>1, WayMove DEF AccessInv
  <2>6. LoginsInv'
    <3>1. M \notin unsure \/ op[w].owns => Phase(op'[w], row'[M], cfg'[M])
      BY <1>2, <1>3, <2>2, <2>3 DEF Phase
    <3>2. op'[w].pc \notin Upkeep
      BY <2>2 DEF Upkeep
    <3>3. QED
      BY <1>2, <2>2, <2>3, <3>1, <3>2, LoginsMove DEF AccessInv
  <2>7. QED
    BY <2>4, <2>5, <2>6 DEF AccessInv
<1>5. CASE ~row[M].has
  <2>1. cfg' = cfg /\ op' = [op EXCEPT ![w] = Idle]
    BY <1>5 DEF Render
  <2>2. GoesOn(w, Idle)
    BY <1>1, <2>1, Ended DEF AccessInv
  <2>3. op'[w] = Idle /\ GoesOn(w, op'[w]) /\ op'[w].pc = "idle"
    BY <2>2, IdleFit DEF GoesOn
  <2>4. TypesInv'
    BY <1>2, <2>1, <2>3 DEF AccessInv, TypesInv, GoesOn
  <2>5. WayInv'
    <3>1. ~op[w].alone
      BY <1>1, <1>5 DEF AccessInv, WayInv, Prepared
    <3>2. Prepared(op[w])'
      BY <2>3 DEF Prepared
    <3>3. QED
      BY <1>2, <2>3, <3>1, <3>2, WayMove DEF AccessInv
  <2>6. LoginsInv'
    <3>1. ~LiveRow(row[M])
      BY <1>1, <1>5, BlankRows DEF Whole, LiveRow
    <3>2. M \in unsure
      BY <1>3, <3>1
    <3>3. \A x, c : Phase(op'[w], x, c)
      BY <2>3 DEF Phase
    <3>4. QED
      BY <1>2, <2>1, <2>3, <3>2, <3>3, LoginsMove DEF AccessInv
  <2>7. QED
    BY <2>4, <2>5, <2>6 DEF AccessInv
<1>6. QED
  BY <1>4, <1>5

\* systemctl restart and stop: an operation that has the modem to itself clears
\* the doubt about it.
LEMMA RestartSteps ==
    ASSUME AccessInv, NEW w \in Workers, Restart(w) \/ Stop(w)
    PROVE  AccessInv'
<1> DEFINE M == op[w].imei
           new == IF op[w].pc = "restart" THEN cfg[M] ELSE {}
<1>1. /\ op[w].pc \in {"restart", "stop"} /\ M \in Modems
      /\ cfg \in [Modems -> SUBSET Logins] /\ proxy \in [Modems -> SUBSET Logins]
  BY DEF Restart, Stop, AccessInv, TypesInv, Fit
<1>2. /\ row' = row /\ mode' = mode /\ ops' = ops /\ stale' = stale
      /\ cfg' = cfg /\ frpcFile' = frpcFile /\ frpc' = frpc /\ opened' = opened
      /\ proxy' = [proxy EXCEPT ![M] = new]
      /\ unsure' = IF op[w].owns THEN unsure \ {M} ELSE unsure
      /\ Goto(w, "sync")
  BY DEF Restart, Stop
<1>3. GoesOn(w, op'[w]) /\ op'[w].pc = "sync" /\ op'[w].imei = M
  BY <1>1, <1>2, Went DEF AccessInv, Pcs
<1>4. /\ proxy' \in [Modems -> SUBSET Logins] /\ proxy'[M] = new
      /\ \A m \in Modems : m # M => proxy'[m] = proxy[m]
  BY <1>1, <1>2
<1>5. TypesInv'
  BY <1>2, <1>3, <1>4 DEF AccessInv, TypesInv, GoesOn
<1>6. WayInv'
  <2>1. Prepared(op[w])'
    BY <1>3 DEF Prepared
  <2>2. QED
    BY <1>2, <1>3, <2>1, WayMove DEF AccessInv
<1>7. LoginsInv'
  <2>1. M \notin unsure' => M \notin unsure \/ op[w].owns
    BY <1>2
  <2>2. M \notin unsure \/ op[w].owns => new = Accepted(row[M])
    BY <1>1 DEF AccessInv, LoginsInv, Phase, Accepted
  <2> HIDE DEF new
  <2>3. \A x, c : Phase(op'[w], x, c)
    BY <1>3 DEF Phase
  <2>4. M \notin unsure' => proxy'[M] = Accepted(row'[M])
    BY <1>2, <1>4, <2>1, <2>2
  <2>5. \A m \in Modems \ {M} : m \in unsure' <=> m \in unsure
    BY <1>2
  <2>6. M \in unsure \ unsure' => op[w].owns
    BY <1>2
  <2>7. QED
    BY <1>2, <1>3, <1>4, <2>3, <2>4, <2>5, <2>6, LoginsMove DEF AccessInv
<1>8. QED
  BY <1>5, <1>6, <1>7 DEF AccessInv

LEMMA UnlinkSteps ==
    ASSUME AccessInv, NEW w \in Workers, Unlink(w)
    PROVE  AccessInv'
<1> DEFINE M == op[w].imei
<1>1. /\ op[w].pc = "unlink" /\ M \in Modems
      /\ cfg \in [Modems -> SUBSET Logins]
  BY DEF Unlink, AccessInv, TypesInv, Fit
<1>2. /\ row' = row /\ mode' = mode /\ ops' = ops /\ stale' = stale /\ unsure' = unsure
      /\ proxy' = proxy /\ frpcFile' = frpcFile /\ frpc' = frpc /\ opened' = opened
      /\ cfg' = [cfg EXCEPT ![M] = {}]
      /\ Goto(w, "stop")
  BY DEF Unlink
<1>3. /\ GoesOn(w, op'[w]) /\ op'[w].pc = "stop" /\ op'[w].imei = M
      /\ op'[w].owns = op[w].owns
  BY <1>1, <1>2, Went DEF AccessInv, Pcs
<1>4. /\ cfg' \in [Modems -> SUBSET Logins]
      /\ \A m \in Modems : m # M => cfg'[m] = cfg[m]
  BY <1>1, <1>2
<1>5. TypesInv'
  BY <1>2, <1>3, <1>4 DEF AccessInv, TypesInv, GoesOn
<1>6. WayInv'
  <2>1. Prepared(op[w])'
    BY <1>3 DEF Prepared
  <2>2. QED
    BY <1>2, <1>3, <2>1, WayMove DEF AccessInv
<1>7. LoginsInv'
  <2>1. M \notin unsure \/ op[w].owns => ~LiveRow(row[M])
    BY <1>1 DEF AccessInv, LoginsInv, Phase
  <2>2. M \notin unsure \/ op[w].owns => Phase(op'[w], row'[M], cfg'[M])
    BY <1>2, <1>3, <2>1 DEF Phase
  <2>3. op'[w].pc \notin Upkeep
    BY <1>3 DEF Upkeep
  <2>4. QED
    BY <1>2, <1>3, <1>4, <2>2, <2>3, LoginsMove DEF AccessInv
<1>8. QED
  BY <1>5, <1>6, <1>7 DEF AccessInv

\* The first half of a sync: nothing that the logins depend on changes.
LEMMA SyncSteps ==
    ASSUME AccessInv, NEW w \in Workers, Sync(w)
    PROVE  AccessInv'
<1>1. /\ op[w].pc = "sync"
      /\ row' = row /\ cfg' = cfg /\ proxy' = proxy /\ mode' = mode /\ ops' = ops
      /\ opened' = opened /\ unsure' = unsure /\ stale' = stale
  BY DEF Sync
<1>2. \/ mode = "relay" /\ frpcFile' = Live /\ frpc' = frpc /\ Goto(w, "reload")
      \/ mode = "direct" /\ frpc' = {} /\ frpcFile' = frpcFile /\ Goto(w, "allow")
  BY DEF Sync
<1>3. /\ GoesOn(w, op'[w]) /\ op'[w].imei = op[w].imei
      /\ \/ mode = "relay" /\ frpcFile' = Live /\ frpc' = frpc /\ op'[w].pc = "reload"
         \/ mode = "direct" /\ frpc' = {} /\ frpcFile' = frpcFile /\ op'[w].pc = "allow"
  BY <1>1, <1>2, Went DEF AccessInv, Pcs
<1>4. Live' = Live /\ Live \subseteq Modems
  BY <1>1 DEF Live
<1>5. TypesInv'
  BY <1>1, <1>3, <1>4 DEF AccessInv, TypesInv, GoesOn
<1>6. WayInv'
  <2>1. Prepared(op[w])'
    BY <1>1, <1>3, <1>4 DEF Prepared
  <2>2. op'[w].pc \notin {"idle", "entry", "mint"}
    BY <1>3
  <2>3. QED
    BY <1>1, <1>3, <2>1, <2>2, WayMove DEF AccessInv
<1>7. LoginsInv'
  <2>1. op[w].imei \in Modems \ unsure => proxy[op[w].imei] = Accepted(row[op[w].imei])
    BY <1>1, Settled DEF AccessInv, Upkeep
  <2>2. \A r, c : Phase(op'[w], r, c)
    BY <1>3 DEF Phase
  <2>3. QED
    BY <1>1, <1>3, <2>1, <2>2, LoginsMove DEF AccessInv
<1>8. QED
  BY <1>5, <1>6, <1>7 DEF AccessInv

\* The second half: of an operation that ran alone, it sets the way in right.
LEMMA SyncedSteps ==
    ASSUME AccessInv, NEW w \in Workers, Reload(w) \/ Allow(w)
    PROVE  AccessInv'
<1>1. /\ op[w].pc \in {"reload", "allow"} /\ Done(w)
      /\ row' = row /\ cfg' = cfg /\ proxy' = proxy /\ mode' = mode /\ ops' = ops
      /\ frpcFile' = frpcFile /\ unsure' = unsure /\ stale' = (stale /\ ~op[w].alone)
      /\ \/ op[w].pc = "reload" /\ frpc' = frpcFile /\ opened' = opened
         \/ op[w].pc = "allow" /\ opened' = opened \cup Live /\ frpc' = frpc
  BY DEF Reload, Allow, Synced
<1>2. GoesOn(w, op'[w]) /\ op'[w].pc \in {"idle", "entry"}
  BY <1>1, Finished, IdleFit DEF AccessInv
<1>3. Live' = Live /\ Live \subseteq Modems
  BY <1>1 DEF Live
<1>4. stale' \in BOOLEAN /\ (~stale' => ~stale \/ op[w].alone)
  BY <1>1
<1>5. TypesInv'
  BY <1>1, <1>2, <1>3, <1>4 DEF AccessInv, TypesInv, GoesOn
<1>6. WayInv'
  <2>1. Prepared(op[w])'
    BY <1>2 DEF Prepared
  <2>2. op[w].alone => WayRight'
    <3>1. Prepared(op[w])
      BY DEF AccessInv, WayInv
    <3>2. QED
      BY <1>1, <1>3, <3>1 DEF Prepared, WayRight
  <2>3. QED
    BY <1>2, <1>4, <2>1, <2>2, WayMove DEF AccessInv
<1>7. LoginsInv'
  <2>1. op[w].imei \in Modems \ unsure => proxy[op[w].imei] = Accepted(row[op[w].imei])
    BY <1>1, Settled DEF AccessInv, Upkeep
  <2>2. \A r, c : Phase(op'[w], r, c)
    BY <1>2 DEF Phase
  <2>3. QED
    BY <1>1, <1>2, <2>1, <2>2, LoginsMove DEF AccessInv
<1>8. QED
  BY <1>5, <1>6, <1>7 DEF AccessInv

\* An operation is cut: its modem is in doubt if it had the modem in hand.
LEMMA DieSteps ==
    ASSUME AccessInv, NEW w \in Workers, Die(w)
    PROVE  AccessInv'
<1> DEFINE Safe == {"sync", "reload", "allow", "entry", "mint"}
<1>1. /\ op[w].pc # "idle" /\ op[w].pc \in Pcs /\ op' = [op EXCEPT ![w] = Idle]
      /\ row' = row /\ mode' = mode /\ ops' = ops /\ cfg' = cfg /\ proxy' = proxy
      /\ frpcFile' = frpcFile /\ frpc' = frpc /\ opened' = opened /\ stale' = TRUE
      /\ unsure' = IF op[w].pc \in Safe THEN unsure ELSE unsure \cup {op[w].imei}
  BY DEF Die, UnchangedFiles, AccessInv, TypesInv, Operations
<1>2. op[w].pc \notin Safe => op[w].imei \in Modems
  BY <1>1 DEF AccessInv, TypesInv, Fit, Pcs
<1>3. GoesOn(w, Idle)
  BY <1>1, Ended DEF AccessInv
<1>4. op'[w] = Idle /\ GoesOn(w, op'[w]) /\ op'[w].pc = "idle"
  BY <1>3, IdleFit DEF GoesOn
<1>5. TypesInv'
  BY <1>1, <1>2, <1>4 DEF AccessInv, TypesInv, GoesOn
<1>6. WayInv'
  <2>1. Prepared(op[w])'
    BY <1>4 DEF Prepared
  <2>2. QED
    BY <1>1, <1>4, <2>1, WayMove DEF AccessInv
<1>7. LoginsInv'
  <2>1. op[w].imei \in Modems \ unsure' => proxy[op[w].imei] = Accepted(row[op[w].imei])
    BY <1>1, Settled DEF AccessInv, Upkeep
  <2>2. \A r, c : Phase(op'[w], r, c)
    BY <1>4 DEF Phase
  <2>3. QED
    BY <1>1, <1>4, <2>1, <2>2, LoginsMove DEF AccessInv
<1>8. QED
  BY <1>5, <1>6, <1>7 DEF AccessInv

LEMMA AccessStep ==
    ASSUME AccessInv, [Next]_vars
    PROVE  AccessInv'
<1>1. CASE UNCHANGED vars
  <2>1. /\ row' = row /\ cfg' = cfg /\ proxy' = proxy /\ mode' = mode /\ frpcFile' = frpcFile
        /\ frpc' = frpc /\ opened' = opened /\ op' = op /\ ops' = ops /\ unsure' = unsure
        /\ stale' = stale
    BY <1>1 DEF vars
  <2>2. TypesInv'
    BY <2>1 DEF AccessInv, TypesInv
  <2>3. WayInv'
    BY <2>1 DEF AccessInv, WayInv, Prepared, WayRight, Live
  <2>4. LoginsInv'
    BY <2>1 DEF AccessInv, LoginsInv
  <2>5. QED
    BY <2>2, <2>3, <2>4 DEF AccessInv
<1>2. ASSUME NEW w \in Workers, Begin(w)
      PROVE  AccessInv'
  <2>1. PICK ms \in SUBSET Modems, new \in Operations : Begun(w, ms, new)
    BY <1>2, BeginShape DEF AccessInv
  <2>2. QED
    BY <2>1, BeginTypes, BeginWay, BeginLogins DEF AccessInv
<1>3. ASSUME NEW w \in Workers, Continue(w) \/ Die(w)
      PROVE  AccessInv'
  BY <1>3, EntrySteps, MintSteps, AllocateSteps, RenderSteps, RestartSteps, UnlinkSteps,
     SyncSteps, SyncedSteps, DieSteps DEF Continue
<1>4. QED
  BY <1>1, <1>2, <1>3 DEF Next

LEMMA AccessInit ==
    ASSUME Init
    PROVE  AccessInv
<1> DEFINE s0 == CHOOSE s \in Secrets : TRUE
           r0 == [BlankRow EXCEPT !.ports = TRUE, !.main = s0]
<1>1. s0 \in Secrets /\ s0 # 0
  BY SecretsAssumption
<1>2. row = [m \in Modems |-> r0]
  BY DEF Init
<1> HIDE DEF s0
<1>3. Whole(r0) /\ LiveRow(r0) /\ r0 \in PortRows /\ r0.main = s0 /\ r0.store = 0
  BY <1>1 DEF BlankRow, NoRow, Whole, PortRows, LiveRow
<1> HIDE DEF r0
<1>4. AllUsers(r0) = {<<"main", s0>>} /\ {<<"main", s0>>} \in SUBSET Logins
  BY <1>1, <1>3 DEF AllUsers, Logins
<1>5. /\ cfg = [m \in Modems |-> {<<"main", s0>>}] /\ proxy = cfg
      /\ mode = "relay" /\ frpc = Modems /\ frpcFile = Modems /\ opened = {}
      /\ op = [w \in Workers |-> Idle] /\ ops = 0 /\ unsure = {} /\ stale = FALSE
  BY <1>2, <1>3 DEF Init
<1>6. TypesInv
  <2>1. row \in [Modems -> PortRows] /\ \A m \in Modems : Whole(row[m])
    BY <1>2, <1>3
  <2>2. op \in [Workers -> Operations] /\ \A w \in Workers : Fit(op[w])
    BY <1>5, IdleFit DEF Fit
  <2>3. cfg \in [Modems -> SUBSET Logins] /\ proxy \in [Modems -> SUBSET Logins]
    BY <1>4, <1>5
  <2>4. /\ mode \in {"relay", "direct"}
        /\ ops \in 0 .. MaxOps
        /\ stale \in BOOLEAN
    <3>1. mode \in {"relay", "direct"}
      BY <1>5
    <3>2. ops \in 0 .. MaxOps
      BY <1>5, MaxOpsAssumption
    <3>3. stale \in BOOLEAN
      BY <1>5
    <3>4. QED
      BY <3>1, <3>2, <3>3
  <2>5. /\ frpcFile \subseteq Modems /\ frpc \subseteq Modems /\ opened \subseteq Modems
        /\ unsure \subseteq Modems
    BY <1>5
  <2>6. QED
    BY <2>1, <2>2, <2>3, <2>4, <2>5 DEF TypesInv
<1>7. WayInv
  BY <1>2, <1>3, <1>5, IdleFit DEF WayInv, Prepared, WayRight, Live, LiveRow
<1>8. LoginsInv
  <2>1. \A w \in Workers : Touched(op[w]) = {} /\ op[w].imei = NoModem
    BY <1>5, IdleFit, IdleTouched
  <2>2. \A m \in Modems : proxy[m] = Accepted(row[m])
    BY <1>2, <1>3, <1>4, <1>5 DEF Accepted
  <2>3. QED
    BY <2>1, <2>2, NoModemAssumption DEF LoginsInv
<1>9. QED
  BY <1>6, <1>7, <1>8 DEF AccessInv

\* Every operation and row is of its type.
THEOREM AccessTypes == Spec => []TypeOK
<1>1. AccessInv => TypeOK
  <2>1. SUFFICES ASSUME TypesInv
                 PROVE  TypeOK
    BY DEF AccessInv
  <2>2. \A m \in Modems : row[m].has \/ row[m] = NoRow
    BY <2>1 DEF TypesInv, Whole
  <2>3. ASSUME NEW w \in Workers
        PROVE  /\ op[w].pc \in Pcs
               /\ op[w].pc \in {"allocate", "setPort", "render", "restart", "stop",
                               "unlink", "mint"} => op[w].imei \in Modems
    BY <2>1 DEF TypesInv, Fit, Operations
  <2>4. QED
    BY <2>1, <2>2, <2>3 DEF TypesInv, TypeOK, PortRows, Logins
<1>2. QED
  BY <1>1, AccessInit, AccessStep, PTL DEF Spec

\* After one operation that ran alone to its end, the firewall or the tunnel lets in
\* the live modems (publish.sync), whatever was cut or overlapped before.
THEOREM WayInTracksLiveThm == Spec => []WayInTracksLive
<1>1. AccessInv => WayInTracksLive
  <2>1. SUFFICES ASSUME WayInv, Quiet, ~stale
                 PROVE  WayRight
    BY DEF AccessInv, WayInTracksLive, WayRight
  <2>2. QED
    BY <2>1 DEF WayInv, Quiet
<1>2. QED
  BY <1>1, AccessInit, AccessStep, PTL DEF Spec

\* The logins that are handed out are those the proxy accepts (render_modem), of
\* every modem without a doubt, when the storefront has a user name of its own.
THEOREM LoginsWorkThm ==
    ASSUME StoreName # "main"
    PROVE  Spec => []LoginsWork
<1>1. AccessInv => LoginsWork
  <2>1. SUFFICES ASSUME TypesInv, LoginsInv, Quiet, NEW m \in Modems \ unsure
                 PROVE  proxy[m] = IF m \in Live THEN HandedOut(row[m]) ELSE {}
    BY DEF AccessInv, LoginsWork
  <2>2. proxy[m] = Accepted(row[m])
    BY <2>1 DEF LoginsInv, Quiet, Upkeep
  <2>3. AllUsers(row[m]) = HandedOut(row[m])
    <3>1. row[m].main \in Secrets \cup {0} /\ row[m].store \in Secrets \cup {0}
      BY <2>1 DEF TypesInv, PortRows
    <3>2. QED
      BY <3>1, SecretsAssumption DEF AllUsers, HandedOut
  <2>4. m \in Live <=> LiveRow(row[m])
    BY DEF Live, LiveRow
  <2>5. QED
    BY <2>2, <2>3, <2>4 DEF Accepted
<1>2. QED
  BY <1>1, AccessInit, AccessStep, PTL DEF Spec

-----------------------------------------------------------------------------
(* Sticky sessions *)

Bindings == [imei : Modems \cup {NoModem}, expires : Nat]

Requests ==
    [pc : {"idle", "get", "set"}, key : Keys \cup {NoModem}, ttl : Nat,
     pool : SUBSET Modems, imei : Modems \cup {NoModem}]

\* The row of the key whose last answer is t: still that answer, unless it is over.
Bound(s, t, n) == s = t \/ (s = S!NoRow /\ t.expires < n)

\* A request that has chosen its modem has kept the promise t.
Kept(r, t, n) ==
    r.pc = "set" /\ t.imei \in r.pool /\ n <= t.expires => r.imei = t.imei

StickyInv ==
    /\ live \subseteq Modems /\ now \in Nat
    /\ sticky \in [Keys -> Bindings] /\ told \in [Keys -> Bindings]
    /\ req \in [Workers -> Requests]
    /\ \A w \in Workers : req[w].pc # "idle" => req[w].key \in Keys
    /\ \A v, w \in Workers :
          req[v].pc # "idle" /\ req[w].pc # "idle" /\ req[v].key = req[w].key => v = w
    /\ \A k \in Keys : Bound(sticky[k], told[k], now)
    /\ \A w \in Workers : Kept(req[w], told[req[w].key], now)

\* Clients wait for an answer before they ask again, and times are numbers.
Patient == OneAtATime /\ Ttls \subseteq Nat

LEMMA StickyListPool ==
    ASSUME Patient, StickyInv, NEW w \in Workers, NEW k \in Keys, S!ListPool(w, k)
    PROVE  StickyInv'
<1>1. PICK pool \in (SUBSET live) \ {{}}, ttl \in Ttls :
         req' = [req EXCEPT ![w] =
                    [pc |-> "get", key |-> k, ttl |-> ttl, pool |-> pool, imei |-> NoModem]]
  BY DEF S!ListPool
<1> DEFINE r == [pc |-> "get", key |-> k, ttl |-> ttl, pool |-> pool, imei |-> NoModem]
<1>2. r \in Requests /\ r.pc = "get" /\ r.key = k
  BY DEF Requests, Patient, StickyInv
<1>3. req' = [req EXCEPT ![w] = r]
  BY <1>1
<1> HIDE DEF r
<1>4. /\ live' = live /\ now' = now /\ sticky' = sticky /\ told' = told
      /\ req[w].pc = "idle" /\ \A v \in Workers : req[v].pc # "idle" => req[v].key # k
  BY DEF S!ListPool, Patient
<1>5. /\ req' \in [Workers -> Requests] /\ req'[w] = r
      /\ \A v \in Workers : v # w => req'[v] = req[v]
  BY <1>2, <1>3 DEF StickyInv
<1>6. \A v \in Workers : Kept(req'[v], told[req'[v].key], now)
  BY <1>2, <1>5 DEF Kept, StickyInv
<1>7. QED
  BY <1>2, <1>4, <1>5, <1>6 DEF StickyInv

LEMMA StickyStepGet ==
    ASSUME Patient, StickyInv, NEW w \in Workers, S!StickyGet(w)
    PROVE  StickyInv'
<1> DEFINE k == req[w].key
           gone == S!Expired(sticky[k])
           b == IF gone THEN NoModem ELSE sticky[k].imei
<1>1. PICK m \in req[w].pool :
         /\ b \in req[w].pool => m = b
         /\ req' = [req EXCEPT ![w].pc = "set", ![w].imei = m]
  BY DEF S!StickyGet
<1>2. /\ req[w].pc = "get" /\ live' = live /\ now' = now /\ told' = told
      /\ sticky' = IF gone THEN [sticky EXCEPT ![k] = S!NoRow] ELSE sticky
  BY DEF S!StickyGet
<1>3. /\ k \in Keys /\ req[w] \in Requests /\ req[w].pool \subseteq Modems
      /\ Bound(sticky[k], told[k], now) /\ sticky[k] \in Bindings /\ told[k] \in Bindings
      /\ now \in Nat
  BY <1>2 DEF StickyInv, Requests
<1> DEFINE r == [req[w] EXCEPT !.pc = "set", !.imei = m]
<1>4. r \in Requests /\ r.pc = "set" /\ r.key = k /\ r.imei = m /\ r.pool = req[w].pool
  BY <1>3 DEF Requests
<1>5. req' = [req EXCEPT ![w] = r]
  BY <1>1 DEF StickyInv
<1> HIDE DEF r
<1>6. /\ req' \in [Workers -> Requests] /\ req'[w] = r
      /\ \A v \in Workers : v # w => req'[v] = req[v]
  BY <1>4, <1>5 DEF StickyInv
<1>7. S!NoRow \in Bindings
  BY DEF S!NoRow, Bindings
<1>8. sticky' \in [Keys -> Bindings] /\ \A n \in Keys : n # k => sticky'[n] = sticky[n]
  BY <1>2, <1>7 DEF StickyInv
<1>9. Bound(sticky'[k], told[k], now)
  <2>1. CASE gone
    <3>1. sticky'[k] = S!NoRow
      BY <1>2, <1>3, <2>1 DEF StickyInv
    <3>2. told[k].expires < now
      BY <1>3, <2>1 DEF Bound, S!Expired
    <3>3. QED
      BY <3>1, <3>2 DEF Bound
  <2>2. CASE ~gone
    BY <1>2, <1>3, <2>2
  <2>3. QED
    BY <2>1, <2>2
<1>10. Kept(r, told[k], now)
  <2>1. SUFFICES ASSUME told[k].imei \in req[w].pool, now <= told[k].expires
                 PROVE  m = told[k].imei
    BY <1>4 DEF Kept
  <2>2. sticky[k] = told[k]
    BY <1>3, <2>1 DEF Bound, Bindings
  <2>3. ~gone
    BY <1>3, <2>1, <2>2 DEF S!Expired, Bindings
  <2>4. QED
    BY <1>1, <2>1, <2>2, <2>3
<1>11. \A v \in Workers : Kept(req'[v], told[req'[v].key], now)
  BY <1>4, <1>6, <1>10 DEF StickyInv
<1>12. \A n \in Keys : Bound(sticky'[n], told[n], now)
  BY <1>8, <1>9 DEF StickyInv
<1>13. \A u, v \in Workers :
          req'[u].pc # "idle" /\ req'[v].pc # "idle" /\ req'[u].key = req'[v].key => u = v
  BY <1>2, <1>4, <1>6 DEF StickyInv
<1>14. \A v \in Workers : req'[v].pc # "idle" => req'[v].key \in Keys
  BY <1>3, <1>4, <1>6 DEF StickyInv
<1>15. QED
  BY <1>2, <1>6, <1>8, <1>11, <1>12, <1>13, <1>14 DEF StickyInv

LEMMA StickyStepSet ==
    ASSUME Patient, StickyInv, NEW w \in Workers, S!StickySet(w)
    PROVE  StickyInv'
<1> DEFINE k == req[w].key
           b == [imei |-> req[w].imei, expires |-> now + req[w].ttl]
<1>1. /\ req[w].pc = "set" /\ live' = live /\ now' = now
      /\ sticky' = [sticky EXCEPT ![k] = b] /\ told' = [told EXCEPT ![k] = b]
      /\ req' = [req EXCEPT ![w] = S!NoRequest]
  BY DEF S!StickySet
<1>2. k \in Keys /\ req[w] \in Requests /\ now \in Nat
  BY <1>1 DEF StickyInv
<1>3. b \in Bindings
  BY <1>2 DEF Bindings, Requests
<1> HIDE DEF b
<1>4. /\ sticky' \in [Keys -> Bindings] /\ told' \in [Keys -> Bindings]
      /\ sticky'[k] = told'[k]
      /\ \A n \in Keys : n # k => sticky'[n] = sticky[n] /\ told'[n] = told[n]
  BY <1>1, <1>2, <1>3 DEF StickyInv
<1>5. S!NoRequest \in Requests /\ S!NoRequest.pc = "idle"
  BY DEF S!NoRequest, Requests
<1>6. /\ req' \in [Workers -> Requests] /\ req'[w].pc = "idle"
      /\ \A v \in Workers : v # w => req'[v] = req[v]
  BY <1>1, <1>5 DEF StickyInv
<1>7. ASSUME NEW v \in Workers
      PROVE  Kept(req'[v], told'[req'[v].key], now)
  <2>1. CASE v = w \/ req[v].pc = "idle"
    BY <1>6, <2>1 DEF Kept
  <2>2. CASE v # w /\ req[v].pc # "idle"
    <3>1. req[v].key \in Keys /\ req[v].key # k
      BY <1>1, <2>2 DEF StickyInv
    <3>2. QED
      BY <1>4, <1>6, <2>2, <3>1 DEF StickyInv
  <2>3. QED
    BY <2>1, <2>2
<1>8. \A n \in Keys : Bound(sticky'[n], told'[n], now)
  BY <1>4 DEF StickyInv, Bound
<1>9. QED
  BY <1>1, <1>4, <1>6, <1>7, <1>8 DEF StickyInv

\* Modems come and go, the clock moves.
LEMMA StickyAround ==
    ASSUME Patient, StickyInv, (\E m \in Modems : S!Change(m)) \/ S!Tick
    PROVE  StickyInv'
<1>1. /\ sticky' = sticky /\ told' = told /\ req' = req /\ live' \subseteq Modems
      /\ now' \in {now, now + 1}
  BY DEF S!Change, S!Tick, StickyInv
<1>2. now' \in Nat /\ now' >= now /\ now \in Nat
  BY <1>1 DEF StickyInv
<1>3. ASSUME NEW k \in Keys
      PROVE  Bound(sticky[k], told[k], now')
  <2>1. told[k].expires \in Nat /\ Bound(sticky[k], told[k], now)
    BY DEF StickyInv, Bindings
  <2>2. QED
    BY <1>2, <2>1 DEF Bound
<1>4. ASSUME NEW w \in Workers
      PROVE  Kept(req[w], told[req[w].key], now')
  <2>1. CASE req[w].pc = "set"
    <3>1. told[req[w].key].expires \in Nat /\ Kept(req[w], told[req[w].key], now)
      BY <2>1 DEF StickyInv, Bindings
    <3>2. QED
      BY <1>2, <3>1 DEF Kept
  <2>2. CASE req[w].pc # "set"
    BY <2>2 DEF Kept
  <2>3. QED
    BY <2>1, <2>2
<1>5. QED
  BY <1>1, <1>2, <1>3, <1>4 DEF StickyInv

LEMMA StickyStep ==
    ASSUME Patient, StickyInv, [S!Next]_(S!vars)
    PROVE  StickyInv'
<1>1. CASE UNCHANGED S!vars
  BY <1>1 DEF S!vars, StickyInv
<1>2. CASE S!Next
  BY <1>2, StickyListPool, StickyStepGet, StickyStepSet, StickyAround DEF S!Next
<1>3. QED
  BY <1>1, <1>2

LEMMA StickyInit ==
    ASSUME Patient, S!Init
    PROVE  StickyInv
<1>1. S!NoRow \in Bindings
  BY DEF S!NoRow, Bindings
<1>2. S!NoRequest \in Requests /\ S!NoRequest.pc = "idle"
  BY DEF S!NoRequest, Requests
<1>3. QED
  BY <1>1, <1>2 DEF S!Init, StickyInv, Bound, Kept

\* "Return the same live proxy for a given session key within its TTL" (app.py:789),
\* to clients that wait for an answer before they ask again.
THEOREM StickyKeptThm ==
    ASSUME Patient
    PROVE  S!Spec => StickyKept
<1>1. S!Init => StickyInv
  BY StickyInit
<1>2. StickyInv /\ [S!Next]_(S!vars) => StickyInv'
  BY StickyStep
<1>3. StickyInv /\ [S!Next]_(S!vars) => [\A w \in Workers : S!AnswerKept(w)]_stickyVars
  BY DEF StickyInv, Kept, S!AnswerKept
<1>4. QED
  BY <1>1, <1>2, <1>3, PTL DEF S!Spec, StickyKept

-----------------------------------------------------------------------------
(* Bandwidth: what a report adds up                                          *)

\* Samplers do not overlap and can read their counters.
Readable ==
    OneAtATime /\ ReadsFail = FALSE /\ NoAddress \notin Addresses /\ MaxBytes \in Nat

Counters == [B!Ways -> Nat]

Samples == [bytes : Counters, seen : Counters, era : Nat, moved : BOOLEAN]

Samplings ==
    [pc : {"idle", "tx", "rx", "insert"}, addr : Addresses \cup {NoAddress},
     read : Counters, seen : Counters]

\* A counter that read b in the era e, when v bytes had been carried, reads c in
\* the era f, when u had been; mv: its rule may be of another address.
Follows(b, v, e, c, u, f, mv) ==
    /\ v <= u
    /\ e # f => c <= u - v
    /\ e = f => /\ b <= c /\ c - b <= u - v
                /\ mv = FALSE => c - b = u - v

\* Each row follows the one before it, way by way.
Chained(r) ==
    \A n \in 2 .. Len(r) :
        /\ r[n - 1].era <= r[n].era
        /\ r[n - 1].era = r[n].era /\ r[n].moved = FALSE => r[n - 1].moved = FALSE
        /\ \A w \in B!Ways :
              Follows(r[n - 1].bytes[w], r[n - 1].seen[w], r[n - 1].era,
                      r[n].bytes[w], r[n].seen[w], r[n].era, r[n].moved)

LEMMA LeastNat ==
    ASSUME NEW T, T \subseteq Nat, T # {}
    PROVE  \E x \in T : \A y \in T : x <= y
<1> DEFINE Below == {ss \in Nat \X Nat : ss[1] < ss[2]}
<1>1. IsWellFoundedOn(Below, Nat)
  BY NatLessThanWellFounded DEF OpToRel
<1>2. PICK x \in T : \A y \in T : <<y, x>> \notin Below
  BY <1>1, WFMin
<1>3. ASSUME NEW y \in T
      PROVE  x <= y
  <2>1. <<y, x>> \in Nat \X Nat
    OBVIOUS
  <2>2. QED
    BY <1>2, <2>1
<1>4. QED
  BY <1>3

\* Usage is the last of its running totals.
LEMMA RunningTotals ==
    ASSUME NEW w \in B!Ways, NEW i \in Nat, NEW j \in Nat, i <= j
    PROVE  \E f : /\ f = [n \in i .. j |-> IF n = i THEN 0 ELSE f[n - 1] + B!Delta(w, n)]
                  /\ B!Usage(w, i, j) = f[j]
<1> DEFINE T(f, k) == f = [n \in i .. k |-> IF n = i THEN 0 ELSE f[n - 1] + B!Delta(w, n)]
<1>1. \A k \in Nat : i <= k => \E f : T(f, k)
  <2> DEFINE Lost == {k \in Nat : i <= k /\ ~ \E f : T(f, k)}
  <2>1. SUFFICES ASSUME Lost # {}
                 PROVE  FALSE
    OBVIOUS
  <2>2. PICK k \in Lost : \A y \in Lost : k <= y
    <3>1. Lost \subseteq Nat
      OBVIOUS
    <3> HIDE DEF Lost
    <3>2. QED
      BY <2>1, <3>1, LeastNat
  <2>3. k # i
    <3> DEFINE g == [n \in i .. i |-> 0]
    <3>1. \A n \in i .. i : g[n] = IF n = i THEN 0 ELSE g[n - 1] + B!Delta(w, n)
      OBVIOUS
    <3>2. T(g, i)
      BY <3>1
    <3>3. QED
      BY <2>2, <3>2
  <2>4. k - 1 \in Nat /\ i <= k - 1 /\ k - 1 \notin Lost
    <3>1. k \in Nat /\ i <= k
      OBVIOUS
    <3>2. k - 1 \in Nat /\ i <= k - 1 /\ ~(k <= k - 1)
      BY <2>3, <3>1
    <3> HIDE DEF Lost
    <3>3. QED
      BY <2>2, <3>2
  <2>5. PICK f : T(f, k - 1)
    BY <2>4 DEF Lost
  <2> DEFINE g == [n \in i .. k |-> IF n = k THEN f[k - 1] + B!Delta(w, k) ELSE f[n]]
  <2>6. ASSUME NEW n \in i .. k
        PROVE  g[n] = IF n = i THEN 0 ELSE g[n - 1] + B!Delta(w, n)
    <3>1. CASE n = k
      BY <2>2, <2>3, <2>4, <3>1
    <3>2. CASE n # k
      <4>1. n \in i .. k - 1 /\ (n # i => n - 1 \in i .. k - 1)
        BY <2>2, <3>2
      <4>2. f[n] = IF n = i THEN 0 ELSE f[n - 1] + B!Delta(w, n)
        BY <2>5, <4>1
      <4>3. g[n] = f[n] /\ (n # i => g[n - 1] = f[n - 1])
        BY <2>2, <3>2, <4>1
      <4>4. QED
        BY <4>2, <4>3
    <3>3. QED
      BY <3>1, <3>2
  <2>7. T(g, k)
    BY <2>6
  <2>8. QED
    BY <2>2, <2>7
<1>2. B!Usage(w, i, j) = (CHOOSE f : T(f, j))[j]
  BY Zenon DEF B!Usage
<1>3. ASSUME \E f : T(f, j)
      PROVE  T(CHOOSE f : T(f, j), j)
  BY <1>3, Zenon
<1>4. T(CHOOSE f : T(f, j), j)
  BY <1>1, <1>3
<1>5. QED
  BY <1>2, <1>4

LEMMA SampleTypes ==
    ASSUME rows \in Seq(Samples), NEW n \in 1 .. Len(rows), NEW w \in B!Ways
    PROVE  /\ rows[n].bytes[w] \in Nat /\ rows[n].seen[w] \in Nat
           /\ rows[n].era \in Nat /\ rows[n].moved \in BOOLEAN
<1>1. rows[n] \in Samples
  OBVIOUS
<1>2. QED
  BY <1>1 DEF Samples, Counters

\* What a row adds to the total.
LEMMA DeltaIsTraffic ==
    ASSUME rows \in Seq(Samples), Chained(rows), NEW w \in B!Ways, NEW n \in 2 .. Len(rows)
    PROVE  LET used == rows[n].seen[w] - rows[n - 1].seen[w]
           IN  /\ B!Delta(w, n) \in Nat
               /\ B!Delta(w, n) <= used
               /\ rows[n - 1].era = rows[n].era /\ rows[n].moved = FALSE
                     => B!Delta(w, n) = used
<1>1. n \in 1 .. Len(rows) /\ n - 1 \in 1 .. Len(rows)
  OBVIOUS
<1> DEFINE b == rows[n - 1].bytes[w]
           v == rows[n - 1].seen[w]
           e == rows[n - 1].era
           c == rows[n].bytes[w]
           u == rows[n].seen[w]
           f == rows[n].era
           mv == rows[n].moved
<1>2. b \in Nat /\ v \in Nat /\ e \in Nat /\ c \in Nat /\ u \in Nat /\ f \in Nat
  BY <1>1, SampleTypes
<1>3. Follows(b, v, e, c, u, f, mv)
  BY DEF Chained
<1>4. B!Delta(w, n) = IF c - b >= 0 THEN c - b ELSE 0
  BY DEF B!Delta
<1> HIDE DEF b, v, e, c, u, f, mv
<1>5. /\ B!Delta(w, n) \in Nat
      /\ B!Delta(w, n) <= u - v
      /\ e = f /\ mv = FALSE => B!Delta(w, n) = u - v
  BY <1>2, <1>3, <1>4 DEF Follows
<1>6. QED
  BY <1>5 DEF b, v, e, c, u, f, mv

\* A running total tells no more than was carried, and all of it within an era.
LEMMA TotalIsTraffic ==
    ASSUME rows \in Seq(Samples), Chained(rows), NEW w \in B!Ways,
           NEW i \in 1 .. Len(rows), NEW j \in 1 .. Len(rows), i <= j, NEW f,
           f = [n \in i .. j |-> IF n = i THEN 0 ELSE f[n - 1] + B!Delta(w, n)]
    PROVE  LET used == rows[j].seen[w] - rows[i].seen[w]
           IN  /\ f[j] <= used
               /\ rows[i].era = rows[j].era /\ rows[j].moved = FALSE => f[j] = used
<1> DEFINE seen(n) == rows[n].seen[w]
           Good(n) == /\ f[n] \in Nat /\ f[n] <= seen(n) - seen(i)
                      /\ rows[i].era <= rows[n].era
                      /\ rows[i].era = rows[n].era /\ rows[n].moved = FALSE
                            => f[n] = seen(n) - seen(i)
           Bad == {n \in i .. j : ~Good(n)}
<1>1. SUFFICES Bad = {}
  <2>1. ASSUME Good(j)
        PROVE  LET used == rows[j].seen[w] - rows[i].seen[w]
               IN  /\ f[j] <= used
                   /\ rows[i].era = rows[j].era /\ rows[j].moved = FALSE => f[j] = used
    BY <2>1
  <2> HIDE DEF Good
  <2>2. Bad = {} => Good(j)
    OBVIOUS
  <2>3. QED
    BY <2>1, <2>2
<1>2. SUFFICES ASSUME Bad # {}
               PROVE  FALSE
  OBVIOUS
<1>3. PICK k \in Bad : \A y \in Bad : k <= y
  <2>1. Bad \subseteq Nat
    OBVIOUS
  <2> HIDE DEF Bad
  <2>2. QED
    BY <1>2, <2>1, LeastNat
<1>4. k \in i .. j /\ ~Good(k)
  OBVIOUS
<1>5. ASSUME NEW n \in i .. j
      PROVE  seen(n) \in Nat /\ rows[n].era \in Nat /\ rows[n].moved \in BOOLEAN
  <2>1. n \in 1 .. Len(rows)
    OBVIOUS
  <2>2. QED
    BY <2>1, SampleTypes
<1>6. k # i
  <2>1. f[i] = 0 /\ i \in i .. j
    OBVIOUS
  <2> HIDE DEF seen
  <2>2. Good(i)
    BY <1>5, <2>1
  <2>3. QED
    BY <1>4, <2>2
<1>7. k - 1 \in i .. j /\ Good(k - 1)
  <2>1. k - 1 \in i .. j /\ ~(k <= k - 1)
    BY <1>4, <1>6
  <2>2. k - 1 \notin Bad
    <3> HIDE DEF Bad
    <3>1. QED
      BY <1>3, <2>1
  <2> HIDE DEF Good
  <2>3. QED
    BY <2>1, <2>2
<1>8. f[k] = f[k - 1] + B!Delta(w, k)
  BY <1>4, <1>6
<1>9. k \in 2 .. Len(rows)
  BY <1>4, <1>6
<1>10. /\ B!Delta(w, k) \in Nat /\ B!Delta(w, k) <= seen(k) - seen(k - 1)
       /\ rows[k - 1].era = rows[k].era /\ rows[k].moved = FALSE
             => B!Delta(w, k) = seen(k) - seen(k - 1)
  BY <1>9, DeltaIsTraffic
<1>11. /\ rows[k - 1].era <= rows[k].era
       /\ rows[k - 1].era = rows[k].era /\ rows[k].moved = FALSE => rows[k - 1].moved = FALSE
  BY <1>9 DEF Chained
<1>12. /\ seen(i) \in Nat /\ seen(k) \in Nat /\ seen(k - 1) \in Nat
       /\ rows[i].era \in Nat /\ rows[k].era \in Nat /\ rows[k - 1].era \in Nat
  BY <1>4, <1>5, <1>7
<1>13. Good(k)
  <2> DEFINE D == B!Delta(w, k)
             x == f[k - 1]
             y == f[k]
             v == seen(i)
             u == seen(k - 1)
             t == seen(k)
             e == rows[i].era
             g == rows[k - 1].era
             h == rows[k].era
             calm == rows[k].moved = FALSE
  <2>1. x \in Nat /\ D \in Nat /\ y = x + D
    BY <1>7, <1>8, <1>10
  <2>2. x <= u - v /\ D <= t - u
    BY <1>7, <1>10
  <2>3. e <= g /\ g <= h
    BY <1>7, <1>11
  <2>4. v \in Nat /\ u \in Nat /\ t \in Nat /\ e \in Nat /\ g \in Nat /\ h \in Nat
    BY <1>12
  <2>5. g = h /\ calm => D = t - u /\ (e = g => x = u - v)
    BY <1>7, <1>10, <1>11
  <2>6. /\ y \in Nat /\ y <= t - v /\ e <= h
        /\ e = h /\ calm => y = t - v
    <3> HIDE DEF D, x, y, v, u, t, e, g, h, calm
    <3>1. QED
      BY ONLY <2>1, <2>2, <2>3, <2>4, <2>5
  <2>7. QED
    BY <2>6
<1>14. QED
  BY <1>4, <1>13

LEMMA ChainedIsTraffic ==
    ASSUME rows \in Seq(Samples), Chained(rows)
    PROVE  UsageIsTraffic
<1>1. SUFFICES ASSUME NEW i \in 1 .. Len(rows), NEW j \in 1 .. Len(rows), i <= j,
                      NEW w \in B!Ways
               PROVE  LET used == rows[j].seen[w] - rows[i].seen[w]
                      IN  /\ B!Usage(w, i, j) <= used
                          /\ rows[i].era = rows[j].era /\ ~rows[j].moved
                                => B!Usage(w, i, j) = used
  BY DEF UsageIsTraffic, B!UsageIsTraffic
<1>2. PICK f : /\ f = [n \in i .. j |-> IF n = i THEN 0 ELSE f[n - 1] + B!Delta(w, n)]
               /\ B!Usage(w, i, j) = f[j]
  <2>1. i \in Nat /\ j \in Nat
    OBVIOUS
  <2>2. QED
    BY <1>1, <2>1, RunningTotals
<1>3. LET used == rows[j].seen[w] - rows[i].seen[w]
      IN  /\ f[j] <= used
          /\ rows[i].era = rows[j].era /\ rows[j].moved = FALSE => f[j] = used
  BY <1>1, <1>2, TotalIsTraffic
<1>4. rows[j].moved \in BOOLEAN
  BY SampleTypes
<1>5. QED
  BY <1>2, <1>3, <1>4


\* The counter that is read of way w, and whether there is one.
Counted(w) == addr = NoAddress \/ rules[w] # <<>>

Meter(w) == IF addr = NoAddress THEN iface[w] ELSE rules[w][1].bytes

\* The counter follows on b, which was read in the era e when v had been carried.
Tracks(b, v, e, w) ==
    /\ v <= carried[w] /\ e <= era
    /\ e = era => Counted(w)
    /\ Counted(w) => Follows(b, v, e, Meter(w), carried[w], era, moved)

LastRow == rows[Len(rows)]

\* The sampling r has read way w.
HasRead(r, w) == r.pc = "insert" \/ (r.pc = "rx" /\ w = "tx")

\* What it read follows on the last row, and the counter on it.
ReadsWell(r) ==
    r.pc # "idle" =>
        /\ r.addr = NoAddress <=> addr = NoAddress
        /\ \A w \in B!Ways :
              /\ Counted(w)
              /\ HasRead(r, w) =>
                    IF addr = NoAddress THEN r.read[w] = B!None
                    ELSE /\ r.read[w] <= MaxBytes
                         /\ Tracks(r.read[w], r.seen[w], era, w)
                         /\ rows # <<>> =>
                               Follows(LastRow.bytes[w], LastRow.seen[w], LastRow.era,
                                       r.read[w], r.seen[w], era, moved)

RuleRows == [ip : Addresses, bytes : Nat]

CountersOK ==
    /\ addr \in Addresses \cup {NoAddress}
    /\ rules \in [B!Ways -> Seq(RuleRows)]
    /\ iface \in [B!Ways -> Nat] /\ carried \in [B!Ways -> 0 .. MaxBytes]
    /\ era \in Nat /\ moved \in BOOLEAN
    /\ \A w \in B!Ways : addr # NoAddress /\ Counted(w) =>
          /\ Meter(w) <= carried[w]
          /\ moved = FALSE => rules[w][1].ip = addr

BandwidthInv ==
    /\ CountersOK
    /\ rows \in Seq(Samples) /\ Chained(rows)
    /\ rows # <<>> =>
          /\ LastRow.era = era /\ moved = FALSE => LastRow.moved = FALSE
          /\ \A w \in B!Ways : Tracks(LastRow.bytes[w], LastRow.seen[w], LastRow.era, w)
    /\ sampler \in [Samplers -> Samplings]
    /\ \A s \in Samplers : ReadsWell(sampler[s])
    /\ \A s, t \in Samplers : sampler[s].pc # "idle" /\ sampler[t].pc # "idle" => s = t

-----------------------------------------------------------------------------
(* Counters that go on, stop and start again *)

LEMMA FollowsMoved ==
    ASSUME NEW b \in Nat, NEW v \in Nat, NEW e \in Nat, NEW c \in Nat, NEW u \in Nat,
           NEW f \in Nat, NEW mv, NEW nv, nv = mv \/ nv # FALSE, Follows(b, v, e, c, u, f, mv)
    PROVE  Follows(b, v, e, c, u, f, nv)
BY DEF Follows

LEMMA FollowsItself ==
    ASSUME NEW b \in Nat, NEW v \in Nat, NEW e, NEW mv
    PROVE  Follows(b, v, e, b, v, e, mv)
BY DEF Follows

\* What one counter follows on, another that follows on it follows on.
LEMMA FollowsOn ==
    ASSUME NEW b \in Nat, NEW v \in Nat, NEW e \in Nat, NEW c \in Nat, NEW u \in Nat,
           NEW f \in Nat, NEW d \in Nat, NEW t \in Nat, NEW mv,
           Follows(b, v, e, c, u, f, mv), Follows(c, u, f, d, t, f, mv)
    PROVE  Follows(b, v, e, d, t, f, mv)
BY DEF Follows

LEMMA MeterTypes ==
    ASSUME CountersOK, NEW w \in B!Ways
    PROVE  /\ carried[w] \in Nat /\ carried[w] <= MaxBytes
           /\ Counted(w) => Meter(w) \in Nat
<1>1. carried[w] \in 0 .. MaxBytes /\ iface[w] \in Nat /\ rules[w] \in Seq(RuleRows)
  BY DEF CountersOK
<1>2. ASSUME rules[w] # <<>>
      PROVE  rules[w][1] \in RuleRows
  BY <1>1, <1>2
<1>3. QED
  BY <1>1, <1>2 DEF Counted, Meter, RuleRows

LEMMA MeterTypesNext ==
    ASSUME CountersOK', NEW w \in B!Ways
    PROVE  /\ carried'[w] \in Nat /\ carried'[w] <= MaxBytes
           /\ Counted(w)' => Meter(w)' \in Nat
<1>1. carried'[w] \in 0 .. MaxBytes /\ iface'[w] \in Nat /\ rules'[w] \in Seq(RuleRows)
  BY DEF CountersOK
<1>2. ASSUME rules'[w] # <<>>
      PROVE  rules'[w][1] \in RuleRows
  BY <1>1, <1>2
<1>3. QED
  BY <1>1, <1>2 DEF Counted, Meter, RuleRows

\* The counter goes on, or counts no more once its address was changed.
LEMMA TracksOn ==
    ASSUME CountersOK, CountersOK', MaxBytes \in Nat, NEW w \in B!Ways, era' = era,
           Counted(w), Counted(w)', moved' = moved \/ moved' # FALSE,
           Follows(Meter(w), carried[w], era, Meter(w)', carried'[w], era, moved'),
           NEW b \in Nat, NEW v \in Nat, NEW e \in Nat, Tracks(b, v, e, w)
    PROVE  Tracks(b, v, e, w)'
<1> DEFINE c == Meter(w)
           u == carried[w]
           d == Meter(w)'
           t == carried'[w]
<1>1. c \in Nat /\ u \in Nat /\ d \in Nat /\ t \in Nat /\ era \in Nat
  <2>1. c \in Nat /\ u \in Nat /\ era \in Nat
    BY MeterTypes DEF CountersOK
  <2>2. d \in Nat /\ t \in Nat
    BY MeterTypesNext
  <2>3. QED
    BY <2>1, <2>2
<1>2. Follows(b, v, e, c, u, era, moved) /\ v <= u /\ e <= era
  BY DEF Tracks
<1>3. Follows(c, u, era, d, t, era, moved')
  OBVIOUS
<1> HIDE DEF c, u, d, t
<1>4. Follows(b, v, e, c, u, era, moved')
  BY <1>1, <1>2, FollowsMoved
<1>5. Follows(b, v, e, d, t, era, moved') /\ v <= t
  <2>1. u <= t
    BY <1>3 DEF Follows
  <2>2. v <= t
    BY <1>1, <1>2, <2>1
  <2>3. Follows(b, v, e, d, t, era, moved')
    BY <1>1, <1>3, <1>4, FollowsOn
  <2>4. QED
    BY <2>2, <2>3
<1>6. QED
  BY <1>2, <1>5 DEF Tracks, d, t

\* The counter starts from zero in another era.
LEMMA TracksAnew ==
    ASSUME CountersOK, NEW w \in B!Ways, carried' = carried, era \in Nat,
           \/ era' = era + 1 /\ (Counted(w)' => Meter(w)' = 0)
           \/ era' = era /\ ~Counted(w) /\ Counted(w)' /\ Meter(w)' = 0,
           NEW b \in Nat, NEW v \in Nat, NEW e \in Nat, Tracks(b, v, e, w)
    PROVE  Tracks(b, v, e, w)'
<1> DEFINE u == carried[w]
<1>1. u \in Nat
  BY MeterTypes
<1>2. v <= u /\ e <= era /\ (e = era => Counted(w))
  BY DEF Tracks
<1>3. e # era' /\ e <= era'
  BY <1>2
<1>4. Follows(b, v, e, 0, u, era', moved')
  BY <1>1, <1>2, <1>3 DEF Follows
<1>5. Counted(w)' => Follows(b, v, e, Meter(w)', u, era', moved')
  BY <1>4
<1>6. QED
  BY <1>2, <1>3, <1>5 DEF Tracks

LEMMA LastTypes ==
    ASSUME rows \in Seq(Samples), rows # <<>>, NEW w \in B!Ways
    PROVE  /\ LastRow.bytes[w] \in Nat /\ LastRow.seen[w] \in Nat
           /\ LastRow.era \in Nat /\ LastRow.moved \in BOOLEAN
<1>1. Len(rows) \in 1 .. Len(rows)
  OBVIOUS
<1>2. QED
  BY <1>1, SampleTypes DEF LastRow

\* What a step of the world keeps of the counters.
Undisturbed ==
    /\ CountersOK' /\ rows' = rows
    /\ addr = NoAddress <=> addr' = NoAddress
    /\ moved' = moved \/ moved' # FALSE
    /\ era' = era \/ (addr = NoAddress /\ era' = era + 1)
    /\ \A w \in B!Ways : Counted(w) => Counted(w)'
    /\ \A w \in B!Ways : \A b, v, e \in Nat : Tracks(b, v, e, w) => Tracks(b, v, e, w)'

\* A sampling under way is none the worse for it.
LEMMA ReadsOn ==
    ASSUME BandwidthInv, Undisturbed, NEW r \in Samplings, ReadsWell(r)
    PROVE  ReadsWell(r)'
<1>1. SUFFICES ASSUME r.pc # "idle"
               PROVE  ReadsWell(r)'
  BY DEF ReadsWell
<1>2. r.addr = NoAddress <=> addr' = NoAddress
  BY <1>1 DEF ReadsWell, Undisturbed
<1>3. ASSUME NEW w \in B!Ways
      PROVE  Counted(w)'
  BY <1>1, <1>3 DEF ReadsWell, Undisturbed
<1>4. ASSUME NEW w \in B!Ways, HasRead(r, w), addr = NoAddress
      PROVE  r.read[w] = B!None
  BY <1>1, <1>4 DEF ReadsWell
<1>5. ASSUME NEW w \in B!Ways, HasRead(r, w), addr # NoAddress
      PROVE  /\ r.read[w] <= MaxBytes
             /\ Tracks(r.read[w], r.seen[w], era, w)'
             /\ rows # <<>> =>
                   Follows(LastRow.bytes[w], LastRow.seen[w], LastRow.era,
                           r.read[w], r.seen[w], era, moved')
  <2>1. r.read[w] \in Nat /\ r.seen[w] \in Nat /\ era \in Nat /\ moved \in BOOLEAN
    BY DEF Samplings, Counters, BandwidthInv, CountersOK
  <2>2. /\ r.read[w] <= MaxBytes
        /\ Tracks(r.read[w], r.seen[w], era, w)
        /\ rows # <<>> =>
              Follows(LastRow.bytes[w], LastRow.seen[w], LastRow.era,
                      r.read[w], r.seen[w], era, moved)
    BY <1>1, <1>5 DEF ReadsWell
  <2>3. era' = era /\ (moved' = moved \/ moved' # FALSE)
    BY <1>5 DEF Undisturbed
  <2>4. Tracks(r.read[w], r.seen[w], era, w)'
    <3>1. PICK e \in Nat : e = era /\ e = era'
      BY <2>1, <2>3
    <3>2. Tracks(r.read[w], r.seen[w], e, w)
      BY <2>2, <3>1
    <3>3. Tracks(r.read[w], r.seen[w], e, w)'
      BY <2>1, <3>2 DEF Undisturbed
    <3>4. QED
      BY <3>1, <3>3
  <2>5. ASSUME rows # <<>>
        PROVE  Follows(LastRow.bytes[w], LastRow.seen[w], LastRow.era,
                       r.read[w], r.seen[w], era, moved')
    <3>1. LastRow.bytes[w] \in Nat /\ LastRow.seen[w] \in Nat /\ LastRow.era \in Nat
      BY <2>5, LastTypes DEF BandwidthInv
    <3>2. QED
      BY <2>1, <2>2, <2>3, <2>5, <3>1, FollowsMoved
  <2>6. QED
    BY <2>2, <2>3, <2>4, <2>5
<1>6. QED
  BY <1>1, <1>2, <1>3, <1>4, <1>5 DEF ReadsWell, HasRead, Undisturbed, LastRow, B!None

\* The last row is followed as before.
LEMMA LastOn ==
    ASSUME BandwidthInv, Undisturbed, rows # <<>>
    PROVE  /\ LastRow.era = era' /\ moved' = FALSE => LastRow.moved = FALSE
           /\ \A w \in B!Ways : Tracks(LastRow.bytes[w], LastRow.seen[w], LastRow.era, w)'
<1>1. era \in Nat /\ moved \in BOOLEAN /\ rows \in Seq(Samples) /\ rows' = rows
  BY DEF BandwidthInv, CountersOK, Undisturbed
<1>2. PICK w0 \in B!Ways : TRUE
  BY DEF B!Ways
<1>3. LastRow.era \in Nat /\ LastRow.era <= era
  <2>1. Tracks(LastRow.bytes[w0], LastRow.seen[w0], LastRow.era, w0)
    BY <1>2 DEF BandwidthInv
  <2>2. LastRow.era \in Nat
    BY <1>1, <1>2, LastTypes
  <2>3. QED
    BY <2>1, <2>2 DEF Tracks
<1>4. ASSUME LastRow.era = era', moved' = FALSE
      PROVE  LastRow.moved = FALSE
  <2>1. era' = era \/ era' = era + 1
    BY DEF Undisturbed
  <2>2. LastRow.era = era
    BY <1>1, <1>3, <1>4, <2>1
  <2>3. moved = FALSE
    BY <1>4 DEF Undisturbed
  <2>4. QED
    BY <2>2, <2>3 DEF BandwidthInv
<1>5. ASSUME NEW w \in B!Ways
      PROVE  Tracks(LastRow.bytes[w], LastRow.seen[w], LastRow.era, w)'
  <2>1. Tracks(LastRow.bytes[w], LastRow.seen[w], LastRow.era, w)
    BY DEF BandwidthInv
  <2>2. /\ LastRow.bytes[w] \in Nat /\ LastRow.seen[w] \in Nat /\ LastRow.era \in Nat
        /\ LastRow' = LastRow
    BY <1>1, LastTypes DEF LastRow
  <2>3. PICK b \in Nat, v \in Nat, e \in Nat :
           b = LastRow.bytes[w] /\ v = LastRow.seen[w] /\ e = LastRow.era
    BY <2>2
  <2>4. Tracks(b, v, e, w)'
    BY <2>1, <2>3 DEF Undisturbed
  <2>5. QED
    BY <2>2, <2>3, <2>4
<1>6. QED
  BY <1>4, <1>5

LEMMA WorldStep ==
    ASSUME BandwidthInv, Undisturbed, sampler' = sampler
    PROVE  BandwidthInv'
<1>1. rows # <<>> =>
         /\ LastRow.era = era' /\ moved' = FALSE => LastRow.moved = FALSE
         /\ \A w \in B!Ways : Tracks(LastRow.bytes[w], LastRow.seen[w], LastRow.era, w)'
  BY LastOn
<1>2. LastRow' = LastRow
  BY DEF Undisturbed, LastRow
<1>3. ASSUME NEW s \in Samplers
      PROVE  ReadsWell(sampler[s])'
  <2>1. PICK r \in Samplings : r = sampler[s] /\ r = sampler'[s]
    BY DEF BandwidthInv
  <2>2. ReadsWell(r)
    BY <2>1 DEF BandwidthInv
  <2>3. ReadsWell(r)'
    BY <2>2, ReadsOn
  <2>4. QED
    BY <2>1, <2>3
<1>4. QED
  BY <1>1, <1>2, <1>3 DEF BandwidthInv, Undisturbed

-----------------------------------------------------------------------------
(* The world *)

\* A step within an era that takes no counter away.
LEMMA Continues ==
    ASSUME Readable, CountersOK, CountersOK', rows' = rows, era' = era,
           addr = NoAddress <=> addr' = NoAddress,
           moved' = moved \/ moved' # FALSE,
           \A w \in B!Ways :
              /\ carried[w] <= carried'[w] /\ (Counted(w)' <=> Counted(w))
              /\ Counted(w) =>
                    Follows(Meter(w), carried[w], era, Meter(w)', carried'[w], era, moved')
    PROVE  Undisturbed
<1>1. ASSUME NEW w \in B!Ways, NEW b \in Nat, NEW v \in Nat, NEW e \in Nat, Tracks(b, v, e, w)
      PROVE  Tracks(b, v, e, w)'
  <2>1. CASE Counted(w)
    BY <1>1, <2>1, TracksOn DEF Readable
  <2>2. CASE ~Counted(w)
    <3>1. v <= carried[w] /\ e <= era /\ e # era
      BY <1>1, <2>2 DEF Tracks
    <3>2. carried[w] \in Nat /\ carried'[w] \in Nat
      BY MeterTypes, MeterTypesNext
    <3>3. v <= carried'[w]
      BY <3>1, <3>2
    <3>4. QED
      BY <2>2, <3>1, <3>3 DEF Tracks
  <2>3. QED
    BY <2>1, <2>2
<1>2. QED
  BY <1>1 DEF Undisturbed

LEMMA CarryKeeps ==
    ASSUME Readable, BandwidthInv, NEW y \in B!Ways, B!Carry(y)
    PROVE  BandwidthInv'
<1>1. /\ carried[y] < MaxBytes /\ carried' = [carried EXCEPT ![y] = @ + 1]
      /\ iface' = [iface EXCEPT ![y] = @ + 1]
      /\ rules' = [rules EXCEPT ![y] = [i \in DOMAIN @ |->
                     IF @[i].ip = addr THEN [ip |-> addr, bytes |-> @[i].bytes + 1]
                                       ELSE @[i]]]
      /\ addr' = addr /\ rows' = rows /\ era' = era /\ moved' = moved /\ sampler' = sampler
  BY DEF B!Carry
<1>2. /\ rules \in [B!Ways -> Seq(RuleRows)] /\ moved \in BOOLEAN /\ era \in Nat
      /\ iface \in [B!Ways -> Nat] /\ carried \in [B!Ways -> 0 .. MaxBytes]
      /\ addr \in Addresses \cup {NoAddress}
  BY DEF BandwidthInv, CountersOK
<1>3. ASSUME NEW w \in B!Ways
      PROVE  /\ rules'[w] \in Seq(RuleRows) /\ (rules'[w] = <<>> <=> rules[w] = <<>>)
             /\ rules[w] # <<>> =>
                   /\ rules'[w][1].ip = rules[w][1].ip
                   /\ rules'[w][1].bytes =
                         IF w = y /\ rules[w][1].ip = addr THEN rules[w][1].bytes + 1
                                                           ELSE rules[w][1].bytes
  <2>1. CASE w # y
    BY <1>1, <1>2, <2>1
  <2>2. CASE w = y
    <3> DEFINE q == rules[y]
               up(i) == IF q[i].ip = addr THEN [ip |-> addr, bytes |-> q[i].bytes + 1] ELSE q[i]
               p == [i \in DOMAIN q |-> up(i)]
    <3>1. rules'[w] = p
      <4>1. y \in DOMAIN rules
        BY <1>2
      <4>2. rules' = [rules EXCEPT ![y] = p]
        BY Zenon DEF B!Carry
      <4> HIDE DEF p
      <4>3. QED
        BY <2>2, <4>1, <4>2
    <3>2. q \in Seq(RuleRows)
      BY <1>2
    <3>3. DOMAIN q = 1 .. Len(q) /\ Len(q) \in Nat
      BY <3>2
    <3>4. ASSUME NEW i \in DOMAIN q
          PROVE  /\ up(i) \in RuleRows /\ up(i).ip = q[i].ip
                 /\ up(i).bytes = IF q[i].ip = addr THEN q[i].bytes + 1 ELSE q[i].bytes
      <4>1. q[i] \in RuleRows
        BY <3>2, <3>3
      <4>2. QED
        BY <4>1 DEF RuleRows
    <3> HIDE DEF q, up
    <3>5. p \in [1 .. Len(q) -> RuleRows]
      BY <3>3, <3>4
    <3>6. p \in Seq(RuleRows) /\ Len(p) = Len(q)
      BY <3>3, <3>5, SeqDef, LenProperties
    <3>7. q # <<>> => 1 \in DOMAIN q
      BY <3>2, <3>3
    <3>8. p = <<>> <=> q = <<>>
      BY <3>2, <3>6, EmptySeq
    <3>9. q # <<>> => p[1] = up(1)
      BY <3>7
    <3>10. QED
      BY <2>2, <3>1, <3>4, <3>6, <3>7, <3>8, <3>9 DEF q
  <2>3. QED
    BY <2>1, <2>2
<1>4. ASSUME NEW w \in B!Ways
      PROVE  /\ carried[w] \in Nat /\ iface[w] \in Nat
             /\ carried'[w] = IF w = y THEN carried[w] + 1 ELSE carried[w]
             /\ iface'[w] = IF w = y THEN iface[w] + 1 ELSE iface[w]
             /\ Counted(w)' <=> Counted(w)
             /\ Counted(w) =>
                   Meter(w)' = IF w = y /\ (addr = NoAddress \/ rules[w][1].ip = addr)
                               THEN Meter(w) + 1 ELSE Meter(w)
  <2>1. /\ carried[w] \in Nat /\ iface[w] \in Nat
        /\ carried'[w] = IF w = y THEN carried[w] + 1 ELSE carried[w]
        /\ iface'[w] = IF w = y THEN iface[w] + 1 ELSE iface[w]
    BY <1>1, <1>2
  <2>2. Counted(w)' <=> Counted(w)
    BY <1>1, <1>3 DEF Counted
  <2>3. CASE addr = NoAddress
    BY <1>1, <2>1, <2>2, <2>3 DEF Meter
  <2>4. CASE addr # NoAddress
    <3>1. Meter(w) = rules[w][1].bytes /\ Meter(w)' = rules'[w][1].bytes
      BY <1>1, <2>4 DEF Meter
    <3>2. Counted(w) => rules[w] # <<>>
      BY <2>4 DEF Counted
    <3>3. QED
      BY <1>3, <2>1, <2>2, <2>4, <3>1, <3>2
  <2>5. QED
    BY <2>3, <2>4
<1>5. ASSUME NEW w \in B!Ways, addr # NoAddress, Counted(w)
      PROVE  /\ Meter(w) \in Nat /\ Meter(w) <= carried[w]
             /\ moved = FALSE => rules[w][1].ip = addr
  BY <1>5, MeterTypes DEF BandwidthInv, CountersOK
<1>6. CountersOK'
  <2>1. rules' \in [B!Ways -> Seq(RuleRows)]
    BY <1>1, <1>2, <1>3
  <2>2. iface' \in [B!Ways -> Nat]
    BY <1>1, <1>2
  <2>3. carried' \in [B!Ways -> 0 .. MaxBytes]
    BY <1>1, <1>2 DEF Readable
  <2>4. ASSUME NEW w \in B!Ways, addr # NoAddress, Counted(w)
        PROVE  /\ Meter(w)' <= carried'[w]
               /\ moved = FALSE => rules'[w][1].ip = addr
    <3>1. rules[w] # <<>>
      BY <2>4 DEF Counted
    <3>2. Meter(w)' <= carried'[w]
      <4>1. Meter(w) \in Nat /\ Meter(w) <= carried[w] /\ carried[w] \in Nat
        BY <1>4, <1>5, <2>4
      <4>2. Meter(w)' = IF w = y /\ rules[w][1].ip = addr THEN Meter(w) + 1 ELSE Meter(w)
        BY <1>4, <2>4
      <4>3. carried'[w] = IF w = y THEN carried[w] + 1 ELSE carried[w]
        BY <1>4
      <4>4. PICK M, N : M = Meter(w) /\ N = Meter(w)'
        OBVIOUS
      <4>5. QED
        BY <4>1, <4>2, <4>3, <4>4
    <3>3. QED
      BY <1>3, <1>5, <2>4, <3>1, <3>2
  <2>5. QED
    BY <1>1, <1>2, <1>4, <2>1, <2>2, <2>3, <2>4 DEF CountersOK
<1>7. ASSUME NEW w \in B!Ways
      PROVE  /\ carried[w] <= carried'[w]
             /\ Counted(w) =>
                   Follows(Meter(w), carried[w], era, Meter(w)', carried'[w], era, moved')
  <2>1. carried[w] <= carried'[w]
    BY <1>4
  <2>2. ASSUME Counted(w)
        PROVE  Follows(Meter(w), carried[w], era, Meter(w)', carried'[w], era, moved')
    <3>1. Meter(w) \in Nat
      BY <2>2, MeterTypes DEF BandwidthInv
    <3>2. moved = FALSE => (addr = NoAddress \/ rules[w][1].ip = addr)
      BY <1>5, <2>2
    <3>3. QED
      BY <1>1, <1>4, <2>2, <3>1, <3>2 DEF Follows
  <2>3. QED
    BY <2>1, <2>2
<1>8. Undisturbed
  BY <1>1, <1>4, <1>6, <1>7, Continues DEF BandwidthInv
<1>9. QED
  BY <1>1, <1>8, WorldStep

LEMMA ReplugKeeps ==
    ASSUME Readable, BandwidthInv, B!Replug
    PROVE  BandwidthInv'
<1>1. /\ iface' = B!Zero /\ era' = (IF addr = NoAddress THEN era + 1 ELSE era)
      /\ addr' = addr /\ rules' = rules /\ carried' = carried /\ rows' = rows
      /\ moved' = moved /\ sampler' = sampler
  BY DEF B!Replug
<1>2. era \in Nat /\ B!Zero \in [B!Ways -> Nat] /\ CountersOK
  BY DEF BandwidthInv, CountersOK, B!Zero
<1>3. ASSUME NEW w \in B!Ways
      PROVE  /\ Counted(w)' <=> Counted(w)
             /\ Meter(w)' = IF addr = NoAddress THEN 0 ELSE Meter(w)
  BY <1>1 DEF Counted, Meter, B!Zero
<1>4. CountersOK'
  BY <1>1, <1>2, <1>3 DEF CountersOK
<1>5. Undisturbed
  <2>1. CASE addr = NoAddress
    <3>1. ASSUME NEW w \in B!Ways, NEW b \in Nat, NEW v \in Nat, NEW e \in Nat,
                 Tracks(b, v, e, w)
          PROVE  Tracks(b, v, e, w)'
      BY <1>1, <1>2, <1>3, <2>1, <3>1, TracksAnew
    <3>2. QED
      BY <1>1, <1>3, <1>4, <2>1, <3>1 DEF Undisturbed
  <2>2. CASE addr # NoAddress
    <3>1. ASSUME NEW w \in B!Ways
          PROVE  /\ carried[w] <= carried'[w]
                 /\ Counted(w) =>
                       Follows(Meter(w), carried[w], era, Meter(w)', carried'[w], era, moved')
      BY <1>1, <1>2, <1>3, <2>2, MeterTypes, FollowsItself
    <3>2. QED
      BY <1>1, <1>2, <1>3, <1>4, <2>2, <3>1, Continues
  <2>3. QED
    BY <2>1, <2>2
<1>6. QED
  BY <1>1, <1>5, WorldStep

LEMMA MoveKeeps ==
    ASSUME Readable, BandwidthInv, NEW a \in Addresses, B!Move(a)
    PROVE  BandwidthInv'
<1>1. /\ addr # NoAddress /\ addr' = a /\ moved' = TRUE
      /\ iface' = iface /\ era' = era /\ rules' = rules /\ carried' = carried
      /\ rows' = rows /\ sampler' = sampler
  BY DEF B!Move
<1>2. CountersOK /\ addr' # NoAddress
  BY <1>1 DEF BandwidthInv, Readable
<1>3. ASSUME NEW w \in B!Ways
      PROVE  (Counted(w)' <=> Counted(w)) /\ Meter(w)' = Meter(w)
  BY <1>1, <1>2 DEF Counted, Meter
<1>4. CountersOK'
  BY <1>1, <1>2, <1>3 DEF CountersOK
<1>5. ASSUME NEW w \in B!Ways
      PROVE  /\ carried[w] <= carried'[w]
             /\ Counted(w) =>
                   Follows(Meter(w), carried[w], era, Meter(w)', carried'[w], era, moved')
  <2>1. carried[w] \in Nat /\ (Counted(w) => Meter(w) \in Nat)
    BY <1>2, MeterTypes
  <2>2. Meter(w)' = Meter(w) /\ carried'[w] = carried[w]
    BY <1>1, <1>3
  <2>3. QED
    BY <2>1, <2>2 DEF Follows
<1>6. Undisturbed
  BY <1>1, <1>2, <1>3, <1>4, <1>5, Continues
<1>7. QED
  BY <1>1, <1>6, WorldStep

LEMMA RebootKeeps ==
    ASSUME Readable, BandwidthInv, B!Reboot
    PROVE  BandwidthInv'
<1>1. /\ rules' = [w \in B!Ways |-> <<>>] /\ iface' = B!Zero /\ era' = era + 1
      /\ moved' = FALSE /\ sampler' = [s \in Samplers |-> B!Idle]
      /\ addr' = addr /\ carried' = carried /\ rows' = rows
  BY DEF B!Reboot
<1>2. /\ CountersOK /\ era \in Nat /\ B!Zero \in [B!Ways -> Nat] /\ rows \in Seq(Samples)
  BY DEF BandwidthInv, CountersOK, B!Zero
<1>3. ASSUME NEW w \in B!Ways
      PROVE  /\ Counted(w)' <=> addr = NoAddress
             /\ Counted(w)' => Meter(w)' = 0
  BY <1>1 DEF Counted, Meter, B!Zero
<1>4. CountersOK'
  <2>1. rules' \in [B!Ways -> Seq(RuleRows)]
    BY <1>1
  <2>2. /\ addr' \in Addresses \cup {NoAddress} /\ iface' \in [B!Ways -> Nat]
        /\ carried' \in [B!Ways -> 0 .. MaxBytes] /\ era' \in Nat
    BY <1>1, <1>2 DEF CountersOK
  <2>3. moved' \in BOOLEAN
    BY <1>1
  <2>4. \A w \in B!Ways : ~(addr' # NoAddress /\ Counted(w)')
    BY <1>1, <1>3
  <2>5. QED
    BY <2>1, <2>2, <2>3, <2>4 DEF CountersOK
<1>5. ASSUME NEW w \in B!Ways, rows # <<>>
      PROVE  /\ LastRow' = LastRow /\ LastRow.era <= era /\ LastRow.era \in Nat
             /\ Tracks(LastRow.bytes[w], LastRow.seen[w], LastRow.era, w)'
  <2>1. LastRow' = LastRow
    BY <1>1 DEF LastRow
  <2>2. PICK b \in Nat, v \in Nat, e \in Nat :
           b = LastRow.bytes[w] /\ v = LastRow.seen[w] /\ e = LastRow.era
    BY <1>2, <1>5, LastTypes
  <2>3. Tracks(b, v, e, w)
    BY <1>5, <2>2 DEF BandwidthInv
  <2>4. Tracks(b, v, e, w)'
    BY <1>1, <1>2, <1>3, <2>3, TracksAnew
  <2>5. e <= era
    BY <2>3 DEF Tracks
  <2>6. QED
    BY <2>1, <2>2, <2>4, <2>5
<1>6. rows # <<>> =>
         /\ LastRow'.era = era' /\ moved' = FALSE => LastRow'.moved = FALSE
         /\ \A w \in B!Ways : Tracks(LastRow.bytes[w], LastRow.seen[w], LastRow.era, w)'
  <2>1. PICK w \in B!Ways : TRUE
    BY DEF B!Ways
  <2>2. ASSUME rows # <<>>
        PROVE  LastRow'.era # era'
    BY <1>1, <1>2, <1>5, <2>1, <2>2
  <2>3. QED
    BY <1>5, <2>2
<1>7. B!Idle \in Samplings /\ B!Idle.pc = "idle"
  BY DEF B!Idle, Samplings, Counters, B!Zero
<1>8. sampler' \in [Samplers -> Samplings] /\ \A s \in Samplers : sampler'[s].pc = "idle"
  BY <1>1, <1>7
<1>9. \A s \in Samplers : ReadsWell(sampler[s])'
  BY <1>8 DEF ReadsWell
<1>10. rows' \in Seq(Samples) /\ Chained(rows)'
  BY <1>1, <1>2 DEF BandwidthInv, Chained
<1>11. QED
  BY <1>1, <1>4, <1>6, <1>8, <1>9, <1>10 DEF BandwidthInv

-----------------------------------------------------------------------------
(* A sampling                                                              *)

LEMMA SamplingTypes ==
    ASSUME BandwidthInv, NEW s \in Samplers
    PROVE  /\ sampler[s] \in Samplings
           /\ \A w \in B!Ways : sampler[s].read[w] \in Nat /\ sampler[s].seen[w] \in Nat
<1>1. sampler[s] \in Samplings
  BY DEF BandwidthInv
<1>2. QED
  BY <1>1 DEF Samplings, Counters

\* While one sampler is at work the others are idle.
LEMMA OneSampler ==
    ASSUME BandwidthInv, NEW s \in Samplers, sampler[s].pc # "idle", NEW r \in Samplings,
           sampler' = [sampler EXCEPT ![s] = r], ReadsWell(r)'
    PROVE  /\ sampler' \in [Samplers -> Samplings]
           /\ \A t \in Samplers : ReadsWell(sampler[t])'
           /\ \A t, q \in Samplers :
                 sampler'[t].pc # "idle" /\ sampler'[q].pc # "idle" => t = q
<1>1. sampler \in [Samplers -> Samplings]
  BY DEF BandwidthInv
<1>2. ASSUME NEW t \in Samplers, t # s
      PROVE  sampler'[t].pc = "idle"
  BY <1>1, <1>2 DEF BandwidthInv
<1>3. sampler'[s] = r
  BY <1>1
<1>4. ASSUME NEW t \in Samplers
      PROVE  ReadsWell(sampler[t])'
  <2>1. CASE t = s
    BY <1>3, <2>1 DEF ReadsWell
  <2>2. CASE t # s
    BY <1>2, <2>2 DEF ReadsWell
  <2>3. QED
    BY <2>1, <2>2
<1>5. QED
  BY <1>1, <1>2, <1>4

LEMMA EnsureRulesKeeps ==
    ASSUME Readable, BandwidthInv, NEW s \in Samplers, B!EnsureRules(s)
    PROVE  BandwidthInv'
<1>1. /\ \A t \in Samplers : sampler[t].pc = "idle"
      /\ rules' = [w \in B!Ways |->
                     IF addr = NoAddress \/ B!HasRule(w, addr) THEN rules[w]
                     ELSE Append(rules[w], [ip |-> addr, bytes |-> 0])]
      /\ sampler' = [sampler EXCEPT ![s].pc = "tx", ![s].addr = addr]
      /\ addr' = addr /\ iface' = iface /\ carried' = carried /\ rows' = rows
      /\ era' = era /\ moved' = moved
  BY DEF B!EnsureRules, Readable
<1>2. /\ CountersOK /\ addr \in Addresses \cup {NoAddress} /\ era \in Nat
      /\ rules \in [B!Ways -> Seq(RuleRows)] /\ rows \in Seq(Samples)
      /\ sampler \in [Samplers -> Samplings]
      /\ carried \in [B!Ways -> 0 .. MaxBytes]
  BY DEF BandwidthInv, CountersOK
<1>3. ASSUME NEW w \in B!Ways
      PROVE  /\ rules'[w] \in Seq(RuleRows)
             /\ rules[w] # <<>> => rules'[w] # <<>> /\ rules'[w][1] = rules[w][1]
             /\ addr # NoAddress /\ rules[w] = <<>> =>
                   rules'[w] # <<>> /\ rules'[w][1] = [ip |-> addr, bytes |-> 0]
  <2> DEFINE q == rules[w]
             new == [ip |-> addr, bytes |-> 0]
  <2>1. q \in Seq(RuleRows)
    BY <1>2
  <2>2. CASE addr = NoAddress \/ B!HasRule(w, addr)
    <3>1. rules'[w] = q
      BY <1>1, <2>2
    <3>2. addr # NoAddress => q # <<>>
      BY <2>2 DEF B!HasRule
    <3>3. QED
      BY <2>1, <3>1, <3>2
  <2>3. CASE ~(addr = NoAddress \/ B!HasRule(w, addr))
    <3>1. rules'[w] = Append(q, new)
      BY <1>1, <2>3
    <3>2. new \in RuleRows
      BY <1>2, <2>3 DEF RuleRows
    <3> HIDE DEF q, new
    <3>3. /\ Append(q, new) \in Seq(RuleRows) /\ Append(q, new) # <<>>
          /\ q # <<>> => Append(q, new)[1] = q[1]
          /\ q = <<>> => Append(q, new)[1] = new
      BY <2>1, <3>2
    <3>4. QED
      BY <3>1, <3>3 DEF q, new
  <2>4. QED
    BY <2>2, <2>3
<1>4. ASSUME NEW w \in B!Ways
      PROVE  /\ Counted(w)'
             /\ Counted(w) => Meter(w)' = Meter(w)
             /\ ~Counted(w) => Meter(w)' = 0
  BY <1>1, <1>3 DEF Counted, Meter
<1>5. CountersOK'
  <2>1. rules' \in [B!Ways -> Seq(RuleRows)]
    BY <1>1, <1>3
  <2>2. ASSUME NEW w \in B!Ways, addr # NoAddress
        PROVE  /\ Meter(w)' <= carried'[w]
               /\ moved' = FALSE => rules'[w][1].ip = addr
    <3>1. CASE Counted(w)
      <4>1. /\ Meter(w) <= carried[w]
            /\ moved = FALSE => rules[w][1].ip = addr
        BY <1>2, <2>2, <3>1 DEF CountersOK
      <4>2. Meter(w)' <= carried'[w]
        BY <1>1, <1>4, <3>1, <4>1
      <4>3. rules'[w][1] = rules[w][1]
        BY <1>3, <2>2, <3>1 DEF Counted
      <4>4. QED
        BY <1>1, <4>1, <4>2, <4>3
    <3>2. CASE ~Counted(w)
      <4>1. rules'[w][1].ip = addr
        BY <1>3, <2>2, <3>2 DEF Counted
      <4>2. Meter(w)' = 0 /\ carried[w] \in Nat
        BY <1>2, <1>4, <3>2
      <4>3. QED
        BY <1>1, <4>1, <4>2
    <3>3. QED
      BY <3>1, <3>2
  <2>3. QED
    BY <1>1, <1>2, <2>1, <2>2 DEF CountersOK
<1>6. ASSUME NEW w \in B!Ways, NEW b \in Nat, NEW v \in Nat, NEW e \in Nat, Tracks(b, v, e, w)
      PROVE  Tracks(b, v, e, w)'
  <2>1. CASE Counted(w)
    <3>1. carried[w] \in Nat /\ Meter(w) \in Nat
      BY <1>2, <2>1, MeterTypes
    <3>2. Follows(Meter(w), carried[w], era, Meter(w)', carried'[w], era, moved')
      BY <1>1, <1>4, <2>1, <3>1, FollowsItself
    <3>3. QED
      BY <1>1, <1>2, <1>4, <1>5, <1>6, <2>1, <3>2, TracksOn DEF Readable
  <2>2. CASE ~Counted(w)
    BY <1>1, <1>2, <1>4, <1>6, <2>2, TracksAnew
  <2>3. QED
    BY <2>1, <2>2
<1>7. Undisturbed
  BY <1>1, <1>4, <1>5, <1>6 DEF Undisturbed
<1>8. rows # <<>> =>
         /\ LastRow.era = era' /\ moved' = FALSE => LastRow.moved = FALSE
         /\ \A w \in B!Ways : Tracks(LastRow.bytes[w], LastRow.seen[w], LastRow.era, w)'
  BY <1>7, LastOn
<1>9. /\ sampler' \in [Samplers -> Samplings]
      /\ sampler'[s].pc = "tx" /\ sampler'[s].addr = addr
      /\ \A t \in Samplers : t # s => sampler'[t].pc = "idle"
  <2>1. sampler[s] \in Samplings
    BY <1>2
  <2>2. [sampler[s] EXCEPT !.pc = "tx", !.addr = addr] \in Samplings
    BY <1>2, <2>1 DEF Samplings
  <2>3. sampler' = [sampler EXCEPT ![s] = [sampler[s] EXCEPT !.pc = "tx", !.addr = addr]]
    BY <1>1
  <2>4. QED
    BY <1>1, <1>2, <2>1, <2>2, <2>3 DEF Samplings
<1>10. ASSUME NEW t \in Samplers
       PROVE  ReadsWell(sampler[t])'
  BY <1>1, <1>4, <1>9 DEF ReadsWell, HasRead
<1>11. LastRow' = LastRow
  BY <1>1 DEF LastRow
<1>12. QED
  BY <1>1, <1>5, <1>8, <1>9, <1>10, <1>11 DEF BandwidthInv

LEMMA ReadRuleKeeps ==
    ASSUME Readable, BandwidthInv, NEW s \in Samplers, NEW w \in B!Ways, B!ReadRule(s, w)
    PROVE  BandwidthInv'
<1> DEFINE old == sampler[s]
           bytes == IF rules[w] = <<>> \/ old.addr = NoAddress THEN B!None
                    ELSE rules[w][1].bytes
           r == [old EXCEPT !.read[w] = bytes, !.seen[w] = carried[w],
                            !.pc = IF w = "tx" THEN "rx" ELSE "insert"]
<1>1. /\ old.pc = w /\ sampler' = [sampler EXCEPT ![s] = r]
      /\ addr' = addr /\ rules' = rules /\ iface' = iface /\ carried' = carried
      /\ rows' = rows /\ era' = era /\ moved' = moved
  BY DEF B!ReadRule, Readable
<1>2. /\ CountersOK /\ era \in Nat /\ moved \in BOOLEAN
      /\ old \in Samplings /\ old.pc # "idle"
      /\ ReadsWell(old)
  BY <1>1, SamplingTypes DEF BandwidthInv, CountersOK, B!Ways
<1>3. old.addr = NoAddress <=> addr = NoAddress
  BY <1>2 DEF ReadsWell
<1>4. \A x \in B!Ways : Counted(x)
  BY <1>2 DEF ReadsWell
<1>5. /\ addr = NoAddress => bytes = B!None
      /\ addr # NoAddress => bytes = Meter(w)
  BY <1>3, <1>4 DEF Counted, Meter
<1>6. /\ carried[w] \in Nat /\ Meter(w) \in Nat /\ carried[w] <= MaxBytes
      /\ addr # NoAddress => Meter(w) <= carried[w]
  BY <1>2, <1>4, MeterTypes DEF CountersOK
<1>7. bytes \in Nat /\ (addr # NoAddress => bytes <= MaxBytes)
  <2>1. MaxBytes \in Nat
    BY DEF Readable
  <2>2. B!None \in Nat
    BY <2>1 DEF B!None
  <2>3. PICK M : M = Meter(w)
    OBVIOUS
  <2> HIDE DEF bytes
  <2>4. QED
    BY <1>5, <1>6, <2>1, <2>2, <2>3
<1> HIDE DEF bytes
<1>8. /\ r \in Samplings /\ r.addr = old.addr
      /\ r.pc = IF w = "tx" THEN "rx" ELSE "insert"
      /\ r.read[w] = bytes /\ r.seen[w] = carried[w]
      /\ \A x \in B!Ways : x # w => r.read[x] = old.read[x] /\ r.seen[x] = old.seen[x]
  BY <1>2, <1>6, <1>7 DEF Samplings, Counters
<1> HIDE DEF r
<1>9. ASSUME NEW x \in B!Ways, HasRead(r, x), addr = NoAddress
      PROVE  r.read[x] = B!None
  <2>1. CASE x = w
    BY <1>5, <1>8, <1>9, <2>1
  <2>2. CASE x # w
    <3>1. HasRead(old, x)
      BY <1>1, <1>8, <1>9, <2>2 DEF HasRead, B!Ways
    <3>2. QED
      BY <1>2, <1>8, <1>9, <2>2, <3>1 DEF ReadsWell
  <2>3. QED
    BY <2>1, <2>2
<1>10. ASSUME NEW x \in B!Ways, HasRead(r, x), addr # NoAddress
       PROVE  /\ r.read[x] <= MaxBytes
              /\ Tracks(r.read[x], r.seen[x], era, x)
              /\ rows # <<>> =>
                    Follows(LastRow.bytes[x], LastRow.seen[x], LastRow.era,
                            r.read[x], r.seen[x], era, moved)
  <2>1. CASE x = w
    <3>1. r.read[x] = Meter(x) /\ r.seen[x] = carried[x]
      BY <1>5, <1>8, <1>10, <2>1
    <3>2. Tracks(Meter(x), carried[x], era, x)
      BY <1>2, <1>4, <1>6, <2>1, FollowsItself DEF Tracks
    <3>3. rows # <<>> =>
             Follows(LastRow.bytes[x], LastRow.seen[x], LastRow.era,
                     Meter(x), carried[x], era, moved)
      BY <1>4 DEF BandwidthInv, Tracks
    <3>4. r.read[x] <= MaxBytes
      BY <1>7, <1>8, <1>10, <2>1
    <3>5. QED
      BY <3>1, <3>2, <3>3, <3>4
  <2>2. CASE x # w
    <3>1. HasRead(old, x)
      BY <1>1, <1>8, <1>10, <2>2 DEF HasRead, B!Ways
    <3>2. /\ old.read[x] <= MaxBytes
          /\ Tracks(old.read[x], old.seen[x], era, x)
          /\ rows # <<>> =>
                Follows(LastRow.bytes[x], LastRow.seen[x], LastRow.era,
                        old.read[x], old.seen[x], era, moved)
      BY <1>2, <1>10, <3>1 DEF ReadsWell
    <3>3. r.read[x] = old.read[x] /\ r.seen[x] = old.seen[x]
      BY <1>8, <2>2
    <3> HIDE DEF old
    <3>4. QED
      BY <3>2, <3>3
  <2>3. QED
    BY <2>1, <2>2
<1>11. ReadsWell(r)
  BY <1>3, <1>4, <1>8, <1>9, <1>10 DEF ReadsWell
<1>12. PICK k \in Samplings : k = r
  BY <1>8
<1>13. ReadsWell(k)'
  <2>1. ReadsWell(k)
    BY <1>11, <1>12
  <2>2. QED
    BY <1>1, <2>1 DEF ReadsWell, HasRead, Tracks, Counted, Meter, LastRow, B!None
<1>14. /\ sampler' \in [Samplers -> Samplings]
       /\ \A t \in Samplers : ReadsWell(sampler[t])'
       /\ \A t, q \in Samplers : sampler'[t].pc # "idle" /\ sampler'[q].pc # "idle" => t = q
  <2>1. sampler' = [sampler EXCEPT ![s] = k] /\ sampler[s].pc # "idle"
    BY <1>1, <1>2, <1>12
  <2>2. QED
    BY <1>13, <2>1, OneSampler
<1>15. /\ CountersOK' /\ rows' \in Seq(Samples) /\ Chained(rows)'
       /\ rows' # <<>> =>
             /\ LastRow'.era = era' /\ moved' = FALSE => LastRow'.moved = FALSE
             /\ \A x \in B!Ways : Tracks(LastRow.bytes[x], LastRow.seen[x], LastRow.era, x)'
  BY <1>1, <1>2 DEF BandwidthInv, CountersOK, Chained, LastRow, Tracks, Counted, Meter
<1>16. QED
  BY <1>14, <1>15 DEF BandwidthInv

LEMMA InsertKeeps ==
    ASSUME Readable, BandwidthInv, NEW s \in Samplers, B!Insert(s)
    PROVE  BandwidthInv'
<1> DEFINE old == sampler[s]
           new == B!Reading(s)
<1>1. /\ old.pc = "insert" /\ rows' = Append(rows, new)
      /\ sampler' = [sampler EXCEPT ![s] = B!Idle]
      /\ addr' = addr /\ rules' = rules /\ iface' = iface /\ carried' = carried
      /\ era' = era /\ moved' = moved
  BY DEF B!Insert
<1>2. /\ CountersOK /\ era \in Nat /\ moved \in BOOLEAN /\ rows \in Seq(Samples)
      /\ iface \in [B!Ways -> Nat] /\ carried \in [B!Ways -> 0 .. MaxBytes]
      /\ old \in Samplings /\ ReadsWell(old)
  BY SamplingTypes DEF BandwidthInv, CountersOK
<1>3. \A w \in B!Ways : Counted(w) /\ HasRead(old, w)
  BY <1>1, <1>2 DEF ReadsWell, HasRead
<1>4. /\ new.era = era /\ new.moved = moved /\ new \in Samples
      /\ \A w \in B!Ways :
            /\ Tracks(new.bytes[w], new.seen[w], era, w)
            /\ rows # <<>> =>
                  Follows(LastRow.bytes[w], LastRow.seen[w], LastRow.era,
                          new.bytes[w], new.seen[w], era, moved)
  <2>1. CASE addr = NoAddress
    <3>1. new = [bytes |-> iface, seen |-> carried, era |-> era, moved |-> moved]
      BY <1>1, <1>2, <1>3, <2>1 DEF ReadsWell, B!Reading
    <3>2. carried \in Counters /\ iface \in Counters
      BY <1>2 DEF Counters
    <3>3. ASSUME NEW w \in B!Ways
          PROVE  /\ Meter(w) = iface[w] /\ carried[w] \in Nat /\ Meter(w) \in Nat
                 /\ rows # <<>> =>
                       Follows(LastRow.bytes[w], LastRow.seen[w], LastRow.era,
                               Meter(w), carried[w], era, moved)
      BY <1>3, <2>1, <3>2 DEF Meter, Counters, BandwidthInv, Tracks
    <3>4. ASSUME NEW w \in B!Ways
          PROVE  Tracks(Meter(w), carried[w], era, w)
      BY <1>2, <1>3, <3>3, FollowsItself DEF Tracks
    <3>5. new \in Samples
      BY <1>2, <3>1, <3>2 DEF Samples
    <3>6. QED
      BY <3>1, <3>3, <3>4, <3>5
  <2>2. CASE addr # NoAddress
    <3>1. ASSUME NEW w \in B!Ways
          PROVE  /\ old.read[w] # B!None
                 /\ Tracks(old.read[w], old.seen[w], era, w)
                 /\ rows # <<>> =>
                       Follows(LastRow.bytes[w], LastRow.seen[w], LastRow.era,
                               old.read[w], old.seen[w], era, moved)
      <4>1. /\ old.read[w] <= MaxBytes
            /\ Tracks(old.read[w], old.seen[w], era, w)
            /\ rows # <<>> =>
                  Follows(LastRow.bytes[w], LastRow.seen[w], LastRow.era,
                          old.read[w], old.seen[w], era, moved)
        BY <1>1, <1>2, <1>3, <2>2 DEF ReadsWell
      <4>2. old.read[w] # MaxBytes + 1
        <5>1. old.read[w] \in Nat /\ MaxBytes \in Nat /\ old.read[w] <= MaxBytes
          BY <1>2, <4>1 DEF Samplings, Counters, Readable
        <5> HIDE DEF old
        <5>2. QED
          BY <5>1
      <4>3. QED
        BY <4>1, <4>2 DEF B!None
    <3>2. new = [bytes |-> [w \in B!Ways |-> old.read[w]], seen |-> old.seen,
                 era |-> era, moved |-> moved]
      <4>1. PICK w0 \in B!Ways : TRUE
        BY DEF B!Ways
      <4>2. ~(\A w \in B!Ways : old.read[w] = B!None)
        BY <3>1, <4>1
      <4>3. [w \in B!Ways |-> IF old.read[w] = B!None THEN 0 ELSE old.read[w]]
               = [w \in B!Ways |-> old.read[w]]
        BY <3>1
      <4>4. new = [bytes |-> [w \in B!Ways |-> IF old.read[w] = B!None THEN 0
                                               ELSE old.read[w]],
                   seen |-> old.seen, era |-> era, moved |-> moved]
        BY <4>2 DEF B!Reading
      <4>5. QED
        BY <4>3, <4>4
    <3>3. /\ [w \in B!Ways |-> old.read[w]] \in Counters /\ old.seen \in Counters
      BY <1>2 DEF Samplings, Counters
    <3>4. new \in Samples
      BY <1>2, <3>2, <3>3 DEF Samples
    <3>5. ASSUME NEW w \in B!Ways
          PROVE  new.bytes[w] = old.read[w] /\ new.seen[w] = old.seen[w]
      BY <3>2
    <3>6. new.era = era /\ new.moved = moved
      BY <3>2
    <3> HIDE DEF old, new
    <3>7. QED
      BY <3>1, <3>4, <3>5, <3>6
  <2>3. QED
    BY <2>1, <2>2
<1> HIDE DEF new
<1>5. PICK k \in Samples : k = new
  BY <1>4
<1>6. /\ rows' \in Seq(Samples) /\ Len(rows') = Len(rows) + 1 /\ Len(rows) \in Nat
      /\ \A n \in 1 .. Len(rows) : rows'[n] = rows[n]
      /\ rows'[Len(rows) + 1] = k
  BY <1>1, <1>2, <1>5
<1>7. LastRow' = k
  BY <1>6 DEF LastRow
<1>8. Chained(rows)'
  <2>1. ASSUME NEW n \in 2 .. Len(rows')
        PROVE  /\ rows'[n - 1].era <= rows'[n].era
               /\ rows'[n - 1].era = rows'[n].era /\ rows'[n].moved = FALSE
                     => rows'[n - 1].moved = FALSE
               /\ \A w \in B!Ways :
                     Follows(rows'[n - 1].bytes[w], rows'[n - 1].seen[w], rows'[n - 1].era,
                             rows'[n].bytes[w], rows'[n].seen[w], rows'[n].era, rows'[n].moved)
    <3>1. CASE n <= Len(rows)
      <4>1. n \in 2 .. Len(rows) /\ rows'[n] = rows[n] /\ rows'[n - 1] = rows[n - 1]
        BY <1>6, <3>1
      <4>2. QED
        BY <4>1, Zenon DEF BandwidthInv, Chained
    <3>2. CASE ~(n <= Len(rows))
      <4>1. n = Len(rows) + 1 /\ rows # <<>>
        BY <1>2, <1>6, <3>2
      <4>2. rows'[n] = k /\ rows'[n - 1] = LastRow
        BY <1>2, <1>6, <4>1 DEF LastRow
      <4>3. k.era = era /\ k.moved = moved
        BY <1>4, <1>5
      <4>4. LastRow.era <= era
        BY <4>1 DEF BandwidthInv, Tracks, B!Ways
      <4>5. LastRow.era = era /\ moved = FALSE => LastRow.moved = FALSE
        BY <4>1 DEF BandwidthInv
      <4>6. \A w \in B!Ways :
               Follows(LastRow.bytes[w], LastRow.seen[w], LastRow.era,
                       k.bytes[w], k.seen[w], era, moved)
        BY <1>4, <1>5, <4>1
      <4>7. QED
        BY <4>2, <4>3, <4>4, <4>5, <4>6
    <3>3. QED
      BY <3>1, <3>2
  <2>2. QED
    BY <2>1 DEF Chained
<1>9. ASSUME NEW w \in B!Ways
      PROVE  Tracks(LastRow.bytes[w], LastRow.seen[w], LastRow.era, w)'
  <2>1. Tracks(k.bytes[w], k.seen[w], k.era, w)
    BY <1>4, <1>5
  <2>2. Tracks(k.bytes[w], k.seen[w], k.era, w)'
    BY <1>1, <2>1 DEF Tracks, Counted, Meter
  <2>3. QED
    BY <1>7, <2>2
<1>10. LastRow'.era = era' /\ moved' = FALSE => LastRow'.moved = FALSE
  BY <1>1, <1>4, <1>5, <1>7
<1>11. B!Idle \in Samplings /\ B!Idle.pc = "idle"
  BY DEF B!Idle, Samplings, Counters, B!Zero
<1>12. /\ sampler' \in [Samplers -> Samplings]
       /\ \A t \in Samplers : ReadsWell(sampler[t])'
       /\ \A t, q \in Samplers : sampler'[t].pc # "idle" /\ sampler'[q].pc # "idle" => t = q
  <2>1. PICK r \in Samplings : r = B!Idle
    BY <1>11
  <2>2. ReadsWell(r)'
    BY <1>11, <2>1 DEF ReadsWell
  <2>3. QED
    BY <1>1, <2>1, <2>2, OneSampler
<1>13. CountersOK'
  BY <1>1, <1>2 DEF CountersOK, Counted, Meter
<1>14. QED
  BY <1>6, <1>8, <1>9, <1>10, <1>12, <1>13 DEF BandwidthInv

-----------------------------------------------------------------------------

LEMMA BandwidthStarts ==
    ASSUME Readable, B!Init
    PROVE  BandwidthInv
<1>1. /\ addr \in Addresses \cup {NoAddress}
      /\ rules = [w \in B!Ways |-> <<>>] /\ iface = B!Zero /\ carried = B!Zero
      /\ rows = <<>> /\ era = 0 /\ moved = FALSE
      /\ sampler = [s \in Samplers |-> B!Idle]
  BY DEF B!Init
<1>2. rules \in [B!Ways -> Seq(RuleRows)]
  BY <1>1
<1>3. iface \in [B!Ways -> Nat] /\ carried \in [B!Ways -> 0 .. MaxBytes]
  BY <1>1 DEF B!Zero, Readable
<1>4. ASSUME NEW w \in B!Ways
      PROVE  ~(addr # NoAddress /\ Counted(w))
  BY <1>1 DEF Counted
<1>5. CountersOK
  BY <1>1, <1>2, <1>3, <1>4 DEF CountersOK
<1>6. rows \in Seq(Samples) /\ Chained(rows)
  BY <1>1 DEF Chained
<1>7. B!Idle \in Samplings /\ B!Idle.pc = "idle"
  BY DEF B!Idle, Samplings, Counters, B!Zero
<1>8. sampler \in [Samplers -> Samplings] /\ \A s \in Samplers : sampler[s].pc = "idle"
  BY <1>1, <1>7
<1>9. \A s \in Samplers : ReadsWell(sampler[s])
  BY <1>8 DEF ReadsWell
<1>10. QED
  BY <1>1, <1>5, <1>6, <1>8, <1>9 DEF BandwidthInv

LEMMA BandwidthKept ==
    ASSUME Readable, BandwidthInv, [B!Next]_bandwidthVars
    PROVE  BandwidthInv'
<1>1. CASE UNCHANGED bandwidthVars
  BY <1>1 DEF bandwidthVars, BandwidthInv, CountersOK, Chained, ReadsWell, HasRead, Tracks,
              Counted, Meter, LastRow
<1>2. CASE B!Next
  BY <1>2, EnsureRulesKeeps, InsertKeeps, ReadRuleKeeps, CarryKeeps, ReplugKeeps,
     RebootKeeps, MoveKeeps DEF B!Next
<1>3. QED
  BY <1>1, <1>2

\* bandwidth.report: whatever the window, the sum of _delta_in_range is no more
\* than the modem carried between its samples, and all of it unless a boot lies
\* between them (without a bind address: an unplugging) or the address changed.
\* For samples that do not overlap and readings that do not fail.
THEOREM UsageIsTrafficThm ==
    ASSUME Readable
    PROVE  B!Spec => []UsageIsTraffic
<1>1. B!Init => BandwidthInv
  BY BandwidthStarts
<1>2. BandwidthInv /\ [B!Next]_(B!vars) => BandwidthInv'
  BY BandwidthKept DEF bandwidthVars, B!vars
<1>3. BandwidthInv => UsageIsTraffic
  BY ChainedIsTraffic DEF BandwidthInv
<1>4. QED
  BY <1>1, <1>2, <1>3, PTL DEF B!Spec

=============================================================================
