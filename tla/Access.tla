------------------------------- MODULE Access -------------------------------
(***************************************************************************)
(* What a customer needs to get through to a modem: a login that the       *)
(* modem's running 3proxy accepts, and a way in from outside (services/    *)
(* publish.py: a reverse tunnel in relay mode, firewall rules in direct    *)
(* mode).  Both are copies of what the database says: the logins are       *)
(* rendered into a file that a restart loads, the tunnel's file and the    *)
(* rules are remade by every operation's last call, _publish_sync.         *)
(*                                                                         *)
(* Workers run the operations of the panel, the command line, the timers   *)
(* (proxy/generator.py) and the storefront (web/compat.py), step by step   *)
(* and interleaved; a worker may die between two steps.                    *)
(***************************************************************************)
EXTENDS Naturals

CONSTANTS Modems, Workers, NoModem,
          Secrets,     \* passwords: those of the owner and those of the storefront
          StoreName,   \* user name of the storefront's logins; the owner's is "main"
          MaxOps       \* bound on the operations that are started

ASSUME SecretsAssumption == Secrets \subseteq Nat \ {0} /\ Secrets # {}
ASSUME MaxOpsAssumption == MaxOps \in Nat
ASSUME NoModemAssumption == NoModem \notin Modems

VARIABLES
    row,     \* ports table
    cfg,     \* modem -> logins in its 3proxy configuration file; {}: no file
    proxy,   \* modem -> logins its running 3proxy accepts; {}: not running
    mode,    \* config access_mode
    frpcFile, frpc,   \* modems in the tunnel's file, in the running tunnel
    opened,  \* modems whose ports ufw lets in
    op,      \* worker -> the operation it runs
    ops,     \* operations started
    unsure,  \* modems with an operation that was cut, overlapped or is half done
    stale    \* an operation was cut or overlapped since the last complete sync

vars == <<row, cfg, proxy, mode, frpcFile, frpc, opened, op, ops, unsure, stale>>

\* has: the row is there.  ports: it has port numbers.  0: no password.
NoRow == [has |-> FALSE, ports |-> FALSE, enabled |-> FALSE, main |-> 0, store |-> 0]
BlankRow == [NoRow EXCEPT !.has = TRUE, !.enabled = TRUE]
Idle == [pc |-> "idle", imei |-> NoModem, main |-> 0, todo |-> {}, alone |-> FALSE, owns |-> FALSE]

Pcs == {"idle", "allocate", "setPort", "render", "restart", "stop", "unlink",
        "sync", "reload", "allow", "entry", "mint"}

TypeOK ==
    /\ row \in [Modems -> [has : BOOLEAN, ports : BOOLEAN, enabled : BOOLEAN,
                           main : Secrets \cup {0}, store : Secrets \cup {0}]]
    /\ \A m \in Modems : row[m].has \/ row[m] = NoRow
    /\ {cfg, proxy} \subseteq [Modems -> SUBSET ({"main", StoreName} \X Secrets)]
    /\ mode \in {"relay", "direct"}
    /\ {frpcFile, frpc, opened, unsure} \subseteq SUBSET Modems
    /\ \A w \in Workers :
          /\ op[w].pc \in Pcs
          /\ op[w].pc \in {"allocate", "setPort", "render", "restart", "stop",
                           "unlink", "mint"} => op[w].imei \in Modems
    /\ ops \in 0 .. MaxOps
    /\ stale \in BOOLEAN

\* A fresh installation, with its modems discovered and the owner's proxies up.
Init ==
    /\ row = [m \in Modems |-> [BlankRow EXCEPT !.ports = TRUE, !.main = CHOOSE s \in Secrets : TRUE]]
    /\ cfg = [m \in Modems |-> {<<"main", row[m].main>>}]
    /\ proxy = cfg
    /\ mode = "relay"
    /\ frpcFile = Modems /\ frpc = Modems /\ opened = {}
    /\ op = [w \in Workers |-> Idle]
    /\ ops = 0
    /\ unsure = {} /\ stale = FALSE

-----------------------------------------------------------------------------
(* Helpers *)

\* _live: modems with an enabled proxy and allocated ports.
Live == {m \in Modems : row[m].enabled /\ row[m].ports}

\* _all_users: the main login first, then the others whose name is not taken.
AllUsers(r) ==
    (IF r.main # 0 THEN {<<"main", r.main>>} ELSE {})
        \cup (IF r.store # 0 /\ (StoreName # "main" \/ r.main = 0)
              THEN {<<StoreName, r.store>>} ELSE {})

\* set_port updates a row or inserts one.
Upsert(m) == IF row[m].has THEN row[m] ELSE BlankRow

\* The next step of w's operation.
Goto(w, pc) == op' = [op EXCEPT ![w].pc = pc]

\* The modems that w's operation is about.
Touched(o) == ({o.imei} \cup o.todo) \ {NoModem}

\* w starts an operation about the modems ms, at pc.  It and those under way are
\* not alone any more, and share the modems that they have in common.
Start(w, ms, new) ==
    LET others == {v \in Workers : op[v].pc # "idle"}
        shared == {v \in others : Touched(op[v]) \cap ms # {}}
    IN  /\ op[w].pc = "idle"
        /\ ops < MaxOps
        /\ ops' = ops + 1
        /\ op' = [v \in Workers |->
                     IF v = w
                     THEN IF new.pc = "idle" THEN Idle
                          ELSE [new EXCEPT !.alone = others = {}, !.owns = shared = {}]
                     ELSE IF v \in others
                     THEN [op[v] EXCEPT !.alone = FALSE, !.owns = @ /\ v \notin shared]
                     ELSE op[v]]
        /\ stale' = (stale \/ others # {})
        /\ unsure' = unsure \cup (ms \cap UNION {Touched(op[v]) : v \in others})
                            \cup (IF new.pc = "idle" THEN ms ELSE {})

At(pc, m) == [Idle EXCEPT !.pc = pc, !.imei = m]

UnchangedFiles == UNCHANGED <<cfg, proxy, frpcFile, frpc, opened>>

-----------------------------------------------------------------------------
(* Operations start *)

\* apply_port: the panel's, the storefront's, start_proxy's, set_whitelist's.
Apply(w, m) ==
    /\ Start(w, {m}, At("allocate", m))
    /\ UNCHANGED <<row, mode>> /\ UnchangedFiles

\* set_password, which wants a row, and regenerate_credentials, which does not.
SetPassword(w, m) ==
    /\ Start(w, {m}, At("allocate", m))
    /\ \E s \in Secrets \ {row[m].main} :
          row' = [row EXCEPT ![m] = [Upsert(m) EXCEPT !.main = s]]
    /\ UNCHANGED mode /\ UnchangedFiles

\* stop_proxy: the panel's disable, a quota or an expiry.
StopProxy(w, m) ==
    /\ Start(w, {m}, At("stop", m))
    /\ row' = [row EXCEPT ![m] = [Upsert(m) EXCEPT !.enabled = FALSE]]
    /\ UNCHANGED mode /\ UnchangedFiles

\* generator.purge_port: db.delete_port first.
PurgePort(w, m) ==
    /\ Start(w, {m}, At("unlink", m))
    /\ row' = [row EXCEPT ![m] = NoRow]
    /\ UNCHANGED mode /\ UnchangedFiles

\* POST /api/access: the mode is saved, then synced.
SetAccess(w, new) ==
    /\ Start(w, {}, At("sync", NoModem))
    /\ mode' = new
    /\ UNCHANGED row /\ UnchangedFiles

\* /crud/store_port: the storefront's login is replaced; the storefront calls
\* /apix/apply_port next, until then 3proxy knows the old one.
StorePort(w, m) ==
    /\ row[m].has
    /\ Start(w, {m}, Idle)
    /\ \E s \in Secrets \ {row[m].store} : row' = [row EXCEPT ![m].store = s]
    /\ UNCHANGED mode /\ UnchangedFiles

\* /apix/purge_port: only the storefront's login goes.
DropLogin(w, m) ==
    /\ Start(w, {m}, At("allocate", m))
    /\ row' = IF row[m].has THEN [row EXCEPT ![m].store = 0] ELSE row
    /\ UNCHANGED mode /\ UnchangedFiles

\* /apix/list_ports_json: one entry per live modem of the list read here.
ListPorts(w) ==
    /\ Live # {}
    /\ Start(w, Live, [Idle EXCEPT !.pc = "entry", !.todo = Live])
    /\ UNCHANGED <<row, mode>> /\ UnchangedFiles

-----------------------------------------------------------------------------
(* Operations go on *)

\* The operation's entries are made, or it was no list.
Done(w) ==
    op' = [op EXCEPT ![w] = IF @.todo = {} THEN Idle
                            ELSE [@ EXCEPT !.pc = "entry", !.imei = NoModem]]

\* _ensure_storefront_user: a login that is there is handed out as it is.
Entry(w, m) ==
    /\ op[w].pc = "entry"
    /\ m \in op[w].todo
    /\ LET rest == op[w].todo \ {m}
       IN  op' = [op EXCEPT ![w] =
                     IF row[m].store = 0 THEN [@ EXCEPT !.pc = "mint", !.imei = m, !.todo = rest]
                     ELSE IF rest = {} THEN Idle
                     ELSE [@ EXCEPT !.todo = rest]]
    /\ UNCHANGED <<row, mode, ops, unsure, stale>> /\ UnchangedFiles

\* Mutant: the login is not loaded into 3proxy.
MintUnloaded(w) ==
    LET m == op[w].imei
    IN  /\ op[w].pc = "mint"
        /\ row[m].has
        /\ \E s \in Secrets : row' = [row EXCEPT ![m].store = s]
        /\ Goto(w, "sync")
        /\ UNCHANGED <<mode, ops, unsure, stale>> /\ UnchangedFiles

\* set_extra_user of a new login; the purge of the port meanwhile is an error.
Mint(w) ==
    LET m == op[w].imei
    IN  /\ op[w].pc = "mint"
        /\ IF row[m].has
           THEN /\ \E s \in Secrets : row' = [row EXCEPT ![m].store = s]
                /\ Goto(w, "allocate")
           ELSE /\ op' = [op EXCEPT ![w] = Idle]
                /\ UNCHANGED row
        /\ UNCHANGED <<mode, ops, unsure, stale>> /\ UnchangedFiles

\* allocate_port reads the password that it is going to write back.
Allocate(w) ==
    /\ op[w].pc = "allocate"
    /\ \E s \in Secrets :
          LET main == row[op[w].imei].main
          IN  op' = [op EXCEPT ![w].pc = "setPort", ![w].main = IF main # 0 THEN main ELSE s]
    /\ UNCHANGED <<row, mode, ops, unsure, stale>> /\ UnchangedFiles

\* allocate_port writes the row; PortAllocation models the choice of the ports.
SetPort(w) ==
    /\ op[w].pc = "setPort"
    /\ row' = [row EXCEPT ![op[w].imei] =
                  [Upsert(op[w].imei) EXCEPT !.ports = TRUE, !.enabled = TRUE,
                                             !.main = op[w].main]]
    /\ op' = [op EXCEPT ![w].pc = "render", ![w].main = 0]
    /\ UNCHANGED <<mode, ops, unsure, stale>> /\ UnchangedFiles

\* render_modem; the row may be gone by now, which is a ValueError.
Render(w) ==
    LET m == op[w].imei
    IN  /\ op[w].pc = "render"
        /\ IF row[m].has
           THEN cfg' = [cfg EXCEPT ![m] = AllUsers(row[m])] /\ Goto(w, "restart")
           ELSE UNCHANGED cfg /\ op' = [op EXCEPT ![w] = Idle]
        /\ UNCHANGED <<row, proxy, mode, frpcFile, frpc, opened, ops, unsure, stale>>

\* systemctl restart: 3proxy reads its file, or fails without one.  An apply that
\* has the modem to itself sets it right, whatever happened to it before.
Restart(w) ==
    LET m == op[w].imei
    IN  /\ op[w].pc = "restart"
        /\ proxy' = [proxy EXCEPT ![m] = cfg[m]]
        /\ unsure' = IF op[w].owns THEN unsure \ {m} ELSE unsure
        /\ Goto(w, "sync")
        /\ UNCHANGED <<row, cfg, mode, frpcFile, frpc, opened, ops, stale>>

\* purge_port removes the file, then stops the proxy.
Unlink(w) ==
    /\ op[w].pc = "unlink"
    /\ cfg' = [cfg EXCEPT ![op[w].imei] = {}]
    /\ Goto(w, "stop")
    /\ UNCHANGED <<row, proxy, mode, frpcFile, frpc, opened, ops, unsure, stale>>

\* Mutant: a proxy that is stopped is not unpublished.
StopUnsynced(w) ==
    /\ op[w].pc = "stop"
    /\ proxy' = [proxy EXCEPT ![op[w].imei] = {}]
    /\ unsure' = IF op[w].owns THEN unsure \ {op[w].imei} ELSE unsure
    /\ op' = [op EXCEPT ![w] = Idle]
    /\ UNCHANGED <<row, cfg, mode, frpcFile, frpc, opened, ops, stale>>

\* systemctl stop, then the way in is synced.
Stop(w) ==
    /\ op[w].pc = "stop"
    /\ proxy' = [proxy EXCEPT ![op[w].imei] = {}]
    /\ unsure' = IF op[w].owns THEN unsure \ {op[w].imei} ELSE unsure
    /\ Goto(w, "sync")
    /\ UNCHANGED <<row, cfg, mode, frpcFile, frpc, opened, ops, stale>>

-----------------------------------------------------------------------------
(* publish.sync, the end of every operation *)

\* _sync_relay renders the tunnel's file; _sync_direct stops the tunnel.
Sync(w) ==
    /\ op[w].pc = "sync"
    /\ \/ /\ mode = "relay"
          /\ frpcFile' = Live
          /\ Goto(w, "reload")
          /\ UNCHANGED frpc
       \/ /\ mode = "direct"
          /\ frpc' = {}
          /\ Goto(w, "allow")
          /\ UNCHANGED frpcFile
    /\ UNCHANGED <<row, cfg, proxy, mode, opened, ops, unsure, stale>>

\* A sync that nothing overlapped sets the way in right.
Synced(w) == stale' = (stale /\ ~op[w].alone)

\* The tunnel is restarted and reads its file.
Reload(w) ==
    /\ op[w].pc = "reload"
    /\ frpc' = frpcFile
    /\ Synced(w) /\ Done(w)
    /\ UNCHANGED <<row, cfg, proxy, mode, frpcFile, opened, ops, unsure>>

\* ufw allow for the ports of every live modem; no rule is ever removed.
Allow(w) ==
    /\ op[w].pc = "allow"
    /\ opened' = opened \cup Live
    /\ Synced(w) /\ Done(w)
    /\ UNCHANGED <<row, cfg, proxy, mode, frpcFile, frpc, ops, unsure>>

\* The worker dies (a restart of the web service, Ctrl-C), or a step raises.
Die(w) ==
    /\ op[w].pc # "idle"
    /\ op' = [op EXCEPT ![w] = Idle]
    /\ stale' = TRUE
    /\ unsure' = IF op[w].pc \in {"sync", "reload", "allow", "entry", "mint"} THEN unsure
                 ELSE unsure \cup {op[w].imei}
    /\ UNCHANGED <<row, mode, ops>> /\ UnchangedFiles

Begin(w) ==
    \/ \E m \in Modems :
          \/ Apply(w, m) \/ SetPassword(w, m) \/ StopProxy(w, m) \/ PurgePort(w, m)
          \/ StorePort(w, m) \/ DropLogin(w, m)
    \/ \E new \in {"relay", "direct"} : SetAccess(w, new)
    \/ ListPorts(w)

Continue(w) ==
    \/ \E m \in Modems : Entry(w, m)
    \/ Mint(w) \/ Allocate(w) \/ SetPort(w) \/ Render(w) \/ Restart(w)
    \/ Unlink(w) \/ Stop(w) \/ Sync(w) \/ Reload(w) \/ Allow(w)

Next == \E w \in Workers : Begin(w) \/ Continue(w) \/ Die(w)

Spec == Init /\ [][Next]_vars

-----------------------------------------------------------------------------
(* Properties *)

\* The main login and the storefront's.
HandedOut(r) == (({"main"} \X {r.main}) \cup ({StoreName} \X {r.store}))
                    \ ({"main", StoreName} \X {0})

Quiet == \A w \in Workers : op[w].pc = "idle"

\* The logins in the database, which the panel, the pool API, the customers' page
\* and the storefront hand out, are those the running proxy accepts, and a proxy
\* that is off accepts none.  So it is when nothing is under way, of every modem
\* whose operations did not overlap and were not cut since it was last set right.
\* Needs a storefront that does not take the owner's user name for its own.
LoginsWork ==
    Quiet =>
        \A m \in Modems \ unsure :
            proxy[m] = IF m \in Live THEN HandedOut(row[m]) ELSE {}

\* "sync() is called whenever proxies change (apply/purge/start/stop) so the
\* firewall rules / tunnel config always track the live set" (publish.py:14):
\* whatever was overlapped or cut before, after one operation that ran alone to
\* its end the way in is right, for the mode that is set.
WayInTracksLive ==
    Quiet /\ ~stale =>
        \/ mode = "relay" /\ frpc = Live
        \/ mode = "direct" /\ frpc = {} /\ Live \subseteq opened

=============================================================================
