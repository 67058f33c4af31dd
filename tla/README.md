# modemproxy in TLA+

modemproxy turns 4G/5G modems into HTTP and SOCKS5 proxies: one 3proxy
instance per modem, a rotating pool port over all of them, and around these a
web panel, a storefront API, a command line and half a dozen systemd timers.
This directory holds specifications of the parts of it that keep state shared by
several programs, the TLC runs that check them on small instances, and proofs
for every size of the constants where TLAPS reaches.

Paths are relative to `src/modemproxy/` unless they begin with `src/`.

## 1. How the system runs

There is no central process.  The same Python functions are called by

| process | started by | what it runs |
|---|---|---|
| web service | `modemproxy-web.service`; a pool of worker threads and daemon threads | `web/app.py`, `web/compat.py` |
| pinger | timer, every 2 minutes | `manager.discover`, which ends in `sync_pool` |
| rotator | timer, every minute | `manager.rotate_due` |
| quota | timer, every 5 minutes | `quota.check` |
| expiry | timer, daily | `subscriptions.check` |
| health | timer, every 15 minutes, and at boot | `healthcheck.run`, which restarts proxies and runs `bands.guard` |
| bandwidth | timer, every minute | `bandwidth.sample` |
| CLI | the administrator | any of them |

They share an SQLite database (every `db.py` helper opens a connection of its
own: one helper is one transaction, and nothing spans two), files under `/etc`
and `/var/lib` (`config.yaml`, the 3proxy configs), systemd (which units run,
which are enabled at boot) and the modems themselves.  The only lock in the
program is the `flock` around a login to a ZTE device.  systemd does not start
a oneshot unit twice, but two different units, the web service's threads and
the CLI overlap freely.  So the state that has to agree (row, file, unit; column
and device; list and index) is always written in several steps, and each step
of the models is one transaction, one file access, one `systemctl` call or one
request to a device.  Some that directly follow one another are merged into one step: `systemctl` enable and restart, or stop and disable, in ProxyLifecycle (`Restart`, `Remove`; PoolSync, which is
about kills, has them apart); the truncation and the filling of the pool's 3proxy config in
PoolSync (`WriteFile`; of `config.yaml` they are two steps); rendering and writing of the tunnel's file, and
stopping and disabling of the tunnel, in Access (`Sync`); the `-C` and `-A` of both chains in Bandwidth (`EnsureRules`).
What another process, or a kill, does inside one of these is not examined.

## 2. Inventory

| component | state | operations | with whom it interacts | what is hard | what makes it correct |
|---|---|---|---|---|---|
| Port allocation (`proxy/generator.py` 31-83, `db.py`) | rows of `modems` and `ports` | `allocate_port`, `purge_port`, `discover` (new IMEIs) | all who apply a port: web, storefront, quota unlock | positional index that shifts; five or more transactions per allocation | no port twice; HTTP and SOCKS in step; never the pool's port; a refresh moves nobody |
| Proxy lifecycle (`generator.py`, `quota.py`, `subscriptions.py`, `healthcheck.py`, `app.py`, `compat.py`) | `ports` row, 3proxy config, unit running, unit enabled, month's traffic | apply, disable, purge, quota, expiry, health loop | timers decide on rows that others change | write and `systemctl` are separate; snapshots in loops; flags that outlive their reason | what is off stays off and does not run; what is on is served; expiry and quota act, and let go |
| Rotating pool and config file (`generator.py` 290-375, `config.py`) | `config.yaml`, each process's cached copy, pool config, pool unit | `sync_pool`, `update_config` | called by every discovery and every proxy operation | file compared instead of the unit; read-merge-write without a lock; truncate before write; kills, reboots | pool comes in line; no idle restart; one password; the administrator's switch survives |
| Band lock (`modems/bands.py`) | device masks, `band_lock` column | apply, clear, read, scan, guard | web threads, CLI, health check | device and column written apart; narrow and lost readings; a scan interrupted | restore point is the own mask; never stuck on a test band; a dead cell is left |
| Rotation and auto-reboot (`modems/manager.py`, `services/autoreboot.py`, `netdev.rotate`) | last rotation, address on record, score, last reboot | `rotate`, `rotate_due`, `rotate_all`, `record` | rotator, hook, panel, storefront, discovery | minimum interval checked minutes before it is logged; failures in a loop | due modems are rotated, others are not; reboots apart |
| Policy routing and discovery (`modems/netdev.py`) | `ip rule`s, routing tables, `rt_table` column, status | `setup_routing`, `discover`, `register_manual` | kernel | table numbers by position and by "next free"; modems that vanish | one table per modem; status tells the truth |
| ZTE session (`netdev.py` 300-463, the ZTE halves of 780-1076, `app.py`) | cookie jar file and its lock, the device's single session, its one-time token and SMS key | check, log in, rotate, reboot, status, SMS; adoption of the browser's login | every process that talks to a device; the operator's browser | the device allows one session; slow calls write the jar back; adoption without the lock | a session in use is not thrown away; the radio comes back; messages stay readable |
| Sticky sessions (`db.py` 255-280, `app.py`) | sticky rows | pick a modem for a key | hook requests | list, read and write are three transactions; expiry | one key, one modem while it lives |
| Health report (`healthcheck.py`, `alerts.py`) | `healthcheck.json` | `run` by timer, at boot and by hand | lifecycle, bands, Telegram, mail | state saved before the message is sent; runs that are cut short | a change is told, once, and the end of it too |
| Publishing and logins (`publish.py`, `generator.py`, `compat.py`) | ufw rules, frpc's file and process; logins in row, file and running 3proxy | `sync`, `set_access`; set password, storefront logins | every operation on a proxy ends in `sync` | copies of copies, remade in several steps | a login that is handed out works; the way in follows the live proxies |
| OpenVPN (`openvpn.py`) | unit, config, index | `enable_vpn`, `disable_vpn` | modem list | positional index | one index per modem |
| Bandwidth (`bandwidth.py`) | iptables rules and counters, samples | `sample`, `report` | quota | counters that reset, rules by address | a report is what was carried |
| Web panel, customers, authentication | users, sessions | request handlers | all of the above | none of its own | - |
| Storefront API (`compat.py`) | extra logins of a row | `store_port`, `apply_port`, `purge_port`, `reset` | lifecycle, rotation | ends in `apply_port` | drops its own login, never the modem |
| ModemManager wrapper, tunnel, metrics, GeoIP, TTL, speed tests, CLI, installer | none of their own | wrappers and reports | - | - | - |

## 3. The modules

Processes are a constant set (`Procs`, or `Threads` and `Timers`); what a process
is in the middle of is one record (`job`) or program counter, so that the steps
of two calls interleave freely.  `Hazards` is a constant set of optional
events: a run names exactly the events it admits, and a theorem names those it
excludes.

### PortAllocation (+ PortAllocationProofs)

`known` and `ports` are the two tables; a modem is the rank of its IMEI, which is
all that `_modem_index` uses.  `GetExisting`, `ListModems`, `ReadTaken` (one per
modem), `PickPorts` and `SetPort` are the transactions of one `allocate_port`,
in order; `usedHttp`, `usedSocks` and `pick` are its local variables.
`PurgePort` is `delete_port`, `Discover` a new row of `modems`.  `FirstFree` is the
`while h in used` loop.  Port 0 stands for NULL.

PortTable is the abstract specification: a table in which assigning free ports
is one step and which ports is left open.  `ImplementsTable` says that
PortAllocation with one process implements it, for the offsets `1 .. 2N - 1`.  The two
tables map to themselves; what the refinement hides are the transactions before
the write.

### ProxyLifecycle (+ ProxyLifecycleProofs)

`row`, `cfg`, `active`, `boot` are the `ports` row, the config file, and what
systemd was told; `used` is the month's traffic, which `bandwidth.report` sums.
An operation's first write is its first action (`ApplyPort`, `Disable`, `Purge`,
`SetQuota`, ...); `Render`, `Restart`, `Halt`, `Unlink`, `Remove` are the steps
that follow.  The three checks are loops over a snapshot: `todo` is what the
loop has left, and a quota decision (`QuotaRead`) is made on the row as it is
then and carried out later (`QuotaLock`, `QuotaUnlock`, `Enable`).  Credentials,
names and white lists are data of the row that no property looks at.

### PoolSync (+ PoolSyncProofs)

`saved` is `config.yaml`, `cached` each process's copy of it (web threads share
one); `file`, `running`, `up`, `boot` are the pool's config, what 3proxy has
loaded, and what systemd was told.  Every access is a step: `update_config`
truncates before it fills (`ToggleTruncate`/`ToggleFill`, `SaveTruncate`/`SaveFill`), the
file's existence and its text are looked at separately (`CheckExists`, `Compare`),
enabling, starting, stopping, disabling and unlinking are five steps.
`issued`, `chosen`, `idly` and `torn` are history variables: passwords generated,
the administrator's last choice, a restart that changed nothing, and what a
killed call left half done.

### BandLock (+ BandLockProofs; MCBandLock adds symmetry)

`device` is what the modem is set to, `saved` the `band_lock` column, `covered` the
bands that have a cell.  A `job` runs through read (`AskDevice`, `LoadLock`,
`KeepMask`), apply (`LockLte`, `LockNr`, `SaveLock`), clear (`ClearLoad`, `UnlockLte`,
`UnlockNr`, `SaveCleared`), scan (`TestBand`, `Restore`, `SetMask`) and guard (`HealthCheck`, `GuardLoad`,
`GuardProbe`).  A request that changes the device may be refused, or done and its answer lost, which the
code takes for a refusal.  Strikes stop at `Strikes` in the model, where the code counts on:
all that it compares is whether they have got there.  A scan tests the bands in any order and may stop at any of
them (the web API passes any list).  `enabled` is the switch of the modem's proxy: a run of the health
check lists the modems that are switched on, and reaches their guards later.  `Readings` is what a status request may
answer: the masks; a single band, while the radio re-attaches; nothing.

### Rotation (+ RotationProofs)

`link` is the modem itself, `status` the column that `discover` writes, `since` the age of
its last entry in `rotation_log`, `score`, `start` and `sent` the failure score, the
start of its window and the age of the last reboot; `earned` is a history
variable, the points since the last reboot.  Times are ages, as the code only
ever compares `now() - ts` with a setting; `Tick` is the clock.  A `job` runs
through the minimum interval (`CheckInterval`), the attempts (`Redial`, `RedialFails`,
`AskAddress`), the log (`LogRotation`) and the score (`ReadScore`, `AddScore`,
`AlertShouldSend`, `ClearScore`, `RebootModem`); `loop` and `todo` are the loop of `rotate_all`,
`rotate_due` or `discover` that called it, and `Raises` what an exception does to that
loop.  A modem is up or down as `discover` sees it: what makes it
so (a public address, or signal, or an operator, `modems/netdev.py`:203) is not told apart.  `alert_should_send` is one step: its SELECT and INSERT share one
connection.  `Flaky` modems may fail, hang up and vanish; the others never do.

### Routing (Netdev puts it beside ZteSession; + NetdevProofs; MCRouting fixes the names of the first state)

`order` and `addr` are the interfaces as the kernel lists them, `rules` and `route` the
kernel's policy rules and the default routes of the tables, `row` the address and
the `rt_table` column.  Table n stands for `ROUTE_TABLE_BASE + n`.  The commands of one
`setup_routing` are four steps (`FlushTable`, `AddRoute`, `DelRule`, `AddRule`), and whoever
called it goes on: `discover` with the next dongle by position (`RefreshDongle`) or
the next router on record (`RefreshRouter`), after the row was written (`SaveRow`);
`RegisterManual` writes the row too, `ApplyPort` does not, and takes its arguments from it.
`Plug` and `Unplug` are the hardware; the kernel drops the routes of an interface that
goes and keeps the rules.  `Egress` is the kernel's rule lookup.  What a process is in the middle of is `calls`.  Rules that `ip` is given
without a priority may be alike; `TypeOK` says that they still never outnumber the
processes.

### ZteSession (+ NetdevProofs; MCZteSession adds symmetry)

`session` is the login that the device honours, `jar` the one in the cookie file,
`browser` a login of the browser that the panel has forwarded and not yet adopted; logins
are numbered in the order of the device.  A process runs its `job` command by
command; `cookie` is the jar as its curl call read it, and an answer that comes
late meets a jar that others have rewritten (`JarAfter`).  `TakeLock` to `LoginSaved`
are `_zte_login` under the `flock`; `TakeToken` and the command after it use
`token`, the device's one-time RD; `Handshake` makes the AES key of the device the
process's own.  Any call may be refused, not arrive, or be carried out with its answer lost, and the code
takes all three alike (`_http` returns False, `zte_set` an empty text, `_zte_enc_key` None): `Fails` is a command
that was not carried out, `HandshakeFails` a handshake that was not or that the process does not know of,
`NoCertificate` a certificate that did not come; a challenge, a check, an RD or a login may go unanswered in
`CheckFails`, `TakeToken`, `Login` and `LoginFails`.  `unrestored` and `doubtful` are history variables: what of the radio has been left down
by a failed command or a killed rotation, and which processes may not have the
session's key.  `BrowserLogin`, `Adopt` and `NotAdopted` take no lock, as in the code.

### HealthReport (+ HealthReportProofs)

`bad` is what does not work now, `state` the state file, `told` the last message that
arrived.  A run makes its checks in the code's order (`Rank`; `CheckProxy`, `CheckPlain`,
`CheckBands`, `CheckVpn`, `CheckPublic`), each with the repair that the code tries, then loads
the old state, saves the new one and delivers (`LoadState`, `SaveState`, `Deliver`,
`SendFails`).  `Abort` and `TornSave` are a kill or an exception; the repairs are abstract (it
works afterwards, or not), their detail is in ProxyLifecycle and BandLock.

### Access, StickySession, Bandwidth (+ ServicesProofs; MCServices runs them)

Access follows a login from the row (`row`) through the file (`cfg`) into the running
3proxy (`proxy`), and the live set into frpc's file, its process and the firewall
(`frpcFile`, `frpc`, `opened`).  `Apply`, `SetPassword`, `StopProxy`, `PurgePort`, `StorePort`,
`DropLogin`, `ListPorts` and `SetAccess` start an operation of a worker; the rest of it
are steps of their own, which other workers interleave and `Die` may cut.  `unsure` and
`stale` record what was cut or overlapped, and are cleared by the next operation that
runs alone to its end.

StickySession has one action per transaction of a request (`ListPool`, `StickyGet`,
`StickySet`).  Bandwidth has one per stage of a sampler, the rules of both chains (`EnsureRules`), each
chain's counter (`ReadRule`), the row (`Insert`); `carried` is what the modem has really
carried, which each row remembers (`seen`) for the report to be compared with.

The three share no state.  MCServices moves one of them at a time while the other
two are as they started: one run, and the sum of their states, not the product.

## 4. The runs

| run | question | instance |
|---|---|---|
| MCPortSerial | one process: ports distinct, in step, disjoint from the pool's, stable; PortTable is implemented | 3 modems |
| MCLifecycleSerial | one process, every operation and timer in any order: database, file and unit agree when nothing is under way; the disabled are left alone | 2 modems |
| MCLifecycleLive | two processes, reboots, storefront deletes: expiry disables, the quota lock is released | 1 modem |
| MCPoolSerial | calls one at a time, killed and rebooted anywhere: the running pool is the file; no idle restart; neither of the two keys of the config file is lost; the pool comes in line | 2 modems, 1 thread, 1 timer |
| MCPoolLive | two overlapping timers, reboots, exits of 3proxy: the pool comes in line | 2 modems, 2 timers |
| MCBandSerial | one operation at a time on a device that obeys: column and device agree; a dead cell is left, if the proxy stays on | 3 LTE bands, 1 5G band |
| MCBandFailures | two operations overlap, are killed, refused, unanswered, misread: the restore point is the own mask, and once known stays known | 3 bands, 2 processes |
| MCRotation | one call at a time, requests, both timers and the clock: no rotation before its time or within the minimum interval, no reboot without its points, the due modem is rotated | 2 modems, one of them flaky |
| MCRouting | discovery and requests overlap, are killed, while modems come, go and change places: routers keep tables of their own, in the end every modem's traffic leaves through it | 2 dongles, 2 routers, 3 addresses |
| MCZteSession | two processes and a browser on one device: stale cookies, sessions and logins that cross, unanswered calls, the radio, messages | both firmwares, 2 processes, 2 logins |
| MCHealth | timer, boot service and command line one after the other, cut short, with messages that fail: what is remembered was told, nothing twice, in the end the truth | 1 modem, 4 other checks, 1 abort |
| MCServices | logins and ways in after any mix of operations; sticky keys; samples against traffic | 2 modems, 2 workers, 3 operations; 2 keys; 3 rows |

**Bounds, and why they are enough.**  Three modems make an index shift while
two others hold ports, which is the least that lets a positional port collide;
the range `2N - 1` that allocation drifts to is reached with them.  Modems of
ProxyLifecycle do not interact but through the loops, for which two are enough;
usage and caps are compared only, so `MaxUsage` 1 gives below, at and
above a cap.  `MaxChanges` of PoolSync bounds the changes of the environment
(modems, switch, kills, reboots) - four give an A-B-A change with a kill in
between - and `MaxPasswords` is set above what the changes can use up.
`MaxRequests` of BandLock bounds operations asked for, not those of the guard.
Three LTE bands tell "the own mask" from "a lock of two bands" and "a test
band".  `Strikes` is the code's 3 in the serial run and 1 with failures, where no
property depends on the count.  In Rotation a flaky modem and a reliable one are
what the loops can confuse; `Interval` 2 over `MinInterval` 1 keeps the two limits
apart, two attempts give one retry, and a score of 3 with points of 1 and 2 is
reached by several mixtures of failures, before and after its window (1) ends.
Routing needs two dongles to change places and two routers to be given tables
beside them, of which either may get what the other had; three changes (of the hardware, requests, kills) unplug a dongle,
plug it in elsewhere and apply its old row.  With two discoveries that overlap (two Timers, no
Threads, two changes) the properties hold as well; that takes minutes and is no run.  MCRouting
instantiates Routing beside a ZTE session that stays as it is, as the proofs about both are in one module.
In ZteSession two logins are enough for one to end the other while a third party
still holds the first; two processes are what the lock is for, and the browser
is the third.  HealthReport needs one proxy, a check whose failure implies another ("public"
when every proxy is down), one that is repaired, and one abort; the three units are the
ways to be cut or to be quiet.  Three operations of Access leave one to overlap or cut another
and one to set things right.  Two ticks and two lifetimes let a sticky binding expire
before another; three rows give a difference of differences, which a
reset between two samples has to survive.

Deadlock is checked in every run but MCServices, which stops when its bounds (`MaxOps`,
`MaxNow`, `MaxRows`, `MaxBytes`) are reached.  `TypeOK` of the modules of this section
holds in the runs' instances too where the table of properties does not name it (BandLock, Routing, ZteSession,
HealthReport, Access, StickySession, Bandwidth).

## 5. Fairness

Weak fairness for a call that has begun: Python goes on unless it is killed.
For what a systemd timer starts, strong fairness: the timer fires again and
again, and although another call can be under way at any moment, it is not at
all of them.  systemd's `Restart=always` is weakly fair.  Of the environment
nothing is assumed but that the host does not restart for ever (ProxyLifecycle)
and that changes are finitely many (PoolSync, by its bound).  `Restore` of a band scan
is strongly fair because a scan has finitely many bands.  In Rotation the clock
ticks and both timers are strongly fair; nothing is assumed of a flaky modem.
In Routing a call that has begun goes on, and discovery is strongly fair.
In HealthReport a run that has begun goes on, and the timer's next run is
strongly fair, as another unit may be at work when it is due; that messages arrive
in the end is not assumed but a premise of `OutageIsTold`.  ZteSession,
Access, StickySession and Bandwidth state only safety.

## 6. What holds only under an assumption

Each of these was found while modelling; the models contain the behaviour, and a
run or theorem that excludes it names the assumption.  Some have no run of their
own; all are reproduced by adding the hazard or the process to the .cfg named.

* *One allocation at a time* (MCPortSerial with two processes): `DistinctPorts` fails; the taken ports are
  read in one transaction per modem and the choice is written in a later one.
  Order and range survive: `PortsInStep` and `ListenersDisjoint` are proved for any number
  of processes.
* *One operation at a time* (MCLifecycleSerial with two processes): `DisabledLeftAlone` fails, as `quota.check`
  locks a row that was disabled since it was read, and the next check starts it;
  `NoRogueUnit` fails, as a restart may come after the stop of a later disable.
* *No reboot* (MCLifecycleSerial with "reboot"): `NoRogueUnit` fails, as `stop_proxy`
  does not disable the unit.
* *A cap that stays*: `set_quota(imei, 0)` on a locked proxy leaves it locked, as
  `check` skips ports without a cap before it looks at the lock; `LockIsReleased`
  therefore speaks of proxies with a cap.
* *No kill between the writing of the pool config and the restart*: else the pool
  runs the old config until the modems change.  `torn` records it.
* *No overlap in PoolSync*: two calls may both restart (`NoIdleRestart`), and two
  writers of `config.yaml` overwrite one another (`KeysKept`).  `PoolComesInLine`
  survives overlap.
* *No overlap in Rotation* (MCRotation with `Overlap`): a rotation by hand while the
  rotator is dialling logs between the rotator's check and its own log, so
  `ScheduleKept` and `RotationsApart` fail; two failures that are recorded at once may both
  reboot (`RebootEarned`), the second after the first has cleared the score.  The first two
  survive where nothing but the timer rotates, and that is proved.
* *No net-mode modem that fails* (MCRotation with `Flaky` a netdev): `rotate_due` does not catch
  the `NetdevError` that `rotate` raises (`modems/manager.py`:173), so the modems behind
  the failing one in the list are not rotated, and `DueIsRotated` fails.
* *Dongles before routers* (MCRouting with "late dongle"): a dongle takes
  the table of its position (`modems/netdev.py`:232), whoever has it, also that of a
  router which was registered before the dongle was plugged in.
* *A proxy over its cap is not applied again*: `apply_port` (`proxy/generator.py`:82) starts it
  whatever `quota_locked` says, and `quota.check` (`services/quota.py`:53) skips what is locked
  already, so it serves on until the month ends.
* *One registration at a time, and none a second time beside a discovery* (MCRouting with "again", or
  with a second thread):
  `discover` writes a router's table back as it read it before the dongles and routers ahead
  were asked; when that router was registered again meanwhile, and another one
  took the table that became free, the two share it, and keep it (`RoutersApart`).  Two
  `register_manual` that overlap choose the same table at once.  A first registration beside a
  discovery is harmless, and proved so.
* *In the end*: `RoutesSettle` promises nothing for the moments between.  A table is empty between
  `flush` and `add`, and the traffic leaves by the server's own default route; `apply_port`
  of a modem that is gone flushes the table of the dongle that took its
  position, until the next discovery.  Modems that share a source
  address are excluded: one rule per address is all that `setup_routing` keeps.
* *One process generates the pool's password*: a web service that cached the blank one
  (`_pool_password` looks at its cache) generates a second after a timer has saved one, also
  strictly one after the other (PoolSync with "blank password"; `issued` reaches 2).
* *5G bands that were read before the first unlock* (BandLock): `clear` stores a blank 5G default,
  which the next `apply` does not replace, and the unlock after it leaves 5G locked.
* *No storefront delete of a disabled proxy*: `purge_port` of the storefront ends in
  `apply_port`, which switches it on (`DisabledLeftAlone` in MCLifecycleSerial with
  "storefront delete").
* *A proxy that is on*: the health check guards only modems with an enabled proxy
  (`services/healthcheck.py`:183), so a modem whose proxy is off stays locked to a dead cell
  (`DeadCellFreed` has `<>[]enabled` as its premise).
* *A proxy that is applied after its modem's address changed*: the 3proxy config of a ModemManager modem
  names the WAN address of the day it was rendered (`proxy/generator.py`:113), and nothing but
  `apply_port` renders it again, not the rotation that changed it, nor discovery, nor
  the health check's restart.
* *A band scan that is not killed, readings that are not narrow, no refusal of 5G, no overlap*:
  else `NotStuck` or `DeadCellFreed` fail: nothing on record undoes a test band;
  a first scan puts a narrow reading back; an LTE mask is set before 5G is
  refused and is then on no record; a reader's write of the whole column
  undoes a lock.  `RestorePointIsOwnMask` survives all of them.

* *Commands that arrive* (ZteSession, `unrestored`): `_rotate_zte` does not look at the answers of the commands
  that restore the radio, nor repeats them.  When the restoring preference or the CONNECT is refused
  (two processes ask for RD tokens in turn, and the later one makes the earlier one's command refused), or does
  not arrive in 20 seconds, or the rotation is killed before it, the radio stays on 3G or off line until
  the next rotation.  `RadioRestored` says that nothing else leaves it there.
  `reboot_zte` sends no AD token to the firmware that wants one and takes curl's exit for success.
* *A session check that is answered* (`crossed`): one that times out is followed by a login although
  the session is valid, which ends the browser's.
* *Handshakes that are answered, one SMS job at a time in one session* (`doubtful`): `_zte_enc_key` takes an unanswered
  `web_crt_get`, and a handshake that is refused or whose answer is lost, for a device that wants no
  encryption.  The message then goes out plain to a device that decrypts, or, when the handshake was
  carried out, is read with no key.  Each handshake replaces the device's key, so a
  message sent after another job's handshake, or after a new login, is encrypted with a key that
  the device has dropped.  `SmsReadable` says that nothing else garbles one.
* *Runs of the health check one at a time* (MCHealth with `Alone` FALSE): two runs may save in
  one order and send in the other, and a recovery between them is told by none.
* *Messages that arrive* (`lost`): `run` saves the state and then sends
  (`services/healthcheck.py`:213), so a send that fails, a kill in between, or `--quiet` makes
  the next run find nothing new.  `alert_should_send` (`db.py`:329) likewise records before
  the alert goes out.
* *A run that ends* (`aborts`): the handler at `services/healthcheck.py`:89 names a `log`
  that the module does not define, so an exception there ends the run with no report.
* *No guard that is refused*: `bands.guard` reports a repair whenever it has tried
  one, so that from the third strike every run of the check says "healed" and sends a message
  (`NoSpam` speaks of the runs that report no repair).
* *The storefront's login is not called as the owner's* (MCServices with `StoreName` "main"): `_all_users`
  drops the second login of a name, so the storefront hands out one that does not work (`LoginsWork`).
* *Operations on a proxy that neither overlap nor are cut* (`unsure`, `stale`): two `allocate_port`
  write a whole row each and the later one restores an old password; a storefront listing
  that dies between `set_extra_user` and `apply_port` leaves a login that is handed out by every later
  listing and loaded by none of them.  The next operation that runs alone sets the way in right, the
  next one on that modem its logins.
* *ufw rules stay*: in direct mode `WayInTracksLive` says that live ports are open, not that open
  ports are live: no rule is ever removed (`services/publish.py`:119), while the module's comment (line 14) speaks of
  tracking the live set.
* *A client that waits for its answer* (MCServices with `OneAtATime` FALSE): two first requests of one
  key choose two modems and are both answered; the later write stays (`StickyKept`).  A request
  with another `operator` filter rebinds the key.
* *Counters that can be read* (MCServices with `ReadsFail`): a chain that cannot be read counts as 0, and when it can be read again
  everything since the boot is counted a second time (`UsageIsTraffic`).  Two samplers that overlap
  count twice too; a modem that falls back to its interface's counters mixes two series.
* *An address that stays until the next boot* (`moved`): after a change of `bind_ip` the first
  rule with the modem's tag, which is the one of the old address, is read on, and the traffic is not counted.
* *OpenVPN*: the index that gives a server its port and network is the position of the modem in the
  list at the time of the call, and its unit is named after the display name; a modem with a
  smaller IMEI, or a new name, orphans what was exported.  The table it routes by is 100 plus a checksum
  of the interface modulo 100 (`services/openvpn.py`:109), which may be the table of another modem
  (`ROUTE_TABLE_BASE` is 100 as well): the server replaces that modem's default route, and the next
  discovery takes the server's.

## 7. What is proved

All theorems are for every value of the constants.  Assumptions on the
constants are the named ASSUMEs of each module; further hypotheses are in the
statement of the theorem.

* **PortAllocationProofs.**  `RangeInvariance` (types, and `RangeInv`: every row and pick is
  empty or a pair in step between the bases) is inductive for any number of
  processes; the search ends within the range because a scan has collected at most one port
  per other modem, a counting argument over `FirstFree`.  From it follow
  `PortsInStepThm` and `ListenersDisjointThm`.  With `Serial` (one process), `SerialInv` adds
  what that process knows of the table (`ScanSound`: a port that is in use is
  collected or still to be read), from which `DistinctPortsThm` and `PortsStableThm` follow.
  `ImplementsTableThm` is the refinement: `TableStep` maps every step of one process to a step of
  PortTable or a stutter, and the only step that needs the invariant is the write (`SetPortAssigns`:
  what was picked is still free).
* **ProxyLifecycleProofs.**  `TypeInvariance` for any number of processes.
  `DisabledLeftAloneThm` from `OffInv`: the part of the quota job's snapshot that is
  still true when it acts; it holds across reboots.  `NoRogueUnitThm` and `EnabledIsServingThm` from
  `AgreeInv`: row, file and unit agree for every modem but the one whose operation is half
  done, of which the row has been written already.
* **PoolSyncProofs.**  `PoolTypes` for any number of overlapping processes under
  every hazard, including that no pool runs which systemd was told to stop.
  `RunningIsFileThm` from `PoolInv`: the running pool may be older than the file only between the
  writing of the file and the restart, and then the restart is pending or on record as torn off.
  `KeysKeptThm` and `NoIdleRestartThm` exclude overlap, as the runs do.  `KeysInv`: what a merging call has in
  hand holds the administrator's last choice and the last password, whatever the stale
  copy said that it started from.  `FreshInv`: a call that has found the file unequal to what it renders, or
  missing, is about to load a file that the running pool does not have, unless a call was torn off before;
  for that, 3proxy must not exit by itself, or a pool that systemd has just
  started from the new file is restarted once more.
* **BandLockProofs.**  `BandTypes`, `RestorePointThm` and `MaskIsKeptThm`, with no hypothesis: any number of
  overlapping operations, every hazard.  `BandInv` says that every mask on record, or carried by
  a job to be recorded or set, is empty or the own mask, and that a modem
  can be on fewer bands only when its own mask is on record, so
  that `Widest` never lets a narrow reading in and no copy of the column is written back without the own
  mask.  `NotStuckThm` admits no hazard but the proxy's switch (one operation at a
  time, a device that obeys): `CalmInv` says that the device is settled between operations, and that the only job
  under way, at every point of a lock, unlock, scan or guard, still has what it takes
  to settle it: the mask to put back, or the lock that is about to go on record.
* **RotationProofs.**  `RotationTypes` for any number of overlapping calls; it needs that an
  attempt is under way only while one is left.  `ScheduleKeptThm` and `RotationsApartThm`, where
  calls do not overlap or nothing but the timer rotates: `RotationInv` says that what was
  checked holds good until the log, for the modem at hand and for the rest of
  the rotator's list, which no modem is on twice.  `RebootEarnedThm` without overlap, from
  `ScoreInv`: the score never exceeds the points earned, also between its
  reading and its writing.
* **HealthReportProofs.**  `HealthTypes` for any number of overlapping runs; it needs that a run begins
  without failures.  `StateIsToldThm` and `NoSpamThm` where runs do not overlap (`Alone`), from `ToldInv`: the
  file and the last message differ only while a message is on its way or one was lost, so that what
  a run compares its failures with, when it saves, is what was told.
* **NetdevProofs, ZteSession.**  All for any number of overlapping processes, kills, timeouts and
  expired sessions included.  `SessionTypes`.  From `JarInv` (a process
  that is logging in holds the lock, and until something crossed its check, what it read from the jar is what the jar
  still holds, and is not the session that the device honours) follow `SlowCallsThm` and `LoginsNotWastedThm`.  `SmsReadableThm` from `KeyInv`: the key that a process has
  made is the one the device holds, and a process without one uses a session without one, from the handshake to the
  exchange, or the process is in `doubtful`.
  `RadioRestoredThm` from `RadioInv`: while the radio is off, or off automatic, either that aspect is in `unrestored`, or
  some process is at a point of its rotation after which the command that puts this right, in this firmware, is still to come.
  Neither excludes calls that fail.
* **NetdevProofs, Routing** (`R` in Netdev).  `RoutersApartThm` under `OneByOne`: the hazards "late dongle" and "again"
  excluded, and one thread if calls overlap at all; discoveries may overlap one another and every
  request, and be killed.  `TablesInv` says that the rows of dongles hold positions, and the rows of
  routers distinct tables beyond them; that a discovery's stale list of routers and their tables still agrees with the
  rows (`Shaped`); that a registration under way has a table beyond the positions that no other router has, and that it is
  the only one, and of a new router where a discovery is under way (`Exclusive`).  That the next free table exists and is the least is a counting argument over the rows
  (`NextTableFree`, `NextTableBeyond`).
* **ServicesProofs, Access.**  `AccessTypes`; `WayInTracksLiveThm` with no hypothesis: any workers and operations, cut anywhere.
  `WayInv` says of the one operation that runs alone how far it has brought the way in (`Prepared`): what frpc's file
  holds when it is about to be loaded.  `LoginsWorkThm` needs that the storefront's user is not called "main";
  `LoginsInv` follows the logins of a modem through the operation that owns it
  (`Phase`): what was rendered, what runs, and that no two operations touch one modem
  unless it is in `unsure`.
* **ServicesProofs, StickySession** (instantiated as `S`).  `StickyKeptThm` for clients that wait (`Patient`): `StickyInv` says that the row of a
  key is what its client was told last, unless that has expired, and that a request that has chosen its modem,
  but not written it yet, has kept what was promised.
* **ServicesProofs, Bandwidth** (instantiated as `B`).  `UsageIsTrafficThm` for samples that do not overlap and
  readings that do not fail (`Readable`), any addresses, traffic, reboots and number of rows.  `BandwidthInv`: every row
  follows on the row before it (`Chained`), as what a sampler holds does on the last
  row and the live counter on both (`Follows`: within an era the counter grew by what was carried, or by less once the address
  was changed; in a later one it shows no more than was carried since).  That a sum over a window tells the same as its rows
  is no induction: the running totals of `Usage` exist and are right because the first that was not would
  follow on one that is (`LeastNat`, from the well-foundedness of `<`; `RunningTotals`, `TotalIsTraffic`).

The proofs take each action in turn; lemmas say what a helper does to a job
(`GotoEffect`, `RenderEffect`, ...), pointwise, so that a step never expands a record
twice.

## 8. Only model-checked, and not modelled

Liveness (`ExpiredIsDisabled`, `LockIsReleased`, `PoolComesInLine`, `DeadCellFreed`,
`DueIsRotated`, `RoutesSettle`, `OutageIsTold`)
is out of the prover's reach and stays with TLC.  `TypeOK` of Routing, StickySession and Bandwidth is
only checked; the parts that their theorems need are in `TablesInv`, `StickyInv` and `BandwidthInv`.

Not modelled: OpenVPN (section 6 says why nothing worth stating holds of it; its
column is data of the row); device families other than ZTE beyond what Rotation says of
a redial; the pass-through of the router's own page; `sticky_purge_expired` and
`teardown_routing`, which nothing calls; the panel's request handlers, customers and
API keys (single transactions around the operations above); the command line,
which calls the same functions in a process of its own.
Parsing of `mmcli` and vendor web APIs, templates and static pages,
log and report formatting, GeoIP, speed tests, TTL rules, tunnels (pure I/O or
idempotent settings), authentication of the panel (no state shared with the
rest), the installer.

## 9. Plan

The modules above are done, from the most shared state to the least.  Left, in order of importance:

1. An abstract specification of the lifecycle (on, off, locked) that
   ProxyLifecycle implements with one process.
