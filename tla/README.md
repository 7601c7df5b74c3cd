# A verification project for the Silbo / RelySys router feed

The repository is an OpenWrt feed for a cellular gateway router. Most of it is packaging of
third-party programs; its own logic has two halves.

On the router, shell scripts under `src/relysyspackages/` are started
by cron, hotplug, MQTT dispatchers and the operator. They share no memory. What they share are
files: `/tmp` (lost at a reboot), `/etc` (flash), UCI sections and a few GPIOs. The models of this
half are scripts that interleave, each of whose steps reads or writes one such file.

In the browser, the web interface (LuCI2, changed in many places) keeps a copy of the configuration,
edits it through forms, and sends, applies and confirms it by JSON-RPC. The models of this half are
one page whose callbacks interleave with the user, the router's answers and other sessions.

Below, `P` stands for `src/relysyspackages/Silbo_RouterSoftware/files`, `IM` for
`P/root/InterfaceManager/script`, `U` for `src/ui/luci2/htdocs/luci2` and `W` for `P/www/luci2`.

## 1. Inventory

| component | state it keeps | operations | what is hard |
|---|---|---|---|
| **Interface supervision**: `InterfaceAnalyticsManager.sh`, `InterfaceStatusManager.sh`, `InterfaceActionManager.sh`, `26-publish_wan`, `NotifyIPChange.sh` | status file, notification info, arguments file, `IPDown`, SIM number, MQTT queues | data test, recording a report, waking the action manager, waiting for auto-recovery, the ladder of three actions, failure report | three processes with queues between them, a queue at its limit, minutes of waiting during which everything changes, nested retries |
| **Data limits**: `Data_Cap.sh`, `PrimarySwitch.sh`, `Reset_*data_usage.sh`, `forcesimswitch`, `simswitch`, `mwan3.user` (SIM part), `Recycle_WAN1_PWR_Script.sh` | marks in `/tmp/sim<n>data`, accounts in `/etc/sim<n>data`, flags in `/etc/sim<n>dataflag`, SIM number, netdev counter, a sleeping timer | cron flush and limit check, SIM switch, timer, resets, reboot | volatile counter and volatile mark against a persistent account; cron starts in the middle of a switch |
| **SIM selection**: `SimSwitch.sh`, `hotplug.d/tty/02-CWAN1`, `AddInterface.sh`, `DeleteInterface.sh` | network, modem and firewall sections, `SETAPN`, port files, lock files | switch, device add and remove | hotplug events of a device that belongs to the previous SIM, no lock in `SimSwitch.sh` |
| **Manager lifecycle**: `InterfaceInitializer.sh` | processes found through `ps` | start, stop, boot, on behalf of `SimSwitch.sh`, the web page, `SystemRestart.sh` and `SystemBoot.sh` | no pid files: start forks on the strength of an earlier `ps`, stop kills only the first match of a prefix |
| **Boot, start and restart scripts** | none of their own | one pass over the settings | what they do to the parts above |
| **Signal and speed based switching**: `Simswitchsignal.sh`, `cellulardatausagemanagerspeedcronscript.sh` | `/tmp/Sig.txt` | average and compare, switch | excluded by the data-limit setting, or off as shipped |
| **WAN failover**: `mwan3`, `mwan3.user` | default route, IPsec and firewall section names | hotplug of mwan3 | only its SIM part keeps state of this repository |
| **SMS commands**: `SMSEventHandler.sh` | none between messages | one command per SMS | parsing |
| **VPN and VRRP helpers**: `wireguard_failover.sh`, `vrrp_handler.sh` | previous endpoint in `/tmp` | endpoint choice by ping | flapping |
| **Application manager, monit, watchdog**: `GD44AppManager`, `watchdog.sh` | monit control files | start, stop | monit and the manager start the same programs |
| **Sender and configuration scripts** of the gateway software | generated configuration files | regenerate | none: one pass over UCI |
| **Modbus, SNMP, diagnostics, package manager** | configuration | regenerate | the programs are not in the repository |
| **Web interface, configuration cache**: `U/uci.js`, `U/rpc.js` | fetched packages, pending creates, changes and deletes, the open batch | load, unload, get, set, unset, add, remove, sections, save | four tables that are one document; a batch executed call by call, refused in part or lost; other writers |
| **Web interface, forms**: `W/cbi.js` | per field: value, hidden, error | type, validate, toggle, add and remove sections, save, redraw | a cascade of handlers along dependencies; what is hidden is neither checked nor sent |
| **Web interface, pages**: `W/cbi.js` (`Map`), `W/ui.js`, `U/uci.js` (`apply`) | overlay, promises of `apply`, staged changes, the router's snapshot | open a view, send, apply, confirm, roll back, reload | a chain of asynchronous steps beside a promise that reloads the page; two sessions that apply |
| **Web interface, rest**: `W/network.js`, `W/session.js`, the views | network cache, timers, session | refresh, polling, heartbeat, direct ubus calls | late answers of timers, partial failures of hand-written sequences |
| **Vendored packages** | | | third-party |

What makes each correct:

* *supervision*: an outage on record has somebody to deal with it; the ladder is climbed in order,
  every attempt with its whole wait; failure is reported only when everything configured was tried;
  runs end; a link that is up for good is recorded and announced with its own address; one that is
  down for good is retried for ever; the operator learns of a failure.
* *data limits*: no SIM is charged for more than its own traffic; a SIM at its limit is left, and not
  before; a finished SIM is not selected again until its account is reset.
* *SIM selection*: exactly one network section, for the SIM that is powered; the modem flags agree
  with it; locks are released.
* *manager lifecycle*: at most one dispatcher per manager and interface; the SIM in use always gets
  its managers back; the other SIM has none.
* *configuration cache*: a save stores exactly what the page showed, and touches nothing the user did
  not edit; the cache never differs from the router without a reason; what was written is read back;
  the page is not covered for ever.
* *forms*: a field is shown exactly when its dependencies are met; only what is shown and valid is sent.
* *pages*: what is announced as applied stays applied; what is staged is applied or reported; the
  chain behind Save ends.

The places where these are at risk, with source lines, are the `hazards` of `PROJECT.json`.

## 2. Modules

| module | what it is |
|---|---|
| `IfaceRecovery` | supervision of one cellular interface |
| `RecoveryLadder` | abstract specification of its action manager, which `IfaceRecovery` implements |
| `IfaceRecovery_proofs` | theorems about both |
| `MCIfaceRecovery` | instances for TLC |
| `DataCap` | data limits of a two-SIM router |
| `DataCap_proofs` | theorems about it |
| `MCDataCap` | instances for TLC |
| `IfaceLifecycle` | which manager processes run on a two-SIM router |
| `IfaceLifecycle_proofs` | theorems about it |
| `MCIfaceLifecycle` | instances for TLC |
| `UciCache` | the configuration cache of a page and the batches it sends |
| `ConfigDoc` | abstract specification of editing: a document of two layers, which `UciCache` implements |
| `UciCache_proofs` | theorems about both |
| `MCUciCache` | instance for TLC |
| `CbiForm` | one section of a form: values, dependencies, validation (operators and actions, no specification) |
| `WebPage` | extends `CbiForm` by the page: the chain behind Save, apply, confirm, rollback, reload |
| `WebPage_proofs` | theorems about `CbiForm` and `WebPage` |
| `MCWebPage` | instance for TLC |

`IfaceLifecycle` says that each manager has one dispatcher; `IfaceRecovery` builds on it, as it has one
status manager and one action manager, each with one message at a time. The SIM number of `DataCap`
is chosen by the same `SimSwitch.sh` whose calls of the initializer are in `IfaceLifecycle`.
`WebPage` takes from `UciCache` what that shows of a save: it either stages exactly what the form
held (`SaveFaithful`) or, after a fault, the page shows again what the router has (`CacheFresh`); so
there a save is one number and a load shows any content.

### IfaceRecovery

A manager is a script run once per MQTT message by its own dispatcher, so each handles one message
at a time. `ismPc` and `amPc` are the places where a script stands between two of its accesses to
shared state; the local variables are `ismMsg`, `ismCmd` and `amMsg`, `round`, `rung`, `attempt`,
`polled`.

| in the model | in the code |
|---|---|
| `AnalyticsTest`, `TestReport` | the data test and its report to the status manager, on cron, on ifup or on request |
| `LinkLost` | netifd takes the interface down; `26-publish_wan` publishes `ifdown` |
| `IsmTake`, `IsmNotifyUp`, `IsmWrite` | `InterfaceStatusManager.sh`: payload and `GetActionCommand`; `NotifyIPChange`; status file and, on DN, the notice to the action manager |
| `AmTake`, `AmReadStatus`, `AmSleep` | `WaitForAutoRecover`: read the status, sleep a minute, ping again |
| `AmIfdown`, `AmRecycle`, `AmBoardRecycle`, `AmRecord` | `ExecuteCommand` and the arguments file |
| `AmPoll`, `AmAttemptOver`, `AmNextRung`, `AmGiveUp` | the loops of `PerformAction`, and the failure report |

Choices worth knowing:

* A shell redirection truncates the file before it is written. The status file is `"blank"` from the
  truncation until `IsmWrite`, and other scripts do read it blank. The arguments file is
  `"partial"` between its first and second line; the instant of its truncation, before the first
  line, is merged with it, as both make `GetActionCommand` find no `ActionCmd`.
* A blank status is neither `DN` nor `UP`: `WaitForAutoRecover` then neither counts nor sleeps. In
  the model it takes no step.
* `BoardRecycle` has an empty body in the code (its reboot is commented out), and still writes the
  arguments file.
* `numsim` is read by rung 2 and set by nothing in the repository; `NumSim` is a constant, and the
  runs use 2 so that the SIM switch of rung 2 is explored.
* Time is not modelled. `Polls[r]` is the number of status reads `ActionrWaitInterval /
  IfaceQueryInterval`.
* The broker's queue holds `QCap` messages per subscriber; `Publish` drops what does not fit.

### DataCap

One modem, two SIMs. `job[p]` is what script `p` does next; the three steps of a switch
(`SwitchSelect`, `SwitchZero`, `SwitchPower`) are shared by all scripts that call `SimSwitch.sh`.
`real` is history: what really went through each SIM since its account was reset.

| in the model | in the code |
|---|---|
| `CapStart`, `CapFlush`, `CapCheck` | `Data_Cap.sh`: SIM number and counter; flush to flash when the difference reaches the storage threshold; comparison with the limit, flag and switch |
| `MwanDisconnected`, `Arm` | `mwan3.user`: choice of the SIM, then the timer |
| `Operator`, `Arm` | `forcesimswitch`, `simswitch` |
| `TimerEnds` | `PrimarySwitch.sh` |
| `ResetStart`, `ResetWipe` | `Reset_data_usage.sh` (both SIMs: flags, then accounts) and `Reset_sim<n>_data_usage.sh` (one SIM: account, then flag) |
| `Reboot` | `SystemBoot.sh` selects SIM 1; `/tmp` and the counter are gone, flash is kept |

`Data_Cap.sh` repeats the same code for three protocols and for each SIM; the model has it once, with
the one difference between the branches, the misspelt limit of SIM 2, in `Reached`. The signal
script cannot switch when the switching is based on data limits (one list value of the setting), the
speed test is off as shipped, and the action manager's SIM switch needs `numsim`: they are not among
the scripts of the model. Traffic is counted in units of which a limit is a few.

### RecoveryLadder

What the action manager promises, without queues, files and loop counters: woken, it waits, then
makes attempts on the lowest level that has one left, and ends when the status is up or no attempt
is left. `IfaceRecovery` maps its program counter to `phase`, `tries` to `made` and the status file
to `up`, and every one of its steps is a step of the ladder or a stutter (`ImplementsLadder`).

### IfaceLifecycle

A caller (`SimSwitch.sh`, an update, `SystemRestart.sh`, the boot) is a sequence of steps in `todo`;
the steps are one `ps`, one fork or one `ps`-and-kill each, as in `InterfaceInitializer.sh`.

| in the model | in the code |
|---|---|
| `PsStep`, `ForkStep` | `StartInterfaceManager`: load the section, one `ps`, then each manager that it does not show |
| `KillStep` | one of the sections of `StopInterfaceManager`: the first match of a fresh `ps` |
| `SelectStep` | `SimSwitch.sh` sets the `modemenable` flags |
| `SwitchSteps`, `UpdateSteps`, `RestartSteps`, `Boot` | the callers, from their first call of the initializer on |
| `Reboot` | all processes are gone; the tty hotplug script enables SIM 1; `SystemBoot.sh` calls `boot` |

On a two-SIM router exactly one of the sections `CWAN1_0` and `CWAN1_1` is enabled and `CWAN1` is
not, so a start of anything else starts nothing. `grep` for `CWAN1` matches both. `ps` lists processes
by pid. Pids are given out in turn and wrap around at their maximum, and cron and the scripts start
processes all the time: a new dispatcher may come before or after those that run. The dispatchers (`Mqtt*.sh`) are not in the repository. The manager
scripts they run are left out, and with them the part of a stop that ends these.

### UciCache

One package of the page's cache, and the router's copy of it (`srv`) as this session sees it, with its
own staged changes. `state.values`, `creates`, `changes` and `deletes` of the code are `values`,
`creates`, `chg` and the pair `delSec`, `delOpt` (the entries that are `true`, and those that are lists
of options).

| in the model | in the code |
|---|---|
| `Get`, `GetBase`, `Listed`, `Under` | `uci.get`, `uci.sections`: what the form sees |
| `Add`, `Remove`, `Set`, `Unset` | the operations of `uci.js`, as a form calls them |
| `Save`, `ExecAdd`, `ExecSet`, `ExecDel`, `Refuse`, `FlushEnd` | `uci.save`: the batch, the router executing it, refused calls, the callback that unloads and loads |
| `TimerLoad`, `Reset`, `LoadExec`, `LoadRefused`, `LoadDone`, `LoadLost` | `uci.load` by a refresh timer, by `Map.reset`, by `save`; its answer |
| `Foreign` | another session or a script of the router |

Choices worth knowing:

* `rpc.js` runs the same callback for an answer and for a failed connection. A lost batch is thus an
  end of the save like any other (`FlushEnd`), wherever in the batch the connection broke.
* A refused get reads as an empty package, because of `expect`; a refused set or delete is not noticed.
  The pending edits are dropped in all cases. What is checked is that the cache then shows the truth.
* `drift` is history: another writer, or an answer that was on its way when the package was unloaded.
  `CacheFresh` is about all other states. `clean` is history too: the save under way met no fault
  and no other writer.
* The overlay keeps the user from editing while the package is fetched or saved, so there is one save
  at a time; a timer's load may come at any moment.

### ConfigDoc

What editing promises: a document of sections added here (`fresh`) over sections of the router
(`under`), each section a function of its options. A step changes one place of one layer, creates or
drops a section, or fetches. `UciCache` maps what `get` and `sections` show to the two layers (`DocSpec`).

### CbiForm and WebPage

`CbiForm` is the part of a page that the user types into. A handler of a field checks the value, and
if it is right toggles and validates the field's dependents, which do the same. This changes no value,
so what a cascade does is given by which fields it reaches: `Cascade` is that closure. `depends()`
drops a dependency on a field that is declared later, so there are no cycles (`FormAssumption`).

| in the model | in the code |
|---|---|
| `Holds`, `Wrong`, `Cascade`, `handleValidate` | `toggle`, the datatype, `handleValidate` and the events of an element |
| `Errors`, `Hidden`, `Accepted` | `validate` of the map and its sections |
| `ucivalue`, `Saved`, `Shown`, `redraw`, `handleAdd` | reading and saving the fields, drawing the page, adding or removing a section |
| `Type`, `AddSection`, `Reset`, `changeView`, `Send` | the user |
| `SaveDone`, `SendChanges`, `Commit`, `Load` | the chain of `Map.send` |
| `BootChanges`, `Open`, `Load` | `ui.load` and `ui.changeView` |
| `ApplyExec`, `Confirm`, `Resolve` | `uci.apply` and its callbacks in `updateChanges` |
| `Rollback`, `OtherApply`, `OtherConfirm`, `Reload` | external: rpcd's timer, another session, the browser |

Choices worth knowing:

* Saves are numbered; `staged`, `conf` and `snap` are sets of saves. rpcd allows one apply with
  rollback at a time (`guard`), and a rollback puts the changes of this session back to staged.
* The deadline of `uci.apply` compares a date that was taken once: it is never reached, and a promise
  keeps asking for ever (`polls[i] = "wait"` has no other end). A page may have several such promises,
  and an old one may confirm a later apply.
* `updateChanges` does not wait for the promise of `apply`, whose success reloads the page whatever
  the chain or the user is doing (`Restart`).
* `ui.load` applies what it finds staged, without asking: the page applies after a save, and again at
  each load.
* A lost answer to what opens a view leaves the page covered (`stage = "dead"`): these calls are the
  only ones without a callback for a failure. Inside a view everything gets on.
* What the package holds after a load is any content, as others write it. The properties of the form
  do not depend on it.

## 3. Runs

| run | expectation | question |
|---|---|---|
| `recovery_ladder` | pass | `TypeOK`, `LadderInOrder`, `AttemptsWaited`, `OutageOwned`, `GiveUpOnlyExhausted`, `ImplementsLadder` |
| `recovery_live` | pass | `UpAnnounced`, `EveryRunEnds`, `SettlesUp`, `OutageRetried` |
| `failure_notified` | violation | is the operator told when the actions failed |
| `wait_ends` | violation | does the five-minute wait end |
| `cap_limits` | pass | `TypeOK`, `NeverOvercharged`, `LimitNotHalf`, `LimitLeaves1`, `NoSwitchToFinished` |
| `cap_leaves_sim2` | violation | is SIM 2 left at its limit |
| `cap_not_early` | violation | is SIM 1 left only at its limit |
| `cap_needs_use` | violation | does a finished SIM have traffic of its own |
| `managers_alone` | pass | `TypeOK`, `OneDispatcher`, `SelectedServed`, `RestartClean` |
| `managers_left` | violation | is only the SIM in use managed |
| `cache_save` | pass | `TypeOK`, `SaveFaithful`, `CacheFresh`, `SaveRoundTrip`, `OnlyEdited`, `ReadYourWrites`, `DocSpec`, `OverlayEnds` |
| `page` | pass | `TypeOK`, `DepsShown`, `SentValid`, `AnnouncedKept`, `SeenIsSent`, `AddKeeps`, `StagedKept`, `ChainEnds`, `StagedApplied` |

Bounds:

* `recovery_ladder` has all three rungs, two attempts and two polls on the first (so that both
  loops repeat and their counters must be reset), one on the others, one address, queues of length one (so that the limit is
  met at once) and one link loss. The environment may still bring the link up at any moment.
* `recovery_live` uses two addresses, so that a late report of the old one meets the new one, and a
  single rung, which is enough for a run of the action manager to act and to end.
* `cap_limits` has limit 3, threshold 2 and up to 4 units per SIM: a SIM gets over the limit with a
  part of it flushed and a part not, in every split; one reboot; resets at any time; one script at a
  time (`AtOnce = 1`). With two scripts at a time accounts grow without bound, because the same
  traffic is charged again and again; `cap_needs_use` looks at exactly that.
* `managers_alone` has two managers, one caller at a time and two pids more than there can be
  dispatchers, so that a new one may come before, between and after those that run. Three managers
  add nothing: the script treats them alike and one after the other. With two callers at a time
  `OneDispatcher` fails, because a start forks on the strength of an earlier `ps`; what still holds then
  is proved (section 4).
* `cache_save` has one section name that is typed and one that the router draws, one new section
  without a name, one option with one value: every table of the cache is used, and a section can be
  in each of them. Three edits make every pair of conflicting operations with one to follow; two saves
  let the second meet what the first left; one extra load, one foreign write and one fault come at any
  moment. Names of the router's are taken not to run out (`NamesLeft`). More names, options and values are covered by
  the theorems.
* `page` has three fields in a chain (a box shows a text, the text shows a third field with an initial
  value), one wrong value, two fields with `keep`; two saves, one apply of another session, one fault,
  one reload. The two `Slots` for promises are not used up: each send or load of the page starts at
  most one promise, and the run never meets a state in which a third is needed.

### Fairness

* `WF(AnalyticsTest)`: cron repeats the data test for ever.
* `WF(IsmStep)`, `WF(AmTake)`, `WF(Action)`, `WF(AmSleep)`: dispatchers hand over the next message
  when the last script has ended, and a script that can continue does.
* `SF(AmReadStatus)`: the wait loop spins on a blank status and thus reads the file very often; a
  value that keeps coming back is seen. Without it the reader could miss every value, always.
* `WF` of the steps of every script of `DataCap`; `SF(CapStart)`: cron starts `Data_Cap.sh` every two
  minutes whatever the other scripts do, and a run that is put off because a switch is under way is
  not put off for ever. No fairness for traffic, link, operator, resets, timer or reboot.
* `UciCache`: `WF` of the router executing a batch, of its end, and of each load: `$.ajax` ends every
  call by an answer or by its timeout, and the callback runs either way. None for the user, faults or
  other writers.
* `WebPage`: `WF(Chain)`, `WF(ApplyExec)`, `WF(Resolve)` for the same reason; `WF(Confirm)`, because the
  promise asks four times a second for as long as the page lives; `WF(Rollback \/ OtherConfirm)`: rpcd's
  timer ends an apply that nobody confirms. None for the user, reloads, other sessions or faults.

### What the violations show

1. *A failure report notifies nobody* (`InterfaceStatusManager.sh:208`): the argument is the literal
   word `PayLoadInterfaceStatus`, which selects neither branch of `NotifyIPChange`. As a second
   effect line 215 writes an empty status.
2. *That empty status stops the action manager* (`InterfaceActionManager.sh:366`): with the data test
   off no further report overwrites it, and the wait loop spins on it without sleeping.
3. *SIM 2 has no limit* (`Data_Cap.sh:22`): `Sim2DataLImit` is read, `Sim2DataLimit` is compared.
4. *SIM 1 is left early* (`Data_Cap.sh:83`): a difference just flushed is added a second time. How early is
   bounded: never before half of the limit (`LimitNotHalf`).
5. *A SIM can be finished by the traffic of the other* (`SimSwitch.sh:251`): the SIM number changes
   before the marks and the counter are zeroed, and `Data_Cap.sh` may run in between.
6. *The wrong SIM stays managed* (`InterfaceInitializer.sh:230`): `SimSwitch.sh` starts the managers of
   the new SIM and then stops "CWAN1", which both match. Once the pids have wrapped around, the new
   ones are first in `ps` and are the ones killed; `boot` starts them again, and the old ones stay.

## 4. Proofs

`IfaceRecovery_proofs` proves for all values of the constants that satisfy the named assumptions
(any set of addresses, any ladder of commands, retries, polls, any queue length, any number of link losses):

* `TypeCorrect`: `TypeOK`, inductive by itself.
* `OutageNeverForgotten`: `OutageOwned`, inductive relative to `TypeOK`. The two delicate steps are
  `IsmWrite` (a full queue drops the notice, but a full queue is not empty: `PublishType`) and the
  ends of the action manager. It ends on an UP it read itself or after it published something.
* `LadderSound`: `LadderInOrder` and `AttemptsWaited`. They are not inductive: nothing in them says
  what the poll loop has counted in the middle of an attempt. `PollCount` says it (`quiet = polled`
  until the loop ends, and `polled` is zero when an attempt begins), and the conjunction `LadderInv` is.
* `UpAlwaysAnnounced`: `UpAnnounced`. Between the look at the announced address (`GetActionCommand`) and
  the write of the status other scripts run; and the action manager reports an UP with the address of a notice
  that may be minutes old. `AnnounceInv` says that every UP in the queue or in the hand of the status manager has
  an address, and that what it found announced still is when it decides.
* `GiveUpSound`: the action property `GiveUpOnlyExhausted`, from `LadderInv`.
* `LadderImplemented`: the refinement `ImplementsLadder`, step by step, with `LadderInv` for the
  correspondence between `tries` and the loop counters.

`DataCap_proofs` proves, for all limits, thresholds and amounts of traffic:

* `CapTypeCorrect`: `TypeOK`, however many scripts overlap.
* `ChargeSound`: `NeverOvercharged`, if scripts take turns (`AtOnce <= 1`; finding 5 shows that it is
  false otherwise). The charge of a SIM is its account and what the counter shows beyond its mark.
  It exceeds the traffic for a moment between the zeroing of the marks and that of the counter, and
  inside a reset. `ChargeInv` says what holds all the time: `Alone` (one script is under way),
  `SwitchPhase` (the SIM number, the GPIO and the SIM of the modem differ only between the steps of a
  switch, and the marks are zero before the power goes), `CapPhase` (the readings of a `Data_Cap.sh`
  under way are of the modem's SIM) and `ChargePhase` (the account never exceeds the traffic, and the
  charge does not whenever things are `Settled`).
* `LimitHalfSound`: `LimitNotHalf`, if scripts take turns. It shows how far finding 4 can go. What is compared with the limit is an account
  and a difference; `ChargeInv` and `HalfInv` say that each of the two is at most the traffic of SIM 1, also between the
  flush and the comparison, where they are the same bytes. So their sum reaches the limit only after half of it.
* `FinishedNotSelected`: `NoSwitchToFinished`, under the same assumption and with the limits enabled.
  `FlagInv` says of every script under way that the SIM it will select is the one in use or not
  flagged. The flag of SIM 2 is never set at all, because of finding 3: the theorem is about what
  the code does.

`IfaceLifecycle_proofs` proves, for any sequence of managers and any set of pids:

* `LifecycleTypeCorrect`: `TypeOK`, including that pids are unique, for any number of callers.
* `LifecycleOneDispatcher`: `OneDispatcher`, if callers take turns. It is inductive together with
  `StillMissing`: what a `ps` did not show is still not there when it is forked.

* `LifecycleServed`: `SelectedServed`, for any number of callers that overlap in any way. `ServedInv` says that a manager missing for the
  enabled SIM is one that some program under way will still bring back (`WillStart`): what is left of it ends with a start of that SIM, or consists
  of forks only and has one of this manager, which its `ps` did not show. No step of another caller takes this
  away (`OthersWillStart`); every stop is followed by the restart of what it stopped (`ProgramsRestore`).
* `LifecycleFewDispatchers`: overlapping callers may start a manager twice, and then it handles each message twice. But
  a manager of a SIM never has more dispatchers than there are callers (`FewDispatchers`): copies do not pile up. `FewInv` counts
  the dispatchers together with the forks that are pending; a `ps` adds a pending fork only where there is no dispatcher.
* `LifecycleRestartClean`: `RestartClean`, if callers take turns. `RestartInv` follows
  `SystemRestart.sh` through three parts: before its stops, in them (every dispatcher left has a kill
  of its own manager and SIM still to come; as nobody else forks it is the first match), and after.

`IfaceRecovery_proofs` also states `AttemptsWaited` by itself, as `AttemptsGetTheirWait`.

`UciCache_proofs` proves, for all sets of names, options and values and any number of edits, saves,
loads, writers and faults:

* `CacheTypeCorrect`: `TypeOK` and the order of the phases of a save.
* `CacheNeverStale`: `CacheFresh`, with what every answer on its way will bring.
* `SaveTouchesOnlyEdits`: `OnlyEdited`, by an invariant that the tables, and the batch made from
  them, are within the places touched.
* `ReadsBack`: `ReadYourWrites`.
* `SaveStoresWhatWasShown`: `SaveFaithful`. `OnItsWay` says of every section what the router has of it at each
  point of the batch: as fetched, set but not yet deleted from, or as shown.
* `SaveShowsWhatWasSent`: `SaveRoundTrip`, from the three invariants above it and `NothingPending`: while the saved package is
  fetched the tables are empty, so that nothing hides what comes (`ShowsFetched`).
* `DocImplemented`: the refinement `DocSpec`.

`WebPage_proofs` proves, for every form that satisfies `FormAssumption` (any number of fields, any
alternatives, any graph of dependencies) and any number of saves, promises, faults, other sessions and reloads:

* `PageTypeCorrect`: `TypeOK`.
* `FormShowsDeps`: `DepsShown`. Its lemma `CascadeClosed` says that what a handler reaches contains the
  dependents of every valid field it reaches.
* `OnlyValidSent`: `SentValid`, from `DepsShown` and what `validate` leaves hidden.
* `SendsWhatIsSeen`: `SeenIsSent`. Errors in hidden fields do not count, and `validate` may toggle fields at the last moment; from
  `FormInv` it follows that it does so only below a field that is hidden with an error (`SendShows`).
* `AddingKeepsInput`: `AddKeeps`, what is saved from a field is what is drawn again; and `SavedTwice`: saving
  the same form twice is saving it once.
* `NothingStagedIsLost`: `StagedKept`. `StagedInv` says that until rpcd's timer ends, the configuration is within the snapshot and
  what the apply took from the staged changes, so a rollback loses nothing.
* `AnnouncementsHold`: `AnnouncedKept`, by `KeptInv`: what is announced is also in the snapshot of any
  apply that may still be rolled back, and so is what a promise that has its answer is about to announce.

Model-checked only: the liveness properties (`EveryRunEnds`, `SettlesUp`, `OutageRetried`,
`LimitLeaves1`, `OverlayEnds`, `ChainEnds`, `StagedApplied`), and what the violation runs show. Liveness under fairness
is out of the prover's reach, as is `ENABLED`; no theorem needs induction over data, and no module that is proved about
declares a recursive operator. Assumptions that remain: scripts of the data limits take turns in `ChargeSound`, `LimitHalfSound` and
`FinishedNotSelected`, callers of the initializer in `LifecycleOneDispatcher` and `LifecycleRestartClean`; without them the
statements are false (finding 5, and two callers of `managers_alone`).

## 5. Not modelled, and the plan

Next, in this order:

1. `SimSelection`: `SimSwitch.sh`, the tty hotplug script, `AddInterface.sh` and `DeleteInterface.sh`
   over the network and modem sections and the lock files: one section for the SIM in use, no section
   left by the previous SIM once everything is quiet, locks released. Composes with the SIM number of `DataCap`.
2. A manager that is stopped in the middle (`IfaceLifecycle` over `IfaceRecovery`): the status file it
   leaves truncated, the message it was handling.
3. The WireGuard endpoint failover and the application manager against monit.
4. The rest of the web interface: the network cache (`W/network.js`), whose second load returns before
   the first has filled it; the polling of views (`repeat`, `finish`), where a poll in flight survives
   its view; swap and reorder of sections; the heartbeat of the session. Two of the places are among the hazards.

Left out for good:

* vendored packages, among them most of the JavaScript by size (jQuery, Bootstrap, moment), and the
  copies of the web interface under `Web_page`, `Web_Page_Gateway_Apps` and `Modbus_Package`, which
  repeat the files modelled;
* the views: nearly all of their lines declare fields and dependencies, which are data of `CbiForm`
  (its theorems hold for every form); where they call ubus themselves they are sequences written once each;
* the patterns of the datatypes, the widgets and everything about layout; configuration generators (no
  state of their own); the gateway applications (binaries); SMS parsing; logs;
* the actual time of sleeps, and with it `killall sleep` in `PrimarySwitch.sh`, which cuts the
  sleeps of other scripts short.

A share of the implementation near a third is out of reach for this reason: the logic is a small part
of it, and the rest is third-party code, copies and form declarations.
