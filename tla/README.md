# Formal models of the USB Defense System

TLA+ specifications of the daemon in `src/src/usbguard_defense/`, checked with TLC and, where stated, proved with
TLAPS. Paths below are relative to that directory unless they start with `src/`.

    tlc -workers 2 -config Lockdown.cfg MCLockdown.tla      # one run
    tlapm LockdownProofs.tla                                # the proofs about one module

## 1. The system

One root process (`daemon.py`) and its threads, a UI process per desktop session, an interactive setup wizard, and
systemd. The daemon's threads share Python objects; apart from `_auth_lock` (throttle), the client-list lock of `ipc.py`
and the lock of the event log, **no lock protects anything**: the lockdown, the whitelist and the recovery code are read
and written by several threads, statement by statement.

| component | state | operations | who runs them |
|---|---|---|---|
| lockdown (`daemon.py`, `tty_lockdown.py`) | `locked`, `lock_offender`, `lock_started_at`, two flag files, masked units, logind drop-in, watcher | `_enter_lockdown`, `_clear_lockdown`, `_restore_lockdown_if_needed` | monitor thread, one thread per IPC connection, main thread at start |
| throttle (`daemon.py`) | `_auth_failures`, `_auth_lockout_until` | `_auth_locked_out`, `_record_auth_failure`, `_record_auth_success` | IPC threads |
| recovery code (`recovery.py`) | `recovery_seed.hash` | `verify_and_consume`, `generate_new` | IPC threads; wizard process |
| whitelist (`whitelist.py`, `integrity.py`) | `entries`, `integrity_failed`, `whitelist.json`, `whitelist.sig`, their temporary files and immutable attribute | `add`, `remove`, `save`, `_load`, `match` | IPC threads write, monitor thread reads |
| TTY watcher (`tty_lockdown.py`) | thread, stop event, baseline | `start`, `stop`, `_run` | whoever enters or clears; its own thread |
| IPC (`ipc.py`) | client list, sockets | `broadcast`, `_accept_loop`, `_client_loop` | all |
| USB monitor (`monitor.py`), USBGuard (`usbguard_iface.py`) | netlink queue, device policies | handle one event; list, allow, block | monitor thread |
| service unit, watchdog | process up or down | restart, ping | systemd, watchdog thread |
| UI (`ui/`) | overlay, dashboard, whitelist cache | follow `status` and broadcast events | Qt thread, receiver thread |
| event log, config, auth, master key | files | append, load, verify | all |
| setup wizard, installer (`src/src/scripts/`) | the files under `/etc/usb-defense`, unit masks | setup, `--reset`, `--regenerate-recovery`, install | the administrator |

What is hard here: operations of the monitor and of several IPC threads that overlap (a clear waits up to three seconds
in the middle, masking can take minutes); a crash between any two statements, with systemd starting the daemon again; a
system call that fails half way through; argon2 verifications between a check and the use of its result; and two
processes on one file. `PROJECT.json` lists each hazard at its line.

What makes each component correct: memory, disk, guards, watcher and clients agree on whether the system is locked, and
a crash never loses a lockdown or leaves guards nobody lifts; attempts are bounded and a lockout ends; a code works once
and the one on paper is the one that works; an acknowledged change of the whitelist is neither lost nor undone, and what
a restart loads is what was in memory; a lockdown has one watcher; a device is allowed by usbguard exactly if the whitelist
had it, and an unknown one locks; secrets, key and signed list fit together after a setup; the operator can always type,
sees an answer, and sees a lockdown as long as it lasts. Not all of this holds: section 4.

## 2. The models

### Lockdown (`Lockdown.tla`, `MCLockdown.tla`, `LockdownProofs.tla`)

Every thread has a program counter `pc[t]`; a label names the statement the thread executes next. `EnterCheck` ..
`EnterWatch` are `_enter_lockdown` line by line, `ClearCheck` .. `ClearBroadcast` are `_clear_lockdown`, `StartLocked`,
`LockGuard(Main)`, `RestoreWatch` are `_restore_lockdown_if_needed`. `lock_tty`/`unlock_tty` take one guard at a time
(`todo`), units before the drop-in, because a crash or an overlapping operation may come between any two units.
Handlers of USB events, unlock commands and simulator commands lead to the checks.

Faults (`FaultKinds`): `stop` ends the process at any point (its memory and `/run/usb-defense` go, masks and the drop-in
stay, a flag being written may be torn), `reboot` empties `/run`, `os_error` fails a flag's write or unlink, `usbguard`
makes the CLI raise, `systemctl` makes a mask or the drop-in fail silently. `DropIns` is a constant: under the shipped
unit's `ProtectSystem=strict` the path under `/run/systemd` is not writable, elsewhere it is.

Two history variables carry the main claim: `solo` holds the thread whose operation has met no other operation and no
fault since it began, `settled` is true when the last operation to finish was solo. Nothing is claimed *during* races,
because nothing holds then (see the violations); the claim is that the next undisturbed operation repairs whatever races,
faults and crashes left.

* `SettledAgreement`: after an undisturbed operation, `locked`, the persistent flag and its contents, the runtime flag,
  all TTY guards, the watcher and the last broadcast agree.
* `SettledRestart`: a daemon that goes down from a settled state leaves a flag, or no guard at all.
* `SoloProgress`: what an undisturbed operation has achieved at each statement (the inductive core of the above).
* `FlagBeforeGuards`: write-ahead order, no guard goes on before the flag that makes a restart finish the job.
* `ServiceSpec`: `Lockdown` implements `LockdownService` (below).
* `HeldUntilCleared` (`LockdownRefinement`): a lockdown whose flag is on disk is kept through stops, starts, reboots and
  faults, whatever the threads do, until one is clearing.
* `RestartRelocks`, `UnknownDeviceLocks`: under `FairSpec`, a flag leads to a restored lockdown with its watcher, an
  unknown device that reached its handler leads to a lockdown unless the process ends or the `usbguard` command raises
  (`usbguard_iface.py:33,87`), whose exception the monitor's loop catches at the cost of the rest of the handler.

### The service it implements (`LockdownService.tla`, `LockdownRefinement.tla`)

`LockdownService` is what the rest of the system relies on: a `mode` (down, unlocked, locked), a `durable` record, `guards`,
and operators that are `entering` or `clearing`. Only an entering operator may lock, record or guard, only a clearing one
may undo that, a start locks if and only if there is a record, a crash loses nothing durable, and an operation that returns
after it was alone all the time has done all of its work (`Done`). What overlapping operations end in is left open, as it is
in the code. `LockdownRefinement` maps `mode` to `locked` and `pc[Main]`, `durable` to the existence of the persistent flag,
`guards` to the masked units, the operators to the threads whose `pc` is inside `_enter_lockdown` or the restore, or inside
`_clear_lockdown`; the histories are the same. Every statement of `Lockdown` is one step of the service or none.

### Throttle (`AuthThrottle.tla`, `MCAuthThrottle.tla`, `AuthThrottleProofs.tla`)

Connections check the lockout, verify (no lock, arbitrary duration), count a failure in one critical section and start a
lockout in a second. The lockout is the time left, in ticks. `uncharged` counts the failures since the throttle last
acted. `FailuresAreCharged` bounds it by `Threshold - 1` plus the threads standing between the two sections;
`LockoutExpires` is liveness under a running clock.

### Recovery code (`RecoveryCode.tla`, `MCRecoveryCode.tla`, `RecoveryCodeProofs.tla`)

`verify_and_consume` as existence check, permission check, read, verification, deletion, then `_clear_lockdown`; the
wizard's `generate_new` as replacement and chmod-and-display; `--reset`; restarts, power loss and deletions that fail. A
code is a model value; its hash is itself. `ReplayRefused`: an accepted code is off the disk for good, unless the deletion
of its own hash failed (`kept`). `OncePerConnection`: no connection is granted such a code twice, even while they race.
`PaperIsCurrent`: a hash on disk, once the wizard is done, is the paper's.

### Whitelist store (`WhitelistStore.tla`, `MCWhitelistStore.tla`, `WhitelistStoreProofs.tla`)

`add` and `remove` as their separate reads and writes of `self.entries`, `save` as chattr, dump, write, replace, sign,
replace, chattr, on temporary files all threads share; `_load` at a restart. A file is the list it holds, a signature the
list it signs, a list is a set (order only matters for the bytes signed; one save signs its own bytes). `solo` and
`clean` are the history variables of Lockdown's idea. `SettledDurable`: after an operation that ran alone, a restart
loads exactly what is in memory, whatever stray temporary files, immutable files and mismatched signatures earlier
collisions and crashes left. `RemovedStaysRemoved` and `OneEntryPerDevice` hold while operations do not overlap.

### Overlay (`OverlaySync.tla`, `MCOverlaySync.tla`, `OverlaySyncProofs.tla`)

The daemon's threads change `locked`, the logged attempts or the whitelist's version, and broadcast afterwards (`say[t]`
is what thread `t` has yet to broadcast). The connection's thread computes a response and then sends it, outside the
broadcast's lock. `lines` is the ordered path from the daemon to `_on_daemon_event`: socket, receiver thread, Qt queue. The
UI asks for `status` and `list_whitelist` when it connects and never polls; its timer reconnects; it may be restarted, and
the daemon may die (what it sent still arrives) and restore its flag. How a lockdown works inside is `Lockdown`'s: here a
change and its broadcast are two steps.

All claims are about quiet states: nothing on its way, so nothing more will happen by itself.

* `OverlayFollows`: the overlay shows what the daemon holds, unless the last word about the lockdown was out of date when it
  was sent (`overtaken`: the race below) or a failed write cut it off. No other race loses it: neither registration against
  broadcast, nor old lines read after a reconnection, nor an overlay hidden by the timer.
* `ListFollows`: the cached whitelist is the daemon's, unless a change was not broadcast after a failed save or the
  authentication lockout refused the list since it was last computed (`untold`). A list that is computed before and sent
  after a change's broadcast is repaired, because the broadcast makes the UI ask again; a status is not.
* `ReattachedTimelineComplete`: a UI that attaches to a lockdown shows every logged attempt of it: the log is read after
  the registration and every row is logged before it is broadcast, so no attempt falls in between. The installer makes the
  log readable by root only, and the UI is a normal user: then `unread` holds what the log had when the overlay was shown,
  and everything else is shown. The property is checked for a readable log (`Overlay`) and for the installed one
  (`OverlayInstalled.cfg`); that `unread` is lost is section 4's `TimelineUnread.cfg`.

Assumed: one UI; its receiver thread notices a closed socket before the next tick of two seconds; a reply's fields are read
together; fewer than 500 log rows and 200 timeline rows; the client reads, so that `sendall` returns.

### TTY watcher (`TTYWatcher.tla`, `MCTTYWatcher.tla`, `ScreenProofs.tla`)

`Lockdown` has the watcher on or off; here are `start()`, `stop()` and `_run` statement by statement, around the one
`TTYActiveWatcher` object of the daemon: its stop event, baseline and thread reference are shared by whoever enters and
clears. Thread objects are a pool of `Watchers`, used again once dead and unreferenced. `join` returns when the thread is
dead, or after three seconds while the thread is in its callback (`StopTimesOut`, fault `slow`) or polls on because an
overlapping `start()` has reset the stop event; the daemon may die (`daemon`) and the restart starts the watcher if the flag
is there. `abandoned` and `overlapped` record these accidents. A flag that cannot be written (`EnterSetFails`, fault
`os_error`) ends the enter with `locked` set and `start()` never called: `unflagged`, until the next clear or restart.

* `WatchedIffLocked`: without overlap and forgotten watchers, between operations exactly one watcher is alive if the system
  is locked and the flags of this lockdown were written, none otherwise.
* `ReportedOnce`: a console is not reported twice while it stays in front, also over an unlock and the next lockdown.
* `LastingSwitchReported` (liveness): a console other than the baseline is reported, unless it is left or the lockdown ends,
  under the same exceptions.

Exceptions that overlapping calls of `stop()` raise (`join` of `None` or of an unstarted thread) end the operation here;
the state they leave is that of `Lockdown`'s `os_error`.

### Setup (`Setup.tla`, `MCSetup.tla`, `SetupProofs.tla`)

`setup.py` in its three modes, `ensure_master_key` as check, write, replace, chmod and read, the installer's `chattr`,
and the daemon that generates a key, loads, saves and uses the code; any number of wizards, each interrupted anywhere
(`Leave`), a reset also between two of its deletions (`ResetInterrupted`). A key is a number, a signature the key and
the list it signs. `save()` and `generate_new()` are one step: `WhitelistStore` and `RecoveryCode` take them apart.
`alone[p]`: nobody else has changed a file since `p` began.

* `CeremonyComplete`: an undisturbed setup or reset that reaches its end leaves all secrets, a restricted key, and a list
  signed with it; a plain setup that found a signed list has left that alone.
* `PasswordKept`: a password is not replaced by another without having been removed by `--reset`, except when wizards race.
* `MemoryIsDisk`: an undisturbed daemon trusts exactly what a restart would load, with the key on disk or, if that was
  readable by others, with none.

### Device gate (`DeviceGate.tla`, `MCDeviceGate.tla`, `DeviceGateProofs.tla`)

From the port to the policy: plugging gives a device an id and, once usbguard lists it, the target of its rules (`Ruled`;
otherwise block), and queues an event; the monitor thread looks the fingerprint up (`Match`), asks usbguard for the id
(`Find`), applies the verdict to the id (`Apply`), and enters or clears the lockdown (`Decide`, where `auto_block_unknown`
is what the last start loaded). Between any two of these devices come and go. usbguard may list a device late; its command
may exit with an error (`CommandFails`: nothing is found or applied, and the handler goes on), raise (`CommandRaises`,
`Caught`: the handler ends before `Decide`), or not return. The monitor's loop may end; the process may freeze or die, and
the watchdog thread's ping, the unit's `WatchdogSec` and `Restart=always` are `Ping`, `Expire`, `Start`.

`Fingerprint` is what udev's event says (`monitor.py:106` falls back to `ID_SERIAL`), `Listing` what the parser makes of
usbguard's line (`usbguard_iface.py:62-63`: an empty serial, or one cut at a blank). `Find` compares one with the other, as
line 101 does; `Recognised` are the devices for which they agree.

* `SettledPolicy`: once the monitor has caught up, a recognised device is allowed exactly if the whitelist had it when
  it was looked up, and any other has what usbguard's rules gave it; `excused` are devices whose insertion no daemon saw
  or whose command failed.
* `UnknownInsertionLocks` (liveness): an unknown device whose event reached the queue locks the system if
  `auto_block_unknown` says so, unless the daemon or the monitor is lost first or a command raises in its handler. Neither
  a device usbguard does not list nor a command that exits with an error prevents it.
* `FreezeEnds` (liveness): a frozen daemon runs again.

### Unlock dialog (`UnlockDialog.tla`, `ScreenProofs.tla`)

The overlay's keyboard grab, the two input dialogs with their nested event loop, the error label, the main window and
the message box, against a daemon whose messages arrive in the order it sent them (`OverlaySync` has their races). Here
the overlay is Qt's keyboard grabber (`grabbed`) or not; typing needs it not to be, cancelling works with the mouse. The
daemon's `self.locked` is `lockdown` here, the initial state `DialogInit` and so on, apart from `TTYWatcher`'s names.

* `OverlayHasKeyboard`: a visible overlay without a dialog has the keyboard, and it has it at no other time, except when the
  overlay was shown or hidden while the dialog was open (`unsettled`).
* `AttemptAnswered` (liveness): an attempt that was sent is answered by the overlay going or its error label coming, unless
  the connection is lost, its handler raises, or a lockdown ended by a failing clear was never announced (`unsaid`). A
  handler that raises (`HandlerRaises`: verification of the code, or an unlink of the clear) is answered without a type
  (`ipc.py:173`), and the window ignores that (`OnUntyped`).

## 3. The runs

| run | expects | bounds | shows |
|---|---|---|---|
| Lockdown | pass | 1 client, 2 devices, 1 autovt that the installer masked, drop-in, all faults, both unlock policies | type, agreement, progress, restart, write-ahead, and the refinement of `LockdownService` |
| Restart | pass | fair, 1 client, 1 device, 1 getty, drop-in, stops at every statement, a `usbguard` that raises | held until cleared, the two liveness properties |
| Throttle | pass | fair, 2 clients, threshold 2, 2 ticks of backoff, at most 3 failures | type, bounded failures, lockouts end |
| Recovery | pass | 2 connections, 3 codes, all faults | type, no replay, once per connection, the paper is current |
| SharedStore | pass | 2 threads, 2 entries, 2 devices, crashes and failing writes | durability after an undisturbed operation; while none overlap, removals stick and a device has one entry |
| Overlay | pass | 2 threads, 1 attempt, 1 change of the whitelist, new changes while no line is on its way, all faults, a readable log | type, overlay and list follow, complete timeline |
| Watcher | pass | fair, 2 workers, 2 thread objects, 2 consoles, all faults | type, one watcher, reported once, lasting switch reported |
| Setup | pass | 2 wizards, 2 passwords, 1 device, 2 keys, interrupted anywhere | type, memory is disk, complete ceremony, password kept |
| Gate | pass | fair, 3 devices: 1 that may be enrolled, 1 with a rule, 1 with a rule and no serial; 2 insertions, both settings of `auto_block_unknown`, all faults | type, settled policy, unknown insertion locks, freeze ends |
| Dialog | pass | fair, 3 messages | type, keyboard, attempt answered |
| CrashWhileLocked | violation | as Lockdown, no faults | see findings |
| ResetLosesDevices | violation | as Setup | see findings |

Why the bounds are enough: races here are between an operation and one or two others; two units and a drop-in give every
order of "some guards done, some not" that matters, since the guards of one kind are interchangeable; three codes are an
old, a current and a next one; three failures with threshold two is one past the boundary, where the backoff doubles;
two ids are one entry being replaced by another (`Store.cfg`: three, with one thread); two threads and a response are
three lines whose order is open, and more lines queue in the order they were sent. `MaxLines` limits new changes, stops
and requests only: what was begun always ends. Two thread objects are a watcher and the one that replaces it, two
consoles a baseline and another (`WatcherConsoles.cfg`: three); `Begin` starts no operation for which no object is left.
Two keys are the one lost and the one drawn after it, and a list of one device tells "empty" from "kept". Two insertions
are two devices, or one under an old and a new id, and three devices are the three kinds of them (`GatePolicy.cfg`:
three insertions, a device, another one and the first again). Three messages are one handled under a dialog, one after
it and an answer; a command's answer always finds room because handling messages is fair. `MaxFailures` cuts the
throttle's counter off (a guard of `Verified`); `Codes` and `Ids` run out, after which only draws and enrolments stop.
Symmetry is used in safety runs only.

Deadlock checking is on in every run: none of the models can get stuck.

**Fairness.** `Restart=always` in the unit justifies `WF(MainStep)`: a daemon that is down is started and finishes its
restore. The interpreter switches between runnable threads, so each thread's next statement is weakly fair. No event,
command or fault is fair. `RestartRelocks` is conditional on crashes ending. The clock ticks (`WF(Tick)`).
The watcher's thread and its callback go on; the monitor's thread goes on unless a command hangs or the process is frozen,
a period of the watchdog passes, and systemd acts when it has expired. The daemon answers and the Qt event loop handles what
is queued, also below an open dialog; the operator need not do anything.

## 4. What the checks found

Two are runs that violate one statement of the repository, which `PROJECT.json` quotes:

* A clear that overlaps a new lockdown deletes its flag and lifts its guards (`CrashWhileLocked`): "If we crashed while
  locked, re-enter lockdown on restart" (`daemon.py:150`).
* `setup.py --reset` deletes the signature and then takes the list for uninitialised: every enrolled device is lost
  (`ResetLosesDevices`), although "Whitelist entries are preserved" (`setup.py:180`). Where the files are immutable, it dies
  on the signature after it has deleted the secrets.

The others have a configuration of their own, outside the standard runs. The `...Claims` configurations list several
properties: TLC stops at the first that is violated, so check one at a time.

| configuration (module) | violates | shows |
|---|---|---|
| GuardsLeftOver (MCLockdown) | `GuardsLiftedOnUnlock` | a crash in a clear after the flag is deleted leaves the TTYs masked for good (`tty_lockdown.py:57,78`) |
| InstalledMasks (MCLockdown) | `InstalledMasksStay` | the first unlock removes the masks the installer placed permanently (`src/README.md:43-47`) |
| ThrottleClaims (MCAuthThrottle) | `SuccessClearsLockout` | a late second critical section starts a lockout after a success (`test_auth_lockout.py:13`) |
| | `LockoutNeverShortened` | the late section shortens a longer wait (`test_auth_lockout.py:12`) |
| | `ThrottledAttemptsLogged` | no `AUTH_LOCKED_OUT` row is ever written (`src/README.md:70`) |
| RecoveryClaims (MCRecoveryCode) | `OneUse` | a code can be accepted on two connections at once (`recovery.py:15-16`) |
| | `UnusedPaperWorks` | a thread that verified the old code deletes its successor |
| | `UseUnlocks` | a crash after the deletion spends the code in vain |
| | `AdminTold` | a code is spent without the warning to draw a new one |
| StoreClaims (MCWhitelistStore) | `QuietIsSigned` | overlapping saves leave a list with another's signature, and the next start trusts nothing (`whitelist.py:85`) |
| | `EnrolledIsListed` | an overlapping edit loses an acknowledged entry |
| | `EnrolledMatches` | a device does not match while it is enrolled again |
| | `NoFalseAlarm` | a crash between the two replacements is reported as tampering |
| OverlayClaims (MCOverlaySync) | `LockdownIsShown` | a status reply that a lockdown's broadcast overtakes hides the overlay for good (`src/README.md:24`) |
| | `EveryAttemptShown` | an attempt broadcast before its lockdown's own line is wiped off the timeline (`src/README.md:27-28`) |
| | `ListIsKnown` | an authentication lockout refuses the list at a connection, and nothing asks again |
| TimelineUnread (MCOverlaySync) | `RehydratedTimeline` | the log is root's alone (`install.sh:364-365`): a UI that reconnects shows no earlier attempt (`src/README.md:62-64`) |
| WatcherClaims (MCTTYWatcher) | `BaselineIsFromTheStart` | the baseline is the console after the masking, or after a restart (`tty_lockdown.py:22-24`) |
| | `NeverTwo` | a watcher whose callback outlasts the join lives on, because the next start resets its event |
| | `EveryLockdownWatched` | a flag that cannot be written leaves the system locked and the console unwatched (`daemon.py:229-236`, `tty_lockdown.py:22-23`) |
| SetupClaims (MCSetup) | `ListLoadsAfterCeremony` | a reset that fails on the frozen signature, then a plain setup: the list is signed with the old key (`setup.py:133`) |
| | `CanRunAgain` | a setup that was interrupted is refused the next time (`install.sh:400-401`) |
| | `FailsClosed` | a key not yet restricted makes the daemon run without one and trust an unverified list (`integrity.py:15-16`) |
| GateClaims (MCDeviceGate) | `HangIsDetected` | a hung command or an ended loop leaves the daemon deaf, and the watchdog is pinged (`daemon.py:13-14`) |
| | `EveryUnknownLocks` | an insertion whose event the end of the daemon overtakes is never handled, nor one behind a hung or ended monitor (`src/README.md:18-29`) |
| | `PolicyIsTheList` | a removed device stays allowed, an enrolled one blocked, until it is plugged in again (`src/README.md:9-11,21`) |
| UsbguardRaises (MCDeviceGate) | `EveryUnknownLocks` | where `usbguard` cannot be run, the handler of an unknown device ends before the lockdown (`usbguard_iface.py:33,87`, `src/README.md:18-29`) |
| NoSerial (MCDeviceGate) | `ListedMounts` | a device without a serial is enrolled under udev's `ID_SERIAL`, listed by usbguard under an empty serial, and never allowed (`src/README.md:21`) |
| GateTwins (MCDeviceGate) | `SettledPolicy` | of two devices with one fingerprint, the first listed gets both verdicts |
| DialogClaims (UnlockDialog) | `DialogCanType` | a lockdown that begins under a dialog takes its keyboard (`ui/lockdown.py:207-208`) |
| | `HiddenOverlayLetsGo` | a dialog that is closed after the unlock makes the hidden overlay grab the keyboard |
| | `WindowReturns` | an overlay the refresh timer hid is not followed by the main window |
| | `WarningIsSeen` | the warning about the consumed code ends up under the next lockdown's overlay and blocks its buttons |
| | `EveryAttemptAnswered` | a handler that raises is answered without a type, which the window ignores (`ui/main.py:230-245`) |

`Store.cfg`, `WatcherConsoles.cfg` and `GatePolicy.cfg` are larger instances that pass, and `OverlayInstalled.cfg`
passes with the log as installed, two attempts and no change of the whitelist.

## 5. What is proved

For every number of threads, devices, units, codes and lines, any threshold and any bound, from the constants' named
assumptions alone. Where a claim is not inductive, its proof module states the invariant that is; TLC finds it to hold on
the instance of the module's run (an `EXTENDS` of the proof module and the MC module, with the run's constants).

* `LockdownProofs`: `TypeCorrect`, then `Inductive` for
  `IInv == TypeOK /\ SettledAgreement /\ SettledRestart /\ SoloProgress` and the bookkeeping of the history (a thread in
  `solo` is the only one in an operation; nothing is settled while one is). `SettledAgreement` is not inductive: that the
  last statement of an operation completes the agreement needs what its earlier statements did (`Progress`), and that
  nobody undid it needs the bookkeeping. `AgreementWhenSettled`, `RestartWhenSettled`, `ProgressWhileAlone` and `WriteAhead`
  follow. `Refinement` is `Spec => ServiceSpec`: the kinds of steps (a statement, a return, the start of an operation, a
  fault, an end of the process) map to the service's actions one by one; only a return needs the inductive invariant, for
  the service's `Done`. `LockdownIsHeld` (`HeldUntilCleared`) follows: it is proved of the service's few actions and holds
  for the daemon's statements because each is one of them.
* `AuthThrottleProofs`: `BruteForceBounded`. The invariant adds that `uncharged >= Threshold` forces the counter past the
  threshold, so that whoever counts next goes on to start a lockout. `ThrottleTypeCorrect`, with `ThrottleInv`: counted
  failures and threads about to count stay within the bound, and a thread about to start a lockout holds a count at or above
  the threshold. Its hypothesis `PowersDouble` (`2 ^ (k + 1) = 2 * 2 ^ k`) is the definition of `^`, which the provers lack;
  that powers are positive and grow is proved from it by `LeastNumber`, the least-number principle for sets of numbers.
* `RecoveryCodeProofs`: `TypeCorrect`, `ReplayIsRefused` and `GrantedOncePerConnection`, under every fault. The invariant
  adds that codes reach the disk only when drawn, and that a hash a thread holds was read after its own last acceptance.
  `PaperStaysCurrent`: between the wizard's replacement and its display, no paper is in force and only deletions touch the
  file.
* `WhitelistStoreProofs`: `TypeCorrect`, `Durable`, `NotBack`, `OneEntry`, from one invariant. A thread that is alone has a
  `Progress` for each label of `add`, `remove` and `save`: which of memory, temporary files, list and signature agree by
  now. `Serial` carries the ids while operations do not overlap: an id on disk was issued, a removed one is in neither
  list. A removal that finds nothing is noticed by comparing lengths, so the invariant relates the cardinalities of the
  lists before and after.
* `SetupProofs`: `TypeCorrect`, `TrustsTheDisk`, `KeepsPassword`, `LeavesAllSecrets`. Each process that is alone with the
  files has an invariant of its own (`KeyProgress`, `DaemonOK`, `WizardOK`), and only its own steps can disturb it, because
  whoever changes a file ends the others' being alone. That a new key cannot be the one of an old signature rests on keys
  being drawn in order (`DrawnOK`).
* `DeviceGateProofs`: `TypeCorrect` and `PolicySettles`. The claim is about an idle monitor; `Served` says of every plugged
  device how far it has come before that (its event waits, or the monitor holds its verdict, or its id as well, or its
  policy is applied). That a late command reaches nobody else rests on ids that are given once (`Ids`). Nothing is assumed
  about which devices usbguard lists under udev's fingerprint: those it does not are shown to keep what its rules gave them.
  The hypothesis `NoTwins`, that it lists no device under the fingerprint of *another*, is needed: with twins the property
  is false (`GateTwins.cfg`). The fingerprint includes the serial number, so devices with serials of their own satisfy it.
* `ScreenProofs`, about the watcher: `WatchTypeCorrect`, `LockdownIsWatched`, `OneWatcherAtATime`, `SwitchReportedOnce`.
  `WatchedIffLocked` speaks of the moments between operations only; `OneWatcher` adds, for each label of `start` and
  `stop`, which watcher is alive, whether the stop event is set and which thread `thread` refers to. That holds while
  the process is `Undisturbed`: one operation at a time, and no watcher forgotten by a `join` that timed out. A lockdown
  whose flags could not be written is part of it, as a state without a watcher (`unflagged`). A restart makes it hold
  again from nothing. `Remembered` carries `ReportedOnce`: a console that was reported and is still in front is the live
  watcher's last report or its baseline, and a new watcher takes it for its baseline.
* `ScreenProofs`, about the dialog: `DialogTypeCorrect` and `KeyboardIsGrabbed`. What must be added is that a dialog during
  which the overlay was neither shown nor hidden has it underneath.
* `OverlaySyncProofs`: `TypeCorrect`, `OverlayIsRight`, `ListIsRight`, `TimelineIsComplete`. The claims are about quiet
  states and say nothing before; each invariant covers every state of a connection: unless something that will correct
  the UI is still on its way (`OverlayTold`, `ListTold`, `Attached`: a line not yet broadcast, a request, a response),
  the queue of lines ends by showing the daemon's state (`Ends`), or holds each attempt the timeline lacks (`Shown`). A
  broadcast that finds no registered connection is made good by the two requests that wait until the connection is
  registered. `TimelineIsComplete` holds whether or not the UI may read the log: what it could not read is `unread`.

Assumptions of the constants the proofs use beyond typing: `IdsAreNoEntries` (`WhitelistStore`) and `NoneIsNoList` (`Setup`)
say that values of different kinds, which Python tells apart by type, are different; `NoneIsNoLine` (`OverlaySync`) and the
like that Python's None is no value of another kind.

Only model-checked:

* liveness (`RestartRelocks`, `UnknownDeviceLocks`, `LockoutExpires`, `LastingSwitchReported`, `UnknownInsertionLocks`,
  `FreezeEnds`, `AttemptAnswered`): beyond the prover.

Every other property of a passing run is proved. Two theorems have a hypothesis of their own: `NoTwins` restricts the
devices, and without it a configuration shows the property false; `PowersDouble` is arithmetic.

## 6. What is not modelled

The parsing of udev attributes and of usbguard's output, `_normalize` of the paper code, YAML, argon2 and HMAC: pure
functions on text or library code, of which the models keep the outcome. Widgets, formatting, the settings form, the
messages of the whitelist form, the PDF generator and the demo simulator (a client whose one command is `Simulate`): no
state that another part reads. The shell installers, except for the masks, modes and immutable files they leave. Event-log
rows only where a statement about them is checked; its limit of 500 rows and torn lines are left out.

Assumed: a `write_bytes` is one step in `WhitelistStore` and `Setup` (a torn flag is modelled in `Lockdown`, where the
file is written in place), so that the check for a key of the wrong length (`integrity.py:54`) always passes; the
kernel's file that names the active console can be read (`tty_lockdown.py:87-90`); the clock is monotonic; single reads,
assignments, appends and system calls are atomic, Python statements are what interleaves. A broadcast returns:
`ipc.py:129` sends under a lock, so a client that does not read would stop the thread that locks down before it masks
the TTYs, which no model shows. Masking at a restore may exceed `TimeoutStartSec`; then systemd kills the daemon, which
is a `Stop` of `Lockdown`, but `RestartRelocks` assumes that this ends.

## 7. Plan

The models are written, and every safety and action property that a passing run checks is proved; liveness is checked
only. What is left: further properties of `LockdownService`, which `Lockdown` inherits through `Refinement` as it does
`HeldUntilCleared`, and the event log with its limit of 500 rows.
