------------------------------ MODULE Lockdown ------------------------------
(***************************************************************************)
(* The lockdown life cycle of the USB defense daemon (daemon.py): entering *)
(* a lockdown, clearing it, and restoring it after a restart.              *)
(*                                                                         *)
(* Three kinds of threads of one process run these operations: the USB     *)
(* monitor, which handles one udev event at a time; one thread per IPC     *)
(* connection, which handles that client's commands in order; and the main *)
(* thread, which restores a lockdown before the other threads exist. They  *)
(* share self.locked, self.lock_offender and self.lock_started_at, two     *)
(* flag files, the masked TTY units and the TTY watcher, and no lock       *)
(* protects any of these. Every statement that touches shared state is     *)
(* therefore a step of its own, named by the label the thread is at BEFORE *)
(* it executes the statement; only lock_offender and lock_started_at, which *)
(* no condition reads, are assigned in one step.                           *)
(*                                                                         *)
(* Abstractions. An event's authentication (whitelist match, password,     *)
(* recovery code) is its outcome. A time stamp is any member of Instants.  *)
(* A getty or autovt unit is a member of Units, the logind drop-in of      *)
(* DropIns. The watcher is on or off. Event-log lines, the USB_RETRY        *)
(* intrusion record and the logind screen lock change no state here.       *)
(***************************************************************************)

CONSTANTS
    Clients,      \* the IPC connections' threads
    Main,         \* the daemon's main thread
    Monitor,      \* the USBMonitor thread
    Devices,      \* USB devices, as offenders
    Units,        \* the getty and autovt units that lock_tty masks
    InstalledMasks, \* the units install.sh masks for good
    DropIns,      \* the logind drop-in, a file under /run; no element where
                  \* the daemon's sandbox keeps it from writing there
    Instants,     \* wall-clock time stamps
    None,         \* Python's None
    Configs,      \* the configurations a start may load
    FaultKinds    \* the faults that may happen in a run

Threads   == {Main, Monitor} \cup Clients
Workers   == Threads \ {Main}
TTYGuards == Units \cup DropIns

\* A whitelist entry, as far as the lockdown is concerned.
Entries == [can_unlock : BOOLEAN]

ASSUME ThreadsDistinct == Main # Monitor /\ {Main, Monitor} \cap Clients = {}
ASSUME NoneIsNoValue   == None \notin Devices \cup Instants
ASSUME GuardsDistinct  == InstalledMasks \subseteq Units /\ Units \cap DropIns = {}
ASSUME ConfigsTyped    ==
    Configs \subseteq [require_unlock_key : BOOLEAN,
                       auto_block_unknown : BOOLEAN,
                       simulator_enabled  : BOOLEAN]
ASSUME FaultKindsTyped ==
    FaultKinds \subseteq {"stop", "reboot", "os_error", "usbguard", "systemctl"}

VARIABLES
    locked,           \* self.locked
    lock_offender,    \* self.lock_offender
    lock_started_at,  \* self.lock_started_at
    config,           \* self.config, loaded at every start
    persistent_flag,  \* /var/lib/usb-defense/lockdown.flag
    lockdown_flag,    \* does /run/usb-defense/lockdown.flag exist?
    masked,           \* the TTYGuards in force
    tty_watcher,      \* is the TTYActiveWatcher running?
    announced,        \* the last lockdown event broadcast by this process
    pc,               \* where each thread is
    device,           \* the device each thread's operation is about
    todo,             \* the guards a thread's (un)lock_tty has still to handle
    settled,          \* history: the last operation ran alone and to its end
    solo              \* history: the thread whose operation has run alone so far

memory  == <<locked, lock_offender, lock_started_at>>
files   == <<persistent_flag, lockdown_flag>>
tty     == <<masked, tty_watcher>>
locals  == <<device, todo>>
history == <<settled, solo>>
vars    == <<locked, lock_offender, lock_started_at, config, persistent_flag,
             lockdown_flag, masked, tty_watcher, announced, pc, device, todo,
             settled, solo>>

\* The persistent flag's file. "torn": present but not JSON, as a crash or a
\* full disk in the middle of write_text leaves it.
NoFlag   == [state |-> "absent", offender |-> None, started_at |-> None]
TornFlag == [state |-> "torn",   offender |-> None, started_at |-> None]
WrittenFlag(o, s) == [state |-> "written", offender |-> o, started_at |-> s]
FlagExists == persistent_flag.state # "absent"

EnterLabels   == {"enter_set", "enter_record", "enter_flag",
                  "enter_runtime", "enter_broadcast", "enter_tty", "enter_watch"}
ClearLabels   == {"clear_set", "clear_record", "clear_watch",
                  "clear_flag", "clear_runtime", "clear_tty", "clear_broadcast"}
RestoreLabels == {"restore_tty", "restore_watch"}
OperationLabels == EnterLabels \cup ClearLabels \cup RestoreLabels

Down    == pc[Main] = "down"
Serving == pc[Main] = "serving"
Busy    == {t \in Threads : pc[t] \in OperationLabels}

Goto(t, label) == pc' = [pc EXCEPT ![t] = label]

\* t's operation returns, or an exception ends it and t's loop catches it.
Leave(t) == /\ Goto(t, IF t = Main THEN "serving" ELSE "idle")
            /\ device' = [device EXCEPT ![t] = None]

\* (un)lock_tty goes through the units first and the drop-in last.
NextGuards(t) == IF todo[t] \cap Units # {} THEN todo[t] \cap Units ELSE todo[t]
Handled(t, g) == todo' = [todo EXCEPT ![t] = @ \ {g}]

(***************************************************************************)
(* History. Begin: t's operation has passed its check of self.locked.      *)
(* Finish: it ran to its end. Abandon: a fault cut it short or made it     *)
(* skip something.                                                         *)
(***************************************************************************)
Begin(t)   == /\ settled' = FALSE
              /\ solo' = IF Busy = {} THEN {t} ELSE {}
Finish(t)  == /\ settled' = (t \in solo)
              /\ solo' = solo \ {t}
Abandon(t) == /\ solo' = solo \ {t}
              /\ UNCHANGED settled

-----------------------------------------------------------------------------
(***************************************************************************)
(* Events and commands. They leave every shared variable alone until they  *)
(* reach the check of _enter_lockdown or _clear_lockdown.                  *)
(***************************************************************************)

\* Udev "add" events: match is captured once, then usbguard is called.
InsertAuthorized(m) ==
    /\ Serving
    /\ pc[Monitor] = "idle"
    /\ Goto(Monitor, IF m.can_unlock THEN "allow_unlock" ELSE "allow")
    /\ UNCHANGED <<memory, config, files, tty, announced, locals, history>>

InsertUnauthorized(d) ==
    /\ Serving
    /\ pc[Monitor] = "idle"
    /\ Goto(Monitor, "block")
    /\ device' = [device EXCEPT ![Monitor] = d]
    /\ UNCHANGED <<memory, config, files, tty, announced, todo, history>>

\* usbguard returned: an authorized device may clear the lockdown, an
\* unauthorized one enters it.
Authorized ==
    /\ pc[Monitor] \in {"allow", "allow_unlock"}
    /\ Goto(Monitor, IF /\ locked
                        /\ pc[Monitor] = "allow_unlock" \/ ~config.require_unlock_key
                     THEN "clear_check" ELSE "idle")
    /\ UNCHANGED <<memory, config, files, tty, announced, locals, history>>

\* Mutant of Unauthorized: blocking the device in usbguard is deemed enough.
UnauthorizedOnlyBlocks ==
    /\ pc[Monitor] = "block"
    /\ Leave(Monitor)
    /\ UNCHANGED <<memory, config, files, tty, announced, todo, history>>

Unauthorized ==
    /\ pc[Monitor] = "block"
    /\ IF config.auto_block_unknown
       THEN Goto(Monitor, "enter_check") /\ UNCHANGED device
       ELSE Leave(Monitor)
    /\ UNCHANGED <<memory, config, files, tty, announced, todo, history>>

\* The usbguard command is missing: the exception skips the rest of the
\* event's handler, and the monitor's loop catches it.
UsbguardFails ==
    /\ "usbguard" \in FaultKinds
    /\ pc[Monitor] \in {"allow", "allow_unlock", "block"}
    /\ Goto(Monitor, "raised")
    /\ UNCHANGED <<memory, config, files, tty, announced, locals, history>>

Caught ==
    /\ pc[Monitor] = "raised"
    /\ Leave(Monitor)
    /\ UNCHANGED <<memory, config, files, tty, announced, todo, history>>

\* Mutant of Unlock: the IPC server starts before the lockdown is restored.
UnlockBeforeRestore(c) ==
    /\ ~Down
    /\ pc[c] = "idle"
    /\ Goto(c, "clear_check")
    /\ UNCHANGED <<memory, config, files, tty, announced, locals, history>>

\* unlock_with_password or unlock_with_seed with a good credential.
Unlock(c) ==
    /\ Serving
    /\ pc[c] = "idle"
    /\ Goto(c, "clear_check")
    /\ UNCHANGED <<memory, config, files, tty, announced, locals, history>>

\* simulate_event with a good password: a simulated lockdown_enter,
\* lockdown_clear or authorized_insert. The other types only broadcast.
Simulate(c) ==
    /\ Serving
    /\ config.simulator_enabled
    /\ pc[c] = "idle"
    /\ \/ /\ Goto(c, "enter_check")
          /\ \E d \in Devices : device' = [device EXCEPT ![c] = d]
       \/ /\ Goto(c, "clear_check")
          /\ UNCHANGED device
       \/ /\ \E m \in Entries : locked /\ (m.can_unlock \/ ~config.require_unlock_key)
          /\ Goto(c, "clear_check")
          /\ UNCHANGED device
    /\ UNCHANGED <<memory, config, files, tty, announced, todo, history>>

-----------------------------------------------------------------------------
(***************************************************************************)
(* _enter_lockdown                                                         *)
(***************************************************************************)

EnterCheck(t) ==
    /\ pc[t] = "enter_check"
    /\ IF locked
       THEN Leave(t) /\ UNCHANGED history
       ELSE Goto(t, "enter_set") /\ Begin(t) /\ UNCHANGED device
    /\ UNCHANGED <<memory, config, files, tty, announced, todo>>

EnterSet(t) ==
    /\ pc[t] = "enter_set"
    /\ locked' = TRUE
    /\ Goto(t, "enter_record")
    /\ UNCHANGED <<lock_offender, lock_started_at, config, files, tty,
                   announced, locals, history>>

EnterRecord(t) ==
    /\ pc[t] = "enter_record"
    /\ lock_offender' = device[t]
    /\ \E now \in Instants : lock_started_at' = now
    /\ Goto(t, "enter_flag")
    /\ UNCHANGED <<locked, config, files, tty, announced, locals, history>>

\* Mutant of EnterFlag: the write of the persistent flag is forgotten.
EnterFlagForgotten(t) ==
    /\ pc[t] = "enter_flag"
    /\ Goto(t, "enter_runtime")
    /\ UNCHANGED <<memory, config, files, tty, announced, locals, history>>

\* The payload takes the offender from the argument and started_at from self.
EnterFlag(t) ==
    /\ pc[t] = "enter_flag"
    /\ persistent_flag' = WrittenFlag(device[t], lock_started_at)
    /\ Goto(t, "enter_runtime")
    /\ UNCHANGED <<memory, config, lockdown_flag, tty, announced, locals, history>>

\* mkdir or open fails (no file is touched), or write fails half way. The
\* exception ends the operation; self.locked stays TRUE.
EnterFlagFails(t) ==
    /\ "os_error" \in FaultKinds
    /\ pc[t] = "enter_flag"
    /\ persistent_flag' \in {persistent_flag, TornFlag}
    /\ Leave(t) /\ Abandon(t)
    /\ UNCHANGED <<memory, config, lockdown_flag, tty, announced, todo>>

EnterRuntime(t) ==
    /\ pc[t] = "enter_runtime"
    /\ lockdown_flag' = TRUE
    /\ Goto(t, "enter_broadcast")
    /\ UNCHANGED <<memory, config, persistent_flag, tty, announced, locals, history>>

EnterRuntimeFails(t) ==
    /\ "os_error" \in FaultKinds
    /\ pc[t] = "enter_runtime"
    /\ lockdown_flag' \in {lockdown_flag, TRUE}
    /\ Leave(t) /\ Abandon(t)
    /\ UNCHANGED <<memory, config, persistent_flag, tty, announced, todo>>

EnterBroadcast(t) ==
    /\ pc[t] = "enter_broadcast"
    /\ announced' = "enter"
    /\ Goto(t, "enter_tty")
    /\ todo' = [todo EXCEPT ![t] = TTYGuards]
    /\ UNCHANGED <<memory, config, files, tty, device, history>>

\* lock_tty, called by _enter_lockdown and by _restore_lockdown_if_needed.
LockGuard(t) ==
    /\ pc[t] \in {"enter_tty", "restore_tty"}
    /\ \E g \in NextGuards(t) : masked' = masked \cup {g} /\ Handled(t, g)
    /\ IF todo'[t] # {} THEN UNCHANGED pc
       ELSE Goto(t, IF t = Main THEN "restore_watch" ELSE "enter_watch")
    /\ UNCHANGED <<memory, config, files, tty_watcher, announced, device, history>>

EnterWatch(t) ==
    /\ pc[t] = "enter_watch"
    /\ tty_watcher' = TRUE
    /\ Leave(t) /\ Finish(t)
    /\ UNCHANGED <<memory, config, files, masked, announced, todo>>

-----------------------------------------------------------------------------
(***************************************************************************)
(* _clear_lockdown                                                         *)
(***************************************************************************)

ClearCheck(t) ==
    /\ pc[t] = "clear_check"
    /\ IF locked
       THEN Goto(t, "clear_set") /\ Begin(t) /\ UNCHANGED device
       ELSE Leave(t) /\ UNCHANGED history
    /\ UNCHANGED <<memory, config, files, tty, announced, todo>>

ClearSet(t) ==
    /\ pc[t] = "clear_set"
    /\ locked' = FALSE
    /\ Goto(t, "clear_record")
    /\ UNCHANGED <<lock_offender, lock_started_at, config, files, tty,
                   announced, locals, history>>

ClearRecord(t) ==
    /\ pc[t] = "clear_record"
    /\ lock_offender' = None /\ lock_started_at' = None
    /\ Goto(t, "clear_watch")
    /\ UNCHANGED <<locked, config, files, tty, announced, locals, history>>

\* Mutant of ClearWatch: the watcher is left running.
ClearWatchForgotten(t) ==
    /\ pc[t] = "clear_watch"
    /\ Goto(t, "clear_flag")
    /\ UNCHANGED <<memory, config, files, tty, announced, locals, history>>

\* stop() joins the watcher's thread for up to three seconds.
ClearWatch(t) ==
    /\ pc[t] = "clear_watch"
    /\ tty_watcher' = FALSE
    /\ Goto(t, "clear_flag")
    /\ UNCHANGED <<memory, config, files, masked, announced, locals, history>>

\* Mutant of ClearFlag: the persistent flag stays.
ClearFlagForgotten(t) ==
    /\ pc[t] = "clear_flag"
    /\ Goto(t, "clear_runtime")
    /\ UNCHANGED <<memory, config, files, tty, announced, locals, history>>

ClearFlag(t) ==
    /\ pc[t] = "clear_flag"
    /\ persistent_flag' = NoFlag
    /\ Goto(t, "clear_runtime")
    /\ UNCHANGED <<memory, config, lockdown_flag, tty, announced, locals, history>>

\* Mutant of ClearRuntime: unlock_tty forgets the drop-in.
ClearRuntimeUnitsOnly(t) ==
    /\ pc[t] = "clear_runtime"
    /\ lockdown_flag' = FALSE
    /\ Goto(t, "clear_tty")
    /\ todo' = [todo EXCEPT ![t] = Units]
    /\ UNCHANGED <<memory, config, persistent_flag, tty, announced, device, history>>

ClearRuntime(t) ==
    /\ pc[t] = "clear_runtime"
    /\ lockdown_flag' = FALSE
    /\ Goto(t, "clear_tty")
    /\ todo' = [todo EXCEPT ![t] = TTYGuards]
    /\ UNCHANGED <<memory, config, persistent_flag, tty, announced, device, history>>

\* An unlink that fails with anything but FileNotFoundError ends the operation.
ClearUnlinkFails(t) ==
    /\ "os_error" \in FaultKinds
    /\ \/ pc[t] = "clear_flag" /\ FlagExists
       \/ pc[t] = "clear_runtime" /\ lockdown_flag
    /\ Leave(t) /\ Abandon(t)
    /\ UNCHANGED <<memory, config, files, tty, announced, todo>>

\* unlock_tty
UnlockGuard(t) ==
    /\ pc[t] = "clear_tty"
    /\ \E g \in NextGuards(t) : masked' = masked \ {g} /\ Handled(t, g)
    /\ IF todo'[t] # {} THEN UNCHANGED pc ELSE Goto(t, "clear_broadcast")
    /\ UNCHANGED <<memory, config, files, tty_watcher, announced, device, history>>

\* A systemctl or file command of (un)lock_tty fails: logged and skipped.
GuardFails(t) ==
    /\ "systemctl" \in FaultKinds
    /\ pc[t] \in {"enter_tty", "restore_tty", "clear_tty"}
    /\ \E g \in NextGuards(t) : Handled(t, g)
    /\ IF todo'[t] # {} THEN UNCHANGED pc
       ELSE Goto(t, CASE pc[t] = "enter_tty"   -> "enter_watch"
                      [] pc[t] = "restore_tty" -> "restore_watch"
                      [] pc[t] = "clear_tty"   -> "clear_broadcast")
    /\ Abandon(t)
    /\ UNCHANGED <<memory, config, files, tty, announced, device>>

ClearBroadcast(t) ==
    /\ pc[t] = "clear_broadcast"
    /\ announced' = "clear"
    /\ Leave(t) /\ Finish(t)
    /\ UNCHANGED <<memory, config, files, tty, todo>>

-----------------------------------------------------------------------------
(***************************************************************************)
(* Process start, restore, and end.                                        *)
(***************************************************************************)

\* Mutant of StartUnlocked: the restore takes the flag for a stale one.
StartIgnoringFlag ==
    /\ Down
    /\ config' \in Configs
    /\ Goto(Main, "serving")
    /\ UNCHANGED <<memory, files, tty, announced, locals, history>>

\* systemd starts the daemon; without the flag it serves at once.
StartUnlocked ==
    /\ Down
    /\ ~FlagExists
    /\ config' \in Configs
    /\ Goto(Main, "serving")
    /\ UNCHANGED <<memory, files, tty, announced, locals, history>>

\* With the flag it is locked before any other thread exists. A payload that
\* does not parse leaves the offender None; a missing stamp becomes now.
StartLocked ==
    /\ Down
    /\ FlagExists
    /\ config' \in Configs
    /\ locked' = TRUE
    /\ lock_offender' = persistent_flag.offender
    /\ IF persistent_flag.started_at = None
       THEN \E now \in Instants : lock_started_at' = now
       ELSE lock_started_at' = persistent_flag.started_at
    /\ lockdown_flag' = TRUE
    /\ Goto(Main, "restore_tty")
    /\ todo' = [todo EXCEPT ![Main] = TTYGuards]
    /\ settled' = FALSE /\ solo' = {Main}
    /\ UNCHANGED <<persistent_flag, tty, announced, device>>

\* Mutant of RestoreWatch: the restore masks the TTYs but starts no watcher.
RestoreWatchForgotten ==
    /\ pc[Main] = "restore_watch"
    /\ Leave(Main) /\ Finish(Main)
    /\ UNCHANGED <<memory, config, files, tty, announced, todo>>

RestoreWatch ==
    /\ pc[Main] = "restore_watch"
    /\ tty_watcher' = TRUE
    /\ Leave(Main) /\ Finish(Main)
    /\ UNCHANGED <<memory, config, files, masked, announced, todo>>

\* The process ends: SIGTERM, a crash, the watchdog, or a start that fails.
\* Its memory and its runtime directory go, and a flag being written may
\* stay torn. TTY masks and the drop-in are the system's and stay.
Stop ==
    /\ "stop" \in FaultKinds
    /\ ~Down
    /\ locked' = FALSE /\ lock_offender' = None /\ lock_started_at' = None
    /\ \/ UNCHANGED persistent_flag
       \/ /\ \E t \in Workers : pc[t] = "enter_flag"
          /\ persistent_flag' = TornFlag
    /\ lockdown_flag' = FALSE
    /\ tty_watcher' = FALSE
    /\ announced' = "none"
    /\ pc' = [t \in Threads |-> IF t = Main THEN "down" ELSE "idle"]
    /\ device' = [t \in Threads |-> None]
    /\ todo' = [t \in Threads |-> {}]
    /\ settled' = (settled /\ Busy = {})
    /\ solo' = {}
    /\ UNCHANGED <<config, masked>>

\* The machine reboots while the daemon is down: /run is emptied.
Reboot ==
    /\ "reboot" \in FaultKinds
    /\ Down
    /\ masked \cap DropIns # {}
    /\ masked' = masked \ DropIns
    /\ UNCHANGED <<memory, config, files, tty_watcher, announced, pc, locals, history>>

-----------------------------------------------------------------------------
Init ==
    /\ locked = FALSE /\ lock_offender = None /\ lock_started_at = None
    /\ config \in Configs
    /\ persistent_flag = NoFlag
    /\ lockdown_flag = FALSE
    /\ masked = InstalledMasks
    /\ tty_watcher = FALSE
    /\ announced = "none"
    /\ pc = [t \in Threads |-> IF t = Main THEN "down" ELSE "idle"]
    /\ device = [t \in Threads |-> None]
    /\ todo = [t \in Threads |-> {}]
    /\ settled = FALSE
    /\ solo = {}

MonitorEvent ==
    \/ \E m \in Entries : InsertAuthorized(m)
    \/ \E d \in Devices : InsertUnauthorized(d)

Command(c) ==
    \/ Unlock(c)
    \/ Simulate(c)

\* The next statement of the operation t is in.
Step(t) ==
    \/ EnterCheck(t) \/ EnterSet(t) \/ EnterRecord(t)
    \/ EnterFlag(t) \/ EnterRuntime(t) \/ EnterBroadcast(t) \/ EnterWatch(t)
    \/ ClearCheck(t) \/ ClearSet(t) \/ ClearRecord(t)
    \/ ClearWatch(t) \/ ClearFlag(t) \/ ClearRuntime(t) \/ ClearBroadcast(t)
    \/ LockGuard(t) \/ UnlockGuard(t)

Fault(t) ==
    \/ EnterFlagFails(t) \/ EnterRuntimeFails(t)
    \/ ClearUnlinkFails(t) \/ GuardFails(t)

MonitorStep == Step(Monitor) \/ Authorized \/ Unauthorized \/ Caught
MainStep    == StartUnlocked \/ StartLocked \/ LockGuard(Main) \/ RestoreWatch

Next ==
    \/ MonitorEvent \/ MonitorStep \/ UsbguardFails
    \/ \E c \in Clients : Command(c) \/ Step(c)
    \/ MainStep
    \/ \E t \in Threads : Fault(t)
    \/ Stop \/ Reboot

Spec == Init /\ [][Next]_vars

\* systemd restarts the daemon (Restart=always), and every Python thread that
\* can run gets its turn. No event, command or fault has to happen.
FairSpec ==
    /\ Spec
    /\ WF_vars(MainStep)
    /\ WF_vars(MonitorStep)
    /\ \A c \in Clients : WF_vars(Step(c))
-----------------------------------------------------------------------------
(***************************************************************************)
(* Properties                                                              *)
(***************************************************************************)

Flags == {NoFlag, TornFlag} \cup
         {WrittenFlag(o, s) : o \in Devices \cup {None}, s \in Instants \cup {None}}

MainLabels   == {"down", "serving"} \cup RestoreLabels
WorkerLabels == {"idle", "allow", "allow_unlock", "block", "raised",
                 "enter_check", "clear_check"} \cup EnterLabels \cup ClearLabels

SharedTypeOK ==
    /\ locked \in BOOLEAN
    /\ lock_offender \in Devices \cup {None}
    /\ lock_started_at \in Instants \cup {None}
    /\ config \in Configs
    /\ persistent_flag \in Flags
    /\ lockdown_flag \in BOOLEAN
    /\ masked \subseteq TTYGuards
    /\ tty_watcher \in BOOLEAN
    /\ announced \in {"none", "enter", "clear"}

\* The worker threads exist only while the main thread serves.
ControlTypeOK ==
    /\ pc \in [Threads -> MainLabels \cup WorkerLabels]
    /\ pc[Main] \in MainLabels
    /\ \A t \in Workers : pc[t] \in IF Serving THEN WorkerLabels ELSE {"idle"}

LocalsTypeOK ==
    /\ device \in [Threads -> Devices \cup {None}]
    /\ todo \in [Threads -> SUBSET TTYGuards]

\* Every variable has its type.
TypeOK ==
    /\ SharedTypeOK
    /\ ControlTypeOK
    /\ LocalsTypeOK
    /\ settled \in BOOLEAN
    /\ solo \subseteq Threads

\* The persistent flag says what a restart would have to restore.
FlagAgrees ==
    /\ locked <=> FlagExists
    /\ persistent_flag.state = "written" =>
          /\ persistent_flag.offender = lock_offender
          /\ persistent_flag.started_at \in {lock_started_at, None}

Agreement ==
    /\ FlagAgrees
    /\ lockdown_flag = locked
    /\ tty_watcher = locked
    /\ masked = IF locked THEN TTYGuards ELSE {}
    /\ announced \in {"none", IF locked THEN "enter" ELSE "clear"}

\* Whenever the last operation ran to its end without a fault and without
\* another one overlapping it, memory, both flag files, the TTY guards, the
\* watcher and the clients agree on whether the system is locked, whatever
\* crashes, failures and races came before: _enter_lockdown, _clear_lockdown
\* and the restore each repair everything earlier accidents left behind.
SettledAgreement == settled /\ Serving => Agreement

\* What the operation of a thread that has run alone has done so far: each
\* label's facts are those a crash, or the next statement, relies on.
Progress(t) ==
    LET at(labels) == pc[t] \in labels
        entered    == {"enter_tty", "enter_watch"} IN
    /\ at(EnterLabels \ {"enter_set"}) => locked
    /\ at({"enter_flag", "enter_runtime", "enter_broadcast"} \cup entered)
          => lock_offender = device[t]
    /\ at({"enter_runtime", "enter_broadcast"} \cup entered \cup RestoreLabels)
          => locked /\ FlagAgrees
    /\ at({"enter_broadcast"} \cup entered \cup RestoreLabels) => lockdown_flag
    /\ at(entered) => announced = "enter"
    /\ at(RestoreLabels) => announced = "none"
    /\ at(entered \cup RestoreLabels) => TTYGuards \ todo[t] \subseteq masked
    /\ at({"enter_watch", "restore_watch"}) => todo[t] = {}
    /\ at(ClearLabels \ {"clear_set"}) => ~locked
    /\ at({"clear_flag", "clear_runtime", "clear_tty", "clear_broadcast"})
          => ~tty_watcher
    /\ at({"clear_runtime", "clear_tty", "clear_broadcast"}) => ~FlagExists
    /\ at({"clear_tty", "clear_broadcast"}) => ~lockdown_flag /\ masked \subseteq todo[t]
    /\ at({"clear_broadcast"}) => todo[t] = {}

SoloProgress == \A t \in solo : Progress(t)

\* A restart from a settled state: without the flag, no guard is left over.
SettledRestart == settled /\ ~Serving => (FlagExists \/ masked = {})

\* A guard is put on only when the flag that makes a restart finish the work,
\* and makes a later unlock possible, is already on disk (write-ahead order
\* in _enter_lockdown).
FlagBeforeGuards == [][solo # {} /\ ~(masked' \subseteq masked) => FlagExists]_vars

\* "If we crashed while locked, re-enter lockdown on restart" (the docstring
\* of _restore_lockdown_if_needed): a locked daemon that is not inside a
\* handler has a flag on disk that a restart will find.
CrashWhileLockedRelocks == Serving /\ Busy = {} /\ locked => FlagExists

\* "Removed automatically on unlock" (the drop-in's own comment) and "Reverse
\* lock_tty()" (unlock_tty): an unlocked daemon that is not inside a handler
\* has left none of lock_tty's guards in force.
GuardsLiftedOnUnlock == Serving /\ Busy = {} /\ ~locked => masked \subseteq InstalledMasks

\* "masked at install time", so that the TTY stays closed "even if a unit is
\* unmasked by hand" (README): what install.sh masked stays masked.
InstalledMasksStay == InstalledMasks \subseteq masked

\* Once the process stops crashing, a flag on disk brings the daemon back to
\* serving with the lockdown and the watcher restored (not merely started).
RestartRelocks ==
    <>[][~Stop]_vars =>
        (Down /\ FlagExists ~> Serving /\ locked /\ tty_watcher)

\* An unknown device whose event reached the handler locks the system, with
\* the default configuration, whatever the clients do meanwhile, unless the
\* process ends first or the usbguard command raises: then monitor.py's loop
\* drops the rest of the event, and _enter_lockdown is never reached.
UnknownDeviceLocks ==
    pc[Monitor] = "block" /\ config.auto_block_unknown
        ~> locked \/ Down \/ pc[Monitor] = "raised"
=============================================================================
