------------------------------ MODULE DeviceGate ------------------------------
(***************************************************************************)
(* From the port to the policy: a device is plugged in, usbguard gives it  *)
(* an id and blocks it, udev queues an event for the daemon's monitor      *)
(* thread (monitor.py), which looks the fingerprint up, finds usbguard's   *)
(* id by running its command line tool (usbguard_iface.py), applies allow  *)
(* or block to that id, and locks the system (daemon.py, _handle_insert).  *)
(* By the time a command runs the device may be gone, back under another   *)
(* id, or not yet known to usbguard. Beside the monitor, a thread pings    *)
(* systemd's watchdog, which restarts a daemon that has stopped altogether.*)
(*                                                                         *)
(* Of the lockdown only self.locked is kept: module Lockdown has the rest. *)
(***************************************************************************)
EXTENDS FiniteSets, Integers, Sequences

CONSTANTS
    Devices,        \* physical devices
    Fingerprint,    \* the fingerprint udev's event gives for each
    Listing,        \* the fingerprint usbguard's line gives for each
    Ruled,          \* the devices a rule of usbguard allows
    Enrollable,     \* bound: the fingerprints that are ever enrolled
    MaxPlugs,       \* bound: insertions, and with them usbguard's ids
    WatchdogSec,    \* in periods of the ping
    AutoBlock,      \* the values of auto_block_unknown a start may load
    None,           \* no device
    FaultKinds      \* what may go wrong: a subset of AllFaults

AllFaults == {"late",       \* usbguard lists a device after udev reported it
              "error",      \* a command of usbguard exits with an error
              "raise",      \* a command of usbguard cannot be run
              "hang",       \* a command of usbguard does not return
              "deaf",       \* poll() returns None or raises
              "freeze",     \* no thread of the daemon runs any more
              "daemon"}     \* the daemon dies

ASSUME FingerprintIsMap == /\ DOMAIN Fingerprint = Devices
                           /\ DOMAIN Listing = Devices
                           /\ Enrollable \subseteq {Fingerprint[d] : d \in Devices}
ASSUME RuledTyped      == Ruled \subseteq Devices
ASSUME AutoBlockTyped  == AutoBlock \subseteq BOOLEAN /\ AutoBlock # {}
ASSUME NoneApart       == None \notin Devices
ASSUME BoundsAreNat    == MaxPlugs \in Nat /\ WatchdogSec \in Nat \ {0}
ASSUME FaultKindsTyped == FaultKinds \subseteq AllFaults

VARIABLES
    id,             \* usbguard's id of each plugged device; 0: not plugged in
    listed,         \* the plugged devices usbguard lists
    allowed,        \* those whose target is allow
    plugs,          \* insertions so far
    queue,          \* the monitor's netlink socket
    pc,             \* where the monitor thread is; "down": no daemon
    device,         \* whose insertion it handles
    match,          \* whether the whitelist had it
    found,          \* the id it found, or 0
    whitelist,      \* the fingerprints of whitelist.entries
    locked,         \* self.locked
    auto_block,     \* config.auto_block_unknown, loaded at every start
    frozen,         \* the daemon's process makes no step
    silence,        \* periods since the last WATCHDOG=1
    verdict,        \* history: match when each device was last looked up
    excused         \* history: devices whose insertion or policy was lost

usb     == <<id, listed, allowed, plugs>>
monitor == <<pc, device, match, found>>
daemon  == <<whitelist, locked, auto_block, frozen, silence>>
history == <<verdict, excused>>
vars    == <<usb, queue, monitor, daemon, history>>

Plugged   == {d \in Devices : id[d] # 0}

\* udev takes ID_SERIAL where a device has no serial number, usbguard's line
\* says "" then, and a serial number with a blank is read up to the blank.
Recognised == {d \in Devices : Listing[d] = Fingerprint[d]}

Up        == pc # "down"
Running   == Up /\ ~frozen
Listening == pc \notin {"down", "dead"}

Waiting(d) == \E i \in DOMAIN queue : queue[i] = <<"add", d>>
Pending(d) == Waiting(d) \/ (device = d /\ pc \in {"match", "find", "apply", "decide"})
LookedUp(d) == device = d /\ match /\ pc \in {"find", "apply", "decide"}

Goto(from, to) == Running /\ pc = from /\ pc' = to

-----------------------------------------------------------------------------
(* The ports, udev and usbguard. *)

Send(event) == queue' = IF Listening THEN Append(queue, event) ELSE queue

\* A listed device has the target its rule gives it: what was plugged in at
\* installation is allowed, the rest is blocked by default.
Plug(d) ==
    /\ id[d] = 0 /\ plugs < MaxPlugs
    /\ plugs' = plugs + 1
    /\ id' = [id EXCEPT ![d] = plugs + 1]
    /\ listed' \in {listed \cup {d}} \cup IF "late" \in FaultKinds THEN {listed} ELSE {}
    /\ allowed' = allowed \cup ({d} \cap Ruled \cap listed')
    /\ Send(<<"add", d>>)
    /\ excused' = IF Listening THEN excused \ {d} ELSE excused \cup {d}
    /\ UNCHANGED <<monitor, daemon, verdict>>

List(d) ==
    /\ d \in Plugged \ listed
    /\ listed' = listed \cup {d}
    /\ allowed' = allowed \cup ({d} \cap Ruled)
    /\ UNCHANGED <<id, plugs, queue, monitor, daemon, history>>

Unplug(d) ==
    /\ d \in Plugged
    /\ id' = [id EXCEPT ![d] = 0]
    /\ listed' = listed \ {d} /\ allowed' = allowed \ {d} /\ excused' = excused \ {d}
    /\ verdict' = [verdict EXCEPT ![d] = FALSE]
    /\ Send(<<"remove", d>>)
    /\ UNCHANGED <<plugs, monitor, daemon>>

-----------------------------------------------------------------------------
(* The monitor thread. *)

\* Removals are logged and broadcast only.
Poll ==
    /\ queue # <<>>
    /\ LET event == Head(queue) IN
       /\ Goto("poll", IF event[1] = "add" THEN "match" ELSE "poll")
       /\ device' = IF event[1] = "add" THEN event[2] ELSE None
    /\ queue' = Tail(queue)
    /\ UNCHANGED <<usb, match, found, daemon, history>>

Match ==
    /\ Goto("match", "find")
    /\ match' = (Fingerprint[device] \in whitelist)
    /\ verdict' = [verdict EXCEPT ![device] = match']
    /\ UNCHANGED <<usb, queue, device, found, daemon, excused>>

\* find_by_fingerprint(): the first device of the list with the fingerprint.
Candidates == {d \in listed : Listing[d] = Fingerprint[device]}

\* Mutant of Find: the result is not tested for None.
FindUnchecked ==
    /\ Goto("find", "apply")
    /\ found' = IF Candidates = {} THEN 0
                ELSE CHOOSE i \in {id[d] : d \in Candidates} :
                        \A d \in Candidates : i <= id[d]
    /\ UNCHANGED <<usb, queue, device, match, daemon, history>>

Find ==
    /\ Goto("find", IF Candidates = {} THEN "decide" ELSE "apply")
    /\ found' = IF Candidates = {} THEN 0
                ELSE CHOOSE i \in {id[d] : d \in Candidates} :
                        \A d \in Candidates : i <= id[d]
    /\ excused' = IF Candidates = {} THEN excused \cup ({device} \cap (Plugged \ listed))
                                    ELSE excused
    /\ UNCHANGED <<usb, queue, device, match, daemon, verdict>>

\* Mutant of Apply: during a lockdown nothing is blocked.
ApplyUnlessLocked ==
    /\ Goto("apply", "decide")
    /\ allowed' = IF match THEN allowed \cup {d \in listed : id[d] = found}
                  ELSE IF locked THEN allowed
                  ELSE {d \in allowed : id[d] # found}
    /\ found' = 0
    /\ UNCHANGED <<id, listed, plugs, queue, device, match, daemon, history>>

\* apply-device-policy: an id that is gone is an error, which is logged.
Apply ==
    /\ Goto("apply", "decide")
    /\ allowed' = IF match THEN allowed \cup {d \in listed : id[d] = found}
                           ELSE {d \in allowed : id[d] # found}
    /\ found' = 0
    /\ UNCHANGED <<id, listed, plugs, queue, device, match, daemon, history>>

\* Mutant of Decide: a device usbguard does not list is nobody's.
DecideIfFound ==
    /\ Goto("decide", "poll")
    /\ \/ match /\ locked' \in {locked, FALSE}
       \/ ~match /\ locked' = (locked \/ (auto_block /\ device \in listed))
    /\ device' = None /\ match' = FALSE
    /\ UNCHANGED <<usb, queue, found, whitelist, auto_block, frozen, silence, history>>

\* An unlock key clears a lockdown, an unknown device starts one unless that is
\* configured away.
Decide ==
    /\ Goto("decide", "poll")
    /\ \/ match /\ locked' \in {locked, FALSE}
       \/ ~match /\ locked' = (locked \/ auto_block)
    /\ device' = None /\ match' = FALSE
    /\ UNCHANGED <<usb, queue, found, whitelist, auto_block, frozen, silence, history>>

\* The loop goes on after a handler that an exception has ended.
Caught ==
    /\ Goto("raised", "poll")
    /\ device' = None /\ match' = FALSE
    /\ UNCHANGED <<usb, queue, found, daemon, history>>

MonitorStep == Poll \/ Match \/ Find \/ Apply \/ Decide \/ Caught

\* A command that exits with an error lists nothing, or applies nothing.
CommandFails ==
    /\ "error" \in FaultKinds
    /\ Goto("find", "decide") \/ Goto("apply", "decide")
    /\ found' = 0
    /\ excused' = excused \cup ({device} \cap Plugged)
    /\ UNCHANGED <<usb, queue, device, match, daemon, verdict>>

\* subprocess.run raises where there is no such program: the exception ends the
\* handler before it decides about the lockdown.
CommandRaises ==
    /\ "raise" \in FaultKinds
    /\ Goto("find", "raised") \/ Goto("apply", "raised")
    /\ found' = 0
    /\ excused' = excused \cup ({device} \cap Plugged)
    /\ UNCHANGED <<usb, queue, device, match, daemon, verdict>>

\* subprocess.run has no timeout.
CommandHangs ==
    /\ "hang" \in FaultKinds
    /\ Goto("find", "hung") \/ Goto("apply", "hung")
    /\ excused' = excused \cup ({device} \cap Plugged)
    /\ UNCHANGED <<usb, queue, device, match, found, daemon, verdict>>

\* iter() stops at the first None, and an exception of poll() is not caught.
MonitorEnds ==
    /\ "deaf" \in FaultKinds
    /\ Goto("poll", "dead")
    /\ queue' = <<>>
    /\ excused' = excused \cup {d \in Plugged : Waiting(d)}
    /\ UNCHANGED <<usb, device, match, found, daemon, verdict>>

-----------------------------------------------------------------------------
(* The rest of the daemon, and systemd. *)

\* Devices are enrolled and removed under the admin password.
ChangeWhitelist ==
    /\ Running
    /\ \E p \in Enrollable : whitelist' \in {whitelist \cup {p}, whitelist \ {p}} \ {whitelist}
    /\ UNCHANGED <<usb, queue, monitor, locked, auto_block, frozen, silence, history>>

Unlock ==
    /\ Running /\ locked
    /\ locked' = FALSE
    /\ UNCHANGED <<usb, queue, monitor, whitelist, auto_block, frozen, silence, history>>

\* Mutant of Ping: somebody else reports for the process.
PingAnyway ==
    /\ Up
    /\ silence' = 0
    /\ UNCHANGED <<usb, queue, monitor, whitelist, locked, auto_block, frozen, history>>

\* A period passes: the watchdog thread reports in each, as long as it runs.
Ping ==
    /\ Up /\ silence < WatchdogSec
    /\ silence' = IF frozen THEN silence + 1 ELSE 0
    /\ UNCHANGED <<usb, queue, monitor, whitelist, locked, auto_block, frozen, history>>

Freeze ==
    /\ "freeze" \in FaultKinds /\ Running
    /\ frozen' = TRUE
    /\ UNCHANGED <<usb, queue, monitor, whitelist, locked, auto_block, silence, history>>

\* The process ends; flag and whitelist are on disk, the socket is not.
Down ==
    /\ Up
    /\ pc' = "down" /\ queue' = <<>> /\ frozen' = FALSE /\ silence' = 0
    /\ excused' = excused \cup {d \in Plugged : Pending(d)}
    /\ device' = None /\ match' = FALSE /\ found' = 0
    /\ UNCHANGED <<usb, whitelist, locked, auto_block, verdict>>

Crash  == "daemon" \in FaultKinds /\ Down
Expire == silence >= WatchdogSec /\ Down

Start ==
    /\ pc = "down" /\ pc' = "poll"
    /\ auto_block' \in AutoBlock
    /\ UNCHANGED <<usb, queue, device, match, found, whitelist, locked, frozen,
                   silence, history>>

Init ==
    /\ id = [d \in Devices |-> 0]
    /\ listed = {} /\ allowed = {} /\ plugs = 0 /\ queue = <<>>
    /\ pc = "poll" /\ device = None /\ match = FALSE /\ found = 0
    /\ whitelist \in SUBSET Enrollable
    /\ locked = FALSE /\ auto_block \in AutoBlock /\ frozen = FALSE /\ silence = 0
    /\ verdict = [d \in Devices |-> FALSE]
    /\ excused = {}

Next ==
    \/ \E d \in Devices : Plug(d) \/ List(d) \/ Unplug(d)
    \/ MonitorStep \/ CommandFails \/ CommandRaises \/ CommandHangs \/ MonitorEnds
    \/ ChangeWhitelist \/ Unlock \/ Ping \/ Freeze
    \/ Crash \/ Expire \/ Start

Fairness == WF_vars(MonitorStep) /\ WF_vars(Ping) /\ WF_vars(Expire) /\ WF_vars(Start)

Spec == Init /\ [][Next]_vars /\ Fairness

-----------------------------------------------------------------------------
(* Properties. *)

\* Every variable has its type; only a listed device is allowed, an id is
\* applied only when one was found, and only a daemon that is up has a socket.
TypeOK ==
    /\ id \in [Devices -> 0 .. MaxPlugs] /\ plugs \in 0 .. MaxPlugs
    /\ allowed \subseteq listed /\ listed \subseteq Plugged
    /\ queue \in Seq({"add", "remove"} \X Devices)
    /\ pc \in {"down", "poll", "match", "find", "apply", "decide", "raised", "hung", "dead"}
    /\ device \in Devices \cup {None} /\ match \in BOOLEAN /\ found \in 0 .. MaxPlugs
    /\ pc = "apply" => found # 0
    /\ ~Listening => queue = <<>>
    /\ whitelist \subseteq Enrollable
    /\ locked \in BOOLEAN /\ auto_block \in BOOLEAN /\ frozen \in BOOLEAN
    /\ silence \in 0 .. WatchdogSec
    /\ verdict \in [Devices -> BOOLEAN] /\ excused \subseteq Devices

\* However often devices were swapped while their events waited, whatever id a
\* command was late for and whatever usbguard's rules say: when the monitor has
\* caught up, a device that udev and usbguard know under one fingerprint is
\* allowed exactly if the whitelist had it when its insertion was looked up
\* (daemon.py 176-200), and any other is left to usbguard's rules. Excused: what
\* no daemon saw or usbguard did not do.
SettledPolicy ==
    pc = "poll" /\ queue = <<>> =>
        \A d \in listed \ excused :
            d \in allowed <=> IF d \in Recognised THEN verdict[d] ELSE d \in Ruled

\* An unknown device whose event reaches the monitor locks the system, if the
\* configuration says so, unless it is enrolled, a command of usbguard raises in
\* its handler, or the daemon ends or the monitor is lost first (daemon.py
\* 195-213): neither a device that usbguard does not list, nor a command that
\* exits with an error, nor whatever else was plugged in between gets in the way.
UnknownInsertionLocks ==
    \A d \in Devices :
        Pending(d) /\ Fingerprint[d] \notin whitelist /\ ~LookedUp(d) /\ auto_block
            ~> \/ locked \/ Fingerprint[d] \in whitelist
               \/ pc = "raised" /\ device = d
               \/ pc \in {"down", "hung", "dead"}

\* A daemon that has stopped altogether is restarted (daemon.py 125-129, the
\* unit's WatchdogSec and Restart).
FreezeEnds == frozen ~> Running

\* "sd_notify integration ... so systemd can detect daemon hangs and restart"
\* (daemon.py 13-14): a monitor that hangs or ends comes back.
HangIsDetected == pc \in {"hung", "dead"} ~> pc \notin {"hung", "dead"}

\* "When a USB device is plugged in, the daemon checks [it]; if it isn't [on the
\* list] a full-screen overlay ..." (README.md 19-28): the same without the
\* exceptions.
EveryUnknownLocks ==
    \A d \in Devices :
        Pending(d) /\ Fingerprint[d] \notin whitelist /\ ~LookedUp(d) /\ auto_block
            ~> locked \/ Fingerprint[d] \in whitelist

\* "If the device is on the list, it mounts as normal" (README.md 21), whether or
\* not it has a serial number: violated, for it is not found under its fingerprint.
ListedMounts ==
    pc = "poll" /\ queue = <<>> =>
        \A d \in listed \ excused : verdict[d] => d \in allowed

\* "It only lets through USB devices I've explicitly added to a whitelist. If
\* the device is on the list, it mounts as normal" (README.md 9-11, 21).
PolicyIsTheList ==
    pc = "poll" /\ queue = <<>> =>
        \A d \in listed \ excused : d \in allowed <=> Fingerprint[d] \in whitelist
=============================================================================
