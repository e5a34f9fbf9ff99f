---------------------------- MODULE DeviceGateProofs ----------------------------
(***************************************************************************)
(* Proofs about DeviceGate, for every set of devices, every enrolment and  *)
(* every bound, under all the faults.                                      *)
(*                                                                         *)
(* SettledPolicy is about the moment when the monitor has caught up. The   *)
(* invariant says what holds of a device before that (Served): its event   *)
(* waits, or the monitor has reached it and holds its verdict and its id,  *)
(* or its policy is applied. That a command which comes late hits nobody   *)
(* else rests on usbguard's ids, which are never given twice (Ids).        *)
(*                                                                         *)
(* No device may be listed under another's fingerprint. Two devices with   *)
(* one fingerprint are served by the id of the first: GateTwins.cfg shows  *)
(* what comes of it. A device that is listed under a fingerprint which     *)
(* nobody has is found by no command: NoSerial.cfg.                        *)
(***************************************************************************)
EXTENDS DeviceGate, WellFoundedInduction, TLAPS

NoTwins ==
    \A d, e \in Devices : Fingerprint[d] = Listing[e] => d = e

Handling == {"match", "find", "apply", "decide"}

\* The monitor handles a device's insertion, with the id it has found.
HandlerOK ==
    /\ pc \in Handling => device \in Devices
    /\ found # 0 => pc \in {"apply", "hung"}

\* An id is one plugged device's, and the one found no other device's.
Ids ==
    /\ \A d \in Devices : id[d] <= plugs
    /\ \A d, e \in Plugged : id[d] = id[e] => d = e
    /\ found <= plugs
    /\ found # 0 => \A d \in Devices : id[d] = found => d = device

\* How far a device's insertion has come.
Served(d) ==
    \/ Waiting(d)
    \/ device = d /\ pc = "match"
    \/ device = d /\ pc = "find" /\ (match <=> verdict[d])
    \/ device = d /\ pc = "apply" /\ d \in listed /\ found = id[d] /\ (match <=> verdict[d])
    \/ /\ ~(device = d /\ pc \in {"match", "find", "apply"})
       /\ d \in listed /\ (d \in allowed <=> verdict[d])

Types == TypeOK /\ HandlerOK

\* The devices the monitor has to serve.
Owed == (Plugged \cap Recognised) \ excused

IInv == Types /\ Ids /\ \A d \in Owed : Served(d)

(***************************************************************************)
(* Part 1: types                                                           *)
(***************************************************************************)

\* A set of ids that is not empty has a smallest one.
LEMMA SmallestId ==
  ASSUME NEW T, T \subseteq Nat, T # {}
  PROVE  \E i \in T : \A j \in T : i <= j
<1> DEFINE R == OpToRel(<, Nat)
<1>1. R = {p \in Nat \X Nat : p[1] < p[2]} /\ IsWellFoundedOn(R, Nat)
  BY NatLessThanWellFounded DEF OpToRel
<1> HIDE DEF R
<1>2. PICK i \in T : \A j \in T : <<j, i>> \notin R
  BY <1>1, WFMin
<1>3. \A j \in T : ~(j < i)
  BY <1>1, <1>2
<1> QED
  BY <1>3

\* What find_by_fingerprint() returns: a listed device's id, never 0.
LEMMA FoundId ==
  ASSUME TypeOK, Candidates # {}
  PROVE  LET i == CHOOSE i \in {id[d] : d \in Candidates} :
                     \A d \in Candidates : i <= id[d]
         IN  \E d \in Candidates : i = id[d] /\ i \in 1 .. MaxPlugs
<1> DEFINE T == {id[d] : d \in Candidates}
<1>1. \A d \in Candidates : d \in Devices /\ id[d] \in 1 .. MaxPlugs
  BY BoundsAreNat DEF TypeOK, Candidates, Plugged
<1>2. T \subseteq Nat /\ T # {}
  BY <1>1
<1>3. \A d \in Candidates : id[d] \in T
  OBVIOUS
<1>4. \E i \in T : \A j \in T : i <= j
  <2> HIDE DEF T
  <2> QED
    BY <1>2, SmallestId
<1>5. \E i \in T : \A d \in Candidates : i <= id[d]
  <2> HIDE DEF T
  <2> QED
    BY <1>3, <1>4
<1> QED
  BY <1>1, <1>5

\* The initial state is well typed.
LEMMA InitTypes == Init => Types
<1> SUFFICES ASSUME Init PROVE Types
  OBVIOUS
<1>1. queue \in Seq({"add", "remove"} \X Devices)
  BY DEF Init
<1>2. id \in [Devices -> 0 .. MaxPlugs] /\ verdict \in [Devices -> BOOLEAN]
  BY BoundsAreNat DEF Init
<1>3. plugs \in 0 .. MaxPlugs /\ found \in 0 .. MaxPlugs /\ silence \in 0 .. WatchdogSec
  BY BoundsAreNat DEF Init
<1> QED
  BY <1>1, <1>2, <1>3, AutoBlockTyped DEF Init, Types, TypeOK, HandlerOK, Handling, Listening, Plugged

\* udev queues an event for a monitor that listens.
LEMMA SendTypes ==
  ASSUME TypeOK, NEW e \in {"add", "remove"} \X Devices, Send(e), UNCHANGED pc
  PROVE  /\ queue' \in Seq({"add", "remove"} \X Devices)
         /\ ~Listening' => queue' = <<>>
BY DEF Send, TypeOK, Listening

\* The ports keep the types.
LEMMA PortTypes ==
  ASSUME Types, NEW d \in Devices, Plug(d) \/ List(d) \/ Unplug(d)
  PROVE  Types'
<1> USE DEF monitor, daemon, history
<1>1. CASE Plug(d)
  <2>1. plugs' \in 1 .. MaxPlugs /\ plugs' = plugs + 1
    BY <1>1, BoundsAreNat DEF Plug, Types, TypeOK
  <2>2. id' \in [Devices -> 0 .. MaxPlugs] /\ Plugged' = Plugged \cup {d}
    BY <1>1, <2>1 DEF Plug, Types, TypeOK, Plugged
  <2>3. queue' \in Seq({"add", "remove"} \X Devices) /\ (~Listening' => queue' = <<>>)
    BY <1>1, SendTypes DEF Plug, Types
  <2>4. /\ listed' \in {listed, listed \cup {d}} /\ excused' \subseteq Devices
        /\ allowed' \subseteq allowed \cup ({d} \cap listed')
    BY <1>1 DEF Plug, Types, TypeOK
  <2>5. allowed' \subseteq listed' /\ listed' \subseteq Plugged'
    BY <2>2, <2>4 DEF Types, TypeOK
  <2>6. UNCHANGED <<pc, device, match, found, whitelist, locked, auto_block, frozen, silence,
                    verdict>>
    BY <1>1 DEF Plug
  <2>7. plugs' \in 0 .. MaxPlugs
    BY <2>1
  <2> QED
    BY <2>2, <2>3, <2>4, <2>5, <2>6, <2>7 DEF Types, TypeOK, HandlerOK, Handling
<1>2. CASE List(d)
  <2>1. UNCHANGED <<id, plugs, queue, pc, device, match, found, whitelist, locked, auto_block,
                    frozen, silence, verdict, excused>>
    BY <1>2 DEF List
  <2>2. Plugged' = Plugged /\ Listening' = Listening
    BY <2>1 DEF Plugged, Listening
  <2>3. listed' \subseteq Plugged /\ allowed' \subseteq listed'
    BY <1>2 DEF List, Types, TypeOK
  <2> QED
    BY <2>1, <2>2, <2>3 DEF Types, TypeOK, HandlerOK, Handling
<1>3. CASE Unplug(d)
  <2>1. id' \in [Devices -> 0 .. MaxPlugs] /\ Plugged' = Plugged \ {d}
    BY <1>3, BoundsAreNat DEF Unplug, Types, TypeOK, Plugged
  <2>2. queue' \in Seq({"add", "remove"} \X Devices) /\ (~Listening' => queue' = <<>>)
    BY <1>3, SendTypes DEF Unplug, Types
  <2>3. verdict' \in [Devices -> BOOLEAN]
    BY <1>3 DEF Unplug, Types, TypeOK
  <2>4. allowed' \subseteq listed' /\ listed' \subseteq Plugged' /\ excused' \subseteq Devices
    BY <1>3, <2>1 DEF Unplug, Types, TypeOK
  <2>5. UNCHANGED <<plugs, pc, device, match, found, whitelist, locked, auto_block, frozen, silence>>
    BY <1>3 DEF Unplug
  <2> QED
    BY <2>1, <2>2, <2>3, <2>4, <2>5 DEF Types, TypeOK, HandlerOK, Handling
<1> QED
  BY <1>1, <1>2, <1>3

\* The monitor goes on: only a monitor that listens has made a step.
LEMMA GotoListening ==
  ASSUME TypeOK, NEW from, NEW to, Goto(from, to), from \notin {"dead", "down"}, UNCHANGED queue
  PROVE  ~Listening' => to \in {"dead", "down"}
BY DEF Goto, Listening

\* The monitor's steps keep the types.
LEMMA MonitorTypes ==
  ASSUME Types, MonitorStep
  PROVE  Types'
<1> USE DEF usb, monitor, daemon, history
<1>1. CASE Poll
  <2> DEFINE event == Head(queue)
  <2>1. event \in {"add", "remove"} \X Devices
    BY <1>1 DEF Poll, Types, TypeOK
  <2>2. queue' \in Seq({"add", "remove"} \X Devices)
    BY <1>1 DEF Poll, Types, TypeOK
  <2>3. CASE event[1] = "add"
    <3>1. pc = "poll" /\ pc' = "match" /\ device' = event[2]
      BY <1>1, <2>3 DEF Poll, Goto
    <3> QED
      BY <1>1, <2>1, <2>2, <3>1 DEF Poll, Types, TypeOK, HandlerOK, Handling, Listening, Plugged
  <2>4. CASE event[1] # "add"
    <3>1. pc = "poll" /\ pc' = "poll" /\ device' = None
      BY <1>1, <2>4 DEF Poll, Goto
    <3> QED
      BY <1>1, <2>2, <3>1 DEF Poll, Types, TypeOK, HandlerOK, Handling, Listening, Plugged
  <2> QED
    BY <2>3, <2>4
<1>2. CASE Match
  <2>1. pc = "match" /\ pc' = "find" /\ device \in Devices
    BY <1>2 DEF Match, Goto, Types, HandlerOK, Handling
  <2>2. match' \in BOOLEAN /\ verdict' = [verdict EXCEPT ![device] = match']
    BY <1>2 DEF Match
  <2>3. verdict' \in [Devices -> BOOLEAN]
    BY <2>2 DEF Types, TypeOK
  <2> QED
    BY <1>2, <2>1, <2>2, <2>3
    DEF Match, Types, TypeOK, HandlerOK, Handling, Listening, Plugged
<1>3. CASE Find
  <2>1. pc = "find" /\ pc' = IF Candidates = {} THEN "decide" ELSE "apply"
    BY <1>3 DEF Find, Goto
  <2>2. /\ Candidates = {} => found' = 0
        /\ Candidates # {} => found' \in 1 .. MaxPlugs
    <3>1. CASE Candidates = {}
      BY <1>3, <3>1 DEF Find
    <3>2. CASE Candidates # {}
      <4>1. found' = CHOOSE i \in {id[d] : d \in Candidates} :
                        \A d \in Candidates : i <= id[d]
        BY <1>3, <3>2 DEF Find
      <4> QED
        BY <3>2, <4>1, FoundId DEF Types
    <3> QED
      BY <3>1, <3>2
  <2>3. excused' \subseteq Devices
    BY <1>3 DEF Find, Types, TypeOK, Plugged
  <2>4. found' \in 0 .. MaxPlugs
    BY <2>2, BoundsAreNat
  <2>5. UNCHANGED <<id, listed, allowed, plugs, queue, device, match, whitelist, locked, auto_block,
                    frozen, silence, verdict>>
    BY <1>3 DEF Find
  <2> HIDE DEF Candidates
  <2> QED
    BY <2>1, <2>2, <2>3, <2>4, <2>5 DEF Types, TypeOK, HandlerOK, Handling, Listening, Plugged
<1>4. CASE Apply
  <2>1. pc = "apply" /\ pc' = "decide" /\ found' = 0 /\ found' \in 0 .. MaxPlugs
    BY <1>4, BoundsAreNat DEF Apply, Goto
  <2>2. allowed' \subseteq listed'
    BY <1>4 DEF Apply, Types, TypeOK
  <2> QED
    BY <1>4, <2>1, <2>2 DEF Apply, Types, TypeOK, HandlerOK, Handling, Listening, Plugged
<1>5. CASE Decide
  <2>1. pc = "decide" /\ pc' = "poll"
    BY <1>5 DEF Decide, Goto
  <2> QED
    BY <1>5, <2>1 DEF Decide, Types, TypeOK, HandlerOK, Handling, Listening, Plugged
<1>6. CASE Caught
  <2>1. pc = "raised" /\ pc' = "poll"
    BY <1>6 DEF Caught, Goto
  <2> QED
    BY <1>6, <2>1 DEF Caught, Types, TypeOK, HandlerOK, Handling, Listening, Plugged
<1> QED
  BY <1>1, <1>2, <1>3, <1>4, <1>5, <1>6 DEF MonitorStep

\* The monitor's failures keep the types.
LEMMA FailureTypes ==
  ASSUME Types, CommandFails \/ CommandRaises \/ CommandHangs \/ MonitorEnds
  PROVE  Types'
<1> USE DEF usb, monitor, daemon, history
<1>1. CASE CommandFails \/ CommandRaises
  <2>1. /\ pc \in {"find", "apply"} /\ pc' \in {"decide", "raised"}
        /\ found' = 0 /\ found' \in 0 .. MaxPlugs
    BY <1>1, BoundsAreNat DEF CommandFails, CommandRaises, Goto
  <2>2. excused' \subseteq Devices
    BY <1>1 DEF CommandFails, CommandRaises, Types, TypeOK, Plugged
  <2> QED
    BY <1>1, <2>1, <2>2 DEF CommandFails, CommandRaises, Types, TypeOK, HandlerOK, Handling, Listening, Plugged
<1>2. CASE CommandHangs
  <2>1. pc \in {"find", "apply"} /\ pc' = "hung"
    BY <1>2 DEF CommandHangs, Goto
  <2>2. excused' \subseteq Devices
    BY <1>2 DEF CommandHangs, Types, TypeOK, Plugged
  <2> QED
    BY <1>2, <2>1, <2>2 DEF CommandHangs, Types, TypeOK, HandlerOK, Handling, Listening, Plugged
<1>3. CASE MonitorEnds
  <2>1. pc = "poll" /\ pc' = "dead" /\ queue' = <<>>
    BY <1>3 DEF MonitorEnds, Goto
  <2>2. excused' \subseteq Devices
    BY <1>3 DEF MonitorEnds, Types, TypeOK, Plugged
  <2> QED
    BY <1>3, <2>1, <2>2 DEF MonitorEnds, Types, TypeOK, HandlerOK, Handling, Listening, Plugged
<1> QED
  BY <1>1, <1>2, <1>3

\* The rest of the daemon, and systemd, keep the types.
LEMMA RestTypes ==
  ASSUME Types, ChangeWhitelist \/ Unlock \/ Ping \/ Freeze \/ Crash \/ Expire \/ Start
  PROVE  Types'
<1> USE DEF usb, monitor, daemon, history
<1>1. CASE ChangeWhitelist
  BY <1>1 DEF ChangeWhitelist, Types, TypeOK, HandlerOK, Listening, Plugged
<1>2. CASE Unlock \/ Freeze
  <2>1. /\ UNCHANGED <<id, listed, allowed, plugs, queue, pc, device, match, found, whitelist,
                       auto_block, silence, verdict, excused>>
        /\ locked' \in BOOLEAN /\ frozen' \in BOOLEAN
    BY <1>2 DEF Unlock, Freeze, Types, TypeOK
  <2> QED
    BY <2>1 DEF Types, TypeOK, HandlerOK, Listening, Plugged
<1>3. CASE Ping
  <2>1. silence' \in 0 .. WatchdogSec
    BY <1>3, BoundsAreNat DEF Ping, Types, TypeOK
  <2> QED
    BY <1>3, <2>1 DEF Ping, Types, TypeOK, HandlerOK, Listening, Plugged
<1>4. CASE Crash \/ Expire
  <2>1. Down
    BY <1>4 DEF Crash, Expire
  <2>2. excused' \subseteq Devices
    BY <2>1 DEF Down, Types, TypeOK, Plugged
  <2>3. silence' \in 0 .. WatchdogSec /\ found' \in 0 .. MaxPlugs /\ found' = 0
    BY <2>1, BoundsAreNat DEF Down
  <2>4. /\ pc' = "down" /\ queue' = <<>> /\ frozen' = FALSE /\ device' = None /\ match' = FALSE
        /\ UNCHANGED <<id, listed, allowed, plugs, whitelist, locked, auto_block, verdict>>
    BY <2>1 DEF Down
  <2>5. queue' \in Seq({"add", "remove"} \X Devices)
    BY <2>4
  <2> QED
    BY <2>2, <2>3, <2>4, <2>5 DEF Types, TypeOK, HandlerOK, Handling, Listening, Plugged
<1>5. CASE Start
  BY <1>5, AutoBlockTyped DEF Start, Types, TypeOK, HandlerOK, Handling, Listening, Plugged
<1> QED
  BY <1>1, <1>2, <1>3, <1>4, <1>5

\* Every step keeps the types.
LEMMA NextTypes == Types /\ [Next]_vars => Types'
<1> SUFFICES ASSUME Types, [Next]_vars PROVE Types'
  OBVIOUS
<1>1. CASE UNCHANGED vars
  BY <1>1 DEF vars, usb, monitor, daemon, history, Types, TypeOK, HandlerOK, Listening, Plugged
<1> QED
  BY <1>1, PortTypes, MonitorTypes, FailureTypes, RestTypes DEF Next

\* Every variable has its type: only a listed device is allowed, an id is
\* applied only when one was found, and a daemon that is down has no events.
THEOREM TypeCorrect == Spec => []TypeOK
<1>1. Types => TypeOK
  BY DEF Types
<1> QED
  BY <1>1, InitTypes, NextTypes, PTL DEF Spec

(***************************************************************************)
(* Part 2: the policy, when the monitor has caught up                      *)
(***************************************************************************)

\* The initial state satisfies the invariant: nothing is plugged in.
LEMMA InitIInv == Init => IInv
<1> SUFFICES ASSUME Init PROVE IInv
  OBVIOUS
<1>1. Types
  BY InitTypes
<1>2. Plugged = {}
  BY DEF Init, Plugged
<1>3. Ids
  BY <1>2 DEF Init, Ids
<1> QED
  BY <1>1, <1>2, <1>3 DEF IInv, Owed

\* A step that leaves the ports and the id found alone keeps Ids.
LEMMA SameIds ==
  ASSUME Ids, UNCHANGED <<id, plugs>>, UNCHANGED <<found, device>> \/ (found' = 0 /\ plugs \in Nat)
  PROVE  Ids'
BY DEF Ids, Plugged

\* An event that is sent waits, and those that wait go on waiting.
LEMMA SendWaits ==
  ASSUME TypeOK, NEW e \in {"add", "remove"} \X Devices, Send(e), NEW d \in Devices
  PROVE  /\ Waiting(d) => Waiting(d)'
         /\ Listening /\ e = <<"add", d>> => Waiting(d)'
<1>1. CASE Listening
  <2>1. queue' = Append(queue, e)
    BY <1>1 DEF Send
  <2>2. queue \in Seq({"add", "remove"} \X Devices)
    BY DEF TypeOK
  <2>3. /\ Len(queue) + 1 \in DOMAIN queue' /\ queue'[Len(queue) + 1] = e
        /\ \A i \in DOMAIN queue : i \in DOMAIN queue' /\ queue'[i] = queue[i]
    BY <2>1, <2>2
  <2> QED
    BY <2>3 DEF Waiting
<1>2. CASE ~Listening
  BY <1>2 DEF Send, Waiting, TypeOK
<1> QED
  BY <1>1, <1>2

\* The ports: a new insertion has a new id and waits; an unplugged device has
\* neither; the other devices do not notice.
LEMMA PortIInv ==
  ASSUME IInv, Types', NEW d \in Devices, Plug(d) \/ List(d) \/ Unplug(d)
  PROVE  IInv'
<1> USE DEF IInv, Types, monitor, daemon, history
<1>1. CASE Plug(d)
  <2>1. /\ plugs' = plugs + 1 /\ plugs \in Nat /\ found \in Nat
        /\ id' = [id EXCEPT ![d] = plugs + 1] /\ id \in [Devices -> Nat] /\ id[d] = 0
    BY <1>1, BoundsAreNat DEF Plug, TypeOK
  <2>2. /\ UNCHANGED <<pc, device, match, found, verdict>>
        /\ listed \subseteq listed' /\ Send(<<"add", d>>)
        /\ \A e \in Devices \ {d} : /\ e \in listed' <=> e \in listed
                                    /\ e \in allowed' <=> e \in allowed
        /\ \A e \in Devices \ {d} : e \in excused' <=> e \in excused
        /\ d \notin excused' => Listening
    BY <1>1 DEF Plug
  <2>3. Ids'
    BY <2>1, <2>2 DEF Ids, Plugged
  <2>4. ASSUME NEW e \in Owed' PROVE Served(e)'
    <3>1. CASE e = d
      BY <2>2, <3>1, SendWaits DEF Served, Owed
    <3>2. CASE e # d
      <4>1. e \in Owed /\ id'[e] = id[e] /\ e \in Devices
        BY <2>1, <2>2, <3>2 DEF Owed, Plugged
      <4>2. Waiting(e) => Waiting(e)'
        BY <2>2, <4>1, SendWaits DEF Types
      <4>3. /\ e \in listed' <=> e \in listed
            /\ e \in allowed' <=> e \in allowed
        BY <2>2, <3>2, <4>1
      <4> QED
        BY <2>2, <3>2, <4>1, <4>2, <4>3 DEF Served
    <3> QED
      BY <3>1, <3>2
  <2> QED
    BY <2>3, <2>4
<1>2. CASE List(d)
  <2>1. /\ UNCHANGED <<id, plugs, queue, pc, device, match, found, verdict, excused>>
        /\ d \notin listed /\ listed' = listed \cup {d}
        /\ \A e \in Devices \ {d} : e \in allowed' <=> e \in allowed
    BY <1>2 DEF List
  <2>2. Ids'
    BY <2>1, SameIds
  <2>3. ASSUME NEW e \in Owed' PROVE Served(e)'
    <3>1. e \in Owed /\ Served(e) /\ e \in Devices
      BY <2>1 DEF Owed, Plugged
    <3>2. e # d => (e \in allowed' <=> e \in allowed)
      BY <2>1, <3>1
    <3> QED
      BY <2>1, <3>1, <3>2 DEF Served, Waiting
  <2> QED
    BY <2>2, <2>3
<1>3. CASE Unplug(d)
  <2>1. /\ id' = [id EXCEPT ![d] = 0] /\ id \in [Devices -> Nat] /\ plugs \in Nat
        /\ UNCHANGED plugs
    BY <1>3, BoundsAreNat DEF Unplug, TypeOK
  <2>2. /\ UNCHANGED <<pc, device, match, found>> /\ Send(<<"remove", d>>)
        /\ \A e \in Devices \ {d} : /\ e \in listed' <=> e \in listed
                                    /\ e \in allowed' <=> e \in allowed
                                    /\ e \in excused' <=> e \in excused
                                    /\ verdict'[e] = verdict[e]
    BY <1>3 DEF Unplug, TypeOK
  <2>3. Ids'
    BY <2>1, <2>2 DEF Ids, Plugged
  <2>4. ASSUME NEW e \in Owed' PROVE Served(e)'
    <3>1. e # d /\ e \in Owed /\ id'[e] = id[e]
      BY <2>1, <2>2 DEF Owed, Plugged
    <3>2. Waiting(e) => Waiting(e)'
      BY <2>2, <3>1, SendWaits DEF Types, Owed, Plugged
    <3>3. Served(e) /\ e \in Devices
      BY <3>1 DEF Owed, Plugged
    <3>4. /\ e \in listed' <=> e \in listed
          /\ e \in allowed' <=> e \in allowed
          /\ verdict'[e] = verdict[e]
      BY <2>2, <3>1, <3>3
    <3> QED
      BY <2>2, <3>1, <3>2, <3>3, <3>4 DEF Served
  <2> QED
    BY <2>3, <2>4
<1> QED
  BY <1>1, <1>2, <1>3

\* The device whose event the monitor takes is its device; the others wait on.
LEMMA PollWaits ==
  ASSUME TypeOK, queue # <<>>, queue' = Tail(queue), NEW d \in Devices, Waiting(d)
  PROVE  Waiting(d)' \/ Head(queue) = <<"add", d>>
<1>1. PICK i \in DOMAIN queue : queue[i] = <<"add", d>>
  BY DEF Waiting
<1>2. queue \in Seq({"add", "remove"} \X Devices)
  BY DEF TypeOK
<1>3. CASE i = 1
  BY <1>1, <1>2, <1>3
<1>4. CASE i # 1
  <2>1. i - 1 \in DOMAIN queue' /\ queue'[i - 1] = queue[i]
    BY <1>1, <1>2, <1>4
  <2> QED
    BY <1>1, <2>1 DEF Waiting
<1> QED
  BY <1>3, <1>4

\* With distinct fingerprints the device found is the one that was plugged in.
LEMMA FindsItself ==
  ASSUME NoTwins, Types, pc = "find", Candidates # {}
  PROVE  device \in listed /\ Candidates = {device}
BY DEF NoTwins, Types, TypeOK, HandlerOK, Handling, Candidates, Plugged

\* The monitor's steps: the verdict, the id and the policy reach the device
\* whose insertion is handled, and nobody else.
LEMMA MonitorIInv ==
  ASSUME NoTwins, IInv, Types', MonitorStep
  PROVE  IInv'
<1> USE DEF IInv, usb, monitor, daemon, history
<1>0. plugs \in Nat
  BY BoundsAreNat DEF Types, TypeOK
<1>1. CASE Poll
  <2>1. /\ UNCHANGED <<id, listed, allowed, plugs, match, found, verdict, excused>>
        /\ queue # <<>> /\ queue' = Tail(queue) /\ pc = "poll" /\ found = 0
    BY <1>1 DEF Poll, Goto, Types, HandlerOK
  <2>2. Ids'
    BY <1>0, <2>1, SameIds
  <2>3. ASSUME NEW d \in Owed' PROVE Served(d)'
    <3>1. d \in Owed /\ d \in Devices /\ d # None
      BY <2>1, NoneApart DEF Owed, Plugged
    <3>2. CASE Head(queue) = <<"add", d>>
      <4>1. device' = d /\ pc' = "match"
        BY <1>1, <3>2 DEF Poll, Goto
      <4> QED
        BY <4>1 DEF Served
    <3>3. CASE Head(queue) # <<"add", d>> /\ Waiting(d)
      BY <2>1, <3>1, <3>3, PollWaits DEF Served, Types
    <3>4. CASE Head(queue) # <<"add", d>> /\ ~Waiting(d)
      <4>1. d \in listed /\ (d \in allowed <=> verdict[d])
        BY <2>1, <3>1, <3>4 DEF Served
      <4>2. Head(queue) \in {"add", "remove"} \X Devices
        BY <2>1 DEF Types, TypeOK
      <4>3. device' # d
        BY <1>1, <3>1, <3>4, <4>2 DEF Poll
      <4> QED
        BY <2>1, <4>1, <4>3 DEF Served
    <3> QED
      BY <3>2, <3>3, <3>4
  <2> QED
    BY <2>2, <2>3
<1>2. CASE Match
  <2>1. /\ UNCHANGED <<id, listed, allowed, plugs, queue, device, found, excused>>
        /\ pc = "match" /\ pc' = "find" /\ device \in Devices
        /\ verdict' = [verdict EXCEPT ![device] = match']
    BY <1>2 DEF Match, Goto, Types, HandlerOK, Handling
  <2>2. Ids'
    BY <2>1, SameIds
  <2>3. ASSUME NEW d \in Owed' PROVE Served(d)'
    <3>1. d \in Owed /\ Served(d)
      BY <2>1 DEF Owed, Plugged
    <3>2. CASE d = device
      BY <2>1, <3>2 DEF Served, Types, TypeOK
    <3>3. CASE d # device
      <4>1. verdict'[d] = verdict[d]
        BY <2>1, <3>3 DEF Types, TypeOK
      <4> QED
        BY <2>1, <3>1, <3>3, <4>1 DEF Served, Waiting
    <3> QED
      BY <3>2, <3>3
  <2> QED
    BY <2>2, <2>3
<1>3. CASE Find /\ Candidates = {}
  <2>1. /\ UNCHANGED <<id, listed, allowed, plugs, queue, device, match, verdict>>
        /\ pc = "find" /\ pc' = "decide" /\ found' = 0
        /\ excused \subseteq excused'
        /\ device \in Plugged \ listed => device \in excused'
    BY <1>3 DEF Find, Goto
  <2>2. Ids'
    BY <1>0, <2>1, SameIds
  <2>3. ASSUME NEW d \in Owed' PROVE Served(d)'
    <3>1. d \in Owed /\ Served(d)
      BY <2>1 DEF Owed, Plugged
    <3>2. d # device
      <4>1. d = device => d \in listed
        BY <2>1 DEF Owed, Plugged
      <4> QED
        BY <1>3, <3>1, <4>1 DEF Owed, Recognised, Candidates
    <3> QED
      BY <2>1, <3>1, <3>2 DEF Served, Waiting
  <2> QED
    BY <2>2, <2>3
<1>4. CASE Find /\ Candidates # {}
  <2>1. /\ UNCHANGED <<id, listed, allowed, plugs, queue, device, match, verdict>>
        /\ pc = "find" /\ pc' = "apply" /\ excused' = excused
    BY <1>4 DEF Find, Goto
  <2>2. device \in listed /\ Candidates = {device}
    BY <1>4, <2>1, FindsItself
  <2>3. found' = id[device]
    <3>1. found' = CHOOSE i \in {id[d] : d \in Candidates} :
                      \A d \in Candidates : i <= id[d]
      BY <1>4 DEF Find
    <3>2. \E d \in Candidates : found' = id[d]
      BY <1>4, <3>1, FoundId DEF Types
    <3> QED
      BY <2>2, <3>2
  <2>4. Ids'
    <3>1. device \in Plugged
      BY <2>2 DEF Types, TypeOK
    <3> QED
      BY <2>1, <2>3, <3>1 DEF Ids, Plugged
  <2>5. ASSUME NEW d \in Owed' PROVE Served(d)'
    BY <2>1, <2>2, <2>3 DEF Served, Waiting, Owed, Plugged
  <2> QED
    BY <2>4, <2>5
<1>5. CASE Apply
  <2>1. /\ UNCHANGED <<id, listed, plugs, queue, device, match, verdict, excused>>
        /\ pc = "apply" /\ pc' = "decide" /\ found' = 0
        /\ allowed' = IF match THEN allowed \cup {d \in listed : id[d] = found}
                               ELSE {d \in allowed : id[d] # found}
    BY <1>5 DEF Apply, Goto
  <2>2. Ids'
    BY <1>0, <2>1, SameIds
  <2>3. ASSUME NEW d \in Owed' PROVE Served(d)'
    <3>1. d \in Owed /\ Served(d) /\ d \in Devices
      BY <2>1 DEF Owed, Plugged
    <3>2. id[d] = found => d = device
      <4>1. found # 0
        BY <2>1 DEF Types, TypeOK
      <4> QED
        BY <3>1, <4>1 DEF Ids
    <3>3. CASE d = device
      BY <2>1, <3>1, <3>3 DEF Served, Waiting
    <3>4. CASE d # device
      <4>1. d \in allowed' <=> d \in allowed
        BY <2>1, <3>2, <3>4
      <4> QED
        BY <2>1, <3>1, <3>4, <4>1 DEF Served, Waiting
    <3> QED
      BY <3>3, <3>4
  <2> QED
    BY <2>2, <2>3
<1>6. CASE Decide
  <2>1. /\ UNCHANGED <<id, listed, allowed, plugs, queue, found, verdict, excused>>
        /\ pc = "decide" /\ pc' = "poll" /\ device' = None /\ found = 0
    BY <1>6 DEF Decide, Goto, Types, HandlerOK
  <2>2. Ids'
    BY <1>0, <2>1, SameIds
  <2>3. ASSUME NEW d \in Owed' PROVE Served(d)'
    BY <2>1 DEF Served, Waiting, Owed, Plugged
  <2> QED
    BY <2>2, <2>3
<1>7. CASE Caught
  <2>1. /\ UNCHANGED <<id, listed, allowed, plugs, queue, found, verdict, excused>>
        /\ pc = "raised" /\ pc' = "poll" /\ device' = None /\ found = 0
    BY <1>7 DEF Caught, Goto, Types, HandlerOK
  <2>2. Ids'
    BY <1>0, <2>1, SameIds
  <2>3. ASSUME NEW d \in Owed' PROVE Served(d)'
    BY <2>1 DEF Served, Waiting, Owed, Plugged
  <2> QED
    BY <2>2, <2>3
<1> QED
  BY <1>1, <1>2, <1>3, <1>4, <1>5, <1>6, <1>7 DEF MonitorStep

\* What the monitor's failures lose is excused.
LEMMA FailureIInv ==
  ASSUME IInv, Types', CommandFails \/ CommandRaises \/ CommandHangs \/ MonitorEnds
  PROVE  IInv'
<1> USE DEF IInv, usb, monitor, daemon, history
<1>0. plugs \in Nat
  BY BoundsAreNat DEF Types, TypeOK
<1>1. CASE CommandFails \/ CommandRaises \/ CommandHangs
  <2>1. /\ UNCHANGED <<id, listed, allowed, plugs, queue, device, match, verdict>>
        /\ pc \in {"find", "apply"} /\ pc' \in {"decide", "raised", "hung"}
        /\ found' \in {0, found}
        /\ excused \subseteq excused' /\ (device \in Plugged => device \in excused')
    BY <1>1 DEF CommandFails, CommandRaises, CommandHangs, Goto
  <2>2. Ids'
    BY <1>0, <2>1, SameIds
  <2>3. ASSUME NEW d \in Owed' PROVE Served(d)'
    <3>1. d \in Owed /\ Served(d) /\ d # device
      BY <2>1 DEF Owed, Plugged
    <3> QED
      BY <2>1, <3>1 DEF Served, Waiting
  <2> QED
    BY <2>2, <2>3
<1>2. CASE MonitorEnds
  <2>1. /\ UNCHANGED <<id, listed, allowed, plugs, device, match, found, verdict>>
        /\ pc = "poll" /\ pc' = "dead"
        /\ excused' = excused \cup {d \in Plugged : Waiting(d)}
    BY <1>2 DEF MonitorEnds, Goto
  <2>2. Ids'
    BY <2>1, SameIds
  <2>3. ASSUME NEW d \in Owed' PROVE Served(d)'
    <3>1. d \in Owed /\ Served(d) /\ ~Waiting(d)
      BY <2>1 DEF Owed, Plugged
    <3> QED
      BY <2>1, <3>1 DEF Served
  <2> QED
    BY <2>2, <2>3
<1> QED
  BY <1>1, <1>2

\* The rest of the daemon touches no policy; what its end loses is excused.
LEMMA RestIInv ==
  ASSUME IInv, Types', ChangeWhitelist \/ Unlock \/ Ping \/ Freeze \/ Crash \/ Expire \/ Start
  PROVE  IInv'
<1> USE DEF IInv, usb, monitor, daemon, history
<1>0. plugs \in Nat
  BY BoundsAreNat DEF Types, TypeOK
<1>1. CASE ChangeWhitelist \/ Unlock \/ Ping \/ Freeze
  <2>1. UNCHANGED <<id, listed, allowed, plugs, queue, pc, device, match, found, verdict, excused>>
    BY <1>1 DEF ChangeWhitelist, Unlock, Ping, Freeze
  <2>2. Ids'
    BY <2>1, SameIds
  <2>3. ASSUME NEW d \in Owed' PROVE Served(d)'
    BY <2>1 DEF Served, Waiting, Owed, Plugged
  <2> QED
    BY <2>2, <2>3
<1>2. CASE Crash \/ Expire
  <2>1. /\ UNCHANGED <<id, listed, allowed, plugs, verdict>>
        /\ pc' = "down" /\ found' = 0
        /\ excused' = excused \cup {d \in Plugged : Pending(d)}
    BY <1>2 DEF Crash, Expire, Down
  <2>2. Ids'
    BY <1>0, <2>1, SameIds
  <2>3. ASSUME NEW d \in Owed' PROVE Served(d)'
    <3>1. d \in Owed /\ Served(d) /\ ~Pending(d)
      BY <2>1 DEF Owed, Plugged
    <3>2. d \in listed /\ (d \in allowed <=> verdict[d])
      BY <3>1 DEF Served, Pending
    <3> QED
      BY <2>1, <3>2 DEF Served
  <2> QED
    BY <2>2, <2>3
<1>3. CASE Start
  <2>1. /\ UNCHANGED <<id, listed, allowed, plugs, queue, device, match, found, verdict, excused>>
        /\ pc = "down" /\ pc' = "poll"
    BY <1>3 DEF Start
  <2>2. Ids'
    BY <2>1, SameIds
  <2>3. ASSUME NEW d \in Owed' PROVE Served(d)'
    BY <2>1 DEF Served, Waiting, Owed, Plugged
  <2> QED
    BY <2>2, <2>3
<1> QED
  BY <1>1, <1>2, <1>3

\* Every step keeps the invariant.
LEMMA NextIInv == NoTwins /\ IInv /\ [Next]_vars => IInv'
<1> SUFFICES ASSUME NoTwins, IInv, [Next]_vars PROVE IInv'
  OBVIOUS
<1>1. Types'
  BY NextTypes DEF IInv
<1>2. CASE UNCHANGED vars
  <2>1. UNCHANGED <<id, listed, allowed, plugs, queue, pc, device, match, found, verdict, excused>>
    BY <1>2 DEF vars, usb, monitor, history
  <2>2. Ids'
    BY <2>1, SameIds DEF IInv
  <2>3. ASSUME NEW d \in Owed' PROVE Served(d)'
    BY <2>1 DEF IInv, Served, Waiting, Owed, Plugged
  <2> QED
    BY <1>1, <2>2, <2>3 DEF IInv
<1> QED
  BY <1>1, <1>2, PortIInv, MonitorIInv, FailureIInv, RestIInv DEF Next

\* A device that udev and usbguard know under two fingerprints is found by no
\* command, and its rule decides.
LeftAlone ==
    /\ found # 0 => device \in Recognised
    /\ \A d \in listed \ Recognised : d \in allowed <=> d \in Ruled

\* Only Find and Apply can disturb it: the one finds nobody else, the other
\* applies to nobody else.
LEMMA NextLeftAlone ==
  ASSUME NoTwins, IInv, LeftAlone, Next
  PROVE  LeftAlone'
<1> USE DEF IInv, usb, monitor, daemon, history
<1>1. ASSUME NEW d \in Devices, Plug(d) \/ List(d) \/ Unplug(d)
      PROVE  LeftAlone'
  <2>1. UNCHANGED <<found, device>> /\ allowed \subseteq listed
    BY <1>1 DEF Plug, List, Unplug, Types, TypeOK
  <2>2. CASE Plug(d)
    <3>1. d \notin listed /\ listed' \in {listed, listed \cup {d}}
      BY <2>2 DEF Plug, Types, TypeOK, Plugged
    <3>2. allowed' = allowed \cup ({d} \cap Ruled \cap listed')
      BY <2>2 DEF Plug
    <3> QED
      BY <2>1, <3>1, <3>2 DEF LeftAlone
  <2>3. CASE List(d)
    BY <2>1, <2>3 DEF List, LeftAlone
  <2>4. CASE Unplug(d)
    BY <2>1, <2>4 DEF Unplug, LeftAlone
  <2> QED
    BY <1>1, <2>2, <2>3, <2>4
<1>2. CASE Find
  <2>1. UNCHANGED <<listed, allowed, device>> /\ pc = "find"
    BY <1>2 DEF Find, Goto
  <2>2. found' # 0 => device \in Recognised
    <3>1. found' # 0 => Candidates # {}
      BY <1>2 DEF Find
    <3> QED
      BY <2>1, <3>1, FindsItself DEF Candidates, Recognised, Types, TypeOK, Plugged
  <2> QED
    BY <2>1, <2>2 DEF LeftAlone
<1>3. CASE Apply
  <2>1. /\ UNCHANGED <<listed, device>> /\ pc = "apply" /\ found' = 0
        /\ allowed' = IF match THEN allowed \cup {d \in listed : id[d] = found}
                               ELSE {d \in allowed : id[d] # found}
    BY <1>3 DEF Apply, Goto
  <2>2. found # 0 /\ listed \subseteq Devices
    BY <2>1 DEF Types, TypeOK, Plugged
  <2>3. \A d \in listed : id[d] = found => d \in Recognised
    BY <2>2 DEF Ids, LeftAlone
  <2> QED
    BY <2>1, <2>3 DEF LeftAlone
<1>4. CASE Poll
  BY <1>4 DEF Poll, Goto, LeftAlone, Types, HandlerOK
<1>5. CASE Decide \/ Caught
  BY <1>5 DEF Decide, Caught, Goto, LeftAlone, Types, HandlerOK
<1>6. CASE Match \/ CommandFails \/ CommandRaises \/ CommandHangs \/ MonitorEnds
  <2>1. UNCHANGED <<listed, allowed, device>> /\ found' \in {0, found}
    BY <1>6 DEF Match, CommandFails, CommandRaises, CommandHangs, MonitorEnds
  <2> QED
    BY <2>1 DEF LeftAlone
<1>7. CASE ChangeWhitelist \/ Unlock \/ Ping \/ Freeze \/ Crash \/ Expire \/ Start
  <2>1. UNCHANGED <<listed, allowed>> /\ (UNCHANGED <<found, device>> \/ found' = 0)
    BY <1>7 DEF ChangeWhitelist, Unlock, Ping, Freeze, Crash, Expire, Down, Start
  <2> QED
    BY <2>1 DEF LeftAlone
<1> QED
  BY <1>1, <1>2, <1>3, <1>4, <1>5, <1>6, <1>7 DEF Next, MonitorStep

\* SettledPolicy: if no device is listed under another's fingerprint, then
\* whatever was swapped, delayed, failed or lost, a monitor that has caught up
\* leaves a device that is listed under its own fingerprint allowed exactly if
\* the whitelist had it, and has left the others to usbguard's rules (daemon.py,
\* lines 176-200).
THEOREM PolicySettles == NoTwins => (Spec => []SettledPolicy)
<1>1. IInv /\ LeftAlone => SettledPolicy
  <2> SUFFICES ASSUME IInv, LeftAlone, pc = "poll", queue = <<>>, NEW d \in listed \ excused
               PROVE  d \in allowed <=> IF d \in Recognised THEN verdict[d] ELSE d \in Ruled
    BY DEF SettledPolicy
  <2>1. CASE d \in Recognised
    <3>1. Served(d)
      BY <2>1 DEF IInv, Owed, Types, TypeOK
    <3>2. ~Waiting(d)
      BY DEF Waiting
    <3> QED
      BY <2>1, <3>1, <3>2 DEF Served
  <2>2. CASE d \notin Recognised
    BY <2>2 DEF LeftAlone
  <2> QED
    BY <2>1, <2>2
<1> SUFFICES ASSUME NoTwins PROVE Spec => []SettledPolicy
  OBVIOUS
<1>2. Init => IInv /\ LeftAlone
  <2>1. Init => LeftAlone
    BY DEF Init, LeftAlone
  <2> QED
    BY <2>1, InitIInv
<1>3. IInv /\ LeftAlone /\ [Next]_vars => (IInv /\ LeftAlone)'
  <2>1. CASE UNCHANGED vars
    BY <2>1, NextIInv DEF vars, usb, monitor, LeftAlone
  <2>2. CASE Next
    BY <2>2, NextIInv, NextLeftAlone
  <2> QED
    BY <2>1, <2>2
<1> QED
  BY <1>1, <1>2, <1>3, PTL DEF Spec
=============================================================================
