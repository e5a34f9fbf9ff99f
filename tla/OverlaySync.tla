---------------------------- MODULE OverlaySync ----------------------------
(***************************************************************************)
(* What a UI process shows against what the daemon holds: the lockdown     *)
(* overlay with its intrusion timeline, and the cached whitelist.          *)
(*                                                                         *)
(* Daemon (daemon.py, ipc.py): several threads change the state and then   *)
(* broadcast a line to the registered connections; the connection's own    *)
(* thread computes a response and then sends it, outside the broadcast's   *)
(* lock. UI (ui/main.py, ui/lockdown.py): lines are handled one by one in  *)
(* the order of arrival; a timer reconnects; status and the whitelist are  *)
(* requested when a connection is made and never polled afterwards.        *)
(*                                                                         *)
(* "lines" is the path from the daemon to the handler: socket buffer,      *)
(* receiver thread and Qt's event queue, each of which keeps the order and *)
(* outlives the daemon. A whitelist is its version number. How a lockdown  *)
(* is entered, cleared and restored is module Lockdown's.                  *)
(***************************************************************************)
EXTENDS Integers, Sequences

CONSTANTS
    Threads,        \* the daemon's threads that change its state
    Attempts,       \* intrusion attempts, each made once
    None,           \* no line
    MaxVersion,     \* bound: how often the whitelist changes
    MaxLines,       \* bound: how many lines and requests are on their way when
                    \* a change, a stop or the whitelist screen adds to them
    LogReadable,    \* whether the UI's user may read the event log
    FaultKinds      \* what may go wrong: a subset of AllFaults

AllFaults == {"os_error",   \* a write of the daemon raises OSError
              "daemon"}     \* the daemon dies and systemd restarts it

ASSUME BoundsNat       == MaxVersion \in Nat /\ MaxLines \in Nat
ASSUME LogReadableBool == LogReadable \in BOOLEAN
ASSUME FaultKindsTyped == FaultKinds \subseteq AllFaults

Entered     == <<"lockdown_enter", TRUE>>
Cleared     == <<"lockdown_clear", FALSE>>
Status(b)   == <<"status", b>>
Attempt(x)  == <<"intrusion_attempt", x>>
ListChanged == <<"whitelist_changed", None>>
List(v)     == <<"whitelist_list", v>>
Refused     == <<"list_whitelist", None>>

Lines == {Entered, Cleared, ListChanged, Refused}
         \cup {Status(b) : b \in BOOLEAN}
         \cup {Attempt(x) : x \in Attempts}
         \cup {List(v) : v \in 0 .. MaxVersion}

ASSUME NoneIsNoLine == \A l \in Lines : l # None

Requests == {"status", "list_whitelist"}

VARIABLES
    up,             \* whether the daemon serves the socket
    locked,         \* self.locked
    attempts,       \* INTRUSION_ATTEMPT rows logged since this lockdown began
    whitelist,      \* the whitelist's version
    say,            \* the line each thread is about to broadcast, or None
    registered,     \* whether the UI's connection is in self._clients
    requests,       \* commands on their way from the UI
    response,       \* what the connection's thread is about to send, or None
    link,           \* the UI's socket: "up", "broken" but not noticed, "down"
    lines,          \* lines on their way to the UI's handler
    overlay,        \* whether the overlay is shown
    timeline,       \* attempts on the overlay's timeline
    cache,          \* self._whitelist_cache
    made,           \* history: the attempts made so far
    overtaken,      \* history: the last word on the lockdown was out of date
                    \* when sent, or never sent
    untold,         \* history: since a list was last computed, a change was
                    \* not broadcast or a request for the list was refused
    reattached,     \* history: the overlay was last shown by a status
    unread          \* history: the attempts logged by then that the UI could
                    \* not read

state   == <<up, locked, attempts, whitelist, say, made>>
ui      == <<overlay, timeline, cache, reattached, unread>>
ghosts  == <<overtaken, untold>>
vars    == <<state, registered, requests, response, link, lines, ui, ghosts>>

-----------------------------------------------------------------------------
(* The daemon's threads: change, then broadcast. *)

\* Thread t changes the state and will broadcast line l.
Announce(t, l) ==
    /\ up
    /\ say[t] = None
    /\ Len(lines) < MaxLines
    /\ say' = [say EXCEPT ![t] = l]
    /\ UNCHANGED <<up, registered, requests, response, link, lines, ui, ghosts>>

\* _enter_lockdown as far as its broadcast.
EnterLockdown(t) ==
    /\ ~locked
    /\ Announce(t, Entered)
    /\ locked' = TRUE
    /\ attempts' = {}
    /\ UNCHANGED <<whitelist, made>>

\* _clear_lockdown as far as its broadcast.
ClearLockdown(t) ==
    /\ locked
    /\ Announce(t, Cleared)
    /\ locked' = FALSE
    /\ UNCHANGED <<attempts, whitelist, made>>

\* EventLogger.write drops a failure.
LogRow(x) ==
    \/ attempts' = attempts \cup {x}
    \/ "os_error" \in FaultKinds /\ UNCHANGED attempts

\* _record_intrusion: the row is written before it is broadcast.
RecordIntrusion(t, x) ==
    /\ locked
    /\ x \notin made
    /\ Announce(t, Attempt(x))
    /\ made' = made \cup {x}
    /\ LogRow(x)
    /\ UNCHANGED <<locked, whitelist>>

\* add_ or remove_whitelist_entry as far as the broadcast.
ChangeWhitelist(t) ==
    /\ whitelist < MaxVersion
    /\ Announce(t, ListChanged)
    /\ whitelist' = whitelist + 1
    /\ UNCHANGED <<locked, attempts, made>>

\* A write between the change and the broadcast raises: a lockdown flag's, or
\* save()'s. The thread drops the rest.
GiveUp(t) ==
    /\ "os_error" \in FaultKinds
    /\ say[t] \in {Entered, Cleared, ListChanged}
    /\ say' = [say EXCEPT ![t] = None]
    /\ overtaken' = (overtaken \/ say[t] # ListChanged)
    /\ untold' = (untold \/ say[t] = ListChanged)
    /\ UNCHANGED <<up, locked, attempts, whitelist, made, registered, requests,
                   response, link, lines, ui>>

OutOfDate(l) == IF l[1] \in {"lockdown_enter", "lockdown_clear", "status"}
                  THEN l[2] # locked ELSE overtaken

\* broadcast, under the lock of the list of clients.
Broadcast(t) ==
    /\ say[t] # None
    /\ say' = [say EXCEPT ![t] = None]
    /\ IF registered
         THEN lines' = Append(lines, say[t]) /\ overtaken' = OutOfDate(say[t])
         ELSE UNCHANGED <<lines, overtaken>>
    /\ UNCHANGED <<up, locked, attempts, whitelist, made, registered, requests,
                   response, link, ui, untold>>

Thread(t) ==
    \/ EnterLockdown(t) \/ ClearLockdown(t) \/ ChangeWhitelist(t)
    \/ \E x \in Attempts : RecordIntrusion(t, x)
    \/ GiveUp(t) \/ Broadcast(t)

-----------------------------------------------------------------------------
(* The daemon's side of the UI's connection. *)

\* The accept loop registers the connection before it starts its thread.
Accept ==
    /\ up /\ link = "up" /\ ~registered
    /\ registered' = TRUE
    /\ UNCHANGED <<state, requests, response, link, lines, ui, ghosts>>

Computed(r) == IF r = "status" THEN Status(locked) ELSE List(whitelist)

\* The thread computes a response.
Compute ==
    /\ response = None /\ requests # <<>>
    /\ response' = Computed(Head(requests))
    /\ requests' = Tail(requests)
    /\ untold' = (untold /\ Head(requests) # "list_whitelist")
    /\ UNCHANGED <<state, registered, link, lines, ui, overtaken>>

\* Mutant of HandleCommand: the thread runs before it is registered.
HandleUnregistered ==
    /\ up /\ link = "up"
    /\ Compute

HandleCommand ==
    /\ registered
    /\ Compute

\* The authentication lockout (module AuthThrottle) is checked first and
\* refuses everything but status, the list as well.
RefuseList ==
    /\ registered /\ response = None /\ requests # <<>>
    /\ Head(requests) = "list_whitelist"
    /\ response' = Refused
    /\ requests' = Tail(requests)
    /\ untold' = TRUE
    /\ UNCHANGED <<state, registered, link, lines, ui, overtaken>>

\* The response is sent, whatever was broadcast meanwhile.
SendResponse ==
    /\ response # None
    /\ lines' = Append(lines, response)
    /\ overtaken' = OutOfDate(response)
    /\ response' = None
    /\ UNCHANGED <<state, registered, requests, link, ui, untold>>

Connection == Accept \/ HandleCommand \/ RefuseList \/ SendResponse

-----------------------------------------------------------------------------
(* The UI. *)

\* The handler takes the next line, which is of the given type.
Take(type) ==
    /\ lines # <<>> /\ Head(lines)[1] = type
    /\ lines' = Tail(lines)
    /\ UNCHANGED <<state, registered, response, ghosts>>

\* show_for clears the timeline; the rows given are then put on it.
ShowFor(rows) == overlay' = TRUE /\ timeline' = rows

HideOverlay == overlay' = FALSE /\ UNCHANGED timeline

\* send_command: a send that fails marks the socket dead.
SendCommand(r) ==
    IF link = "up"
      THEN requests' = Append(requests, r) /\ UNCHANGED link
      ELSE link' = "down" /\ UNCHANGED requests

OnLockdownEnter ==
    /\ Take("lockdown_enter")
    /\ ShowFor({})
    /\ reattached' = FALSE
    /\ UNCHANGED <<requests, link, cache, unread>>

OnLockdownClear ==
    /\ Take("lockdown_clear")
    /\ HideOverlay
    /\ UNCHANGED <<requests, link, cache, reattached, unread>>

\* A row is a set's member: a row shown twice counts once.
RecordRow(x) == timeline' = timeline \cup {x} /\ UNCHANGED overlay

OnIntrusionAttempt ==
    /\ Take("intrusion_attempt")
    /\ RecordRow(Head(lines)[2])
    /\ UNCHANGED <<requests, link, cache, reattached, unread>>

\* _rehydrate_intrusion_timeline: the log on disk since the lockdown began. A
\* log that cannot be opened reads as an empty one.
Rehydrated == IF LogReadable THEN attempts ELSE {}

\* The overlay is shown by a status: what the log does not give is not shown.
Reattach ==
    /\ reattached' = TRUE
    /\ unread' = attempts \ Rehydrated

\* Mutant of OnStatusLocked: the timeline is filled before show_for clears it.
StatusShownLast ==
    /\ Take("status")
    /\ Head(lines)[2]
    /\ ShowFor({})
    /\ Reattach
    /\ UNCHANGED <<requests, link, cache>>

OnStatusLocked ==
    /\ Take("status")
    /\ Head(lines)[2]
    /\ ShowFor(Rehydrated)
    /\ Reattach
    /\ UNCHANGED <<requests, link, cache>>

OnStatusUnlocked ==
    /\ Take("status")
    /\ ~Head(lines)[2]
    /\ HideOverlay
    /\ UNCHANGED <<requests, link, cache, reattached, unread>>

OnWhitelistList ==
    /\ Take("whitelist_list")
    /\ cache' = Head(lines)[2]
    /\ UNCHANGED <<requests, link, overlay, timeline, reattached, unread>>

OnWhitelistChanged ==
    /\ Take("whitelist_changed")
    /\ SendCommand("list_whitelist")
    /\ UNCHANGED ui

\* The handler knows no such line.
OnListRefused ==
    /\ Take("list_whitelist")
    /\ UNCHANGED <<requests, link, ui>>

\* The whitelist screen is opened.
ShowWhitelist ==
    /\ link = "up"
    /\ Len(requests) + Len(lines) < MaxLines
    /\ SendCommand("list_whitelist")
    /\ UNCHANGED <<state, registered, response, lines, ui, ghosts>>

\* The receiver thread reads the end of the stream.
RecvEnds ==
    /\ link = "broken"
    /\ link' = "down"
    /\ UNCHANGED <<state, registered, requests, response, lines, ui, ghosts>>

\* _connect_to_daemon: a new connection begins with two requests.
Connect ==
    IF up
      THEN /\ link' = "up"
           /\ requests' = <<"status", "list_whitelist">>
      ELSE UNCHANGED <<link, requests>>

\* The refresh timer finds no connection and hides the overlay.
Refresh ==
    /\ link = "down"
    /\ HideOverlay
    /\ Connect
    /\ UNCHANGED <<state, registered, response, lines, cache, reattached, unread, ghosts>>

\* The UI process ends and a new one starts, before its first connection.
RestartUI ==
    /\ link' = "down"
    /\ registered' = FALSE
    /\ requests' = <<>>
    /\ response' = None
    /\ lines' = <<>>
    /\ overlay' = FALSE
    /\ timeline' = {}
    /\ cache' = 0
    /\ reattached' = FALSE
    /\ unread' = {}
    /\ UNCHANGED <<state, ghosts>>

UI ==
    \/ OnLockdownEnter \/ OnLockdownClear \/ OnIntrusionAttempt
    \/ OnStatusLocked \/ OnStatusUnlocked
    \/ OnWhitelistList \/ OnWhitelistChanged \/ OnListRefused
    \/ ShowWhitelist \/ RecvEnds \/ Refresh \/ RestartUI

-----------------------------------------------------------------------------
(* The daemon's process. *)

\* Mutant of Stop: the list of clients is not emptied.
StopKeepsClients ==
    /\ "daemon" \in FaultKinds
    /\ up
    /\ Len(lines) < MaxLines
    /\ up' = FALSE
    /\ say' = [t \in Threads |-> None]
    /\ requests' = <<>>
    /\ response' = None
    /\ link' = IF link = "up" THEN "broken" ELSE link
    /\ UNCHANGED <<locked, attempts, whitelist, made, registered, lines, ui, ghosts>>

\* Its sockets close with it; what they have sent arrives.
Stop ==
    /\ "daemon" \in FaultKinds
    /\ up
    /\ Len(lines) < MaxLines
    /\ up' = FALSE
    /\ say' = [t \in Threads |-> None]
    /\ registered' = FALSE
    /\ requests' = <<>>
    /\ response' = None
    /\ link' = IF link = "up" THEN "broken" ELSE link
    /\ UNCHANGED <<locked, attempts, whitelist, made, lines, ui, ghosts>>

\* The restore is over before the socket exists. It finds the flag or not,
\* and a torn flag dates the lockdown from now.
Start ==
    /\ ~up
    /\ up' = TRUE
    /\ locked' \in BOOLEAN
    /\ attempts' \in {attempts, {}}
    /\ UNCHANGED <<whitelist, say, made, registered, requests, response, link,
                   lines, ui, ghosts>>

Init ==
    /\ up = TRUE /\ locked = FALSE /\ attempts = {} /\ whitelist = 0
    /\ say = [t \in Threads |-> None]
    /\ registered = FALSE /\ requests = <<>> /\ response = None
    /\ link = "down" /\ lines = <<>>
    /\ overlay = FALSE /\ timeline = {} /\ cache = 0
    /\ made = {} /\ overtaken = FALSE /\ untold = FALSE
    /\ reattached = FALSE /\ unread = {}

Next ==
    \/ \E t \in Threads : Thread(t)
    \/ Connection
    \/ UI
    \/ Stop \/ Start

Spec == Init /\ [][Next]_vars

-----------------------------------------------------------------------------
(* Properties. *)

\* Nothing is on its way: every thread has broadcast, every request is
\* answered, every line is handled.
Quiet ==
    /\ up /\ link = "up" /\ registered
    /\ requests = <<>> /\ response = None /\ lines = <<>>
    /\ \A t \in Threads : say[t] = None

\* Types; only a daemon that serves has connections.
TypeOK ==
    /\ up \in BOOLEAN /\ locked \in BOOLEAN /\ registered \in BOOLEAN
    /\ attempts \subseteq made /\ made \subseteq Attempts
    /\ whitelist \in 0 .. MaxVersion /\ cache \in 0 .. MaxVersion
    /\ \A t \in Threads : say[t] \in Lines \cup {None}
    /\ requests \in Seq(Requests)
    /\ response \in Lines \cup {None}
    /\ link \in {"up", "broken", "down"}
    /\ lines \in Seq(Lines)
    /\ overlay \in BOOLEAN /\ timeline \subseteq made /\ unread \subseteq made
    /\ overtaken \in BOOLEAN /\ untold \in BOOLEAN /\ reattached \in BOOLEAN
    /\ registered \/ response # None => up /\ link = "up"

\* Once nothing is on its way, the overlay is shown exactly if the system is
\* locked, whenever the UI or the daemon was started again and whoever changed
\* the lockdown - unless the last line about it was overtaken by a change (the
\* race that ui/main.py leaves open) or a write failed before the broadcast.
OverlayFollows == Quiet /\ ~overtaken => overlay = locked

\* Once nothing is on its way, the UI's whitelist is the daemon's: no change
\* falls between registration, request and response, however many threads
\* change it - unless, since the list was last computed, a save that failed was
\* not broadcast or the authentication lockout refused the list.
ListFollows == Quiet /\ ~untold => cache = whitelist

\* A UI that attaches to a lockdown in progress (ui/main.py,
\* _rehydrate_intrusion_timeline) loses no attempt between the log and the
\* broadcasts: it shows every one logged since the lockdown began, before,
\* during and after its connection, except those that the log already held when
\* the overlay was shown if its user may not read the log.
ReattachedTimelineComplete ==
    Quiet /\ locked /\ overlay /\ reattached => attempts \ unread \subseteq timeline

\* What README.md:62-64 says, "so a UI that reconnects mid-lockdown shows the
\* correct elapsed time and replays the intrusion timeline from disk": every
\* attempt logged since the lockdown began is on the timeline. As installed, the
\* UI's user may not read the log, and an unreadable log reads as an empty one.
RehydratedTimeline ==
    Quiet /\ locked /\ overlay /\ reattached => attempts \subseteq timeline

\* What the comment at daemon.py:406-408 has the list ungated for, "so the UI
\* can populate the whitelist screen on connect": with no fault, once nothing is
\* on its way, the UI has the list. The lockout, which the comment at 97-100
\* extends to the list, refuses it, and nothing asks again.
ListIsKnown == Quiet => cache = whitelist

\* What README.md:24 says of a lockdown, "A full-screen overlay grabs the
\* keyboard": with no fault, once nothing is on its way, a locked system shows
\* it. A status response that was computed before and sent after a broadcast
\* hides it for good.
LockdownIsShown == Quiet /\ locked => overlay

\* What README.md:27-28 says, "Every subsequent tampering attempt during the
\* lockdown is timestamped and shown live on the lockdown screen". An attempt
\* that is broadcast between self.locked = True and the lockdown's broadcast is
\* wiped by show_for.
EveryAttemptShown == Quiet /\ locked /\ overlay => attempts \subseteq timeline
=============================================================================
