----------------------------- MODULE TTYWatcher -----------------------------
(***************************************************************************)
(* The thread that watches the foreground console during a lockdown        *)
(* (tty_lockdown.py, TTYActiveWatcher) and the daemon's threads that start *)
(* and stop it. One TTYActiveWatcher object serves every lockdown: its     *)
(* stop event, its baseline and its reference to the thread are shared by  *)
(* whoever enters or clears, without a lock, and stop() forgets a thread   *)
(* that does not end within three seconds.                                 *)
(*                                                                         *)
(* Of a lockdown only self.locked and the calls of start() and stop() are  *)
(* kept, and that a lockdown whose flag cannot be written never gets as    *)
(* far as start(); module Lockdown has the rest. A poll reads the console  *)
(* and the baseline in one step; that read, of a file of the kernel's, does *)
(* not fail. How long the callback takes is open.                          *)
(***************************************************************************)
EXTENDS FiniteSets, Integers

CONSTANTS
    Workers,        \* the threads that enter and clear lockdowns
    Main,           \* the main thread, which restores one
    Watchers,       \* the thread objects; one that is dead is used again
    VTs,            \* the virtual terminals
    None,           \* Python's None, and ""
    FaultKinds      \* what may go wrong: a subset of AllFaults

AllFaults == {"slow",       \* the callback takes longer than three seconds
              "os_error",   \* a lockdown flag cannot be written or removed
              "daemon"}     \* the daemon dies and systemd restarts it

Threads == Workers \cup {Main}

ASSUME MainApart       == Main \notin Workers
ASSUME NoneApart       == None \notin Watchers \cup VTs
ASSUME PoolFinite      == IsFiniteSet(Watchers) /\ IsFiniteSet(Threads)
ASSUME FaultKindsTyped == FaultKinds \subseteq AllFaults

VARIABLES
    active,         \* /sys/class/tty/tty0/active
    locked,         \* the daemon's self.locked
    stop,           \* self._stop
    thread,         \* self._thread
    baseline,       \* self._baseline
    pc,             \* where each of the daemon's threads is
    joining,        \* the watcher each of them waits for
    life,           \* where each watcher is
    last,           \* each watcher's last_reported
    seen,           \* the console each watcher is reporting
    reported,       \* history: consoles reported since start() was last called
    told,           \* history: the console was reported since it last changed
    began,          \* history: the console when the lockdown began, or None
    unflagged,      \* history: writing this lockdown's flags has failed
    overlapped,     \* history: two operations of this process have overlapped
    abandoned       \* history: this process has forgotten a live watcher

daemon  == <<locked, pc, joining>>
shared  == <<stop, thread, baseline>>
watcher == <<life, last, seen>>
history == <<reported, told, began, unflagged, overlapped, abandoned>>
vars    == <<active, daemon, shared, watcher, history>>

Idle  == \A t \in Threads : pc[t] = "idle"
Alive == {w \in Watchers : life[w] \in {"loop", "report"}}

\* Thread objects that do not run and that nobody refers to.
Free == {w \in Watchers : /\ w \notin Alive /\ thread # w
                          /\ \A t \in Threads : joining[t] # w}

Goto(t, from, to) == pc[t] = from /\ pc' = [pc EXCEPT ![t] = to]

-----------------------------------------------------------------------------
(* The daemon's threads: the lockdown around the watcher. *)

\* A worker's operation passes its check of self.locked. Bound: as many thread
\* objects as may be needed are free.
Begin(t, to) ==
    /\ pc[Main] = "idle"
    /\ Cardinality(Free) > Cardinality({u \in Threads : pc[u] # "idle"})
    /\ Goto(t, "idle", to)
    /\ overlapped' = (overlapped \/ ~Idle)
    /\ UNCHANGED <<active, locked, joining, shared, watcher, reported, told,
                   began, unflagged, abandoned>>

EnterLockdown(t) == ~locked /\ Begin(t, "enter_set")
ClearLockdown(t) == locked /\ Begin(t, "clear_set")

\* The flags are written; what is between this and start() includes the
\* masking of twelve units.
EnterSet(t) ==
    /\ Goto(t, "enter_set", "start")
    /\ locked' = TRUE
    /\ began' = active
    /\ unflagged' = FALSE
    /\ UNCHANGED <<active, joining, shared, watcher, reported, told,
                   overlapped, abandoned>>

\* The mkdir or one of the writes raises, which ends the operation: the system
\* is locked, and no later event gets past the check of self.locked.
EnterSetFails(t) ==
    /\ "os_error" \in FaultKinds
    /\ Goto(t, "enter_set", "idle")
    /\ locked' = TRUE
    /\ began' = active
    /\ unflagged' = TRUE
    /\ UNCHANGED <<active, joining, shared, watcher, reported, told,
                   overlapped, abandoned>>

ClearSet(t) ==
    /\ Goto(t, "clear_set", "stop")
    /\ locked' = FALSE
    /\ began' = None
    /\ unflagged' = FALSE
    /\ UNCHANGED <<active, joining, shared, watcher, reported, told, overlapped,
                   abandoned>>

-----------------------------------------------------------------------------
(* start(). *)

StartCheck(t) ==
    /\ Goto(t, "start", IF thread \in Alive THEN "idle" ELSE "start_baseline")
    /\ UNCHANGED <<active, locked, joining, shared, watcher, history>>

\* Mutant of StartBaseline: the console is not recorded.
StartBlind(t) ==
    /\ Goto(t, "start_baseline", "start_clear")
    /\ reported' = {}
    /\ UNCHANGED <<active, locked, joining, shared, watcher, told, began,
                   unflagged, overlapped, abandoned>>

StartBaseline(t) ==
    /\ Goto(t, "start_baseline", "start_clear")
    /\ baseline' = active
    /\ reported' = {}
    /\ UNCHANGED <<active, locked, joining, stop, thread, watcher, told, began,
                   unflagged, overlapped, abandoned>>

\* Mutant of StartClear: the stop event is not reset.
StartKeepsEvent(t) ==
    /\ Goto(t, "start_clear", "start_create")
    /\ UNCHANGED <<active, locked, joining, shared, watcher, history>>

StartClear(t) ==
    /\ Goto(t, "start_clear", "start_create")
    /\ stop' = FALSE
    /\ UNCHANGED <<active, locked, joining, thread, baseline, watcher, history>>

StartCreate(t) ==
    /\ Goto(t, "start_create", "start_thread")
    /\ \E w \in Free :
          /\ thread' = w
          /\ life' = [life EXCEPT ![w] = "created"]
    /\ UNCHANGED <<active, locked, joining, stop, baseline, last, seen, history>>

\* self._thread may be None or another thread's by now: start() then raises.
StartThread(t) ==
    /\ Goto(t, "start_thread", "idle")
    /\ life' = [w \in Watchers |->
                  IF w = thread /\ life[w] = "created" THEN "loop" ELSE life[w]]
    /\ UNCHANGED <<active, locked, joining, shared, last, seen, history>>

-----------------------------------------------------------------------------
(* stop(). *)

StopSet(t) ==
    /\ Goto(t, "stop", IF thread = None THEN "idle" ELSE "stop_join")
    /\ stop' = TRUE
    /\ UNCHANGED <<active, locked, joining, thread, baseline, watcher, history>>

\* join() of None, or of a thread that is not started, raises.
StopJoin(t) ==
    /\ Goto(t, "stop_join",
            IF thread = None \/ (thread \in Watchers /\ life[thread] = "created")
              THEN "idle" ELSE "stop_wait")
    /\ joining' = [joining EXCEPT ![t] = IF pc'[t] = "idle" THEN None ELSE thread]
    /\ UNCHANGED <<active, locked, shared, watcher, history>>

\* Mutant of StopDone: the thread is forgotten without waiting for its end.
StopAtOnce(t) ==
    /\ Goto(t, "stop_wait", "idle")
    /\ thread' = None
    /\ joining' = [joining EXCEPT ![t] = None]
    /\ UNCHANGED <<active, locked, stop, baseline, watcher, history>>

StopDone(t) ==
    /\ Goto(t, "stop_wait", "idle")
    /\ joining[t] \notin Alive
    /\ thread' = None
    /\ joining' = [joining EXCEPT ![t] = None]
    /\ UNCHANGED <<active, locked, stop, baseline, watcher, history>>

\* For three seconds the watcher is in its callback, or goes on polling because
\* another thread's start() has reset the stop event.
StopTimesOut(t) ==
    /\ Goto(t, "stop_wait", "idle")
    /\ joining[t] \in Alive
    /\ IF life[joining[t]] = "report" THEN "slow" \in FaultKinds ELSE ~stop
    /\ thread' = None
    /\ joining' = [joining EXCEPT ![t] = None]
    /\ abandoned' = TRUE
    /\ UNCHANGED <<active, locked, stop, baseline, watcher, reported, told,
                   began, unflagged, overlapped>>

Step(t) ==
    \/ EnterSet(t) \/ ClearSet(t)
    \/ StartCheck(t) \/ StartBaseline(t) \/ StartClear(t) \/ StartCreate(t)
    \/ StartThread(t)
    \/ StopSet(t) \/ StopJoin(t) \/ StopDone(t)

-----------------------------------------------------------------------------
(* The watchers. *)

\* _run: the loop's condition and the wait between two polls.
End(w) ==
    /\ life[w] = "loop" /\ stop
    /\ life' = [life EXCEPT ![w] = "dead"]
    /\ last' = [last EXCEPT ![w] = None]
    /\ UNCHANGED <<active, daemon, shared, seen, history>>

Poll(w) ==
    /\ life[w] = "loop" /\ ~stop
    /\ active # baseline /\ active # last[w]
    /\ life' = [life EXCEPT ![w] = "report"]
    /\ seen' = [seen EXCEPT ![w] = active]
    /\ UNCHANGED <<active, daemon, shared, last, history>>

PollBaseline(w) ==
    /\ life[w] = "loop" /\ ~stop
    /\ active = baseline /\ last[w] # None
    /\ last' = [last EXCEPT ![w] = None]
    /\ UNCHANGED <<active, daemon, shared, life, seen, history>>

\* _on_tty_switch_attempt drops what is reported after an unlock.
Recorded(w) ==
    IF locked
      THEN /\ reported' = reported \cup {seen[w]}
           /\ told' = (told \/ seen[w] = active)
      ELSE UNCHANGED <<reported, told>>

\* Mutant of Report: last_reported is not kept.
ReportAgain(w) ==
    /\ life[w] = "report"
    /\ Recorded(w)
    /\ life' = [life EXCEPT ![w] = "loop"]
    /\ seen' = [seen EXCEPT ![w] = None]
    /\ UNCHANGED <<active, daemon, shared, last, began, unflagged, overlapped,
                   abandoned>>

\* The callback, then last_reported.
Report(w) ==
    /\ life[w] = "report"
    /\ Recorded(w)
    /\ life' = [life EXCEPT ![w] = "loop"]
    /\ last' = [last EXCEPT ![w] = seen[w]]
    /\ seen' = [seen EXCEPT ![w] = None]
    /\ UNCHANGED <<active, daemon, shared, began, unflagged, overlapped, abandoned>>

Watch(w) == End(w) \/ Poll(w) \/ PollBaseline(w) \/ Report(w)

-----------------------------------------------------------------------------
\* Somebody switches the console.
Switch(v) ==
    /\ active # v
    /\ active' = v
    /\ told' = FALSE
    /\ UNCHANGED <<daemon, shared, watcher, reported, began, unflagged, overlapped,
                   abandoned>>

\* The process and its threads end. The next one restores the lockdown if the
\* flag is on disk, which an operation cut short leaves open, and so does a
\* write or an unlink of it that has failed.
Restart ==
    /\ "daemon" \in FaultKinds
    /\ locked' \in IF Idle /\ "os_error" \notin FaultKinds THEN {locked} ELSE BOOLEAN
    /\ stop' = FALSE /\ thread' = None /\ baseline' = None
    /\ pc' = [t \in Threads |-> IF t = Main /\ locked' THEN "start" ELSE "idle"]
    /\ joining' = [t \in Threads |-> None]
    /\ life' = [w \in Watchers |-> "dead"]
    /\ last' = [w \in Watchers |-> None]
    /\ seen' = [w \in Watchers |-> None]
    /\ unflagged' = FALSE /\ overlapped' = FALSE /\ abandoned' = FALSE
    /\ reported' = {}
    /\ UNCHANGED <<active, told, began>>

Init ==
    /\ active \in VTs /\ locked = FALSE
    /\ stop = FALSE /\ thread = None /\ baseline = None
    /\ pc = [t \in Threads |-> "idle"]
    /\ joining = [t \in Threads |-> None]
    /\ life = [w \in Watchers |-> "dead"]
    /\ last = [w \in Watchers |-> None]
    /\ seen = [w \in Watchers |-> None]
    /\ reported = {} /\ told = FALSE /\ began = None
    /\ unflagged = FALSE /\ overlapped = FALSE /\ abandoned = FALSE

Next ==
    \/ \E t \in Workers : EnterLockdown(t) \/ ClearLockdown(t)
    \/ \E t \in Threads : Step(t) \/ EnterSetFails(t) \/ StopTimesOut(t)
    \/ \E w \in Watchers : Watch(w)
    \/ \E v \in VTs : Switch(v)
    \/ Restart

\* Every thread that can run gets its turn; the callback returns.
Spec ==
    /\ Init /\ [][Next]_vars
    /\ \A t \in Threads : WF_vars(Step(t))
    /\ \A w \in Watchers : WF_vars(Watch(w))

-----------------------------------------------------------------------------
(* Properties. *)

Labels == {"idle", "enter_set", "clear_set", "start", "start_baseline",
           "start_clear", "start_create", "start_thread", "stop", "stop_join",
           "stop_wait"}

\* Types; a watcher that runs has a baseline and reports what a poll has seen.
TypeOK ==
    /\ active \in VTs /\ locked \in BOOLEAN /\ stop \in BOOLEAN
    /\ thread \in Watchers \cup {None} /\ baseline \in VTs \cup {None}
    /\ pc \in [Threads -> Labels]
    /\ joining \in [Threads -> Watchers \cup {None}]
    /\ life \in [Watchers -> {"dead", "created", "loop", "report"}]
    /\ last \in [Watchers -> VTs \cup {None}]
    /\ seen \in [Watchers -> VTs \cup {None}]
    /\ reported \subseteq VTs /\ began \in VTs \cup {None}
    /\ told \in BOOLEAN /\ unflagged \in BOOLEAN
    /\ overlapped \in BOOLEAN /\ abandoned \in BOOLEAN
    /\ \A w \in Watchers : life[w] = "report" <=> seen[w] # None
    /\ Alive # {} => baseline # None

\* As long as this process has had one operation at a time and forgotten no
\* watcher, between operations there is one live watcher if the system is
\* locked and none otherwise. Through every sequence of start() and stop() of
\* the one object, through crashes and failing writes, the only lockdown without
\* a watcher is one whose flags could not be written, until it is cleared.
WatchedIffLocked ==
    ~overlapped /\ ~abandoned /\ Idle =>
        Cardinality(Alive) = IF locked /\ ~unflagged THEN 1 ELSE 0

\* Nor is a switch reported twice while the console stays where it is, even
\* over an unlock and the next lockdown.
ReportedOnce ==
    [][~overlapped /\ ~abandoned /\ told =>
          \A w \in Watchers : Report(w) /\ locked => seen[w] # active]_vars

\* "Any change from the VT that was foreground ... is reported"
\* (tty_lockdown.py:22-24): during a lockdown that runs undisturbed, a console
\* that is not the baseline has been reported since the watcher started, or is
\* now, unless it is left before the poll or the daemon dies. A lockdown whose
\* flags could not be written reports nothing.
LastingSwitchReported ==
    \A v \in VTs :
        /\ locked /\ Idle /\ active = v /\ baseline # v
        /\ ~overlapped /\ ~abandoned /\ ~unflagged
        ~> \/ v \in reported \/ active # v \/ baseline \in {v, None}
           \/ ~locked \/ overlapped \/ abandoned

\* "the VT that was foreground at lockdown start" (tty_lockdown.py:23): the
\* baseline is taken after the masking, and anew after a restart.
BaselineIsFromTheStart == locked /\ Idle /\ ~overlapped => baseline = began

\* "TTYActiveWatcher polls /sys/class/tty/tty0/active every second while locked"
\* (tty_lockdown.py:22-23): between operations, a locked daemon has a watcher.
EveryLockdownWatched ==
    ~overlapped /\ ~abandoned /\ Idle /\ locked => Alive # {}

\* stop() ends the watcher it was called for: there are never two. A callback
\* that outlasts the join survives, because the next start() resets the event.
NeverTwo == ~overlapped => Cardinality(Alive) <= 1
=============================================================================
