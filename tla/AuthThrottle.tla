---------------------------- MODULE AuthThrottle ----------------------------
(***************************************************************************)
(* The throttle on credential attempts over the IPC socket (daemon.py).    *)
(* Every connection has its own thread, which                              *)
(*   - reads the lockout under _auth_lock (_auth_locked_out),              *)
(*   - verifies the credential without any lock, which takes argon2 time,  *)
(*   - and records the outcome: a failure is counted in one section of     *)
(*     _auth_lock and starts a lockout in a second one, a success resets   *)
(*     both in one section.                                                *)
(* The three reads and writes of one thread interleave with the others'.   *)
(*                                                                         *)
(* The lockout is the time still to run, in ticks of the monotonic clock:  *)
(* max(0, _auth_lockout_until - now). Whether a credential is good is      *)
(* nondeterministic. The lockdown itself is the flag "locked" alone; its   *)
(* life cycle is module Lockdown's.                                        *)
(***************************************************************************)
EXTENDS Integers, FiniteSets

CONSTANTS
    Clients,        \* the IPC connections' threads
    Threshold,      \* AUTH_FAILURE_THRESHOLD
    LockoutTicks,   \* AUTH_LOCKOUT_SECONDS, in ticks
    MaxFailures     \* bound: how high the counter may go

ASSUME ClientsFinite  == IsFiniteSet(Clients)
ASSUME ThresholdNat   == Threshold \in Nat \ {0}
ASSUME LockoutPositive == LockoutTicks \in Nat \ {0}
ASSUME MaxFailuresNat == MaxFailures \in Nat /\ MaxFailures >= Threshold

\* The commands that differ in what they do around the throttle: "admin"
\* stands for verify_password, add_ and remove_whitelist_entry, simulate_event.
Commands == {"unlock_with_password", "unlock_with_seed", "admin"}

VARIABLES
    failures,     \* self._auth_failures
    lockout,      \* ticks until the lockout ends, 0 when there is none
    locked,       \* self.locked
    timeline,     \* kinds of INTRUSION_ATTEMPT rows in the event log
    pc,           \* where each thread is
    cmd,          \* the command each thread handles
    n,            \* the counter's value each thread saw when it counted
    uncharged     \* history: failures counted since the throttle last acted,
                  \* by starting a lockout or by a success's reset

vars == <<failures, lockout, locked, timeline, pc, cmd, n, uncharged>>

At(label)      == {c \in Clients : pc[c] = label}
Goto(c, label) == pc' = [pc EXCEPT ![c] = label]

Respond(c) ==
    /\ Goto(c, "idle")
    /\ cmd' = [cmd EXCEPT ![c] = "admin"]
    /\ n' = [n EXCEPT ![c] = 0]

\* Mutant of Lockout: the exponent is the count, not the overshoot.
LockoutByCount(k) == LockoutTicks * 2 ^ k

\* Exponential backoff: AUTH_LOCKOUT_SECONDS * 2 ** overshoot.
Lockout(k) == LockoutTicks * 2 ^ (k - Threshold)

-----------------------------------------------------------------------------
\* Mutant of Refuse: every refused attempt starts the wait anew.
RefuseAndExtend(c) ==
    /\ pc[c] = "idle"
    /\ lockout > 0
    /\ Goto(c, "refused")
    /\ lockout' = LockoutTicks
    /\ UNCHANGED <<failures, locked, timeline, cmd, n, uncharged>>

\* A lockout refuses the command at once, and writes nothing to the log.
Refuse(c) ==
    /\ pc[c] = "idle"
    /\ lockout > 0
    /\ Goto(c, "refused")
    /\ UNCHANGED <<failures, lockout, locked, timeline, cmd, n, uncharged>>

Accept(c, command) ==
    /\ pc[c] = "idle"
    /\ lockout = 0
    /\ Goto(c, "verify")
    /\ cmd' = [cmd EXCEPT ![c] = command]
    /\ UNCHANGED <<failures, lockout, locked, timeline, n, uncharged>>

\* _check_password or verify_and_consume returns.
Verified(c) ==
    /\ pc[c] = "verify"
    /\ \/ Goto(c, "succeed")
       \/ /\ failures + Cardinality(At("count")) < MaxFailures
          /\ Goto(c, "count")
    /\ UNCHANGED <<failures, lockout, locked, timeline, cmd, n, uncharged>>

\* Mutant of CountFailure: the threshold is compared with > instead of >=.
CountFailureOffByOne(c) ==
    /\ pc[c] = "count"
    /\ failures' = failures + 1
    /\ n' = [n EXCEPT ![c] = failures + 1]
    /\ Goto(c, IF failures + 1 > Threshold THEN "engage" ELSE "record")
    /\ uncharged' = uncharged + 1
    /\ UNCHANGED <<lockout, locked, timeline, cmd>>

\* _record_auth_failure, first section of the lock.
CountFailure(c) ==
    /\ pc[c] = "count"
    /\ failures' = failures + 1
    /\ n' = [n EXCEPT ![c] = failures + 1]
    /\ Goto(c, IF failures + 1 >= Threshold THEN "engage" ELSE "record")
    /\ uncharged' = uncharged + 1
    /\ UNCHANGED <<lockout, locked, timeline, cmd>>

\* _record_auth_failure, second section: the wait follows from the value
\* captured in the first.
Engage(c) ==
    /\ pc[c] = "engage"
    /\ lockout' = Lockout(n[c])
    /\ Goto(c, "record")
    /\ uncharged' = 0
    /\ UNCHANGED <<failures, locked, timeline, cmd, n>>

\* The handler's failure branch: an unlock that fails during a lockdown is an
\* intrusion attempt.
RecordFailure(c) ==
    /\ pc[c] = "record"
    /\ timeline' = timeline \cup
           IF ~locked THEN {} ELSE
           CASE cmd[c] = "unlock_with_password" -> {"WRONG_PASSWORD"}
             [] cmd[c] = "unlock_with_seed"     -> {"WRONG_RECOVERY_CODE"}
             [] OTHER                           -> {}
    /\ Respond(c)
    /\ UNCHANGED <<failures, lockout, locked, uncharged>>

\* _record_auth_success
Succeed(c) ==
    /\ pc[c] = "succeed"
    /\ failures' = 0
    /\ lockout' = 0
    /\ uncharged' = 0
    /\ IF cmd[c] = "admin"
       THEN Respond(c)
       ELSE Goto(c, "clear") /\ UNCHANGED <<cmd, n>>
    /\ UNCHANGED <<locked, timeline>>

ClearLockdown(c) ==
    /\ pc[c] = "clear"
    /\ locked' = FALSE
    /\ Respond(c)
    /\ UNCHANGED <<failures, lockout, timeline, uncharged>>

SendRefusal(c) ==
    /\ pc[c] = "refused"
    /\ Respond(c)
    /\ UNCHANGED <<failures, lockout, locked, timeline, uncharged>>

-----------------------------------------------------------------------------
\* An unknown device enters the lockdown.
EnterLockdown ==
    /\ ~locked
    /\ locked' = TRUE
    /\ UNCHANGED <<failures, lockout, timeline, pc, cmd, n, uncharged>>

Tick ==
    /\ lockout > 0
    /\ lockout' = lockout - 1
    /\ UNCHANGED <<failures, locked, timeline, pc, cmd, n, uncharged>>

\* The process ends and systemd starts it again: the throttle's state is in
\* memory only, the lockdown and the event log are on disk.
Restart ==
    /\ failures' = 0
    /\ lockout' = 0
    /\ pc' = [c \in Clients |-> "idle"]
    /\ cmd' = [c \in Clients |-> "admin"]
    /\ n' = [c \in Clients |-> 0]
    /\ uncharged' = 0
    /\ UNCHANGED <<locked, timeline>>

Init ==
    /\ failures = 0
    /\ lockout = 0
    /\ locked = FALSE
    /\ timeline = {}
    /\ pc = [c \in Clients |-> "idle"]
    /\ cmd = [c \in Clients |-> "admin"]
    /\ n = [c \in Clients |-> 0]
    /\ uncharged = 0

Handle(c) ==
    \/ Verified(c) \/ CountFailure(c) \/ Engage(c) \/ RecordFailure(c)
    \/ Succeed(c) \/ ClearLockdown(c) \/ SendRefusal(c)

Next ==
    \/ \E c \in Clients : Refuse(c) \/ \E command \in Commands : Accept(c, command)
    \/ \E c \in Clients : Handle(c)
    \/ EnterLockdown \/ Tick \/ Restart

Spec == Init /\ [][Next]_vars

\* The clock advances and threads that can run do; clients need not ask.
FairSpec ==
    /\ Spec
    /\ WF_vars(Tick)
    /\ \A c \in Clients : WF_vars(Handle(c))

-----------------------------------------------------------------------------
(***************************************************************************)
(* Properties                                                              *)
(***************************************************************************)

Labels == {"idle", "refused", "verify", "count", "engage", "record", "succeed",
           "clear"}

\* Every variable has its type; the wait is one the backoff can produce.
TypeOK ==
    /\ failures \in 0 .. MaxFailures
    /\ lockout \in 0 .. LockoutTicks * 2 ^ (MaxFailures - Threshold)
    /\ locked \in BOOLEAN
    /\ timeline \subseteq {"WRONG_PASSWORD", "WRONG_RECOVERY_CODE"}
    /\ pc \in [Clients -> Labels]
    /\ cmd \in [Clients -> Commands]
    /\ n \in [Clients -> 0 .. MaxFailures]
    /\ uncharged \in Nat

\* Brute force is bounded: between two moments at which the throttle acts (a
\* lockout starts, a good credential resets it, the daemon restarts), at most
\* Threshold - 1 failures are counted, plus one for each thread that has
\* counted a failure and is about to start its lockout. The check of the
\* lockout and the count of the failure are far apart, so a burst on several
\* connections does pass the check together, but it cannot pass the counter.
FailuresAreCharged ==
    uncharged <= Threshold - 1 + Cardinality(At("engage"))

\* A lockout that is in force always ends, whatever the clients do.
LockoutExpires == []<>(lockout = 0)

\* "Each subsequent failure doubles the wait" (test_auth_lockout.py): a further
\* failure does not shorten the wait that an earlier one started.
LockoutNeverShortened ==
    [][\A c \in Clients : pc[c] = "engage" /\ pc'[c] = "record" => lockout' >= lockout]_vars

\* "A successful auth clears both the counter and the lockout window"
\* (test_auth_lockout.py): no lockout without a failure that is counted.
SuccessClearsLockout == failures = 0 => lockout = 0

\* "Throttled attempts during lockdown are themselves logged as
\* AUTH_LOCKED_OUT intrusion attempts" (README).
ThrottledAttemptsLogged ==
    locked /\ At("refused") # {} => "AUTH_LOCKED_OUT" \in timeline
=============================================================================
