------------------------- MODULE LockdownRefinement -------------------------
(***************************************************************************)
(* The daemon's statements (Lockdown) implement the promise of             *)
(* LockdownService.                                                        *)
(***************************************************************************)
EXTENDS Lockdown

Mode == IF Down THEN "down" ELSE IF locked THEN "locked" ELSE "unlocked"

Entering == {t \in Threads : pc[t] \in EnterLabels \cup RestoreLabels}
Clearing == {t \in Threads : pc[t] \in ClearLabels}

Service == INSTANCE LockdownService WITH
    Operators <- Threads,
    Starter   <- Main,
    Guards    <- TTYGuards,
    mode      <- Mode,
    durable   <- FlagExists,
    guards    <- masked,
    entering  <- Entering,
    clearing  <- Clearing,
    sole      <- solo,
    complete  <- settled

\* Under every interleaving and fault, each statement of _enter_lockdown,
\* _clear_lockdown and the restore is one step of the service, or none: a lock,
\* a flag or a guard appears only while some thread is entering and goes only
\* while some thread is clearing, a restart locks if and only if it finds the
\* flag, and an operation that ran alone has done all of its work when it ends.
ServiceSpec == Service!Spec

\* A lockdown that is on disk outlives every fault, stop, start and reboot: until
\* some thread is clearing it, no process runs unlocked and the flag stays
\* (daemon.py, _enter_lockdown and _restore_lockdown_if_needed).
HeldUntilCleared ==
    [][FlagExists /\ Mode # "unlocked" /\ Clearing = {} =>
          FlagExists' /\ Mode' # "unlocked"]_vars
=============================================================================
