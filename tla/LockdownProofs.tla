--------------------------- MODULE LockdownProofs ---------------------------
(***************************************************************************)
(* Proofs about Lockdown, for every set of clients, devices, units, time   *)
(* stamps, configurations and fault kinds.                                 *)
(*                                                                         *)
(* Part 1 proves the type invariant, part 2 the inductive invariant IInv   *)
(* behind SettledAgreement, part 3 that the daemon implements the service  *)
(* of LockdownService, under the refinement mapping of LockdownRefinement, *)
(* and keeps what the service promises of a lockdown that is on disk.      *)
(* All go through the same few kinds of steps: a thread moves to its next  *)
(* statement, leaves its operation, begins one, finishes one, or is cut    *)
(* short.                                                                  *)
(***************************************************************************)
EXTENDS LockdownRefinement, TLAPS

(***************************************************************************)
(* Part 1: types                                                           *)
(***************************************************************************)

HistoryTypeOK == settled \in BOOLEAN /\ solo \subseteq Threads

\* The initial state is well typed.
LEMMA InitType == Init => TypeOK
<1> SUFFICES ASSUME Init PROVE TypeOK
  OBVIOUS
<1>1. pc = [t \in Threads |-> IF t = Main THEN "down" ELSE "idle"]
  BY DEF Init
<1>2. SharedTypeOK
  <2>1. /\ locked \in BOOLEAN /\ lockdown_flag \in BOOLEAN
        /\ tty_watcher \in BOOLEAN
    BY DEF Init
  <2>2. /\ lock_offender \in Devices \cup {None}
        /\ lock_started_at \in Instants \cup {None}
        /\ config \in Configs
        /\ persistent_flag \in Flags
        /\ masked \subseteq TTYGuards
        /\ announced \in {"none", "enter", "clear"}
    BY GuardsDistinct DEF Init, Flags, TTYGuards
  <2> QED
    BY <2>1, <2>2 DEF SharedTypeOK
<1>3. ControlTypeOK
  <2>1. pc \in [Threads -> MainLabels \cup WorkerLabels]
    BY <1>1 DEF MainLabels, WorkerLabels
  <2>2. pc[Main] = "down" /\ \A t \in Workers : pc[t] = "idle"
    BY <1>1 DEF Threads, Workers
  <2> QED
    BY <2>1, <2>2 DEF ControlTypeOK, MainLabels, Serving
<1>4. LocalsTypeOK
  BY DEF Init, LocalsTypeOK
<1>5. HistoryTypeOK
  BY DEF Init, HistoryTypeOK
<1> QED
  BY <1>2, <1>3, <1>4, <1>5 DEF TypeOK, HistoryTypeOK

\* Moving one thread to another label keeps the control state well typed.
LEMMA GotoControl ==
  ASSUME ControlTypeOK, NEW t \in Threads, NEW label, Goto(t, label),
         IF t = Main
         THEN label \in MainLabels /\ ~Serving
         ELSE label \in WorkerLabels /\ Serving
  PROVE  ControlTypeOK'
<1>1. pc' \in [Threads -> MainLabels \cup WorkerLabels]
  BY DEF Goto, ControlTypeOK
<1>2. CASE t = Main
  BY <1>1, <1>2 DEF Goto, ControlTypeOK, Threads, Workers, Serving, WorkerLabels
<1>3. CASE t # Main
  BY <1>1, <1>3 DEF Goto, ControlTypeOK, Threads, Workers, Serving
<1> QED
  BY <1>2, <1>3

\* A thread that is past "idle" is a worker, and the daemon serves.
LEMMA BusyWorker ==
  ASSUME ControlTypeOK, NEW t \in Threads, pc[t] \in WorkerLabels, pc[t] # "idle"
  PROVE  t # Main /\ t \in Workers /\ Serving
<1>1. pc[Main] \notin WorkerLabels
  BY DEF ControlTypeOK, MainLabels, WorkerLabels, RestoreLabels, EnterLabels, ClearLabels
<1> QED
  BY <1>1 DEF ControlTypeOK, Workers

\* What an operation's beginning and end write into the history is well typed.
LEMMA HistoryTypes ==
  ASSUME HistoryTypeOK, NEW t \in Threads,
         Begin(t) \/ Finish(t) \/ Abandon(t) \/ UNCHANGED history
  PROVE  HistoryTypeOK'
<1>1. CASE Begin(t)
  BY <1>1 DEF HistoryTypeOK, Begin
<1>2. CASE Finish(t)
  <2>1. settled' \in BOOLEAN
    BY <1>2 DEF Finish
  <2> QED
    BY <1>2, <2>1 DEF HistoryTypeOK, Finish
<1>3. CASE Abandon(t)
  BY <1>3 DEF HistoryTypeOK, Abandon
<1>4. CASE UNCHANGED history
  BY <1>4 DEF HistoryTypeOK, history
<1> QED
  BY <1>1, <1>2, <1>3, <1>4

\* A worker goes to another label of its operation or command.
LEMMA WorkerGoto ==
  ASSUME TypeOK, NEW t \in Threads, t # Main, Serving,
         NEW label \in WorkerLabels, Goto(t, label),
         SharedTypeOK', LocalsTypeOK',
         Begin(t) \/ Finish(t) \/ Abandon(t) \/ UNCHANGED history
  PROVE  TypeOK'
<1>1. ControlTypeOK'
  BY GotoControl DEF TypeOK
<1>2. HistoryTypeOK'
  BY HistoryTypes DEF TypeOK, HistoryTypeOK
<1> QED
  BY <1>1, <1>2 DEF TypeOK, HistoryTypeOK

\* A thread's operation ends.
LEMMA ThreadLeave ==
  ASSUME TypeOK, NEW t \in Threads, IF t = Main THEN ~Serving ELSE Serving,
         Leave(t), todo' = todo, SharedTypeOK',
         Begin(t) \/ Finish(t) \/ Abandon(t) \/ UNCHANGED history
  PROVE  TypeOK'
<1>1. Goto(t, IF t = Main THEN "serving" ELSE "idle")
  BY DEF Leave
<1>2. ControlTypeOK'
  BY <1>1, GotoControl DEF TypeOK, MainLabels, WorkerLabels
<1>3. LocalsTypeOK'
  BY DEF Leave, TypeOK, LocalsTypeOK
<1>4. HistoryTypeOK'
  BY HistoryTypes DEF TypeOK, HistoryTypeOK
<1> QED
  BY <1>2, <1>3, <1>4 DEF TypeOK, HistoryTypeOK

\* The guards a thread handles next are guards.
LEMMA GuardTypes ==
  ASSUME LocalsTypeOK, NEW t \in Threads, NEW g \in NextGuards(t)
  PROVE  /\ g \in todo[t] /\ g \in TTYGuards
         /\ Handled(t, g) /\ device' = device => LocalsTypeOK'
<1>1. todo[t] \subseteq TTYGuards
  BY DEF LocalsTypeOK
<1>2. g \in todo[t]
  BY DEF NextGuards
<1> QED
  BY <1>1, <1>2 DEF Handled, LocalsTypeOK

\* The monitor's handlers keep the types.
LEMMA EventType ==
  ASSUME TypeOK, MonitorEvent \/ Authorized \/ Unauthorized \/ Caught \/ UsbguardFails
  PROVE  TypeOK'
<1> USE DEF WorkerLabels
<1>1. Monitor \in Threads /\ Monitor # Main
  BY ThreadsDistinct DEF Threads
<1>2. SharedTypeOK'
  <2>1. UNCHANGED <<memory, config, files, tty, announced>>
    BY DEF MonitorEvent, InsertAuthorized, InsertUnauthorized, Authorized,
           Unauthorized, Caught, UsbguardFails
  <2> QED
    BY <2>1 DEF TypeOK, SharedTypeOK, memory, files, tty
<1>3. Serving
  BY <1>1, BusyWorker DEF TypeOK, MonitorEvent, InsertAuthorized, InsertUnauthorized,
     Authorized, Unauthorized, Caught, UsbguardFails
<1>4. CASE MonitorEvent
  <2>1. ASSUME NEW m \in Entries, InsertAuthorized(m) PROVE TypeOK'
    <3>1. LocalsTypeOK'
      BY <2>1 DEF InsertAuthorized, TypeOK, LocalsTypeOK, locals
    <3> QED
      BY <1>1, <1>2, <1>3, <2>1, <3>1, WorkerGoto DEF InsertAuthorized
  <2>2. ASSUME NEW d \in Devices, InsertUnauthorized(d) PROVE TypeOK'
    <3>1. LocalsTypeOK'
      BY <2>2 DEF InsertUnauthorized, TypeOK, LocalsTypeOK
    <3> QED
      BY <1>1, <1>2, <1>3, <2>2, <3>1, WorkerGoto DEF InsertUnauthorized
  <2> QED
    BY <1>4, <2>1, <2>2 DEF MonitorEvent
<1>5. CASE Authorized
  <2>1. LocalsTypeOK'
    BY <1>5 DEF Authorized, TypeOK, LocalsTypeOK, locals
  <2> QED
    BY <1>1, <1>2, <1>3, <1>5, <2>1, WorkerGoto DEF Authorized
<1>6. CASE Unauthorized
  <2>1. CASE config.auto_block_unknown
    <3>1. LocalsTypeOK'
      BY <1>6, <2>1 DEF Unauthorized, TypeOK, LocalsTypeOK
    <3> QED
      BY <1>1, <1>2, <1>3, <1>6, <2>1, <3>1, WorkerGoto DEF Unauthorized
  <2>2. CASE ~config.auto_block_unknown
    BY <1>1, <1>2, <1>3, <1>6, <2>2, ThreadLeave DEF Unauthorized
  <2> QED
    BY <2>1, <2>2
<1>7. CASE Caught
  BY <1>1, <1>2, <1>3, <1>7, ThreadLeave DEF Caught
<1>8. CASE UsbguardFails
  <2>1. LocalsTypeOK'
    BY <1>8 DEF UsbguardFails, TypeOK, LocalsTypeOK, locals
  <2> QED
    BY <1>1, <1>2, <1>3, <1>8, <2>1, WorkerGoto DEF UsbguardFails
<1> QED
  BY <1>4, <1>5, <1>6, <1>7, <1>8

\* The IPC commands keep the types.
LEMMA CommandType ==
  ASSUME TypeOK, NEW c \in Clients, Command(c)
  PROVE  TypeOK'
<1> USE DEF WorkerLabels
<1>1. c \in Threads /\ c # Main
  BY ThreadsDistinct DEF Threads
<1>2. SharedTypeOK' /\ Serving
  <2>1. UNCHANGED <<memory, config, files, tty, announced>> /\ Serving
    BY DEF Command, Unlock, Simulate
  <2> QED
    BY <2>1 DEF TypeOK, SharedTypeOK, memory, files, tty
<1>3. LocalsTypeOK'
  <2>1. CASE Unlock(c)
    BY <2>1 DEF Unlock, TypeOK, LocalsTypeOK, locals
  <2>2. CASE Simulate(c)
    BY <2>2 DEF Simulate, TypeOK, LocalsTypeOK
  <2> QED
    BY <2>1, <2>2 DEF Command
<1>4. Goto(c, "clear_check") \/ Goto(c, "enter_check")
  BY DEF Command, Unlock, Simulate
<1>5. UNCHANGED history
  BY DEF Command, Unlock, Simulate
<1> QED
  BY <1>1, <1>2, <1>3, <1>4, <1>5, WorkerGoto

\* One step of an operation: SharedTypeOK and LocalsTypeOK come from the
\* action's assignments, the rest from WorkerGoto or ThreadLeave.
LEMMA StepType ==
  ASSUME TypeOK, NEW t \in Threads, t # Main, Step(t)
  PROVE  TypeOK'
<1> USE DEF WorkerLabels, EnterLabels, ClearLabels
<1>1. Serving
  <2>1. pc[t] # "idle"
    BY DEF Step, EnterCheck, EnterSet, EnterRecord, EnterFlag, EnterRuntime,
       EnterBroadcast, EnterWatch, ClearCheck, ClearSet, ClearRecord, ClearWatch,
       ClearFlag, ClearRuntime, ClearBroadcast, LockGuard, UnlockGuard
  <2> QED
    BY <2>1 DEF TypeOK, ControlTypeOK, Workers
<1>2. CASE EnterSet(t)
  <2>1. SharedTypeOK'
    BY <1>2 DEF EnterSet, TypeOK, SharedTypeOK, files, tty
  <2>2. LocalsTypeOK'
    BY <1>2 DEF EnterSet, TypeOK, LocalsTypeOK, locals
  <2> QED
    BY <1>1, <1>2, <2>1, <2>2, WorkerGoto DEF EnterSet
<1>3. CASE EnterRecord(t)
  <2>1. SharedTypeOK'
    BY <1>3 DEF EnterRecord, TypeOK, SharedTypeOK, LocalsTypeOK, files, tty
  <2>2. LocalsTypeOK'
    BY <1>3 DEF EnterRecord, TypeOK, LocalsTypeOK, locals
  <2> QED
    BY <1>1, <1>3, <2>1, <2>2, WorkerGoto DEF EnterRecord
<1>4. CASE EnterFlag(t)
  <2>1. SharedTypeOK'
    BY <1>4 DEF EnterFlag, TypeOK, SharedTypeOK, LocalsTypeOK, Flags, memory, tty
  <2>2. LocalsTypeOK'
    BY <1>4 DEF EnterFlag, TypeOK, LocalsTypeOK, locals
  <2> QED
    BY <1>1, <1>4, <2>1, <2>2, WorkerGoto DEF EnterFlag
<1>5. CASE EnterRuntime(t)
  <2>1. SharedTypeOK'
    BY <1>5 DEF EnterRuntime, TypeOK, SharedTypeOK, memory, tty
  <2>2. LocalsTypeOK'
    BY <1>5 DEF EnterRuntime, TypeOK, LocalsTypeOK, locals
  <2> QED
    BY <1>1, <1>5, <2>1, <2>2, WorkerGoto DEF EnterRuntime
<1>6. CASE ClearSet(t)
  <2>1. SharedTypeOK'
    BY <1>6 DEF ClearSet, TypeOK, SharedTypeOK, files, tty
  <2>2. LocalsTypeOK'
    BY <1>6 DEF ClearSet, TypeOK, LocalsTypeOK, locals
  <2> QED
    BY <1>1, <1>6, <2>1, <2>2, WorkerGoto DEF ClearSet
<1>7. CASE ClearRecord(t)
  <2>1. SharedTypeOK'
    BY <1>7 DEF ClearRecord, TypeOK, SharedTypeOK, files, tty
  <2>2. LocalsTypeOK'
    BY <1>7 DEF ClearRecord, TypeOK, LocalsTypeOK, locals
  <2> QED
    BY <1>1, <1>7, <2>1, <2>2, WorkerGoto DEF ClearRecord
<1>8. CASE ClearWatch(t)
  <2>1. SharedTypeOK'
    BY <1>8 DEF ClearWatch, TypeOK, SharedTypeOK, memory, files
  <2>2. LocalsTypeOK'
    BY <1>8 DEF ClearWatch, TypeOK, LocalsTypeOK, locals
  <2> QED
    BY <1>1, <1>8, <2>1, <2>2, WorkerGoto DEF ClearWatch
<1>9. CASE ClearFlag(t)
  <2>1. SharedTypeOK'
    BY <1>9 DEF ClearFlag, TypeOK, SharedTypeOK, Flags, memory, tty
  <2>2. LocalsTypeOK'
    BY <1>9 DEF ClearFlag, TypeOK, LocalsTypeOK, locals
  <2> QED
    BY <1>1, <1>9, <2>1, <2>2, WorkerGoto DEF ClearFlag
<1>10. CASE EnterBroadcast(t)
  <2>1. SharedTypeOK'
    BY <1>10 DEF EnterBroadcast, TypeOK, SharedTypeOK, memory, files, tty
  <2>2. LocalsTypeOK'
    BY <1>10 DEF EnterBroadcast, TypeOK, LocalsTypeOK
  <2> QED
    BY <1>1, <1>10, <2>1, <2>2, WorkerGoto DEF EnterBroadcast
<1>11. CASE ClearRuntime(t)
  <2>1. SharedTypeOK'
    BY <1>11 DEF ClearRuntime, TypeOK, SharedTypeOK, memory, tty
  <2>2. LocalsTypeOK'
    BY <1>11 DEF ClearRuntime, TypeOK, LocalsTypeOK
  <2> QED
    BY <1>1, <1>11, <2>1, <2>2, WorkerGoto DEF ClearRuntime
<1>12. CASE EnterWatch(t)
  <2>1. SharedTypeOK'
    BY <1>12 DEF EnterWatch, TypeOK, SharedTypeOK, memory, files
  <2> QED
    BY <1>1, <1>12, <2>1, ThreadLeave DEF EnterWatch
<1>13. CASE ClearBroadcast(t)
  <2>1. SharedTypeOK'
    BY <1>13 DEF ClearBroadcast, TypeOK, SharedTypeOK, memory, files, tty
  <2> QED
    BY <1>1, <1>13, <2>1, ThreadLeave DEF ClearBroadcast
<1>14. CASE EnterCheck(t)
  <2>1. SharedTypeOK'
    BY <1>14 DEF EnterCheck, TypeOK, SharedTypeOK, memory, files, tty
  <2>2. CASE locked
    BY <1>1, <1>14, <2>1, <2>2, ThreadLeave DEF EnterCheck
  <2>3. CASE ~locked
    <3>1. LocalsTypeOK'
      BY <1>14, <2>3 DEF EnterCheck, TypeOK, LocalsTypeOK
    <3> QED
      BY <1>1, <1>14, <2>1, <2>3, <3>1, WorkerGoto DEF EnterCheck
  <2> QED
    BY <2>2, <2>3
<1>15. CASE ClearCheck(t)
  <2>1. SharedTypeOK'
    BY <1>15 DEF ClearCheck, TypeOK, SharedTypeOK, memory, files, tty
  <2>2. CASE ~locked
    BY <1>1, <1>15, <2>1, <2>2, ThreadLeave DEF ClearCheck
  <2>3. CASE locked
    <3>1. LocalsTypeOK'
      BY <1>15, <2>3 DEF ClearCheck, TypeOK, LocalsTypeOK
    <3> QED
      BY <1>1, <1>15, <2>1, <2>3, <3>1, WorkerGoto DEF ClearCheck
  <2> QED
    BY <2>2, <2>3
<1>16. CASE LockGuard(t)
  <2>1. PICK g \in NextGuards(t) : masked' = masked \cup {g} /\ Handled(t, g)
    BY <1>16 DEF LockGuard
  <2>2. g \in TTYGuards /\ LocalsTypeOK'
    BY <1>16, <2>1, GuardTypes DEF LockGuard, TypeOK
  <2>3. SharedTypeOK'
    BY <1>16, <2>1, <2>2 DEF LockGuard, TypeOK, SharedTypeOK, memory, files
  <2>4. Goto(t, pc[t]) \/ Goto(t, "enter_watch")
    BY <1>16 DEF LockGuard, TypeOK, ControlTypeOK, Goto
  <2> QED
    BY <1>1, <1>16, <2>2, <2>3, <2>4, WorkerGoto DEF LockGuard, TypeOK, ControlTypeOK, Workers
<1>17. CASE UnlockGuard(t)
  <2>1. PICK g \in NextGuards(t) : masked' = masked \ {g} /\ Handled(t, g)
    BY <1>17 DEF UnlockGuard
  <2>2. g \in TTYGuards /\ LocalsTypeOK'
    BY <1>17, <2>1, GuardTypes DEF UnlockGuard, TypeOK
  <2>3. SharedTypeOK'
    BY <1>17, <2>1, <2>2 DEF UnlockGuard, TypeOK, SharedTypeOK, memory, files
  <2>4. Goto(t, pc[t]) \/ Goto(t, "clear_broadcast")
    BY <1>17 DEF UnlockGuard, TypeOK, ControlTypeOK, Goto
  <2> QED
    BY <1>1, <1>17, <2>2, <2>3, <2>4, WorkerGoto DEF UnlockGuard, TypeOK, ControlTypeOK, Workers
<1> QED
  BY <1>2, <1>3, <1>4, <1>5, <1>6, <1>7, <1>8, <1>9, <1>10, <1>11, <1>12, <1>13, <1>14, <1>15, <1>16, <1>17 DEF Step

\* The faults keep the types.
LEMMA FaultType ==
  ASSUME TypeOK, NEW t \in Threads, Fault(t)
  PROVE  TypeOK'
<1> USE DEF WorkerLabels, EnterLabels, ClearLabels
<1>1. CASE EnterFlagFails(t)
  <2>1. SharedTypeOK'
    BY <1>1 DEF EnterFlagFails, TypeOK, SharedTypeOK, Flags, memory, tty
  <2>2. t # Main /\ Serving
    BY <1>1, BusyWorker DEF EnterFlagFails, TypeOK
  <2> QED
    BY <1>1, <2>1, <2>2, ThreadLeave DEF EnterFlagFails
<1>2. CASE EnterRuntimeFails(t)
  <2>1. SharedTypeOK'
    BY <1>2 DEF EnterRuntimeFails, TypeOK, SharedTypeOK, memory, tty
  <2>2. t # Main /\ Serving
    BY <1>2, BusyWorker DEF EnterRuntimeFails, TypeOK
  <2> QED
    BY <1>2, <2>1, <2>2, ThreadLeave DEF EnterRuntimeFails
<1>3. CASE ClearUnlinkFails(t)
  <2>1. SharedTypeOK'
    BY <1>3 DEF ClearUnlinkFails, TypeOK, SharedTypeOK, memory, files, tty
  <2>2. t # Main /\ Serving
    BY <1>3, BusyWorker DEF ClearUnlinkFails, TypeOK
  <2> QED
    BY <1>3, <2>1, <2>2, ThreadLeave DEF ClearUnlinkFails
<1>4. CASE GuardFails(t)
  <2>1. PICK g \in NextGuards(t) : Handled(t, g)
    BY <1>4 DEF GuardFails
  <2>2. LocalsTypeOK'
    BY <1>4, <2>1, GuardTypes DEF GuardFails, TypeOK
  <2>3. SharedTypeOK'
    BY <1>4 DEF GuardFails, TypeOK, SharedTypeOK, memory, files, tty
  <2>4. HistoryTypeOK'
    BY <1>4, HistoryTypes DEF GuardFails, TypeOK, HistoryTypeOK
  <2>5. ControlTypeOK'
    <3>1. CASE UNCHANGED pc
      BY <3>1 DEF TypeOK, ControlTypeOK, Serving
    <3>2. CASE pc' # pc
      <4>1. \/ pc[t] = "enter_tty"   /\ Goto(t, "enter_watch")
            \/ pc[t] = "clear_tty"   /\ Goto(t, "clear_broadcast")
            \/ pc[t] = "restore_tty" /\ Goto(t, "restore_watch")
        BY <1>4, <3>2 DEF GuardFails
      <4>2. CASE pc[t] = "restore_tty"
        <5>1. t = Main
          BY <4>2 DEF TypeOK, ControlTypeOK, Workers
        <5> QED
          BY <4>1, <4>2, <5>1, GotoControl DEF TypeOK, MainLabels, RestoreLabels, Serving
      <4>3. CASE pc[t] # "restore_tty"
        <5>1. t # Main /\ Serving
          BY <4>1, <4>3, BusyWorker DEF TypeOK
        <5> QED
          BY <4>1, <4>3, <5>1, GotoControl DEF TypeOK
      <4> QED
        BY <4>2, <4>3
    <3> QED
      BY <3>1, <3>2
  <2> QED
    BY <2>2, <2>3, <2>4, <2>5 DEF TypeOK, HistoryTypeOK
<1> QED
  BY <1>1, <1>2, <1>3, <1>4 DEF Fault

\* The main thread's starting and stopping keep the types.
LEMMA MainType ==
  ASSUME TypeOK, MainStep
  PROVE  TypeOK'
<1> USE DEF MainLabels, RestoreLabels
<1>1. Main \in Threads
  BY DEF Threads
<1>2. CASE StartUnlocked
  <2>1. SharedTypeOK'
    BY <1>2 DEF StartUnlocked, TypeOK, SharedTypeOK, memory, files, tty
  <2>2. LocalsTypeOK' /\ HistoryTypeOK'
    BY <1>2 DEF StartUnlocked, TypeOK, LocalsTypeOK, HistoryTypeOK, locals, history
  <2>3. ControlTypeOK'
    BY <1>1, <1>2, GotoControl DEF StartUnlocked, TypeOK, Down, Serving
  <2> QED
    BY <2>1, <2>2, <2>3 DEF TypeOK, HistoryTypeOK
<1>3. CASE StartLocked
  <2>1. SharedTypeOK'
    <3>1. lock_offender' \in Devices \cup {None} /\ lock_started_at' \in Instants \cup {None}
      BY <1>3 DEF StartLocked, TypeOK, SharedTypeOK, Flags, NoFlag, TornFlag, WrittenFlag
    <3> QED
      BY <1>3, <3>1 DEF StartLocked, TypeOK, SharedTypeOK, tty
  <2>2. LocalsTypeOK'
    BY <1>3 DEF StartLocked, TypeOK, LocalsTypeOK
  <2>3. HistoryTypeOK'
    BY <1>1, <1>3 DEF StartLocked, HistoryTypeOK
  <2>4. ControlTypeOK'
    BY <1>1, <1>3, GotoControl DEF StartLocked, TypeOK, Down, Serving
  <2> QED
    BY <2>1, <2>2, <2>3, <2>4 DEF TypeOK, HistoryTypeOK
<1>4. CASE LockGuard(Main)
  <2>1. PICK g \in NextGuards(Main) : masked' = masked \cup {g} /\ Handled(Main, g)
    BY <1>4 DEF LockGuard
  <2>2. g \in TTYGuards /\ LocalsTypeOK'
    BY <1>1, <1>4, <2>1, GuardTypes DEF LockGuard, TypeOK
  <2>3. SharedTypeOK'
    BY <1>4, <2>1, <2>2 DEF LockGuard, TypeOK, SharedTypeOK, memory, files
  <2>4. pc[Main] = "restore_tty"
    BY <1>4 DEF LockGuard, TypeOK, ControlTypeOK
  <2>5. ControlTypeOK'
    <3>1. CASE UNCHANGED pc
      BY <3>1 DEF TypeOK, ControlTypeOK, Serving
    <3>2. CASE Goto(Main, "restore_watch")
      BY <1>1, <2>4, <3>2, GotoControl DEF TypeOK, Serving
    <3> QED
      BY <1>4, <3>1, <3>2 DEF LockGuard
  <2>6. HistoryTypeOK'
    BY <1>4 DEF LockGuard, TypeOK, HistoryTypeOK, history
  <2> QED
    BY <2>2, <2>3, <2>5, <2>6 DEF TypeOK, HistoryTypeOK
<1>5. CASE RestoreWatch
  <2>1. SharedTypeOK'
    BY <1>5 DEF RestoreWatch, TypeOK, SharedTypeOK, memory, files
  <2> QED
    BY <1>1, <1>5, <2>1, ThreadLeave DEF RestoreWatch, Serving
<1> QED
  BY <1>2, <1>3, <1>4, <1>5 DEF MainStep

\* The process's end and a reboot keep the types.
LEMMA EndType ==
  ASSUME TypeOK, Stop \/ Reboot
  PROVE  TypeOK'
<1>1. CASE Stop
  <2>1. SharedTypeOK'
    <3>1. persistent_flag' \in Flags
      BY <1>1 DEF Stop, TypeOK, SharedTypeOK, Flags
    <3>2. locked' \in BOOLEAN /\ lockdown_flag' \in BOOLEAN /\ tty_watcher' \in BOOLEAN
      BY <1>1 DEF Stop
    <3> QED
      BY <1>1, <3>1, <3>2 DEF Stop, TypeOK, SharedTypeOK
  <2>2. ControlTypeOK'
    <3>1. pc' \in [Threads -> MainLabels \cup WorkerLabels]
      BY <1>1 DEF Stop, MainLabels, WorkerLabels
    <3>2. pc'[Main] = "down" /\ \A t \in Workers : pc'[t] = "idle"
      BY <1>1 DEF Stop, Threads, Workers
    <3> QED
      BY <3>1, <3>2 DEF ControlTypeOK, MainLabels, Serving
  <2>3. LocalsTypeOK'
    BY <1>1 DEF Stop, LocalsTypeOK
  <2>4. settled' \in BOOLEAN /\ solo' = {}
    BY <1>1 DEF Stop
  <2> QED
    BY <2>1, <2>2, <2>3, <2>4 DEF TypeOK
<1>2. CASE Reboot
  <2>1. SharedTypeOK'
    BY <1>2 DEF Reboot, TypeOK, SharedTypeOK, memory, files
  <2>2. UNCHANGED <<pc, device, todo, settled, solo>>
    BY <1>2 DEF Reboot, locals, history
  <2> QED
    BY <2>1, <2>2 DEF TypeOK, ControlTypeOK, LocalsTypeOK, Serving
<1> QED
  BY <1>1, <1>2

\* Every step keeps the types.
LEMMA NextType == TypeOK /\ [Next]_vars => TypeOK'
<1> SUFFICES ASSUME TypeOK, [Next]_vars PROVE TypeOK'
  OBVIOUS
<1>1. CASE MonitorEvent \/ MonitorStep \/ UsbguardFails
  BY <1>1, EventType, StepType, ThreadsDistinct DEF MonitorStep, Threads
<1>2. CASE \E c \in Clients : Command(c) \/ Step(c)
  BY <1>2, CommandType, StepType, ThreadsDistinct DEF Threads
<1>3. CASE MainStep
  BY <1>3, MainType
<1>4. CASE \E t \in Threads : Fault(t)
  BY <1>4, FaultType
<1>5. CASE Stop \/ Reboot
  BY <1>5, EndType
<1>6. CASE UNCHANGED vars
  BY <1>6 DEF vars, TypeOK, SharedTypeOK, ControlTypeOK, LocalsTypeOK, Serving
<1> QED
  BY <1>1, <1>2, <1>3, <1>4, <1>5, <1>6 DEF Next

\* Every variable keeps its type, and the worker threads run only while the
\* main thread serves: Daemon.start restores a lockdown before it starts the
\* IPC server and the monitor.
THEOREM TypeCorrect == Spec => []TypeOK
<1> QED
  BY InitType, NextType, PTL DEF Spec

(***************************************************************************)
(* Part 2: the inductive invariant                                         *)
(***************************************************************************)

HistoryOK ==
    /\ settled => Busy = {}
    /\ \A t \in solo : Busy = {t}

DownIsClean == Down => ~locked /\ ~lockdown_flag /\ ~tty_watcher /\ announced = "none"

IInv == /\ TypeOK /\ HistoryOK /\ DownIsClean
        /\ SoloProgress /\ SettledAgreement /\ SettledRestart

USE DEF OperationLabels, EnterLabels, ClearLabels, RestoreLabels

\* The initial state satisfies the inductive invariant.
LEMMA InitIInv == Init => IInv
<1> SUFFICES ASSUME Init PROVE IInv
  OBVIOUS
<1>1. TypeOK
  BY InitType
<1>2. \A t \in Threads : pc[t] = "down" \/ pc[t] = "idle"
  BY DEF Init
<1>3. HistoryOK
  BY <1>2 DEF Init, HistoryOK, Busy
<1>4. Down
  BY DEF Init, Down, Threads
<1> QED
  BY <1>1, <1>3, <1>4 DEF Init, IInv, DownIsClean, SoloProgress, SettledAgreement,
     SettledRestart, Serving, Down

\* While t is in an operation nothing is settled, and only t can be solo.
LEMMA Alone ==
  ASSUME HistoryOK, NEW t \in Threads, pc[t] \in OperationLabels
  PROVE  ~settled /\ solo \subseteq {t} /\ (t \in solo => Busy = {t})
<1>1. t \in Busy
  BY DEF Busy
<1> QED
  BY <1>1 DEF HistoryOK

\* A thread in an operation keeps the process up.
LEMMA UpWhileBusy ==
  ASSUME TypeOK, NEW t \in Threads, pc[t] \in OperationLabels,
         NEW label, label # "down", Goto(t, label)
  PROVE  ~Down'
<1>1. CASE t = Main
  BY <1>1 DEF TypeOK, ControlTypeOK, Goto, Down
<1>2. CASE t # Main
  <2>1. Serving
    BY <1>2 DEF TypeOK, ControlTypeOK, Workers
  <2> QED
    BY <1>2, <2>1 DEF TypeOK, ControlTypeOK, Goto, Down, Serving
<1> QED
  BY <1>1, <1>2

\* A step outside the operations.
LEMMA QuietStep ==
  ASSUME IInv, TypeOK', NEW t \in Threads, t # Main, Serving,
         pc[t] \notin OperationLabels, NEW label, label \notin OperationLabels,
         Goto(t, label),
         \A u \in Threads \ {t} : device'[u] = device[u],
         UNCHANGED <<memory, files, tty, announced, todo, history>>
  PROVE  IInv'
<1> USE DEF IInv
<1>1. \A u \in Threads \ {t} : pc'[u] = pc[u]
  BY DEF Goto, TypeOK, ControlTypeOK
<1>2. pc'[t] = label
  BY DEF Goto, TypeOK, ControlTypeOK
<1>3. Busy' = Busy
  BY <1>1, <1>2 DEF Busy
<1>4. Serving' /\ ~Down'
  BY <1>1 DEF Serving, Down, Threads
<1>5. UNCHANGED <<locked, lock_offender, lock_started_at, persistent_flag, lockdown_flag,
                  masked, tty_watcher, announced, todo, settled, solo>>
  BY DEF memory, files, tty, history
<1>6. HistoryOK'
  BY <1>3, <1>5 DEF HistoryOK
<1>7. SoloProgress'
  <2> SUFFICES ASSUME NEW u \in solo' PROVE Progress(u)'
    BY DEF SoloProgress
  <2>1. u \in solo /\ Busy = {u}
    BY <1>5 DEF HistoryOK
  <2>2. u \in Threads /\ u # t
    BY <2>1 DEF Busy
  <2>3. UNCHANGED <<pc[u], device[u]>>
    BY <1>1, <2>2
  <2>4. Progress(u)
    BY <2>1 DEF SoloProgress
  <2> QED
    BY <1>5, <2>3, <2>4 DEF Progress, FlagAgrees, FlagExists
<1>8. SettledAgreement' /\ SettledRestart'
  BY <1>4, <1>5 DEF SettledAgreement, SettledRestart, Agreement, FlagAgrees, FlagExists
<1> QED
  BY <1>4, <1>6, <1>7, <1>8 DEF DownIsClean

\* t's check of self.locked lets its operation begin.
LEMMA BeginStep ==
  ASSUME IInv, TypeOK', NEW t \in Threads, t # Main, Serving,
         pc[t] \notin OperationLabels,
         Goto(t, "enter_set") \/ Goto(t, "clear_set"), Begin(t)
  PROVE  IInv'
<1> USE DEF IInv
<1>1. \A u \in Threads \ {t} : pc'[u] = pc[u]
  BY DEF Goto, TypeOK, ControlTypeOK
<1>2. pc'[t] = "enter_set" \/ pc'[t] = "clear_set"
  BY DEF Goto, TypeOK, ControlTypeOK
<1>3. ~Down'
  BY <1>1 DEF Serving, Down, Threads
<1>4. settled' = FALSE /\ (solo' # {} => Busy = {} /\ solo' = {t})
  BY DEF Begin
<1>5. HistoryOK'
  BY <1>1, <1>2, <1>4 DEF HistoryOK, Busy
<1>6. SoloProgress'
  BY <1>2, <1>4 DEF SoloProgress, Progress
<1> QED
  BY <1>3, <1>4, <1>5, <1>6 DEF DownIsClean, SettledAgreement, SettledRestart

\* t goes on to the next statement of its operation.
LEMMA MoveStep ==
  ASSUME IInv, TypeOK', NEW t \in Threads, pc[t] \in OperationLabels,
         NEW label \in OperationLabels, Goto(t, label), UNCHANGED history,
         t \in solo => Progress(t)'
  PROVE  IInv'
<1> USE DEF IInv
<1>1. UNCHANGED <<settled, solo>>
  BY DEF history
<1>2. Busy' = Busy
  BY DEF Busy, Goto, TypeOK, ControlTypeOK
<1>3. ~Down'
  BY UpWhileBusy
<1>4. ~settled /\ solo \subseteq {t}
  BY Alone
<1>5. HistoryOK'
  BY <1>1, <1>2 DEF HistoryOK
<1>6. SoloProgress'
  BY <1>1, <1>4 DEF SoloProgress
<1> QED
  BY <1>1, <1>3, <1>4, <1>5, <1>6 DEF DownIsClean, SettledAgreement, SettledRestart

\* t's operation has run to its end.
LEMMA FinishStep ==
  ASSUME IInv, TypeOK', NEW t \in Threads, pc[t] \in OperationLabels,
         Leave(t), Finish(t),
         t \in solo => Agreement'
  PROVE  IInv'
<1> USE DEF IInv
<1>1. ~settled /\ solo \subseteq {t} /\ (t \in solo => Busy = {t})
  BY Alone
<1>2. settled' = (t \in solo) /\ solo' = {}
  BY <1>1 DEF Finish
<1>3. Goto(t, IF t = Main THEN "serving" ELSE "idle")
  BY DEF Leave
<1>4. ~Down'
  BY <1>3, UpWhileBusy
<1>5. Serving'
  <2>1. CASE t = Main
    BY <1>3, <2>1 DEF Goto, Serving, TypeOK, ControlTypeOK
  <2>2. CASE t # Main
    <3>1. Serving
      BY <2>2 DEF TypeOK, ControlTypeOK, Workers
    <3> QED
      BY <1>3, <2>2, <3>1 DEF Goto, Serving, TypeOK, ControlTypeOK
  <2> QED
    BY <2>1, <2>2
<1>6. settled' => Busy' = {}
  <2> SUFFICES ASSUME t \in solo PROVE Busy' = {}
    BY <1>2
  <2>1. \A u \in Threads \ {t} : pc[u] \notin OperationLabels
    BY <1>1 DEF Busy
  <2>2. \A u \in Threads \ {t} : pc'[u] = pc[u]
    BY <1>3 DEF Goto, TypeOK, ControlTypeOK
  <2>3. pc'[t] \notin OperationLabels
    BY <1>3 DEF Goto, TypeOK, ControlTypeOK
  <2> QED
    BY <2>1, <2>2, <2>3 DEF Busy
<1>7. HistoryOK' /\ SoloProgress'
  BY <1>2, <1>6 DEF HistoryOK, SoloProgress
<1>8. SettledAgreement' /\ SettledRestart'
  BY <1>2, <1>5 DEF SettledAgreement, SettledRestart
<1> QED
  BY <1>4, <1>7, <1>8 DEF DownIsClean

\* A fault cuts t's operation short, or makes it skip something.
LEMMA AbandonStep ==
  ASSUME IInv, TypeOK', NEW t \in Threads, pc[t] \in OperationLabels,
         ~Down', Abandon(t)
  PROVE  IInv'
<1> USE DEF IInv
<1>1. ~settled /\ solo \subseteq {t}
  BY Alone
<1>2. ~settled' /\ solo' = {}
  BY <1>1 DEF Abandon
<1> QED
  BY <1>2 DEF HistoryOK, DownIsClean, SoloProgress, SettledAgreement, SettledRestart

\* Events and commands stop short of the operations.
LEMMA EventIInv ==
  ASSUME IInv, TypeOK',
         MonitorEvent \/ Authorized \/ Unauthorized \/ Caught \/ UsbguardFails
         \/ \E c \in Clients : Command(c)
  PROVE  IInv'
<1> USE DEF IInv, locals
<1>1. Monitor \in Threads /\ Monitor # Main
  BY ThreadsDistinct DEF Threads
<1>2. \A u \in Threads : pc[u] \in {"allow", "allow_unlock", "block", "raised"} => Serving
  BY BusyWorker DEF WorkerLabels, TypeOK
<1>3. CASE MonitorEvent
  <2>1. ASSUME NEW e \in Entries, InsertAuthorized(e) PROVE IInv'
    BY <1>1, <2>1, QuietStep DEF InsertAuthorized
  <2>2. ASSUME NEW d \in Devices, InsertUnauthorized(d) PROVE IInv'
    <3>1. \A u \in Threads \ {Monitor} : device'[u] = device[u]
      BY <2>2 DEF InsertUnauthorized, LocalsTypeOK, TypeOK
    <3> QED
      BY <1>1, <2>2, <3>1, QuietStep DEF InsertUnauthorized
  <2> QED
    BY <1>3, <2>1, <2>2 DEF MonitorEvent
<1>4. CASE Authorized
  BY <1>1, <1>2, <1>4, QuietStep DEF Authorized
<1>5. CASE Unauthorized \/ Caught \/ UsbguardFails
  <2>1. \A u \in Threads \ {Monitor} : device'[u] = device[u]
    BY <1>5 DEF Unauthorized, Caught, UsbguardFails, Leave, LocalsTypeOK, TypeOK
  <2>2. Goto(Monitor, "enter_check") \/ Goto(Monitor, "idle") \/ Goto(Monitor, "raised")
    BY <1>1, <1>5 DEF Unauthorized, Caught, UsbguardFails, Leave
  <2>3. UNCHANGED <<memory, files, tty, announced, todo, history>>
    BY <1>5 DEF Unauthorized, Caught, UsbguardFails
  <2>4. pc[Monitor] \in {"allow", "allow_unlock", "block", "raised"}
    BY <1>5 DEF Unauthorized, Caught, UsbguardFails
  <2> QED
    BY <1>1, <1>2, <2>1, <2>2, <2>3, <2>4, QuietStep
<1>6. ASSUME NEW c \in Clients, Command(c) PROVE IInv'
  <2>1. c \in Threads /\ c # Main
    BY ThreadsDistinct DEF Threads
  <2>2. \A u \in Threads \ {c} : device'[u] = device[u]
    BY <1>6 DEF Command, Unlock, Simulate, LocalsTypeOK, TypeOK
  <2>3. Goto(c, "clear_check") \/ Goto(c, "enter_check")
    BY <1>6 DEF Command, Unlock, Simulate
  <2>4. Serving /\ pc[c] = "idle" /\ UNCHANGED <<memory, files, tty, announced, todo, history>>
    BY <1>6 DEF Command, Unlock, Simulate
  <2> QED
    BY <2>1, <2>2, <2>3, <2>4, QuietStep
<1> QED
  BY <1>3, <1>4, <1>5, <1>6

\* The checks of self.locked.
LEMMA CheckIInv ==
  ASSUME IInv, TypeOK', NEW t \in Threads, t # Main, EnterCheck(t) \/ ClearCheck(t)
  PROVE  IInv'
<1> USE DEF IInv
<1>1. Serving
  BY BusyWorker DEF WorkerLabels, EnterCheck, ClearCheck, TypeOK
<1>2. CASE UNCHANGED history /\ Leave(t)
  <2>1. \A u \in Threads \ {t} : device'[u] = device[u]
    BY <1>2 DEF Leave, TypeOK, LocalsTypeOK
  <2> QED
    BY <1>1, <1>2, <2>1, QuietStep DEF EnterCheck, ClearCheck, Leave
<1>3. CASE Begin(t) /\ (Goto(t, "enter_set") \/ Goto(t, "clear_set"))
  BY <1>1, <1>3, BeginStep DEF EnterCheck, ClearCheck
<1> QED
  BY <1>2, <1>3 DEF EnterCheck, ClearCheck

\* The statements of _enter_lockdown and _clear_lockdown: what the statement
\* adds to Progress, which its predecessors established.
LEMMA StatementIInv ==
  ASSUME IInv, TypeOK', NEW t \in Threads, t # Main, Step(t)
  PROVE  IInv'
<1> USE DEF IInv, Progress, FlagAgrees, FlagExists, memory, files, tty, locals
<1>1. t \in solo => Progress(t)
  BY DEF SoloProgress
<1>2. \A label \in OperationLabels : Goto(t, label) => pc'[t] = label
  BY DEF Goto, TypeOK, ControlTypeOK
<1>3. CASE EnterSet(t)
  <2>1. pc'[t] = "enter_record"
    BY <1>3, <1>2 DEF EnterSet
  <2>2. t \in solo => Progress(t)'
    BY <1>3, <1>1, <2>1 DEF EnterSet
  <2> QED
    BY <1>3, <2>2, MoveStep DEF EnterSet
<1>4. CASE EnterRecord(t)
  <2>1. pc'[t] = "enter_flag"
    BY <1>4, <1>2 DEF EnterRecord
  <2>2. t \in solo => Progress(t)'
    BY <1>4, <1>1, <2>1 DEF EnterRecord
  <2> QED
    BY <1>4, <2>2, MoveStep DEF EnterRecord
<1>5. CASE EnterFlag(t)
  <2>1. pc'[t] = "enter_runtime"
    BY <1>5, <1>2 DEF EnterFlag
  <2>2. t \in solo => Progress(t)'
    BY <1>5, <1>1, <2>1 DEF EnterFlag, WrittenFlag
  <2> QED
    BY <1>5, <2>2, MoveStep DEF EnterFlag
<1>6. CASE EnterRuntime(t)
  <2>1. pc'[t] = "enter_broadcast"
    BY <1>6, <1>2 DEF EnterRuntime
  <2>2. t \in solo => Progress(t)'
    BY <1>6, <1>1, <2>1 DEF EnterRuntime
  <2> QED
    BY <1>6, <2>2, MoveStep DEF EnterRuntime
<1>7. CASE ClearSet(t)
  <2>1. pc'[t] = "clear_record"
    BY <1>7, <1>2 DEF ClearSet
  <2>2. t \in solo => Progress(t)'
    BY <1>7, <1>1, <2>1 DEF ClearSet
  <2> QED
    BY <1>7, <2>2, MoveStep DEF ClearSet
<1>8. CASE ClearRecord(t)
  <2>1. pc'[t] = "clear_watch"
    BY <1>8, <1>2 DEF ClearRecord
  <2>2. t \in solo => Progress(t)'
    BY <1>8, <1>1, <2>1 DEF ClearRecord
  <2> QED
    BY <1>8, <2>2, MoveStep DEF ClearRecord
<1>9. CASE ClearWatch(t)
  <2>1. pc'[t] = "clear_flag"
    BY <1>9, <1>2 DEF ClearWatch
  <2>2. t \in solo => Progress(t)'
    BY <1>9, <1>1, <2>1 DEF ClearWatch
  <2> QED
    BY <1>9, <2>2, MoveStep DEF ClearWatch
<1>10. CASE ClearFlag(t)
  <2>1. pc'[t] = "clear_runtime"
    BY <1>10, <1>2 DEF ClearFlag
  <2>2. t \in solo => Progress(t)'
    BY <1>10, <1>1, <2>1 DEF ClearFlag, NoFlag
  <2> QED
    BY <1>10, <2>2, MoveStep DEF ClearFlag
<1>11. CASE EnterBroadcast(t)
  <2>1. pc'[t] = "enter_tty" /\ todo'[t] = TTYGuards
    BY <1>11, <1>2 DEF EnterBroadcast, TypeOK, LocalsTypeOK
  <2>2. t \in solo => Progress(t)'
    BY <1>11, <1>1, <2>1 DEF EnterBroadcast, TypeOK, SharedTypeOK
  <2> QED
    BY <1>11, <2>2, MoveStep DEF EnterBroadcast
<1>12. CASE ClearRuntime(t)
  <2>1. pc'[t] = "clear_tty" /\ todo'[t] = TTYGuards
    BY <1>12, <1>2 DEF ClearRuntime, TypeOK, LocalsTypeOK
  <2>2. t \in solo => Progress(t)'
    BY <1>12, <1>1, <2>1 DEF ClearRuntime, TypeOK, SharedTypeOK
  <2> QED
    BY <1>12, <2>2, MoveStep DEF ClearRuntime
<1>13. CASE EnterWatch(t)
  <2>1. ASSUME t \in solo PROVE Agreement'
    <3>1. /\ locked /\ FlagAgrees /\ lockdown_flag /\ announced = "enter"
          /\ TTYGuards \subseteq masked
      BY <1>13, <1>1, <2>1 DEF EnterWatch
    <3>2. masked = TTYGuards
      BY <3>1 DEF TypeOK, SharedTypeOK
    <3>3. UNCHANGED <<locked, lock_offender, lock_started_at, persistent_flag,
                      lockdown_flag, masked, announced>> /\ tty_watcher' = TRUE
      BY <1>13 DEF EnterWatch
    <3> QED
      BY <3>1, <3>2, <3>3 DEF Agreement, TypeOK, SharedTypeOK
  <2> QED
    BY <1>13, <2>1, FinishStep DEF EnterWatch
<1>14. CASE ClearBroadcast(t)
  <2>1. ASSUME t \in solo PROVE Agreement'
    <3>1. /\ ~locked /\ ~FlagExists /\ ~lockdown_flag /\ ~tty_watcher /\ masked = {}
      BY <1>14, <1>1, <2>1 DEF ClearBroadcast
    <3>2. UNCHANGED <<locked, lock_offender, lock_started_at, persistent_flag,
                      lockdown_flag, masked, tty_watcher>> /\ announced' = "clear"
      BY <1>14 DEF ClearBroadcast
    <3> QED
      BY <3>1, <3>2 DEF Agreement, TypeOK, SharedTypeOK
  <2> QED
    BY <1>14, <2>1, FinishStep DEF ClearBroadcast
<1>15. CASE LockGuard(t)
  <2>1. PICK g \in NextGuards(t) : masked' = masked \cup {g} /\ Handled(t, g)
    BY <1>15 DEF LockGuard
  <2>2. todo'[t] = todo[t] \ {g}
    BY <2>1 DEF Handled, TypeOK, LocalsTypeOK
  <2>3. pc[t] = "enter_tty"
    BY <1>15 DEF LockGuard, TypeOK, ControlTypeOK, Workers, WorkerLabels
  <2>4. \/ Goto(t, "enter_tty")
        \/ Goto(t, "enter_watch") /\ todo'[t] = {}
    BY <1>15, <2>3 DEF LockGuard, Goto, TypeOK, ControlTypeOK
  <2>5. t \in solo => Progress(t)'
    <3>1. CASE Goto(t, "enter_tty")
      BY <1>15, <1>1, <1>2, <2>1, <2>2, <2>3, <3>1 DEF LockGuard
    <3>2. CASE Goto(t, "enter_watch") /\ todo'[t] = {}
      BY <1>15, <1>1, <1>2, <2>1, <2>2, <2>3, <3>2 DEF LockGuard
    <3> QED
      BY <2>4, <3>1, <3>2
  <2> QED
    BY <1>15, <2>3, <2>4, <2>5, MoveStep DEF LockGuard
<1>16. CASE UnlockGuard(t)
  <2>1. PICK g \in NextGuards(t) : masked' = masked \ {g} /\ Handled(t, g)
    BY <1>16 DEF UnlockGuard
  <2>2. todo'[t] = todo[t] \ {g}
    BY <2>1 DEF Handled, TypeOK, LocalsTypeOK
  <2>3. pc[t] = "clear_tty"
    BY <1>16 DEF UnlockGuard, TypeOK, ControlTypeOK, Workers, WorkerLabels
  <2>4. \/ Goto(t, "clear_tty")
        \/ Goto(t, "clear_broadcast") /\ todo'[t] = {}
    BY <1>16, <2>3 DEF UnlockGuard, Goto, TypeOK, ControlTypeOK
  <2>5. t \in solo => Progress(t)'
    <3>1. CASE Goto(t, "clear_tty")
      BY <1>16, <1>1, <1>2, <2>1, <2>2, <2>3, <3>1 DEF UnlockGuard
    <3>2. CASE Goto(t, "clear_broadcast") /\ todo'[t] = {}
      BY <1>16, <1>1, <1>2, <2>1, <2>2, <2>3, <3>2 DEF UnlockGuard
    <3> QED
      BY <2>4, <3>1, <3>2
  <2> QED
    BY <1>16, <2>3, <2>4, <2>5, MoveStep DEF UnlockGuard
<1>17. CASE EnterCheck(t) \/ ClearCheck(t)
  BY <1>17, CheckIInv
<1> QED
  BY <1>3, <1>4, <1>5, <1>6, <1>7, <1>8, <1>9, <1>10, <1>11, <1>12, <1>13, <1>14, <1>15, <1>16, <1>17 DEF Step

\* The faults keep the inductive invariant.
LEMMA FaultIInv ==
  ASSUME IInv, TypeOK', NEW t \in Threads, Fault(t)
  PROVE  IInv'
<1>1. pc[t] \in OperationLabels /\ Abandon(t)
  BY DEF Fault, EnterFlagFails, EnterRuntimeFails, ClearUnlinkFails, GuardFails
<1>2. ~Down'
  <2>1. CASE GuardFails(t)
    <3>1. Goto(t, pc[t]) \/ \E l \in OperationLabels : Goto(t, l)
      <4>1. UNCHANGED pc => Goto(t, pc[t])
        BY DEF Goto, IInv, TypeOK, ControlTypeOK
      <4> QED
        BY <2>1, <4>1 DEF GuardFails
    <3> QED
      BY <1>1, <3>1, UpWhileBusy DEF IInv
  <2>2. CASE ~GuardFails(t)
    <3>1. Leave(t)
      BY <2>2 DEF Fault, EnterFlagFails, EnterRuntimeFails, ClearUnlinkFails
    <3> QED
      BY <1>1, <3>1, UpWhileBusy DEF IInv, Leave
  <2> QED
    BY <2>1, <2>2
<1> QED
  BY <1>1, <1>2, AbandonStep

\* The restore is an operation that runs alone, from the flag it finds.
LEMMA MainIInv ==
  ASSUME IInv, TypeOK', MainStep
  PROVE  IInv'
<1> USE DEF IInv
<1>1. Main \in Threads
  BY DEF Threads
<1>2. Down => \A t \in Threads : pc[t] \in {"down", "idle"}
  BY DEF TypeOK, ControlTypeOK, Down, Serving, Workers
<1>3. CASE StartUnlocked
  <2>1. Busy = {} /\ solo = {}
    BY <1>2, <1>3 DEF StartUnlocked, Busy, HistoryOK
  <2>2. Busy' = {} /\ Serving' /\ ~Down'
    BY <1>1, <1>2, <1>3 DEF StartUnlocked, Busy, Goto, Serving, Down, TypeOK, ControlTypeOK
  <2>3. UNCHANGED <<locked, lock_offender, lock_started_at, persistent_flag, lockdown_flag,
                    masked, tty_watcher, announced, settled, solo>>
    BY <1>3 DEF StartUnlocked, memory, files, tty, history
  <2>4. HistoryOK' /\ DownIsClean' /\ SoloProgress' /\ SettledRestart'
    BY <2>1, <2>2, <2>3 DEF HistoryOK, DownIsClean, SoloProgress, SettledRestart
  <2>5. ASSUME settled PROVE Agreement'
    <3>1. /\ ~locked /\ ~FlagExists /\ ~lockdown_flag /\ ~tty_watcher /\ masked = {}
          /\ announced = "none"
      BY <1>3, <2>5 DEF StartUnlocked, Down, Serving, DownIsClean, SettledRestart
    <3> QED
      BY <2>3, <3>1 DEF Agreement, FlagAgrees, FlagExists, NoFlag, TypeOK, SharedTypeOK, Flags,
         TornFlag, WrittenFlag
  <2> QED
    BY <2>3, <2>4, <2>5 DEF SettledAgreement
<1>4. CASE StartLocked
  <2>1. pc'[Main] = "restore_tty" /\ todo'[Main] = TTYGuards
    BY <1>1, <1>4 DEF StartLocked, Goto, TypeOK, ControlTypeOK, LocalsTypeOK
  <2>2. Busy' = {Main}
    BY <1>1, <1>2, <1>4, <2>1 DEF StartLocked, Goto, Busy, TypeOK, ControlTypeOK
  <2>3. settled' = FALSE /\ solo' = {Main} /\ ~Down' 
    BY <1>4, <2>1 DEF StartLocked, Down
  <2>4. FlagAgrees'
    BY <1>4 DEF StartLocked, FlagAgrees, FlagExists
  <2>5. Progress(Main)'
    <3>1. locked' /\ lockdown_flag' /\ announced' = "none"
      BY <1>4 DEF StartLocked, DownIsClean
    <3> QED
      BY <2>1, <2>4, <3>1 DEF Progress
  <2>6. HistoryOK' /\ SoloProgress'
    BY <2>2, <2>3, <2>5 DEF HistoryOK, SoloProgress
  <2> QED
    BY <2>3, <2>6 DEF DownIsClean, SettledAgreement, SettledRestart
<1>5. CASE LockGuard(Main)
  <2>1. PICK g \in NextGuards(Main) : masked' = masked \cup {g} /\ Handled(Main, g)
    BY <1>5 DEF LockGuard
  <2>2. todo'[Main] = todo[Main] \ {g}
    BY <1>1, <2>1 DEF Handled, TypeOK, LocalsTypeOK
  <2>3. pc[Main] = "restore_tty"
    BY <1>5 DEF LockGuard, TypeOK, ControlTypeOK, MainLabels
  <2>4. \/ Goto(Main, "restore_tty")
        \/ Goto(Main, "restore_watch") /\ todo'[Main] = {}
    BY <1>5, <2>3 DEF LockGuard, Goto, TypeOK, ControlTypeOK
  <2>5. \A label \in OperationLabels : Goto(Main, label) => pc'[Main] = label
    BY <1>1 DEF Goto, TypeOK, ControlTypeOK
  <2>6. Main \in solo => Progress(Main)'
    <3>1. Main \in solo => Progress(Main)
      BY DEF SoloProgress
    <3> QED
      BY <1>5, <2>1, <2>2, <2>3, <2>4, <2>5, <3>1
      DEF LockGuard, Progress, FlagAgrees, FlagExists, memory, files
  <2> QED
    BY <1>1, <1>5, <2>3, <2>4, <2>6, MoveStep DEF LockGuard
<1>6. CASE RestoreWatch
  <2>1. ASSUME Main \in solo PROVE Agreement'
    <3>1. /\ locked /\ FlagAgrees /\ lockdown_flag /\ announced = "none"
          /\ TTYGuards \subseteq masked
      BY <1>6, <2>1 DEF RestoreWatch, SoloProgress, Progress
    <3>2. masked = TTYGuards
      BY <3>1 DEF TypeOK, SharedTypeOK
    <3>3. UNCHANGED <<locked, lock_offender, lock_started_at, persistent_flag,
                      lockdown_flag, masked, announced>> /\ tty_watcher' = TRUE
      BY <1>6 DEF RestoreWatch, memory, files
    <3> QED
      BY <3>1, <3>2, <3>3 DEF Agreement, FlagAgrees, FlagExists, TypeOK, SharedTypeOK
  <2> QED
    BY <1>1, <1>6, <2>1, FinishStep DEF RestoreWatch
<1> QED
  BY <1>3, <1>4, <1>5, <1>6 DEF MainStep

\* A stop between operations leaves a settled system settled; a reboot only
\* takes the drop-in away.
LEMMA EndIInv ==
  ASSUME IInv, TypeOK', Stop \/ Reboot
  PROVE  IInv'
<1> USE DEF IInv
<1>1. CASE Stop
  <2>1. \A t \in Threads : pc'[t] \in {"down", "idle"}
    BY <1>1 DEF Stop
  <2>2. Busy' = {} /\ solo' = {}
    BY <1>1, <2>1 DEF Stop, Busy
  <2>3. pc'[Main] = "down"
    BY <1>1 DEF Stop, Threads
  <2>4. HistoryOK' /\ SoloProgress'
    BY <2>2 DEF HistoryOK, SoloProgress
  <2>5. DownIsClean'
    BY <1>1 DEF Stop, DownIsClean
  <2>6. SettledAgreement'
    BY <2>3 DEF SettledAgreement, Serving
  <2>7. SettledRestart'
    <3> SUFFICES ASSUME settled' PROVE FlagExists' \/ masked' = {}
      BY DEF SettledRestart
    <3>1. settled /\ Busy = {}
      BY <1>1 DEF Stop, HistoryOK
    <3>2. persistent_flag' = persistent_flag /\ masked' = masked
      BY <1>1, <3>1 DEF Stop, Busy, Workers
    <3>3. FlagExists \/ masked = {}
      BY <3>1 DEF SettledAgreement, SettledRestart, Agreement, FlagAgrees
    <3> QED
      BY <3>2, <3>3 DEF FlagExists
  <2> QED
    BY <2>4, <2>5, <2>6, <2>7
<1>2. CASE Reboot
  <2>1. UNCHANGED <<locked, lock_offender, lock_started_at, persistent_flag, lockdown_flag,
                    tty_watcher, announced, pc, device, todo, settled, solo>>
    BY <1>2 DEF Reboot, memory, files, locals, history
  <2>2. Down /\ ~Serving /\ masked' \subseteq masked
    BY <1>2 DEF Reboot, Down, Serving
  <2>3. solo = {}
    BY <2>2 DEF HistoryOK, Busy, TypeOK, ControlTypeOK, Down, Serving, Workers
  <2>4. HistoryOK' /\ DownIsClean' /\ SoloProgress'
    BY <2>1, <2>3 DEF HistoryOK, DownIsClean, SoloProgress, Busy, Down
  <2>5. SettledAgreement' /\ SettledRestart'
    BY <2>1, <2>2 DEF SettledAgreement, SettledRestart, Serving, FlagExists
  <2> QED
    BY <2>4, <2>5
<1> QED
  BY <1>1, <1>2

\* Every step keeps the inductive invariant.
LEMMA NextIInv == IInv /\ [Next]_vars => IInv'
<1> SUFFICES ASSUME IInv, [Next]_vars PROVE IInv'
  OBVIOUS
<1>1. TypeOK'
  BY NextType DEF IInv
<1>2. CASE MonitorEvent \/ MonitorStep \/ UsbguardFails
  BY <1>1, <1>2, EventIInv, StatementIInv, ThreadsDistinct DEF MonitorStep, Threads
<1>3. CASE \E c \in Clients : Command(c) \/ Step(c)
  BY <1>1, <1>3, EventIInv, StatementIInv, ThreadsDistinct DEF Threads
<1>4. CASE MainStep
  BY <1>1, <1>4, MainIInv
<1>5. CASE \E t \in Threads : Fault(t)
  BY <1>1, <1>5, FaultIInv
<1>6. CASE Stop \/ Reboot
  BY <1>1, <1>6, EndIInv
<1>7. CASE UNCHANGED vars
  BY <1>1, <1>7 DEF vars, IInv, HistoryOK, DownIsClean, SoloProgress, SettledAgreement,
     SettledRestart, Agreement, FlagAgrees, FlagExists, Busy, Down, Serving, Progress
<1> QED
  BY <1>2, <1>3, <1>4, <1>5, <1>6, <1>7 DEF Next

\* The inductive invariant holds in every reachable state.
THEOREM Inductive == Spec => []IInv
<1> QED
  BY InitIInv, NextIInv, PTL DEF Spec

\* Whenever the last operation ran alone and to its end, memory, flags, TTY
\* guards, watcher and clients agree: whatever interleavings, faults, crashes
\* and reboots came before, for any number of clients and TTY units.
THEOREM AgreementWhenSettled == Spec => []SettledAgreement
<1>1. IInv => SettledAgreement
  BY DEF IInv
<1> QED
  BY <1>1, Inductive, PTL

\* A restart from a settled state finds either the flag or no guard at all.
THEOREM RestartWhenSettled == Spec => []SettledRestart
<1>1. IInv => SettledRestart
  BY DEF IInv
<1> QED
  BY <1>1, Inductive, PTL

\* An operation that has run alone so far has done, at each statement, all that
\* the statements before it were there for.
THEOREM ProgressWhileAlone == Spec => []SoloProgress
<1>1. IInv => SoloProgress
  BY DEF IInv
<1> QED
  BY <1>1, Inductive, PTL

\* No TTY guard is put on, in _enter_lockdown or in the restore, before the
\* flag that makes a restart finish the work is on disk.
THEOREM WriteAhead == Spec => FlagBeforeGuards
<1>1. ASSUME IInv, [Next]_vars, solo # {}, ~(masked' \subseteq masked)
      PROVE  FlagExists
  <2>1. PICK t \in Threads : LockGuard(t)
    <3>1. PICK t \in Threads : Step(t) \/ LockGuard(t)
      BY <1>1 DEF Next, vars, MonitorEvent, InsertAuthorized, InsertUnauthorized,
         MonitorStep, Authorized, Unauthorized, Caught, UsbguardFails, Command, Unlock,
         Simulate, MainStep, StartUnlocked, StartLocked, RestoreWatch, Fault,
         EnterFlagFails, EnterRuntimeFails, ClearUnlinkFails, GuardFails, Stop,
         Reboot, tty, Threads
    <3>2. ~LockGuard(t) => masked' \subseteq masked
      BY <3>1 DEF Step, EnterCheck, EnterSet, EnterRecord, EnterFlag, EnterRuntime,
         EnterBroadcast, EnterWatch, ClearCheck, ClearSet, ClearRecord, ClearWatch,
         ClearFlag, ClearRuntime, ClearBroadcast, UnlockGuard, tty
    <3> QED
      BY <1>1, <3>2
  <2>2. pc[t] \in {"enter_tty", "restore_tty"}
    BY <2>1 DEF LockGuard
  <2>3. t \in solo
    BY <1>1, <2>2, Alone DEF IInv
  <2> QED
    BY <1>1, <2>2, <2>3 DEF IInv, SoloProgress, Progress, FlagAgrees
<1> QED
  BY <1>1, Inductive, PTL DEF Spec, FlagBeforeGuards

(***************************************************************************)
(* Part 3: refinement                                                      *)
(*                                                                         *)
(* Each statement of the daemon is a step of the service, or leaves its    *)
(* state alone.                                                            *)
(***************************************************************************)

USE DEF OperationLabels, EnterLabels, ClearLabels, RestoreLabels

EntersLabels == EnterLabels \cup RestoreLabels

\* A thread that goes to a label enters or clears exactly if the label does.
LEMMA GotoOperators ==
  ASSUME TypeOK, NEW t \in Threads, NEW label, Goto(t, label)
  PROVE  /\ Entering' = IF label \in EntersLabels THEN Entering \cup {t} ELSE Entering \ {t}
         /\ Clearing' = IF label \in ClearLabels THEN Clearing \cup {t} ELSE Clearing \ {t}
<1>1. pc'[t] = label /\ \A u \in Threads \ {t} : pc'[u] = pc[u]
  BY DEF Goto, TypeOK, ControlTypeOK
<1>2. \A u : u \in Entering' <=> u \in Threads /\ pc'[u] \in EntersLabels
  BY DEF Entering, EntersLabels
<1>3. \A u : u \in Clearing' <=> u \in Threads /\ pc'[u] \in ClearLabels
  BY DEF Clearing
<1>4. \A u : u \in Entering <=> u \in Threads /\ pc[u] \in EntersLabels
  BY DEF Entering, EntersLabels
<1>5. \A u : u \in Clearing <=> u \in Threads /\ pc[u] \in ClearLabels
  BY DEF Clearing
<1>6. CASE label \in EntersLabels
  <2>1. label \notin ClearLabels
    BY <1>6 DEF EntersLabels
  <2>2. Entering' = Entering \cup {t}
    BY <1>1, <1>2, <1>4, <1>6
  <2>3. Clearing' = Clearing \ {t}
    BY <1>1, <1>3, <1>5, <2>1
  <2> QED
    BY <1>6, <2>1, <2>2, <2>3
<1>7. CASE label \in ClearLabels
  <2>1. label \notin EntersLabels
    BY <1>7 DEF EntersLabels
  <2>2. Entering' = Entering \ {t}
    BY <1>1, <1>2, <1>4, <2>1
  <2>3. Clearing' = Clearing \cup {t}
    BY <1>1, <1>3, <1>5, <1>7
  <2> QED
    BY <1>7, <2>1, <2>2, <2>3
<1>8. CASE label \notin EntersLabels \cup ClearLabels
  <2>1. Entering' = Entering \ {t}
    BY <1>1, <1>2, <1>4, <1>8
  <2>2. Clearing' = Clearing \ {t}
    BY <1>1, <1>3, <1>5, <1>8
  <2> QED
    BY <1>8, <2>1, <2>2
<1> QED
  BY <1>6, <1>7, <1>8

\* The service's operators are the busy threads.
LEMMA ActiveIsBusy == Service!Active = Busy
BY DEF Service!Active, Entering, Clearing, Busy

\* A thread that is at work keeps the process up: the mode is self.locked.
LEMMA ModeWhileUp ==
  ASSUME ~Down
  PROVE  Mode = IF locked THEN "locked" ELSE "unlocked"
BY DEF Mode

\* The initial state is one of the service's.
LEMMA InitRefines == Init => Service!Init
<1> SUFFICES ASSUME Init PROVE Service!Init
  OBVIOUS
<1>1. Mode = "down"
  BY DEF Init, Mode, Down, Threads
<1>2. FlagExists = FALSE
  BY DEF Init, FlagExists, NoFlag
<1>3. masked \subseteq TTYGuards
  BY GuardsDistinct DEF Init, TTYGuards
<1>4. Entering = {} /\ Clearing = {}
  BY DEF Init, Entering, Clearing
<1> QED
  BY <1>1, <1>2, <1>3, <1>4 DEF Service!Init, Init

\* What the service sees of a step that stays inside t's operation.
LEMMA Within ==
  ASSUME TypeOK, NEW t \in Threads, pc[t] \in OperationLabels,
         NEW label \in OperationLabels, Goto(t, label),
         pc[t] \in ClearLabels <=> label \in ClearLabels,
         UNCHANGED history
  PROVE  /\ UNCHANGED <<Entering, Clearing, solo, settled>>
         /\ ~Down /\ ~Down'
         /\ t \in IF label \in ClearLabels THEN Clearing ELSE Entering
<1>1. ~Down'
  BY UpWhileBusy
<1>2. ~Down
  BY DEF Down, TypeOK, ControlTypeOK, Serving, Workers
<1>3. t \in IF label \in ClearLabels THEN Clearing ELSE Entering
  BY DEF Clearing, Entering
<1>4. Entering' = Entering /\ Clearing' = Clearing
  <2>1. CASE label \in ClearLabels
    <3>1. t \in Clearing /\ t \notin Entering /\ label \notin EntersLabels
      BY <2>1 DEF Clearing, Entering, EntersLabels
    <3> QED
      BY <2>1, <3>1, GotoOperators
  <2>2. CASE label \notin ClearLabels
    <3>1. t \in Entering /\ t \notin Clearing /\ label \in EntersLabels
      BY <2>2 DEF Clearing, Entering, EntersLabels
    <3> QED
      BY <2>2, <3>1, GotoOperators
  <2> QED
    BY <2>1, <2>2
<1> QED
  BY <1>1, <1>2, <1>3, <1>4 DEF history

\* What the service sees of the end of t's operation.
LEMMA Ending ==
  ASSUME TypeOK, NEW t \in Threads, pc[t] \in OperationLabels, Leave(t)
  PROVE  /\ t \in Service!Active
         /\ Entering' = Entering \ {t} /\ Clearing' = Clearing \ {t}
         /\ ~Down /\ ~Down'
<1>1. Goto(t, IF t = Main THEN "serving" ELSE "idle")
  BY DEF Leave
<1>2. ~Down'
  BY <1>1, UpWhileBusy
<1>3. ~Down
  BY DEF Down, TypeOK, ControlTypeOK, Serving, Workers
<1>4. Entering' = Entering \ {t} /\ Clearing' = Clearing \ {t}
  BY <1>1, GotoOperators DEF EntersLabels
<1> QED
  BY <1>2, <1>3, <1>4, ActiveIsBusy DEF Busy

ServiceStep == Service!Next \/ UNCHANGED Service!state

\* Nothing the service sees has changed.
LEMMA Stutter ==
  ASSUME UNCHANGED <<Entering, Clearing, solo, settled>>,
         UNCHANGED <<Mode, FlagExists, masked>>
  PROVE  ServiceStep
BY DEF ServiceStep, Service!state, Service!work

\* One of the things an operation that enters may do.
LEMMA EnterRefines ==
  ASSUME UNCHANGED <<Entering, Clearing, solo, settled>>, Entering # {},
         \/ Mode' = "locked" /\ UNCHANGED <<FlagExists, masked>>
         \/ FlagExists' = TRUE /\ UNCHANGED <<Mode, masked>>
         \/ /\ \E g \in TTYGuards : masked' = masked \cup {g}
            /\ UNCHANGED <<Mode, FlagExists>>
  PROVE  ServiceStep
<1>1. Service!Enter
  BY DEF Service!Enter, Service!work
<1> QED
  BY <1>1 DEF ServiceStep, Service!Next

\* One of the things an operation that clears may do.
LEMMA ClearRefines ==
  ASSUME UNCHANGED <<Entering, Clearing, solo, settled>>, Clearing # {},
         \/ Mode' = "unlocked" /\ UNCHANGED <<FlagExists, masked>>
         \/ FlagExists' = FALSE /\ UNCHANGED <<Mode, masked>>
         \/ /\ \E g \in TTYGuards : masked' = masked \ {g}
            /\ UNCHANGED <<Mode, FlagExists>>
  PROVE  ServiceStep
<1>1. Service!Clear
  BY DEF Service!Clear, Service!work
<1> QED
  BY <1>1 DEF ServiceStep, Service!Next

\* Events, commands and checks that end in nothing.
LEMMA QuietRefines ==
  ASSUME TypeOK, NEW t \in Threads, t # Main, pc[t] \notin OperationLabels,
         NEW label, label \notin OperationLabels, Goto(t, label),
         UNCHANGED <<memory, files, tty, history>>
  PROVE  ServiceStep
<1>1. pc'[Main] = pc[Main]
  BY DEF Goto, TypeOK, ControlTypeOK, Threads
<1>2. t \notin Entering /\ t \notin Clearing
  BY DEF Entering, Clearing
<1>3. Entering' = Entering /\ Clearing' = Clearing
  BY <1>2, GotoOperators DEF EntersLabels
<1>4. UNCHANGED <<locked, persistent_flag, masked, solo, settled>>
  BY DEF memory, files, tty, history
<1>5. UNCHANGED <<Mode, FlagExists>>
  BY <1>1, <1>4 DEF Mode, Down, FlagExists
<1> QED
  BY <1>3, <1>4, <1>5, Stutter

\* An operation that begins finds nobody else in Active exactly if it is solo.
LEMMA BeginRefines ==
  ASSUME TypeOK, NEW t \in Threads, t # Main, Serving,
         UNCHANGED <<memory, files, tty>>, Begin(t),
         \/ pc[t] = "enter_check" /\ Goto(t, "enter_set") /\ ~locked
         \/ pc[t] = "clear_check" /\ Goto(t, "clear_set") /\ locked
  PROVE  ServiceStep
<1>1. pc'[Main] = pc[Main] /\ ~Down
  BY DEF Goto, TypeOK, ControlTypeOK, Threads, Serving, Down
<1>2. UNCHANGED <<Mode, FlagExists, masked>>
  BY <1>1 DEF Mode, Down, FlagExists, memory, files, tty
<1>3. t \notin Entering /\ t \notin Clearing /\ t \notin Service!Active
  BY DEF Entering, Clearing, Service!Active
<1>4. Service!Begin(t)
  BY <1>3, ActiveIsBusy DEF Begin, Service!Begin
<1>5. CASE Goto(t, "enter_set") /\ ~locked
  <2>1. Entering' = Entering \cup {t} /\ Clearing' = Clearing
    BY <1>3, <1>5, GotoOperators DEF EntersLabels
  <2>2. Service!BeginEnter(t)
    BY <1>1, <1>2, <1>4, <1>5, <2>1, ModeWhileUp DEF Service!BeginEnter
  <2> QED
    BY <2>2 DEF ServiceStep, Service!Next
<1>6. CASE Goto(t, "clear_set") /\ locked
  <2>1. Entering' = Entering /\ Clearing' = Clearing \cup {t}
    BY <1>3, <1>6, GotoOperators DEF EntersLabels
  <2>2. Service!BeginClear(t)
    BY <1>1, <1>2, <1>4, <1>6, <2>1, ModeWhileUp DEF Service!BeginClear
  <2> QED
    BY <2>2 DEF ServiceStep, Service!Next
<1> QED
  BY <1>5, <1>6

\* An operation that ran alone has done all of its work when it ends.
LEMMA ReturnRefines ==
  ASSUME TypeOK, NEW t \in Threads, pc[t] \in OperationLabels, Leave(t), Finish(t),
         UNCHANGED <<memory, files, masked>>,
         t \in solo => IF pc[t] \in ClearLabels
                       THEN ~locked /\ ~FlagExists /\ masked = {}
                       ELSE locked /\ FlagExists /\ masked = TTYGuards
  PROVE  ServiceStep
<1>1. /\ t \in Service!Active /\ ~Down /\ ~Down'
      /\ Entering' = Entering \ {t} /\ Clearing' = Clearing \ {t}
  BY Ending
<1>2. UNCHANGED <<Mode, FlagExists, masked>>
  BY <1>1 DEF Mode, FlagExists, memory, files
<1>3. Service!Leave(t) /\ settled' = (t \in solo)
  BY <1>1 DEF Service!Leave, Finish
<1>4. t \in Entering <=> pc[t] \notin ClearLabels
  BY DEF Entering
<1>5. t \in solo => Service!Done(t)
  BY <1>1, <1>4, ModeWhileUp DEF Service!Done
<1>6. Service!Return(t)
  BY <1>2, <1>3, <1>5 DEF Service!Return
<1> QED
  BY <1>6 DEF ServiceStep, Service!Next

\* A fault that ends an operation.
LEMMA FailRefines ==
  ASSUME TypeOK, NEW t \in Threads, pc[t] \in OperationLabels, Leave(t), Abandon(t),
         UNCHANGED <<memory, masked>>,
         FlagExists' = FlagExists \/ (pc[t] \in EnterLabels /\ FlagExists')
  PROVE  ServiceStep
<1>1. /\ t \in Service!Active /\ ~Down /\ ~Down'
      /\ Entering' = Entering \ {t} /\ Clearing' = Clearing \ {t}
  BY Ending
<1>2. UNCHANGED Mode
  BY <1>1 DEF Mode, memory
<1>3. Service!Leave(t)
  BY <1>1 DEF Service!Leave, Abandon
<1>4. pc[t] \in EnterLabels => Entering # {}
  BY DEF Entering
<1>5. Service!MayRecord
  BY <1>4 DEF Service!MayRecord
<1>6. Service!Fail(t)
  BY <1>2, <1>3, <1>5 DEF Service!Fail, Abandon
<1> QED
  BY <1>6 DEF ServiceStep, Service!Next

\* Events and commands are no business of the service.
LEMMA EventRefines ==
  ASSUME TypeOK,
         MonitorEvent \/ Authorized \/ Unauthorized \/ Caught \/ UsbguardFails
         \/ \E c \in Clients : Command(c)
  PROVE  ServiceStep
<1>1. Monitor \in Threads /\ Monitor # Main
  BY ThreadsDistinct DEF Threads
<1>2. UNCHANGED <<memory, files, tty, history>>
  BY DEF MonitorEvent, InsertAuthorized, InsertUnauthorized, Authorized,
         Unauthorized, Caught, UsbguardFails, Command, Unlock, Simulate
<1>3. CASE MonitorEvent \/ Authorized \/ Unauthorized \/ Caught \/ UsbguardFails
  <2>1. pc[Monitor] \notin OperationLabels
    BY <1>3 DEF MonitorEvent, InsertAuthorized, InsertUnauthorized, Authorized,
           Unauthorized, Caught, UsbguardFails
  <2>2. \E label : label \notin OperationLabels /\ Goto(Monitor, label)
    BY <1>1, <1>3 DEF MonitorEvent, InsertAuthorized, InsertUnauthorized, Authorized,
           Unauthorized, Caught, UsbguardFails, Leave
  <2> QED
    BY <1>1, <1>2, <2>1, <2>2, QuietRefines
<1>4. ASSUME NEW c \in Clients, Command(c) PROVE ServiceStep
  <2>1. c \in Threads /\ c # Main
    BY ThreadsDistinct DEF Threads
  <2>2. pc[c] = "idle" /\ (Goto(c, "clear_check") \/ Goto(c, "enter_check"))
    BY <1>4 DEF Command, Unlock, Simulate
  <2> QED
    BY <1>2, <2>1, <2>2, QuietRefines
<1> QED
  BY <1>3, <1>4

\* The statements of _enter_lockdown and _clear_lockdown.
LEMMA StepRefines ==
  ASSUME IInv, NEW t \in Threads, t # Main, Step(t)
  PROVE  ServiceStep
<1> USE DEF IInv
<1>1. t \in solo => Progress(t)
  BY DEF SoloProgress
<1>2. CASE EnterCheck(t) \/ ClearCheck(t)
  <2>1. Serving
    BY <1>2, BusyWorker DEF TypeOK, WorkerLabels, EnterCheck, ClearCheck
  <2>2. UNCHANGED <<memory, files, tty>>
    BY <1>2 DEF EnterCheck, ClearCheck
  <2>3. CASE Leave(t) /\ UNCHANGED history
    <3>1. Goto(t, "idle") /\ pc[t] \notin OperationLabels
      BY <1>2, <2>3 DEF Leave, EnterCheck, ClearCheck
    <3> QED
      BY <2>2, <2>3, <3>1, QuietRefines
  <2>4. CASE (EnterCheck(t) /\ ~locked) \/ (ClearCheck(t) /\ locked)
    BY <2>1, <2>2, <2>4, BeginRefines DEF EnterCheck, ClearCheck
  <2> QED
    BY <1>2, <2>3, <2>4 DEF EnterCheck, ClearCheck
<1>3. CASE EnterSet(t) \/ ClearSet(t)
  <2>1. UNCHANGED <<FlagExists, masked, history>>
    BY <1>3 DEF EnterSet, ClearSet, FlagExists, files, tty
  <2>2. CASE EnterSet(t)
    <3>1. UNCHANGED <<Entering, Clearing, solo, settled>> /\ ~Down' /\ t \in Entering
      BY <2>1, <2>2, Within DEF EnterSet
    <3>2. Mode' = "locked"
      BY <2>2, <3>1 DEF EnterSet, Mode
    <3> QED
      BY <2>1, <3>1, <3>2, EnterRefines
  <2>3. CASE ClearSet(t)
    <3>1. UNCHANGED <<Entering, Clearing, solo, settled>> /\ ~Down' /\ t \in Clearing
      BY <2>1, <2>3, Within DEF ClearSet
    <3>2. Mode' = "unlocked"
      BY <2>3, <3>1 DEF ClearSet, Mode
    <3> QED
      BY <2>1, <3>1, <3>2, ClearRefines
  <2> QED
    BY <1>3, <2>2, <2>3
<1>4. CASE EnterRecord(t) \/ EnterRuntime(t) \/ EnterBroadcast(t)
           \/ ClearRecord(t) \/ ClearWatch(t) \/ ClearRuntime(t)
  <2>1. UNCHANGED <<locked, FlagExists, masked, history>>
    BY <1>4 DEF EnterRecord, EnterRuntime, EnterBroadcast, ClearRecord, ClearWatch,
       ClearRuntime, FlagExists, memory, files, tty
  <2>2. UNCHANGED <<Entering, Clearing, solo, settled>> /\ ~Down /\ ~Down'
    <3>1. CASE EnterRecord(t)
      BY <2>1, <3>1, Within DEF EnterRecord
    <3>2. CASE EnterRuntime(t)
      BY <2>1, <3>2, Within DEF EnterRuntime
    <3>3. CASE EnterBroadcast(t)
      BY <2>1, <3>3, Within DEF EnterBroadcast
    <3>4. CASE ClearRecord(t)
      BY <2>1, <3>4, Within DEF ClearRecord
    <3>5. CASE ClearWatch(t)
      BY <2>1, <3>5, Within DEF ClearWatch
    <3>6. CASE ClearRuntime(t)
      BY <2>1, <3>6, Within DEF ClearRuntime
    <3> QED
      BY <1>4, <3>1, <3>2, <3>3, <3>4, <3>5, <3>6
  <2>3. UNCHANGED Mode
    BY <2>1, <2>2 DEF Mode
  <2> QED
    BY <2>1, <2>2, <2>3, Stutter
<1>5. CASE EnterFlag(t) \/ ClearFlag(t)
  <2>1. UNCHANGED <<locked, masked, history>>
    BY <1>5 DEF EnterFlag, ClearFlag, memory, tty
  <2>2. CASE EnterFlag(t)
    <3>1. /\ UNCHANGED <<Entering, Clearing, solo, settled>> /\ ~Down /\ ~Down'
          /\ t \in Entering
      BY <2>1, <2>2, Within DEF EnterFlag
    <3>2. FlagExists' = TRUE /\ UNCHANGED Mode
      BY <2>1, <2>2, <3>1 DEF EnterFlag, FlagExists, WrittenFlag, Mode
    <3> QED
      BY <2>1, <3>1, <3>2, EnterRefines
  <2>3. CASE ClearFlag(t)
    <3>1. /\ UNCHANGED <<Entering, Clearing, solo, settled>> /\ ~Down /\ ~Down'
          /\ t \in Clearing
      BY <2>1, <2>3, Within DEF ClearFlag
    <3>2. FlagExists' = FALSE /\ UNCHANGED Mode
      BY <2>1, <2>3, <3>1 DEF ClearFlag, FlagExists, NoFlag, Mode
    <3> QED
      BY <2>1, <3>1, <3>2, ClearRefines
  <2> QED
    BY <1>5, <2>2, <2>3
<1>6. CASE LockGuard(t) \/ UnlockGuard(t)
  <2>1. UNCHANGED <<locked, FlagExists, history>>
    BY <1>6 DEF LockGuard, UnlockGuard, FlagExists, memory, files
  <2>2. \E g \in NextGuards(t) :
           masked' = IF pc[t] = "clear_tty" THEN masked \ {g} ELSE masked \cup {g}
    BY <1>6 DEF LockGuard, UnlockGuard
  <2>3. \E g \in TTYGuards :
           masked' = IF pc[t] = "clear_tty" THEN masked \ {g} ELSE masked \cup {g}
    BY <2>2, GuardTypes DEF TypeOK
  <2>4. CASE LockGuard(t)
    <3>1. pc[t] = "enter_tty"
      BY <2>4 DEF LockGuard, TypeOK, ControlTypeOK, Workers, WorkerLabels
    <3>2. Goto(t, "enter_tty") \/ Goto(t, "enter_watch")
      BY <2>4, <3>1 DEF LockGuard, Goto, TypeOK, ControlTypeOK
    <3>3. /\ UNCHANGED <<Entering, Clearing, solo, settled>> /\ ~Down /\ ~Down'
          /\ t \in Entering
      BY <2>1, <3>1, <3>2, Within
    <3>4. UNCHANGED Mode
      BY <2>1, <3>3 DEF Mode
    <3> QED
      BY <2>1, <2>3, <3>1, <3>3, <3>4, EnterRefines
  <2>5. CASE UnlockGuard(t)
    <3>1. pc[t] = "clear_tty"
      BY <2>5 DEF UnlockGuard
    <3>2. Goto(t, "clear_tty") \/ Goto(t, "clear_broadcast")
      BY <2>5, <3>1 DEF UnlockGuard, Goto, TypeOK, ControlTypeOK
    <3>3. /\ UNCHANGED <<Entering, Clearing, solo, settled>> /\ ~Down /\ ~Down'
          /\ t \in Clearing
      BY <2>1, <3>1, <3>2, Within
    <3>4. UNCHANGED Mode
      BY <2>1, <3>3 DEF Mode
    <3> QED
      BY <2>1, <2>3, <3>1, <3>3, <3>4, ClearRefines
  <2> QED
    BY <1>6, <2>4, <2>5
<1>7. CASE EnterWatch(t)
  <2>1. t \in solo => locked /\ FlagExists /\ masked = TTYGuards
    BY <1>1, <1>7 DEF EnterWatch, Progress, FlagAgrees, TypeOK, SharedTypeOK
  <2> QED
    BY <1>7, <2>1, ReturnRefines DEF EnterWatch
<1>8. CASE ClearBroadcast(t)
  <2>1. t \in solo => ~locked /\ ~FlagExists /\ masked = {}
    BY <1>1, <1>8 DEF ClearBroadcast, Progress
  <2> QED
    BY <1>8, <2>1, ReturnRefines DEF ClearBroadcast, tty
<1> QED
  BY <1>2, <1>3, <1>4, <1>5, <1>6, <1>7, <1>8 DEF Step

\* A fault ends the operation, or makes it skip a guard.
LEMMA FaultRefines ==
  ASSUME IInv, NEW t \in Threads, Fault(t)
  PROVE  ServiceStep
<1> USE DEF IInv
<1>1. CASE EnterFlagFails(t) \/ EnterRuntimeFails(t) \/ ClearUnlinkFails(t)
  <2>1. /\ pc[t] \in OperationLabels /\ Leave(t) /\ Abandon(t)
        /\ UNCHANGED <<memory, masked>>
    BY <1>1 DEF EnterFlagFails, EnterRuntimeFails, ClearUnlinkFails, tty
  <2>2. FlagExists' = FlagExists \/ (pc[t] \in EnterLabels /\ FlagExists')
    <3>1. CASE EnterFlagFails(t)
      BY <3>1 DEF EnterFlagFails, FlagExists, TornFlag
    <3>2. CASE EnterRuntimeFails(t)
      BY <3>2 DEF EnterRuntimeFails, FlagExists
    <3>3. CASE ClearUnlinkFails(t)
      BY <3>3 DEF ClearUnlinkFails, FlagExists, files
    <3> QED
      BY <1>1, <3>1, <3>2, <3>3
  <2> QED
    BY <2>1, <2>2, FailRefines
<1>2. CASE GuardFails(t)
  <2>1. UNCHANGED <<locked, FlagExists, masked>> /\ Abandon(t)
    BY <1>2 DEF GuardFails, FlagExists, memory, files, tty
  <2>2. \E label \in OperationLabels :
           Goto(t, label) /\ (pc[t] \in ClearLabels <=> label \in ClearLabels)
    <3>1. UNCHANGED pc => Goto(t, pc[t])
      BY DEF Goto, TypeOK, ControlTypeOK
    <3> QED
      BY <1>2, <3>1 DEF GuardFails
  <2>3. pc[t] \in OperationLabels
    BY <1>2 DEF GuardFails
  <2>4. UNCHANGED <<Entering, Clearing>> /\ ~Down /\ ~Down'
    <3>1. ~Down'
      BY <2>2, <2>3, UpWhileBusy
    <3>2. ~Down
      BY <2>3 DEF Down, TypeOK, ControlTypeOK, Serving, Workers
    <3>3. PICK label \in OperationLabels :
             Goto(t, label) /\ (pc[t] \in ClearLabels <=> label \in ClearLabels)
      BY <2>2
    <3>4. CASE label \in ClearLabels
      <4>1. t \in Clearing /\ t \notin Entering /\ label \notin EntersLabels
        BY <3>3, <3>4 DEF Clearing, Entering, EntersLabels
      <4> QED
        BY <3>1, <3>2, <3>3, <3>4, <4>1, GotoOperators
    <3>5. CASE label \notin ClearLabels
      <4>1. t \in Entering /\ t \notin Clearing /\ label \in EntersLabels
        BY <2>3, <3>3, <3>5 DEF Clearing, Entering, EntersLabels
      <4> QED
        BY <3>1, <3>2, <3>3, <3>5, <4>1, GotoOperators
    <3> QED
      BY <3>4, <3>5
  <2>5. UNCHANGED Mode
    BY <2>1, <2>4 DEF Mode
  <2>6. CASE t \in solo
    <3>1. solo' = {}
      BY <2>1, <2>3, <2>6, Alone DEF Abandon
    <3>2. Service!Skip(t)
      BY <2>1, <2>4, <2>5, <2>6, <3>1 DEF Service!Skip, Abandon
    <3> QED
      BY <3>2 DEF ServiceStep, Service!Next
  <2>7. CASE t \notin solo
    <3>1. UNCHANGED <<solo, settled>>
      BY <2>1, <2>7 DEF Abandon
    <3> QED
      BY <2>1, <2>4, <2>5, <3>1, Stutter
  <2> QED
    BY <2>6, <2>7
<1> QED
  BY <1>1, <1>2 DEF Fault

\* Nobody is at work while the process is down.
LEMMA DownIsIdle ==
  ASSUME TypeOK, Down
  PROVE  Busy = {} /\ Entering = {} /\ Clearing = {} /\ Mode = "down"
<1>1. \A t \in Threads : pc[t] \in {"down", "idle"}
  BY DEF TypeOK, ControlTypeOK, Down, Serving, Workers
<1> QED
  BY <1>1 DEF Busy, Entering, Clearing, Mode

\* A start locks exactly if it finds the flag, and restores the lockdown.
LEMMA MainRefines ==
  ASSUME IInv, MainStep
  PROVE  ServiceStep
<1> USE DEF IInv
<1>1. Main \in Threads
  BY DEF Threads
<1>2. CASE StartUnlocked
  <2>1. Down /\ ~FlagExists /\ Goto(Main, "serving")
        /\ UNCHANGED <<locked, FlagExists, masked, solo, settled>>
    BY <1>2 DEF StartUnlocked, FlagExists, memory, files, tty, history
  <2>2. UNCHANGED <<Entering, Clearing>>
    BY <1>1, <2>1, DownIsIdle, GotoOperators DEF EntersLabels
  <2>3. Mode = "down" /\ Mode' = "unlocked"
    <3>1. pc'[Main] = "serving"
      BY <1>1, <2>1 DEF Goto, TypeOK, ControlTypeOK
    <3> QED
      BY <2>1, <3>1, DownIsIdle DEF Mode, Down, DownIsClean
  <2>4. Service!Start
    BY <2>1, <2>2, <2>3 DEF Service!Start
  <2> QED
    BY <2>4 DEF ServiceStep, Service!Next
<1>3. CASE StartLocked
  <2>1. /\ Down /\ FlagExists /\ Goto(Main, "restore_tty") /\ locked' = TRUE
        /\ UNCHANGED <<FlagExists, masked>> /\ solo' = {Main} /\ settled' = FALSE
    BY <1>3 DEF StartLocked, FlagExists, tty
  <2>2. Entering' = {Main} /\ Clearing' = Clearing
    BY <1>1, <2>1, DownIsIdle, GotoOperators DEF EntersLabels
  <2>3. Mode = "down" /\ Mode' = "locked"
    <3>1. pc'[Main] = "restore_tty"
      BY <1>1, <2>1 DEF Goto, TypeOK, ControlTypeOK
    <3> QED
      BY <2>1, <3>1, DownIsIdle DEF Mode, Down
  <2>4. Service!Start
    BY <2>1, <2>2, <2>3 DEF Service!Start
  <2> QED
    BY <2>4 DEF ServiceStep, Service!Next
<1>4. CASE LockGuard(Main)
  <2>1. UNCHANGED <<locked, FlagExists, history>>
    BY <1>4 DEF LockGuard, FlagExists, memory, files
  <2>2. \E g \in TTYGuards : masked' = masked \cup {g}
    BY <1>1, <1>4, GuardTypes DEF LockGuard, TypeOK
  <2>3. pc[Main] = "restore_tty"
    BY <1>4 DEF LockGuard, TypeOK, ControlTypeOK, MainLabels
  <2>4. Goto(Main, "restore_tty") \/ Goto(Main, "restore_watch")
    BY <1>4, <2>3 DEF LockGuard, Goto, TypeOK, ControlTypeOK
  <2>5. /\ UNCHANGED <<Entering, Clearing, solo, settled>> /\ ~Down /\ ~Down'
        /\ Main \in Entering
    BY <1>1, <2>1, <2>3, <2>4, Within
  <2>6. UNCHANGED Mode
    BY <2>1, <2>5 DEF Mode
  <2> QED
    BY <2>1, <2>2, <2>5, <2>6, EnterRefines
<1>5. CASE RestoreWatch
  <2>1. Main \in solo => locked /\ FlagExists /\ masked = TTYGuards
    BY <1>5 DEF RestoreWatch, SoloProgress, Progress, FlagAgrees, TypeOK, SharedTypeOK
  <2> QED
    BY <1>1, <1>5, <2>1, ReturnRefines DEF RestoreWatch
<1> QED
  BY <1>2, <1>3, <1>4, <1>5 DEF MainStep

\* The end of the process, and a reboot.
LEMMA EndRefines ==
  ASSUME IInv, Stop \/ Reboot
  PROVE  ServiceStep
<1> USE DEF IInv
<1>1. CASE Stop
  <2>1. \A t \in Threads : pc'[t] \in {"down", "idle"}
    BY <1>1 DEF Stop
  <2>2. Mode' = "down" /\ Mode # "down"
    BY <1>1 DEF Stop, Mode, Down, Threads
  <2>3. Entering' = {} /\ Clearing' = {} /\ solo' = {} /\ masked' = masked
    BY <1>1, <2>1 DEF Stop, Entering, Clearing
  <2>4. settled' = (settled /\ Service!Active = {})
    BY <1>1, ActiveIsBusy DEF Stop
  <2>5. Service!MayRecord
    <3>1. CASE UNCHANGED persistent_flag
      BY <3>1 DEF Service!MayRecord, FlagExists
    <3>2. CASE /\ \E t \in Workers : pc[t] = "enter_flag"
               /\ persistent_flag' = TornFlag
      <4>1. Entering # {}
        BY <3>2 DEF Entering, Workers
      <4> QED
        BY <3>2, <4>1 DEF Service!MayRecord, FlagExists, TornFlag
    <3> QED
      BY <1>1, <3>1, <3>2 DEF Stop
  <2>6. Service!Crash
    BY <2>2, <2>3, <2>4, <2>5 DEF Service!Crash
  <2> QED
    BY <2>6 DEF ServiceStep, Service!Next
<1>2. CASE Reboot
  <2>1. /\ UNCHANGED <<Mode, FlagExists, Entering, Clearing, solo, settled>>
        /\ masked' \in SUBSET masked
    BY <1>2 DEF Reboot, Mode, Down, FlagExists, Entering, Clearing, memory, files, history
  <2>2. Service!Reboot
    BY <1>2, <2>1, DownIsIdle DEF Reboot, Service!Reboot, Service!work
  <2> QED
    BY <2>2 DEF ServiceStep, Service!Next
<1> QED
  BY <1>1, <1>2

\* Every step of the daemon is a step of the service, or leaves it alone.
LEMMA NextRefines == IInv /\ [Next]_vars => [Service!Next]_(Service!state)
<1> SUFFICES ASSUME IInv, [Next]_vars PROVE ServiceStep
  BY DEF ServiceStep
<1>1. CASE MonitorEvent \/ MonitorStep \/ UsbguardFails
  BY <1>1, EventRefines, StepRefines, ThreadsDistinct DEF IInv, MonitorStep, Threads
<1>2. CASE \E c \in Clients : Command(c) \/ Step(c)
  BY <1>2, EventRefines, StepRefines, ThreadsDistinct DEF IInv, Threads
<1>3. CASE MainStep
  BY <1>3, MainRefines
<1>4. CASE \E t \in Threads : Fault(t)
  BY <1>4, FaultRefines
<1>5. CASE Stop \/ Reboot
  BY <1>5, EndRefines
<1>6. CASE UNCHANGED vars
  <2>1. UNCHANGED <<Entering, Clearing, solo, settled>>
    BY <1>6 DEF vars, Entering, Clearing
  <2>2. UNCHANGED <<Mode, FlagExists, masked>>
    BY <1>6 DEF vars, Mode, Down, FlagExists
  <2> QED
    BY <2>1, <2>2, Stutter
<1> QED
  BY <1>1, <1>2, <1>3, <1>4, <1>5, <1>6 DEF Next

\* The daemon keeps the promise of LockdownService, for any number of clients
\* and TTY units: only entering locks, records and guards, only clearing undoes
\* it, a start does what the flag says, and an operation that ran alone to its
\* end has done all of its work.
THEOREM Refinement == Spec => ServiceSpec
<1> QED
  BY InitRefines, NextRefines, Inductive, PTL DEF Spec, ServiceSpec, Service!Spec

\* A step of the service keeps a recorded lockdown that nobody is clearing.
LEMMA ServiceHolds ==
  ASSUME Service!Next, FlagExists, Mode # "unlocked", Clearing = {}
  PROVE  FlagExists' /\ Mode' # "unlocked"
<1>1. CASE \E t \in Threads : Service!BeginEnter(t) \/ Service!BeginClear(t) \/ Service!Skip(t)
  BY <1>1 DEF Service!BeginEnter, Service!BeginClear, Service!Skip
<1>2. CASE \E t \in Threads : Service!Return(t) \/ Service!Fail(t)
  BY <1>2 DEF Service!Return, Service!Fail, Service!MayRecord
<1>3. CASE Service!Enter
  BY <1>3 DEF Service!Enter
<1>4. CASE Service!Clear
  BY <1>4 DEF Service!Clear
<1>5. CASE Service!Crash \/ Service!Start \/ Service!Reboot
  BY <1>5 DEF Service!Crash, Service!Start, Service!Reboot, Service!MayRecord
<1> QED
  BY <1>1, <1>2, <1>3, <1>4, <1>5 DEF Service!Next

\* HeldUntilCleared: the lockdown survives whatever happens to the process, until
\* it is cleared. The service promises it, so the daemon keeps it.
THEOREM LockdownIsHeld == Spec => HeldUntilCleared
<1>1. IInv /\ [Next]_vars =>
        [FlagExists /\ Mode # "unlocked" /\ Clearing = {} =>
            FlagExists' /\ Mode' # "unlocked"]_vars
  <2> SUFFICES ASSUME IInv, [Next]_vars, FlagExists, Mode # "unlocked", Clearing = {}
               PROVE  FlagExists' /\ Mode' # "unlocked"
    OBVIOUS
  <2>1. CASE Service!Next
    BY <2>1, ServiceHolds
  <2>2. CASE UNCHANGED Service!state
    <3>1. Mode' = Mode /\ FlagExists' = FlagExists
      BY <2>2 DEF Service!state
    <3> QED
      BY <3>1
  <2> QED
    BY <2>1, <2>2, NextRefines
<1> QED
  BY <1>1, Inductive, PTL DEF Spec, HeldUntilCleared
=============================================================================
