---------------------------- MODULE ScreenProofs ----------------------------
(***************************************************************************)
(* Proofs about the two guards of the screen during a lockdown: the thread *)
(* that watches for a switch to another console (TTYWatcher) and the       *)
(* overlay that holds the keyboard (UnlockDialog). They share no state.    *)
(*                                                                         *)
(* The watcher, for any number of daemon threads, watchers and consoles:   *)
(* what it promises between operations is not inductive, for it says       *)
(* nothing of an operation's steps. OneWatcher says, for each step of      *)
(* start() and stop(), which watcher is alive and what the object knows of *)
(* it; while operations do not overlap, the one thread in an operation is  *)
(* the only one that can disturb that.                                     *)
(*                                                                         *)
(* The dialog, for every bound on the messages: that the grab in a         *)
(* dialog's `finally` is the overlay's again rests on the overlay being    *)
(* visible under every dialog during which it was neither shown nor hidden.*)
(***************************************************************************)
EXTENDS TTYWatcher, UnlockDialog, FiniteSetTheorems, TLAPS

(***************************************************************************)
(* Part 1: the watcher                                                     *)
(***************************************************************************)

\* Where start() has taken its baseline.
Baselined == {"start_clear", "start_create", "start_thread"}

\* A thread is started with a baseline.
BaselineTaken == \A t \in Threads : pc[t] \in Baselined => baseline # None

\* This process has had one operation at a time and forgotten no watcher.
Undisturbed == ~overlapped /\ ~abandoned

\* At most one thread is in an operation.
OneOperation ==
    \A t, u \in Threads : pc[t] # "idle" /\ pc[u] # "idle" => t = u

\* The object's thread watches, and nobody is about to end it.
Guarded   == thread \in Watchers /\ Alive = {thread} /\ ~stop
Unguarded == thread = None /\ Alive = {}

\* A lockdown that is to be watched. One that is not has no watcher, nor has an
\* unlocked system.
Watched == locked /\ ~unflagged

\* The watchers there are while an operation is at each of its steps.
Stage(t) ==
    /\ pc[t] = "enter_set" => ~locked /\ Unguarded
    /\ pc[t] \in {"start", "start_baseline", "start_clear", "start_create"} =>
          Watched /\ Unguarded
    /\ pc[t] = "start_create" => ~stop
    /\ pc[t] = "start_thread" =>
          Watched /\ ~stop /\ thread \in Watchers /\ life[thread] = "created" /\ Alive = {}
    /\ pc[t] = "clear_set" => locked /\ IF Watched THEN Guarded ELSE Unguarded
    /\ pc[t] = "stop" => ~locked /\ (Guarded \/ Unguarded)
    /\ pc[t] \in {"stop_join", "stop_wait"} =>
          ~locked /\ thread \in Watchers /\ Alive \subseteq {thread} /\ life[thread] # "created"
    /\ pc[t] = "stop_wait" => joining[t] = thread

\* Between operations the live watcher is the object's, and there is one if and
\* only if the system is locked and its flags were written.
OneWatcher ==
    /\ OneOperation
    /\ Idle => IF Watched THEN Guarded ELSE Unguarded
    /\ \A t \in Threads : Stage(t)

\* What has been reported and is still there, the watcher will not report: it is
\* what it reported last, or the baseline.
Remembered ==
    /\ \A w \in Alive : life[w] = "loop" /\ active \in {last[w], baseline}
    /\ \A t \in Threads : pc[t] \in Baselined => baseline = active

\* The inductive invariant.
WatchInv ==
    /\ TypeOK
    /\ BaselineTaken
    /\ Undisturbed => OneWatcher
    /\ Undisturbed /\ told => Remembered

-----------------------------------------------------------------------------
(* Types. *)

\* Every operation moves one thread from a label to another.
LEMMA GotoTypes ==
  ASSUME TypeOK, NEW t \in Threads, NEW from, NEW to \in Labels, Goto(t, from, to)
  PROVE  /\ pc[t] = from /\ pc' \in [Threads -> Labels]
         /\ pc'[t] = to /\ \A u \in Threads \ {t} : pc'[u] = pc[u]
BY DEF TypeOK, Goto

\* Watchers and their reports keep their types unless a step changes them.
LEMMA LifeTypes ==
  ASSUME TypeOK, NEW w \in Watchers, NEW l \in {"dead", "created", "loop"},
         life[w] # "report" \/ seen'[w] = None,
         life' = [life EXCEPT ![w] = l], seen' \in [Watchers -> VTs \cup {None}],
         \A x \in Watchers \ {w} : seen'[x] = seen[x],
         seen'[w] \in {seen[w], None}
  PROVE  /\ life' \in [Watchers -> {"dead", "created", "loop", "report"}]
         /\ \A x \in Watchers : life'[x] = "report" <=> seen'[x] # None
<1>1. /\ life'[w] = l /\ \A x \in Watchers \ {w} : life'[x] = life[x]
      /\ life' \in [Watchers -> {"dead", "created", "loop", "report"}]
  BY DEF TypeOK
<1>2. seen'[w] = None
  BY DEF TypeOK
<1> QED
  BY <1>1, <1>2 DEF TypeOK

\* The initial state satisfies the invariant.
LEMMA WatchInitInv == Init => WatchInv
<1> SUFFICES ASSUME Init PROVE WatchInv
  OBVIOUS
<1>1. Alive = {} /\ Idle
  BY DEF Init, Alive, Idle
<1>2. TypeOK
  BY <1>1 DEF Init, TypeOK, Labels
<1>3. \A t \in Threads : pc[t] = "idle"
  BY DEF Init
<1>4. BaselineTaken
  BY <1>3 DEF BaselineTaken, Baselined
<1>5. OneWatcher
  BY <1>1, <1>3 DEF OneWatcher, OneOperation, Stage, Unguarded, Watched, Init
<1> QED
  BY <1>2, <1>4, <1>5 DEF WatchInv, Init

\* An operation that begins, or sets self.locked.
LEMMA OuterTypes ==
  ASSUME TypeOK, BaselineTaken, NEW t \in Threads,
         \/ EnterLockdown(t) \/ ClearLockdown(t) \/ EnterSet(t) \/ EnterSetFails(t)
         \/ ClearSet(t)
  PROVE  TypeOK' /\ BaselineTaken'
<1>1. \E from, to : /\ to \in {"idle", "enter_set", "clear_set", "start", "stop"}
                    /\ Goto(t, from, to)
  <2>1. CASE EnterLockdown(t)
    BY <2>1 DEF EnterLockdown, Begin
  <2>2. CASE ClearLockdown(t)
    BY <2>2 DEF ClearLockdown, Begin
  <2>3. CASE EnterSet(t) \/ EnterSetFails(t)
    BY <2>3 DEF EnterSet, EnterSetFails
  <2>4. CASE ClearSet(t)
    BY <2>4 DEF ClearSet
  <2> QED
    BY <2>1, <2>2, <2>3, <2>4
<1>2. /\ pc' \in [Threads -> Labels] /\ pc'[t] \notin Baselined
      /\ \A u \in Threads \ {t} : pc'[u] = pc[u]
  BY <1>1, GotoTypes DEF Labels, Baselined
<1>3. UNCHANGED <<active, joining, shared, watcher, reported, told, abandoned>>
  BY DEF EnterLockdown, ClearLockdown, Begin, EnterSet, EnterSetFails, ClearSet
<1>4. locked' \in BOOLEAN /\ unflagged' \in BOOLEAN
  BY DEF TypeOK, EnterLockdown, ClearLockdown, Begin, EnterSet, EnterSetFails, ClearSet
<1>5. began' \in VTs \cup {None}
  BY DEF TypeOK, EnterLockdown, ClearLockdown, Begin, EnterSet, EnterSetFails, ClearSet
<1>6. overlapped' \in BOOLEAN
  BY DEF TypeOK, EnterLockdown, ClearLockdown, Begin, EnterSet, EnterSetFails, ClearSet
<1>7. Alive' = Alive
  BY <1>3 DEF Alive, watcher
<1>8. TypeOK'
  BY <1>2, <1>3, <1>4, <1>5, <1>6, <1>7 DEF TypeOK, shared, watcher
<1> QED
  BY <1>2, <1>3, <1>8 DEF BaselineTaken, Baselined, shared

\* start().
LEMMA StartTypes ==
  ASSUME TypeOK, BaselineTaken, NEW t \in Threads,
         \/ StartCheck(t) \/ StartBaseline(t) \/ StartClear(t) \/ StartCreate(t)
         \/ StartThread(t)
  PROVE  TypeOK' /\ BaselineTaken'
<1>1. CASE StartCheck(t)
  <2>1. PICK to \in {"idle", "start_baseline"} : Goto(t, "start", to)
    BY <1>1 DEF StartCheck
  <2>2. /\ pc' \in [Threads -> Labels] /\ pc'[t] = to
        /\ \A u \in Threads \ {t} : pc'[u] = pc[u]
    BY <2>1, GotoTypes DEF Labels
  <2>3. UNCHANGED <<active, locked, joining, shared, watcher, history>>
    BY <1>1 DEF StartCheck
  <2>4. Alive' = Alive
    BY <2>3 DEF Alive, watcher
  <2>5. TypeOK'
    BY <2>2, <2>3, <2>4 DEF TypeOK, shared, watcher, history
  <2> QED
    BY <2>2, <2>3, <2>5 DEF BaselineTaken, Baselined, shared
<1>2. CASE StartBaseline(t)
  <2>1. pc' \in [Threads -> Labels]
    BY <1>2, GotoTypes DEF StartBaseline, Labels
  <2>2. /\ baseline' = active /\ reported' = {}
        /\ UNCHANGED <<active, locked, joining, stop, thread, watcher, told, began,
                       unflagged, overlapped, abandoned>>
    BY <1>2 DEF StartBaseline
  <2>3. baseline' \in VTs /\ baseline' # None
    BY <2>2, NoneApart DEF TypeOK
  <2>4. Alive' = Alive
    BY <2>2 DEF Alive, watcher
  <2>5. TypeOK'
    BY <2>1, <2>2, <2>3, <2>4 DEF TypeOK, watcher
  <2> QED
    BY <2>3, <2>5 DEF BaselineTaken
<1>3. CASE StartClear(t)
  <2>1. /\ pc[t] = "start_clear" /\ pc' \in [Threads -> Labels]
        /\ \A u \in Threads \ {t} : pc'[u] = pc[u]
    BY <1>3, GotoTypes DEF StartClear, Labels
  <2>2. stop' = FALSE /\ UNCHANGED <<active, locked, joining, thread, baseline, watcher, history>>
    BY <1>3 DEF StartClear
  <2>3. Alive' = Alive
    BY <2>2 DEF Alive, watcher
  <2>4. TypeOK'
    BY <2>1, <2>2, <2>3 DEF TypeOK, watcher, history
  <2>5. baseline # None
    BY <2>1 DEF BaselineTaken, Baselined
  <2> QED
    BY <2>2, <2>4, <2>5 DEF BaselineTaken
<1>4. CASE StartCreate(t)
  <2>1. /\ pc[t] = "start_create" /\ pc' \in [Threads -> Labels]
        /\ \A u \in Threads \ {t} : pc'[u] = pc[u]
    BY <1>4, GotoTypes DEF StartCreate, Labels
  <2>2. PICK w \in Free : thread' = w /\ life' = [life EXCEPT ![w] = "created"]
    BY <1>4 DEF StartCreate
  <2>3. UNCHANGED <<active, locked, joining, stop, baseline, last, seen, history>>
    BY <1>4 DEF StartCreate
  <2>4. w \in Watchers /\ life[w] # "report"
    BY DEF Free, Alive
  <2>5. /\ life' \in [Watchers -> {"dead", "created", "loop", "report"}]
        /\ \A x \in Watchers : life'[x] = "report" <=> seen'[x] # None
    BY <2>2, <2>3, <2>4, LifeTypes DEF TypeOK
  <2>6. baseline # None
    BY <2>1 DEF BaselineTaken, Baselined
  <2>7. TypeOK'
    BY <2>1, <2>2, <2>3, <2>4, <2>5, <2>6 DEF TypeOK, history
  <2> QED
    BY <2>3, <2>6, <2>7 DEF BaselineTaken
<1>5. CASE StartThread(t)
  <2>1. /\ pc[t] = "start_thread" /\ pc' \in [Threads -> Labels]
        /\ \A u \in Threads \ {t} : pc'[u] = pc[u]
    BY <1>5, GotoTypes DEF StartThread, Labels
  <2>2. /\ life' = [w \in Watchers |->
                      IF w = thread /\ life[w] = "created" THEN "loop" ELSE life[w]]
        /\ UNCHANGED <<active, locked, joining, shared, last, seen, history>>
    BY <1>5 DEF StartThread
  <2>3. /\ life' \in [Watchers -> {"dead", "created", "loop", "report"}]
        /\ \A x \in Watchers : life'[x] = "report" <=> life[x] = "report"
    BY <2>2 DEF TypeOK
  <2>4. baseline # None
    BY <2>1 DEF BaselineTaken, Baselined
  <2>5. TypeOK'
    BY <2>1, <2>2, <2>3, <2>4 DEF TypeOK, shared, history
  <2> QED
    BY <2>2, <2>4, <2>5 DEF BaselineTaken, shared
<1> QED
  BY <1>1, <1>2, <1>3, <1>4, <1>5
\* stop().
LEMMA StopTypes ==
  ASSUME TypeOK, BaselineTaken, NEW t \in Threads,
         StopSet(t) \/ StopJoin(t) \/ StopDone(t) \/ StopTimesOut(t)
  PROVE  TypeOK' /\ BaselineTaken'
<1>1. \E from, to : to \in {"idle", "stop_join", "stop_wait"} /\ Goto(t, from, to)
  <2>1. CASE StopSet(t)
    BY <2>1 DEF StopSet
  <2>2. CASE StopJoin(t)
    BY <2>2 DEF StopJoin
  <2>3. CASE StopDone(t) \/ StopTimesOut(t)
    BY <2>3 DEF StopDone, StopTimesOut
  <2> QED
    BY <2>1, <2>2, <2>3
<1>2. /\ pc' \in [Threads -> Labels] /\ pc'[t] \notin Baselined
      /\ \A u \in Threads \ {t} : pc'[u] = pc[u]
  BY <1>1, GotoTypes DEF Labels, Baselined
<1>3. /\ UNCHANGED <<active, locked, baseline, watcher, reported, told, began,
                     unflagged, overlapped>>
      /\ thread' \in {thread, None}
  BY DEF StopSet, StopJoin, StopDone, StopTimesOut, shared, history
<1>4. joining' \in [Threads -> Watchers \cup {None}]
  BY DEF StopSet, StopJoin, StopDone, StopTimesOut, TypeOK
<1>5. stop' \in BOOLEAN
  BY DEF StopSet, StopJoin, StopDone, StopTimesOut, TypeOK, shared
<1>6. abandoned' \in BOOLEAN
  BY DEF StopSet, StopJoin, StopDone, StopTimesOut, TypeOK, history
<1>7. Alive' = Alive
  BY <1>3 DEF Alive, watcher
<1>8. TypeOK'
  BY <1>2, <1>3, <1>4, <1>5, <1>6, <1>7 DEF TypeOK, watcher
<1> QED
  BY <1>2, <1>3, <1>8 DEF BaselineTaken

\* _run.
LEMMA WatchTypes ==
  ASSUME TypeOK, BaselineTaken, NEW w \in Watchers, Watch(w)
  PROVE  TypeOK' /\ BaselineTaken'
<1>1. UNCHANGED <<active, daemon, shared, began, unflagged, overlapped, abandoned>>
  BY DEF Watch, End, Poll, PollBaseline, Report, history
<1>2. w \in Alive /\ baseline # None
  BY DEF Watch, End, Poll, PollBaseline, Report, Alive, TypeOK
<1>3. last' \in [Watchers -> VTs \cup {None}]
  BY DEF Watch, End, Poll, PollBaseline, Report, TypeOK
<1>4. reported' \subseteq VTs /\ told' \in BOOLEAN
  <2>1. CASE Report(w)
    <3>1. seen[w] \in VTs
      BY <2>1 DEF Report, TypeOK
    <3>2. CASE locked
      <4>1. reported' = reported \cup {seen[w]} /\ told' = (told \/ seen[w] = active)
        BY <2>1, <3>2 DEF Report, Recorded
      <4>2. told' \in BOOLEAN
        BY <4>1
      <4> QED
        BY <3>1, <4>1, <4>2 DEF TypeOK
    <3>3. CASE ~locked
      BY <2>1, <3>3 DEF Report, Recorded, TypeOK
    <3> QED
      BY <3>2, <3>3
  <2>2. CASE End(w) \/ Poll(w) \/ PollBaseline(w)
    BY <2>2 DEF End, Poll, PollBaseline, TypeOK, history
  <2> QED
    BY <2>1, <2>2 DEF Watch
<1>5. /\ life' \in [Watchers -> {"dead", "created", "loop", "report"}]
      /\ seen' \in [Watchers -> VTs \cup {None}]
      /\ \A x \in Watchers : life'[x] = "report" <=> seen'[x] # None
  <2>1. CASE End(w)
    <3>1. life[w] = "loop" /\ life' = [life EXCEPT ![w] = "dead"] /\ seen' = seen
      BY <2>1 DEF End
    <3> QED
      BY <3>1, LifeTypes DEF TypeOK
  <2>2. CASE Poll(w)
    <3>1. life' = [life EXCEPT ![w] = "report"] /\ seen' = [seen EXCEPT ![w] = active]
      BY <2>2 DEF Poll
    <3> QED
      BY <3>1, NoneApart DEF TypeOK
  <2>3. CASE PollBaseline(w)
    BY <2>3 DEF PollBaseline, TypeOK
  <2>4. CASE Report(w)
    <3>1. life' = [life EXCEPT ![w] = "loop"] /\ seen' = [seen EXCEPT ![w] = None]
      BY <2>4 DEF Report
    <3> QED
      BY <3>1, LifeTypes DEF TypeOK
  <2> QED
    BY <2>1, <2>2, <2>3, <2>4 DEF Watch
<1>6. TypeOK'
  BY <1>1, <1>2, <1>3, <1>4, <1>5 DEF TypeOK, daemon, shared
<1> QED
  BY <1>1, <1>6 DEF BaselineTaken, daemon, shared

\* A restart, whether or not the flag is on disk.
LEMMA RestartTypes ==
  ASSUME TypeOK, Restart
  PROVE  TypeOK' /\ BaselineTaken'
<1>1. locked' \in BOOLEAN
  BY DEF Restart, TypeOK
<1>2. Alive' = {}
  BY DEF Restart, Alive
<1>3. pc' \in [Threads -> {"start", "idle"}]
  BY DEF Restart
<1>4. /\ stop' = FALSE /\ thread' = None /\ baseline' = None
      /\ joining' = [t \in Threads |-> None]
      /\ life' = [w \in Watchers |-> "dead"]
      /\ last' = [w \in Watchers |-> None]
      /\ seen' = [w \in Watchers |-> None]
      /\ unflagged' = FALSE /\ overlapped' = FALSE /\ abandoned' = FALSE
      /\ reported' = {}
      /\ UNCHANGED <<active, told, began>>
  BY DEF Restart
<1>5. TypeOK'
  BY <1>1, <1>2, <1>3, <1>4 DEF TypeOK, Labels
<1> QED
  BY <1>3, <1>5 DEF BaselineTaken, Baselined

\* Every step keeps the types.
LEMMA NextTypes ==
  ASSUME TypeOK, BaselineTaken, [Next]_vars
  PROVE  TypeOK' /\ BaselineTaken'
<1>1. ASSUME NEW v \in VTs, Switch(v) PROVE TypeOK' /\ BaselineTaken'
  <2>1. /\ active' = v /\ told' = FALSE
        /\ UNCHANGED <<daemon, shared, watcher, reported, began, unflagged, overlapped,
                       abandoned>>
    BY <1>1 DEF Switch
  <2>2. Alive' = Alive
    BY <2>1 DEF Alive, watcher
  <2> QED
    BY <2>1, <2>2 DEF TypeOK, BaselineTaken, daemon, shared, watcher
<1>2. CASE UNCHANGED vars
  <2>1. Alive' = Alive
    BY <1>2 DEF Alive, vars, watcher
  <2> QED
    BY <1>2, <2>1 DEF TypeOK, BaselineTaken, vars, daemon, shared, watcher, history
<1>3. ASSUME NEW t \in Workers, EnterLockdown(t) \/ ClearLockdown(t)
      PROVE  TypeOK' /\ BaselineTaken'
  BY <1>3, OuterTypes DEF Threads
<1>4. ASSUME NEW t \in Threads, Step(t) \/ EnterSetFails(t) \/ StopTimesOut(t)
      PROVE  TypeOK' /\ BaselineTaken'
  BY <1>4, OuterTypes, StartTypes, StopTypes DEF Step
<1> QED
  BY <1>1, <1>2, <1>3, <1>4, WatchTypes, RestartTypes DEF Next
-----------------------------------------------------------------------------
(* One watcher. *)

\* The other threads are idle.
Alone(t) == \A u \in Threads \ {t} : pc[u] = "idle"

\* Whoever is in an operation is alone in it.
LEMMA BusyIsAlone ==
  ASSUME OneWatcher, NEW t \in Threads, pc[t] # "idle"
  PROVE  Alone(t)
BY DEF OneWatcher, OneOperation, Alone

\* What a step of an operation has to establish.
LEMMA OneMoves ==
  ASSUME TypeOK, NEW t \in Threads, Alone(t), NEW from, NEW to \in Labels, Goto(t, from, to),
         Stage(t)', to = "idle" => IF Watched' THEN Guarded' ELSE Unguarded'
  PROVE  OneWatcher'
<1>1. pc'[t] = to /\ \A u \in Threads \ {t} : pc'[u] = "idle"
  BY GotoTypes DEF Alone
<1>2. OneOperation'
  BY <1>1 DEF OneOperation
<1>3. (Idle => IF Watched THEN Guarded ELSE Unguarded)'
  BY <1>1 DEF Idle
<1>4. ASSUME NEW u \in Threads PROVE Stage(u)'
  BY <1>1 DEF Stage
<1> QED
  BY <1>2, <1>3, <1>4 DEF OneWatcher

\* A step that leaves threads, object and live watchers alone.
LEMMA NothingMoves ==
  ASSUME OneWatcher, UNCHANGED <<daemon, unflagged, stop, thread>>, Alive' = Alive,
         \A w \in Watchers : life'[w] = "created" <=> life[w] = "created"
  PROVE  OneWatcher'
<1>1. UNCHANGED <<locked, pc, joining, stop, thread>>
  BY DEF daemon
<1>2. (Guarded' <=> Guarded) /\ (Unguarded' <=> Unguarded) /\ (Watched' <=> Watched)
  BY <1>1 DEF Guarded, Unguarded, Watched
<1>3. OneOperation' /\ (Idle' <=> Idle)
  BY <1>1 DEF OneWatcher, OneOperation, Idle
<1>4. ASSUME NEW t \in Threads PROVE Stage(t)'
  <2>1. Stage(t)
    BY DEF OneWatcher
  <2> QED
    BY <1>1, <1>2, <2>1 DEF Stage
<1> QED
  BY <1>1, <1>2, <1>3, <1>4 DEF OneWatcher

\* There is never a second watcher, nor one the object does not know.
LEMMA AtMostTheThread ==
  ASSUME TypeOK, OneWatcher
  PROVE  Alive \subseteq {thread}
<1>1. CASE Idle
  BY <1>1 DEF OneWatcher, Guarded, Unguarded
<1>2. CASE ~Idle
  <2>1. PICK t \in Threads : pc[t] # "idle"
    BY <1>2 DEF Idle
  <2>2. Stage(t) /\ pc[t] \in Labels
    BY DEF OneWatcher, TypeOK
  <2> QED
    BY <2>1, <2>2 DEF Stage, Labels, Guarded, Unguarded
<1> QED
  BY <1>1, <1>2

\* An operation that begins is the only one, or has overlapped another.
LEMMA BeginKeepsOne ==
  ASSUME TypeOK, OneWatcher, Undisturbed', NEW t \in Workers,
         EnterLockdown(t) \/ ClearLockdown(t)
  PROVE  OneWatcher'
<1>1. /\ t \in Threads /\ Alone(t) /\ Idle
      /\ UNCHANGED <<active, locked, joining, shared, watcher, unflagged>>
  BY DEF EnterLockdown, ClearLockdown, Begin, Idle, Alone, Undisturbed, Threads
<1>2. Alive' = Alive /\ UNCHANGED <<stop, thread>>
  BY <1>1 DEF Alive, watcher, shared
<1>3. (Guarded' <=> Guarded) /\ (Unguarded' <=> Unguarded) /\ (Watched' <=> Watched)
  BY <1>1, <1>2 DEF Guarded, Unguarded, Watched
<1>4. CASE EnterLockdown(t)
  <2>1. ~locked /\ Goto(t, "idle", "enter_set")
    BY <1>4 DEF EnterLockdown, Begin
  <2>2. pc'[t] = "enter_set"
    BY <1>1, <2>1, GotoTypes DEF Labels
  <2>3. Stage(t)'
    BY <1>1, <1>3, <2>1, <2>2 DEF Stage, OneWatcher, Watched
  <2> QED
    BY <1>1, <2>1, <2>3, OneMoves DEF Labels
<1>5. CASE ClearLockdown(t)
  <2>1. locked /\ Goto(t, "idle", "clear_set")
    BY <1>5 DEF ClearLockdown, Begin
  <2>2. pc'[t] = "clear_set"
    BY <1>1, <2>1, GotoTypes DEF Labels
  <2>3. Stage(t)'
    BY <1>1, <1>3, <2>1, <2>2 DEF Stage, OneWatcher, Watched
  <2> QED
    BY <1>1, <2>1, <2>3, OneMoves DEF Labels
<1> QED
  BY <1>4, <1>5

\* The steps of the lockdown and of start().
LEMMA EnterKeepsOne ==
  ASSUME TypeOK, OneWatcher, NEW t \in Threads,
         \/ EnterSet(t) \/ EnterSetFails(t) \/ StartCheck(t) \/ StartBaseline(t)
         \/ StartClear(t) \/ StartCreate(t) \/ StartThread(t)
  PROVE  OneWatcher'
<1> USE DEF Labels
<1>1. CASE EnterSet(t)
  <2>1. Goto(t, "enter_set", "start") /\ Watched' /\ UNCHANGED <<thread, life>>
    BY <1>1 DEF EnterSet, shared, watcher, Watched
  <2>2. pc[t] = "enter_set" /\ pc'[t] = "start"
    BY <2>1, GotoTypes
  <2>3. Unguarded'
    BY <2>1, <2>2 DEF OneWatcher, Stage, Unguarded, Alive
  <2>4. Stage(t)'
    BY <2>1, <2>2, <2>3 DEF Stage, Watched
  <2> QED
    BY <2>1, <2>2, <2>4, BusyIsAlone, OneMoves
<1>2. CASE StartCheck(t)
  <2>1. UNCHANGED <<locked, unflagged, thread, life>> /\ pc[t] = "start"
    BY <1>2 DEF StartCheck, Goto, shared, watcher, history
  <2>2. Watched /\ Unguarded
    BY <2>1 DEF OneWatcher, Stage
  <2>3. Goto(t, "start", "start_baseline")
    BY <1>2, <2>2 DEF StartCheck, Unguarded
  <2>4. pc'[t] = "start_baseline" /\ Unguarded'
    BY <2>1, <2>2, <2>3, GotoTypes DEF Unguarded, Alive
  <2>5. Stage(t)'
    BY <2>1, <2>2, <2>4 DEF Stage, Watched
  <2> QED
    BY <2>1, <2>3, <2>5, BusyIsAlone, OneMoves
<1>3. CASE StartBaseline(t)
  <2>1. UNCHANGED <<locked, unflagged, thread, life>> /\ Goto(t, "start_baseline", "start_clear")
    BY <1>3 DEF StartBaseline, watcher
  <2>2. pc[t] = "start_baseline" /\ pc'[t] = "start_clear"
    BY <2>1, GotoTypes
  <2>3. Watched /\ Unguarded'
    BY <2>1, <2>2 DEF OneWatcher, Stage, Unguarded, Alive
  <2>4. Stage(t)'
    BY <2>1, <2>2, <2>3 DEF Stage, Watched
  <2> QED
    BY <2>1, <2>2, <2>4, BusyIsAlone, OneMoves
<1>4. CASE StartClear(t)
  <2>1. /\ UNCHANGED <<locked, unflagged, thread, life>> /\ stop' = FALSE
        /\ Goto(t, "start_clear", "start_create")
    BY <1>4 DEF StartClear, watcher, history
  <2>2. pc[t] = "start_clear" /\ pc'[t] = "start_create"
    BY <2>1, GotoTypes
  <2>3. Watched /\ Unguarded'
    BY <2>1, <2>2 DEF OneWatcher, Stage, Unguarded, Alive
  <2>4. Stage(t)'
    BY <2>1, <2>2, <2>3 DEF Stage, Watched
  <2> QED
    BY <2>1, <2>2, <2>4, BusyIsAlone, OneMoves
<1>5. CASE StartCreate(t)
  <2>1. UNCHANGED <<locked, unflagged, stop>> /\ Goto(t, "start_create", "start_thread")
    BY <1>5 DEF StartCreate, history
  <2>2. pc[t] = "start_create" /\ pc'[t] = "start_thread"
    BY <2>1, GotoTypes
  <2>3. PICK w \in Watchers : thread' = w /\ life' = [life EXCEPT ![w] = "created"]
    BY <1>5 DEF StartCreate, Free
  <2>4. Watched /\ ~stop /\ Alive = {}
    BY <2>2 DEF OneWatcher, Stage, Unguarded
  <2>5. thread' \in Watchers /\ life'[thread'] = "created" /\ Alive' = {}
    BY <2>3, <2>4 DEF TypeOK, Alive
  <2>6. Stage(t)'
    BY <2>1, <2>2, <2>4, <2>5 DEF Stage, Watched
  <2> QED
    BY <2>1, <2>2, <2>6, BusyIsAlone, OneMoves
<1>6. CASE StartThread(t)
  <2>1. UNCHANGED <<locked, unflagged, stop, thread>> /\ Goto(t, "start_thread", "idle")
    BY <1>6 DEF StartThread, shared, history
  <2>2. pc[t] = "start_thread" /\ pc'[t] = "idle"
    BY <2>1, GotoTypes
  <2>3. Watched /\ ~stop /\ thread \in Watchers /\ life[thread] = "created" /\ Alive = {}
    BY <2>2 DEF OneWatcher, Stage
  <2>4. Alive' = {thread}
    BY <1>6, <2>3 DEF StartThread, Alive
  <2>5. Watched' /\ Guarded'
    BY <2>1, <2>3, <2>4 DEF Guarded, Watched
  <2>6. Stage(t)'
    BY <2>2 DEF Stage, Watched
  <2> QED
    BY <2>1, <2>2, <2>5, <2>6, BusyIsAlone, OneMoves
<1>7. CASE EnterSetFails(t)
  <2>1. /\ Goto(t, "enter_set", "idle") /\ ~Watched' /\ UNCHANGED <<thread, life>>
    BY <1>7 DEF EnterSetFails, shared, watcher, Watched
  <2>2. pc[t] = "enter_set" /\ pc'[t] = "idle"
    BY <2>1, GotoTypes
  <2>3. Unguarded'
    BY <2>1, <2>2 DEF OneWatcher, Stage, Unguarded, Alive
  <2>4. Stage(t)'
    BY <2>2 DEF Stage
  <2> QED
    BY <2>1, <2>2, <2>3, <2>4, BusyIsAlone, OneMoves
<1> QED
  BY <1>1, <1>2, <1>3, <1>4, <1>5, <1>6, <1>7

\* The steps of the unlock and of stop().
LEMMA ClearKeepsOne ==
  ASSUME TypeOK, OneWatcher, NEW t \in Threads,
         ClearSet(t) \/ StopSet(t) \/ StopJoin(t) \/ StopDone(t)
  PROVE  OneWatcher'
<1> USE DEF Labels
<1>1. CASE ClearSet(t)
  <2>1. Goto(t, "clear_set", "stop") /\ locked' = FALSE /\ UNCHANGED <<stop, thread, life>>
    BY <1>1 DEF ClearSet, shared, watcher
  <2>2. pc[t] = "clear_set" /\ pc'[t] = "stop"
    BY <2>1, GotoTypes
  <2>3. Guarded' \/ Unguarded'
    BY <2>1, <2>2 DEF OneWatcher, Stage, Guarded, Unguarded, Alive
  <2>4. Stage(t)'
    BY <2>1, <2>2, <2>3 DEF Stage
  <2> QED
    BY <2>1, <2>2, <2>4, BusyIsAlone, OneMoves
<1>2. CASE StopSet(t)
  <2>1. UNCHANGED <<locked, thread, life>> /\ pc[t] = "stop"
    BY <1>2 DEF StopSet, Goto, watcher
  <2>2. ~locked /\ (Guarded \/ Unguarded)
    BY <2>1 DEF OneWatcher, Stage
  <2>3. CASE Guarded
    <3>1. thread \in Watchers /\ Alive = {thread}
      BY <2>3 DEF Guarded
    <3>2. Goto(t, "stop", "stop_join")
      BY <1>2, <3>1, NoneApart DEF StopSet
    <3>3. pc'[t] = "stop_join"
      BY <3>2, GotoTypes
    <3>4. life'[thread'] # "created" /\ Alive' = {thread'}
      BY <2>1, <3>1 DEF Alive
    <3>5. Stage(t)'
      BY <2>1, <2>2, <3>1, <3>3, <3>4 DEF Stage
    <3> QED
      BY <2>1, <3>2, <3>5, BusyIsAlone, OneMoves
  <2>4. CASE Unguarded
    <3>1. Goto(t, "stop", "idle")
      BY <1>2, <2>4 DEF StopSet, Unguarded
    <3>2. pc'[t] = "idle" /\ Unguarded'
      BY <2>1, <2>4, <3>1, GotoTypes DEF Unguarded, Alive
    <3>3. Stage(t)' /\ ~Watched'
      BY <2>1, <2>2, <3>2 DEF Stage, Watched
    <3> QED
      BY <2>1, <3>1, <3>2, <3>3, BusyIsAlone, OneMoves
  <2> QED
    BY <2>2, <2>3, <2>4
<1>3. CASE StopJoin(t)
  <2>1. UNCHANGED <<locked, thread, life>> /\ pc[t] = "stop_join"
    BY <1>3 DEF StopJoin, Goto, shared, watcher
  <2>2. ~locked /\ thread \in Watchers /\ Alive \subseteq {thread} /\ life[thread] # "created"
    BY <2>1 DEF OneWatcher, Stage
  <2>3. Goto(t, "stop_join", "stop_wait")
    BY <1>3, <2>2, NoneApart DEF StopJoin
  <2>4. pc'[t] = "stop_wait"
    BY <2>3, GotoTypes
  <2>5. joining'[t] = thread
    BY <1>3, <2>4 DEF StopJoin, TypeOK
  <2>6. Alive' = Alive
    BY <2>1 DEF Alive
  <2>7. Stage(t)'
    BY <2>1, <2>2, <2>4, <2>5, <2>6 DEF Stage
  <2> QED
    BY <2>1, <2>3, <2>7, BusyIsAlone, OneMoves
<1>4. CASE StopDone(t)
  <2>1. /\ Goto(t, "stop_wait", "idle") /\ joining[t] \notin Alive /\ thread' = None
        /\ UNCHANGED <<locked, life>>
    BY <1>4 DEF StopDone, watcher
  <2>2. pc[t] = "stop_wait" /\ pc'[t] = "idle"
    BY <2>1, GotoTypes
  <2>3. ~locked /\ Alive \subseteq {thread} /\ joining[t] = thread
    BY <2>2 DEF OneWatcher, Stage
  <2>4. ~locked' /\ Unguarded'
    BY <2>1, <2>3 DEF Unguarded, Alive
  <2>5. Stage(t)' /\ ~Watched'
    BY <2>2, <2>4 DEF Stage, Watched
  <2> QED
    BY <2>1, <2>2, <2>4, <2>5, BusyIsAlone, OneMoves
<1> QED
  BY <1>1, <1>2, <1>3, <1>4

\* A watcher ends only while stop() waits for it.
LEMMA WatchKeepsOne ==
  ASSUME TypeOK, OneWatcher, NEW w \in Watchers, Watch(w)
  PROVE  OneWatcher'
<1>1. UNCHANGED <<daemon, unflagged, stop, thread>>
  BY DEF Watch, End, Poll, PollBaseline, Report, shared, history
<1>2. w \in Alive
  BY DEF Watch, End, Poll, PollBaseline, Report, Alive
<1>3. CASE Poll(w) \/ PollBaseline(w) \/ Report(w)
  <2>1. /\ w \in Alive' /\ life'[w] # "created" /\ life[w] # "created"
        /\ \A x \in Watchers \ {w} : life'[x] = life[x]
    BY <1>2, <1>3 DEF Poll, PollBaseline, Report, Alive, TypeOK
  <2>2. Alive' = Alive /\ \A x \in Watchers : life'[x] = "created" <=> life[x] = "created"
    BY <1>2, <2>1 DEF Alive
  <2> QED
    BY <1>1, <2>2, NothingMoves
<1>4. CASE End(w)
  <2>1. stop /\ life' = [life EXCEPT ![w] = "dead"]
    BY <1>4 DEF End
  <2>2. /\ life'[w] = "dead" /\ \A x \in Watchers \ {w} : life'[x] = life[x]
        /\ Alive' = Alive \ {w}
    BY <2>1 DEF Alive, TypeOK
  <2>3. UNCHANGED <<locked, pc, joining>>
    BY <1>1 DEF daemon
  <2>4. ~Guarded /\ Alive # {}
    BY <1>2, <2>1 DEF Guarded
  <2>5. ~Idle /\ ~Idle'
    BY <2>3, <2>4 DEF OneWatcher, Unguarded, Idle
  <2>6. OneOperation'
    BY <2>3 DEF OneWatcher, OneOperation
  <2>7. ASSUME NEW t \in Threads PROVE Stage(t)'
    <3>1. Stage(t) /\ pc[t] \in Labels
      BY DEF OneWatcher, TypeOK
    <3>2. pc[t] \in {"idle", "stop_join", "stop_wait"}
      BY <2>4, <3>1 DEF Stage, Labels, Unguarded
    <3>3. pc[t] # "idle" => /\ ~locked /\ thread \in Watchers
                            /\ Alive' \subseteq {thread} /\ life'[thread] # "created"
      BY <2>2, <3>1, <3>2 DEF Stage
    <3>4. pc[t] = "stop_wait" => joining[t] = thread
      BY <3>1 DEF Stage
    <3> QED
      BY <1>1, <2>3, <3>2, <3>3, <3>4 DEF Stage
  <2> QED
    BY <2>5, <2>6, <2>7 DEF OneWatcher
<1> QED
  BY <1>3, <1>4 DEF Watch

\* The process that comes after a crash restores the lockdown by itself.
LEMMA RestartKeepsOne ==
  ASSUME Restart
  PROVE  OneWatcher'
<1>1. Unguarded'
  BY DEF Restart, Unguarded, Alive
<1>2. pc' = [t \in Threads |-> IF t = Main /\ locked' THEN "start" ELSE "idle"]
  BY DEF Restart
<1>3. OneOperation'
  BY <1>2 DEF OneOperation
<1>4. (Idle' => ~locked') /\ ~unflagged'
  BY <1>2 DEF Idle, Threads, Restart
<1>5. \A t \in Threads : Stage(t)'
  BY <1>1, <1>2, <1>4 DEF Stage, Watched
<1> QED
  BY <1>1, <1>3, <1>4, <1>5 DEF OneWatcher, Watched

\* What overlaps or is abandoned stays so until a restart.
LEMMA DisturbedStays ==
  ASSUME [Next]_vars, ~Restart, Undisturbed'
  PROVE  Undisturbed
<1>1. ASSUME NEW t \in Threads, Step(t) PROVE Undisturbed
  <2>1. UNCHANGED <<overlapped, abandoned>>
    <3>1. CASE EnterSet(t) \/ ClearSet(t)
      BY <3>1 DEF EnterSet, ClearSet
    <3>2. CASE StartCheck(t) \/ StartBaseline(t) \/ StartClear(t)
      BY <3>2 DEF StartCheck, StartBaseline, StartClear, history
    <3>3. CASE StartCreate(t) \/ StartThread(t)
      BY <3>3 DEF StartCreate, StartThread, history
    <3>4. CASE StopSet(t) \/ StopJoin(t) \/ StopDone(t)
      BY <3>4 DEF StopSet, StopJoin, StopDone, history
    <3> QED
      BY <1>1, <3>1, <3>2, <3>3, <3>4 DEF Step
  <2> QED
    BY <2>1 DEF Undisturbed
<1>2. ASSUME NEW t \in Threads, EnterSetFails(t) \/ StopTimesOut(t) PROVE Undisturbed
  BY <1>2 DEF EnterSetFails, StopTimesOut, Undisturbed
<1>3. ASSUME NEW w \in Watchers, Watch(w) PROVE Undisturbed
  BY <1>3 DEF Undisturbed, Watch, End, Poll, PollBaseline, Report, history
<1>4. ASSUME NEW t \in Workers, EnterLockdown(t) \/ ClearLockdown(t) PROVE Undisturbed
  <2>1. overlapped' = (overlapped \/ ~Idle) /\ abandoned' = abandoned
    BY <1>4 DEF EnterLockdown, ClearLockdown, Begin
  <2> QED
    BY <2>1 DEF Undisturbed
<1>5. ASSUME NEW v \in VTs, Switch(v) PROVE Undisturbed
  BY <1>5 DEF Undisturbed, Switch
<1>6. CASE UNCHANGED vars
  BY <1>6 DEF Undisturbed, vars, history
<1> QED
  BY <1>1, <1>2, <1>3, <1>4, <1>5, <1>6 DEF Next

\* Every step keeps one watcher, if it leaves the process undisturbed.
LEMMA NextKeepsOne ==
  ASSUME TypeOK, Undisturbed => OneWatcher, [Next]_vars, Undisturbed'
  PROVE  OneWatcher'
<1>1. CASE Restart
  BY <1>1, RestartKeepsOne
<1>2. CASE ~Restart
  <2>1. OneWatcher
    BY <1>2, DisturbedStays
  <2>2. ASSUME NEW t \in Threads, Step(t) \/ EnterSetFails(t) PROVE OneWatcher'
    BY <2>1, <2>2, EnterKeepsOne, ClearKeepsOne DEF Step
  <2>3. ASSUME NEW t \in Threads PROVE ~StopTimesOut(t)
    BY DEF StopTimesOut, Undisturbed
  <2>4. CASE UNCHANGED vars \/ \E v \in VTs : Switch(v)
    <3>1. UNCHANGED <<daemon, unflagged, stop, thread, life>>
      BY <2>4 DEF vars, Switch, shared, watcher, history
    <3>2. Alive' = Alive
      BY <3>1 DEF Alive
    <3> QED
      BY <2>1, <3>1, <3>2, NothingMoves
  <2> QED
    BY <1>2, <2>1, <2>2, <2>3, <2>4, BeginKeepsOne, WatchKeepsOne DEF Next
<1> QED
  BY <1>1, <1>2
-----------------------------------------------------------------------------
(* What has been reported. *)

\* A step that neither reports nor starts, and leaves live watchers alone.
LEMMA StillRemembered ==
  ASSUME Remembered, UNCHANGED <<active, baseline, last>>, Alive' \subseteq Alive,
         \A w \in Alive' : life'[w] = life[w],
         \A t \in Threads : pc'[t] \in Baselined => \E u \in Threads : pc[u] \in Baselined
  PROVE  Remembered'
BY DEF Remembered

\* The steps of start().
LEMMA StartRemembers ==
  ASSUME TypeOK, OneWatcher, Remembered, NEW t \in Threads,
         StartBaseline(t) \/ StartClear(t) \/ StartCreate(t) \/ StartThread(t)
  PROVE  Remembered'
<1> USE DEF Labels
<1>1. CASE StartBaseline(t)
  <2>1. pc[t] = "start_baseline" /\ baseline' = active /\ UNCHANGED <<active, life>>
    BY <1>1 DEF StartBaseline, Goto, watcher
  <2>2. Alive' = {}
    BY <2>1 DEF OneWatcher, Stage, Unguarded, Alive
  <2> QED
    BY <2>1, <2>2 DEF Remembered
<1>2. CASE StartClear(t)
  <2>1. /\ pc[t] = "start_clear" /\ \A u \in Threads \ {t} : pc'[u] = pc[u]
        /\ UNCHANGED <<active, baseline, last, life>>
    BY <1>2, GotoTypes DEF StartClear, watcher, shared
  <2>2. Alive' = Alive
    BY <2>1 DEF Alive
  <2> QED
    BY <2>1, <2>2, StillRemembered DEF Baselined
<1>3. CASE StartCreate(t)
  <2>1. /\ pc[t] = "start_create" /\ \A u \in Threads \ {t} : pc'[u] = pc[u]
        /\ UNCHANGED <<active, baseline, last>>
    BY <1>3, GotoTypes DEF StartCreate
  <2>2. Alive = {}
    BY <2>1 DEF OneWatcher, Stage, Unguarded
  <2>3. Alive' = {}
    BY <1>3, <2>2 DEF StartCreate, Free, Alive, TypeOK
  <2> QED
    BY <2>1, <2>3, StillRemembered DEF Baselined
<1>4. CASE StartThread(t)
  <2>1. /\ pc[t] = "start_thread" /\ \A u \in Threads \ {t} : pc'[u] = pc[u]
        /\ pc'[t] = "idle" /\ UNCHANGED <<active, baseline>>
    BY <1>4, GotoTypes DEF StartThread, shared
  <2>2. thread \in Watchers /\ life[thread] = "created" /\ Alive = {}
    BY <2>1 DEF OneWatcher, Stage
  <2>3. Alive' = {thread} /\ life'[thread] = "loop"
    BY <1>4, <2>2 DEF StartThread, Alive
  <2>4. baseline = active
    BY <2>1 DEF Remembered, Baselined
  <2> QED
    BY <2>1, <2>3, <2>4 DEF Remembered
<1> QED
  BY <1>1, <1>2, <1>3, <1>4

\* The other steps of the daemon's threads.
LEMMA OthersRemember ==
  ASSUME TypeOK, Remembered, NEW t \in Threads,
         \/ EnterLockdown(t) \/ ClearLockdown(t) \/ EnterSet(t) \/ EnterSetFails(t)
         \/ ClearSet(t) \/ StartCheck(t) \/ StopSet(t) \/ StopJoin(t) \/ StopDone(t)
  PROVE  Remembered'
<1>1. UNCHANGED <<active, baseline, last, life>>
  <2>1. CASE EnterLockdown(t) \/ ClearLockdown(t)
    BY <2>1 DEF EnterLockdown, ClearLockdown, Begin, shared, watcher
  <2>2. CASE EnterSet(t) \/ EnterSetFails(t) \/ ClearSet(t) \/ StartCheck(t)
    BY <2>2 DEF EnterSet, EnterSetFails, ClearSet, StartCheck, shared, watcher
  <2>3. CASE StopSet(t) \/ StopJoin(t) \/ StopDone(t)
    BY <2>3 DEF StopSet, StopJoin, StopDone, shared, watcher
  <2> QED
    BY <2>1, <2>2, <2>3
<1>2. \E from, to : to \in Labels \ Baselined /\ Goto(t, from, to)
  <2> USE DEF Labels, Baselined
  <2>1. CASE EnterLockdown(t)
    BY <2>1 DEF EnterLockdown, Begin
  <2>2. CASE ClearLockdown(t)
    BY <2>2 DEF ClearLockdown, Begin
  <2>3. CASE EnterSet(t) \/ EnterSetFails(t)
    BY <2>3 DEF EnterSet, EnterSetFails
  <2>4. CASE ClearSet(t)
    BY <2>4 DEF ClearSet
  <2>5. CASE StartCheck(t)
    BY <2>5 DEF StartCheck
  <2>6. CASE StopSet(t)
    BY <2>6 DEF StopSet
  <2>7. CASE StopJoin(t)
    BY <2>7 DEF StopJoin
  <2>8. CASE StopDone(t)
    BY <2>8 DEF StopDone
  <2> QED
    BY <2>1, <2>2, <2>3, <2>4, <2>5, <2>6, <2>7, <2>8
<1>3. pc'[t] \notin Baselined /\ \A u \in Threads \ {t} : pc'[u] = pc[u]
  BY <1>2, GotoTypes
<1>4. Alive' = Alive
  BY <1>1 DEF Alive
<1> QED
  BY <1>1, <1>3, <1>4, StillRemembered

\* A watcher's steps; only a report can make told true.
LEMMA WatchRemembers ==
  ASSUME TypeOK, OneWatcher, told => Remembered, NEW w \in Watchers, Watch(w), told'
  PROVE  Remembered'
<1>1. UNCHANGED <<active, pc, baseline>>
  BY DEF Watch, End, Poll, PollBaseline, Report, daemon, shared
<1>2. CASE End(w)
  <2>1. life' = [life EXCEPT ![w] = "dead"] /\ last' = [last EXCEPT ![w] = None] /\ told
    BY <1>2 DEF End, history
  <2>2. /\ \A x \in Watchers \ {w} : life'[x] = life[x] /\ last'[x] = last[x]
        /\ life'[w] = "dead"
    BY <2>1 DEF TypeOK
  <2>3. \A x \in Alive' : x \in Alive /\ life'[x] = life[x] /\ last'[x] = last[x]
    BY <2>2 DEF Alive
  <2> QED
    BY <1>1, <2>1, <2>3 DEF Remembered
<1>3. CASE Poll(w)
  <2>1. told /\ w \in Alive /\ active \notin {last[w], baseline}
    BY <1>3 DEF Poll, history, Alive
  <2> QED
    BY <2>1 DEF Remembered
<1>4. CASE PollBaseline(w)
  <2>1. told /\ active = baseline /\ life' = life
    BY <1>4 DEF PollBaseline, history
  <2>2. Alive' = Alive
    BY <2>1 DEF Alive
  <2> QED
    BY <1>1, <2>1, <2>2 DEF Remembered
<1>5. CASE Report(w)
  <2>1. /\ life[w] = "report" /\ w \in Alive
        /\ life' = [life EXCEPT ![w] = "loop"] /\ last' = [last EXCEPT ![w] = seen[w]]
    BY <1>5 DEF Report, Alive
  <2>2. ~told
    BY <2>1 DEF Remembered
  <2>3. seen[w] = active
    BY <1>5, <2>2 DEF Report, Recorded
  <2>4. Alive = {w}
    BY <2>1, AtMostTheThread
  <2>5. Alive' = {w} /\ life'[w] = "loop" /\ last'[w] = active
    BY <2>1, <2>3, <2>4 DEF Alive, TypeOK
  <2>6. ASSUME NEW t \in Threads PROVE pc[t] \notin Baselined
    <3>1. Stage(t)
      BY DEF OneWatcher
    <3> QED
      BY <2>4, <3>1 DEF Stage, Unguarded, Baselined
  <2> QED
    BY <1>1, <2>5, <2>6 DEF Remembered
<1> QED
  BY <1>2, <1>3, <1>4, <1>5 DEF Watch

\* Every step remembers what has been reported.
LEMMA NextRemembers ==
  ASSUME TypeOK, Undisturbed => OneWatcher, Undisturbed /\ told => Remembered,
         [Next]_vars, Undisturbed', told'
  PROVE  Remembered'
<1>1. CASE Restart
  <2>1. Alive' = {} /\ \A t \in Threads : pc'[t] \notin Baselined
    BY <1>1 DEF Restart, Alive, Baselined
  <2> QED
    BY <2>1 DEF Remembered
<1>2. CASE ~Restart
  <2>1. OneWatcher
    BY <1>2, DisturbedStays
  <2>2. told => Remembered
    BY <1>2, DisturbedStays
  <2>3. ASSUME NEW t \in Threads,
               \/ t \in Workers /\ (EnterLockdown(t) \/ ClearLockdown(t))
               \/ Step(t) \/ EnterSetFails(t)
        PROVE  Remembered'
    <3>1. told
      <4>1. CASE EnterLockdown(t) \/ ClearLockdown(t)
        BY <4>1 DEF EnterLockdown, ClearLockdown, Begin
      <4>2. CASE EnterSet(t) \/ EnterSetFails(t) \/ ClearSet(t)
        BY <4>2 DEF EnterSet, EnterSetFails, ClearSet
      <4>3. CASE StartCheck(t) \/ StartBaseline(t) \/ StartClear(t)
        BY <4>3 DEF StartCheck, StartBaseline, StartClear, history
      <4>4. CASE StartCreate(t) \/ StartThread(t)
        BY <4>4 DEF StartCreate, StartThread, history
      <4>5. CASE StopSet(t) \/ StopJoin(t) \/ StopDone(t)
        BY <4>5 DEF StopSet, StopJoin, StopDone, history
      <4> QED
        BY <2>3, <4>1, <4>2, <4>3, <4>4, <4>5 DEF Step
    <3> QED
      BY <2>1, <2>2, <2>3, <3>1, StartRemembers, OthersRemember DEF Step
  <2>4. ASSUME NEW t \in Threads PROVE ~StopTimesOut(t)
    BY DEF StopTimesOut, Undisturbed
  <2>5. ASSUME NEW v \in VTs PROVE ~Switch(v)
    BY DEF Switch
  <2>6. CASE UNCHANGED vars
    <3>1. UNCHANGED <<active, baseline, last, life, pc, told>>
      BY <2>6 DEF vars, daemon, shared, watcher, history
    <3>2. Alive' = Alive
      BY <3>1 DEF Alive
    <3> QED
      BY <2>2, <3>1, <3>2, StillRemembered
  <2> QED
    BY <1>2, <2>1, <2>2, <2>3, <2>4, <2>5, <2>6, WatchRemembers DEF Next, Threads
<1> QED
  BY <1>1, <1>2

-----------------------------------------------------------------------------
(* The theorems. *)

\* Every step keeps the invariant.
LEMMA WatchNextInv == WatchInv /\ [Next]_vars => WatchInv'
<1> SUFFICES ASSUME WatchInv, [Next]_vars PROVE WatchInv'
  OBVIOUS
<1>1. TypeOK' /\ BaselineTaken'
  BY NextTypes DEF WatchInv
<1>2. Undisturbed' => OneWatcher'
  BY NextKeepsOne DEF WatchInv
<1>3. Undisturbed' /\ told' => Remembered'
  BY NextRemembers DEF WatchInv
<1> QED
  BY <1>1, <1>2, <1>3 DEF WatchInv

\* The invariant holds in every reachable state.
THEOREM WatchInductive == Spec => []WatchInv
BY WatchInitInv, WatchNextInv, PTL DEF Spec

\* Every variable has its type; whoever watches has a baseline.
THEOREM WatchTypeCorrect == Spec => []TypeOK
<1>1. WatchInv => TypeOK
  BY DEF WatchInv
<1> QED
  BY <1>1, WatchInductive, PTL

\* WatchedIffLocked: between operations the console has one watcher if the system
\* is locked and its flags were written, and none otherwise, over any number of
\* lockdowns and restarts (tty_lockdown.py, start and stop; daemon.py 229-242).
THEOREM LockdownIsWatched == Spec => []WatchedIffLocked
<1>1. WatchInv => WatchedIffLocked
  <2> SUFFICES ASSUME WatchInv, ~overlapped, ~abandoned, Idle
               PROVE  Cardinality(Alive) = IF Watched THEN 1 ELSE 0
    BY DEF WatchedIffLocked, Watched
  <2>1. IF Watched THEN Guarded ELSE Unguarded
    BY DEF WatchInv, OneWatcher, Undisturbed
  <2>2. CASE Watched
    BY <2>1, <2>2, FS_Singleton DEF Guarded
  <2>3. CASE ~Watched
    BY <2>1, <2>3, FS_EmptySet DEF Unguarded
  <2> QED
    BY <2>2, <2>3
<1> QED
  BY <1>1, WatchInductive, PTL

\* At every moment of an operation too there is at most one, unless an earlier
\* one was abandoned.
THEOREM OneWatcherAtATime == Spec => [](Undisturbed => Cardinality(Alive) <= 1)
<1>1. WatchInv => (Undisturbed => Cardinality(Alive) <= 1)
  <2> SUFFICES ASSUME WatchInv, Undisturbed PROVE Cardinality(Alive) <= 1
    OBVIOUS
  <2>1. Alive = {} \/ Alive = {thread}
    BY AtMostTheThread DEF WatchInv
  <2>2. Cardinality({}) = 0 /\ Cardinality({thread}) = 1
    BY FS_EmptySet, FS_Singleton
  <2> QED
    BY <2>1, <2>2
<1> QED
  BY <1>1, WatchInductive, PTL

\* ReportedOnce: a switch is not reported again while the console stays where it
\* is, whoever watches it by then (tty_lockdown.py, _run and last_reported).
THEOREM SwitchReportedOnce == Spec => ReportedOnce
<1>1. ASSUME WatchInv, ~overlapped /\ ~abandoned /\ told, NEW w \in Watchers
      PROVE  Report(w) /\ locked => seen[w] # active
  <2>1. Remembered
    BY <1>1 DEF WatchInv, Undisturbed
  <2>2. life[w] = "report" => w \in Alive
    BY DEF Alive
  <2> QED
    BY <2>1, <2>2 DEF Report, Remembered
<1>2. WatchInv /\ [Next]_vars =>
        [~overlapped /\ ~abandoned /\ told =>
           \A w \in Watchers : Report(w) /\ locked => seen[w] # active]_vars
  BY <1>1
<1> QED
  BY <1>2, WatchInductive, PTL DEF Spec, ReportedOnce

(***************************************************************************)
(* Part 2: the dialog                                                      *)
(***************************************************************************)

\* A dialog is open over the overlay it was opened from.
OpenedFromOverlay == Asking /\ ~unsettled => overlay

DialogInv == DialogTypeOK /\ OverlayHasKeyboard /\ OpenedFromOverlay

\* The initial state satisfies the invariant.
LEMMA DialogInitInv == DialogInit => DialogInv
<1> SUFFICES ASSUME DialogInit PROVE DialogInv
  OBVIOUS
<1>1. attempts \in Seq(Kinds) /\ Len(attempts) <= MaxMessages
  BY MaxMessagesIsNat DEF DialogInit
<1>2. inbox \in Seq(Messages) /\ Len(inbox) <= MaxMessages
  BY MaxMessagesIsNat DEF DialogInit
<1> QED
  BY <1>1, <1>2 DEF DialogInit, DialogInv, DialogTypeOK, OverlayHasKeyboard,
     OpenedFromOverlay, Asking

\* A message that is sent fits the inbox.
LEMMA SendTypes ==
  ASSUME DialogTypeOK, Room, NEW message \in Messages, Send(message)
  PROVE  inbox' \in Seq(Messages) /\ Len(inbox') <= MaxMessages
<1>1. inbox \in Seq(Messages) /\ Len(inbox) + 1 <= MaxMessages
  BY MaxMessagesIsNat DEF DialogTypeOK, Room
<1> QED
  BY <1>1, MaxMessagesIsNat DEF Send

\* The daemon's steps change nothing on the screen.
LEMMA DaemonKeeps ==
  ASSUME DialogInv, Insert \/ UnlockKey \/ Answer \/ ConnectionLost
  PROVE  DialogInv'
<1> USE DEF DialogInv, screen, service
<1>1. UNCHANGED screen
  BY DEF Insert, UnlockKey, Answer, Accept, Deny, HandlerRaises, ConnectionLost
<1>2. OverlayHasKeyboard' /\ OpenedFromOverlay'
  BY <1>1 DEF OverlayHasKeyboard, OpenedFromOverlay, Asking
<1>3. CASE Insert
  <2>1. inbox' \in Seq(Messages) /\ Len(inbox') <= MaxMessages
    <3>1. CASE Send("lockdown_enter")
      BY <1>3, <3>1, SendTypes DEF Insert, Messages
    <3> QED
      BY <1>3, <3>1 DEF Insert, DialogTypeOK
  <2>2. {lockdown', unsaid'} \subseteq BOOLEAN /\ UNCHANGED <<code, attempts, connected>>
    BY <1>3 DEF Insert, DialogTypeOK
  <2> QED
    BY <1>1, <1>2, <2>1, <2>2 DEF DialogTypeOK
<1>4. CASE UnlockKey
  <2>1. inbox' \in Seq(Messages) /\ Len(inbox') <= MaxMessages
    <3>1. CASE Send("lockdown_clear")
      BY <1>4, <3>1, SendTypes DEF UnlockKey, Messages
    <3> QED
      BY <1>4, <3>1 DEF UnlockKey, DialogTypeOK
  <2>2. {lockdown', unsaid'} \subseteq BOOLEAN /\ UNCHANGED <<code, attempts, connected>>
    BY <1>4 DEF UnlockKey, DialogTypeOK
  <2> QED
    BY <1>1, <1>2, <2>1, <2>2 DEF DialogTypeOK
<1>5. CASE Accept
  <2>1. inbox' \in Seq(Messages) /\ Len(inbox') <= MaxMessages
    <3>1. CASE lockdown
      <4>1. PICK m \in {"clear_warn", "lockdown_clear"} : Send(m)
        BY <1>5, <3>1 DEF Accept
      <4> QED
        BY <1>5, <4>1, SendTypes DEF Accept, Messages
    <3>2. CASE ~lockdown
      BY <1>5, <3>2 DEF Accept, DialogTypeOK
    <3> QED
      BY <3>1, <3>2
  <2>2. attempts' \in Seq(Kinds) /\ Len(attempts') <= MaxMessages
    BY <1>5, MaxMessagesIsNat DEF Accept, DialogTypeOK
  <2>3. {code', lockdown', unsaid'} \subseteq BOOLEAN /\ connected' = connected
    BY <1>5 DEF Accept, DialogTypeOK
  <2> QED
    BY <1>1, <1>2, <2>1, <2>2, <2>3 DEF DialogTypeOK
<1>6. CASE Deny
  <2>1. inbox' \in Seq(Messages) /\ Len(inbox') <= MaxMessages
    BY <1>6, SendTypes DEF Deny, Messages
  <2>2. attempts' \in Seq(Kinds) /\ Len(attempts') <= MaxMessages
    BY <1>6, MaxMessagesIsNat DEF Deny, DialogTypeOK
  <2> QED
    BY <1>1, <1>2, <1>6, <2>1, <2>2 DEF Deny, DialogTypeOK
<1>7. CASE ConnectionLost
  <2>1. attempts' \in Seq(Kinds) /\ Len(attempts') <= MaxMessages
    BY <1>7, MaxMessagesIsNat DEF ConnectionLost
  <2>2. {lockdown', unsaid', connected'} \subseteq BOOLEAN /\ UNCHANGED <<code, inbox>>
    BY <1>7 DEF ConnectionLost, DialogTypeOK
  <2> QED
    BY <1>1, <1>2, <2>1, <2>2 DEF DialogTypeOK
<1>8. CASE HandlerRaises
  <2>1. inbox' \in Seq(Messages) /\ Len(inbox') <= MaxMessages
    BY <1>8, SendTypes DEF HandlerRaises, Messages
  <2>2. attempts' \in Seq(Kinds) /\ Len(attempts') <= MaxMessages
    BY <1>8, MaxMessagesIsNat DEF HandlerRaises, DialogTypeOK
  <2>3. {code', lockdown', unsaid'} \subseteq BOOLEAN /\ connected' = connected
    BY <1>8 DEF HandlerRaises, DialogTypeOK
  <2> QED
    BY <1>1, <1>2, <2>1, <2>2, <2>3 DEF DialogTypeOK
<1> QED
  BY <1>3, <1>4, <1>5, <1>6, <1>7, <1>8 DEF Answer

\* A dialog that opens lets the keyboard go; one that closes grabs it again.
LEMMA DialogKeeps ==
  ASSUME DialogInv,
         \/ \E kind \in Kinds : OpenDialog(kind)
         \/ \E submit \in BOOLEAN : CloseDialog(submit)
         \/ CloseWarning
  PROVE  DialogInv'
<1> USE DEF DialogInv, service, link
<1>1. ASSUME NEW kind \in Kinds, OpenDialog(kind) PROVE DialogInv'
  BY <1>1 DEF OpenDialog, DialogTypeOK, OverlayHasKeyboard, OpenedFromOverlay, Asking, Kinds
<1>2. ASSUME NEW submit \in BOOLEAN, CloseDialog(submit) PROVE DialogInv'
  <2>1. attempts' \in Seq(Kinds) /\ Len(attempts') <= MaxMessages
    <3>1. CASE submit /\ connected
      <4>1. dialog \in Kinds /\ attempts \in Seq(Kinds) /\ Len(attempts) < MaxMessages
        BY <1>2, <3>1 DEF CloseDialog, DialogTypeOK, Asking
      <4>2. attempts' = Append(attempts, dialog)
        BY <1>2, <3>1 DEF CloseDialog
      <4> QED
        BY <4>1, <4>2, MaxMessagesIsNat
    <3>2. CASE ~(submit /\ connected)
      BY <1>2, <3>2 DEF CloseDialog, DialogTypeOK
    <3> QED
      BY <3>1, <3>2
  <2>2. /\ UNCHANGED <<lockdown, code, unsaid, inbox, connected, overlay, window, warning, unsettled>>
        /\ Asking /\ dialog' = "none" /\ grabbed' = TRUE
    BY <1>2 DEF CloseDialog, Regrab
  <2>3. error' \in BOOLEAN
    BY <1>2 DEF CloseDialog, DialogTypeOK
  <2>4. DialogTypeOK'
    BY <2>1, <2>2, <2>3 DEF DialogTypeOK
  <2> QED
    BY <2>2, <2>4 DEF OverlayHasKeyboard, OpenedFromOverlay, Asking
<1>3. CASE CloseWarning
  BY <1>3 DEF CloseWarning, DialogTypeOK, OverlayHasKeyboard, OpenedFromOverlay, Asking
<1> QED
  BY <1>1, <1>2, <1>3

\* The overlay is shown with the keyboard and hidden without it.
LEMMA ScreenKeeps ==
  ASSUME DialogTypeOK, inbox' \in Seq(Messages), Len(inbox') <= MaxMessages, ShowFor \/ HideOverlay,
         UNCHANGED <<service, attempts, dialog>>, connected' \in BOOLEAN, warning' \in BOOLEAN,
         window' \in BOOLEAN, ShowFor => ~window'
  PROVE  DialogInv'
<1>1. OverlayHasKeyboard' /\ OpenedFromOverlay'
  BY DEF ShowFor, HideOverlay, OverlayHasKeyboard, OpenedFromOverlay, Asking
<1>2. {overlay', grabbed', error', unsettled'} \subseteq BOOLEAN
  BY DEF ShowFor, HideOverlay, DialogTypeOK, Asking
<1>3. ~(overlay' /\ window')
  BY DEF ShowFor, HideOverlay
<1> QED
  BY <1>1, <1>2, <1>3 DEF DialogInv, DialogTypeOK, service

\* The main window's slots.
LEMMA WindowKeeps ==
  ASSUME DialogInv, OnDaemonEvent \/ Refresh
  PROVE  DialogInv'
<1> USE DEF DialogInv
<1>1. CASE OnDaemonEvent
  <2>1. inbox' \in Seq(Messages) /\ Len(inbox') <= MaxMessages
    <3>1. inbox # <<>> /\ inbox' = Tail(inbox)
      BY <1>1 DEF OnDaemonEvent, OnLocked, OnClear, OnStatusUnlocked, OnDenied, OnUntyped, Take
    <3> QED
      BY <3>1, MaxMessagesIsNat DEF DialogTypeOK
  <2>2. CASE OnLocked
    BY <2>1, <2>2, ScreenKeeps DEF OnLocked, DialogTypeOK
  <2>3. CASE OnClear
    <3>1. warning' \in BOOLEAN /\ HideOverlay /\ ~ShowFor /\ window' = TRUE
      BY <2>3 DEF OnClear, DialogTypeOK, HideOverlay, ShowFor
    <3> QED
      BY <2>1, <2>3, <3>1, ScreenKeeps DEF OnClear, DialogTypeOK
  <2>4. CASE OnStatusUnlocked /\ overlay
    <3>1. HideOverlay /\ ~ShowFor /\ window' = TRUE
      BY <2>4 DEF OnStatusUnlocked, HideOverlay, ShowFor
    <3> QED
      BY <2>1, <2>4, <3>1, ScreenKeeps DEF OnStatusUnlocked, DialogTypeOK
  <2>5. CASE OnStatusUnlocked /\ ~overlay
    BY <2>1, <2>5 DEF OnStatusUnlocked, DialogTypeOK, OverlayHasKeyboard, OpenedFromOverlay, Asking,
       service
  <2>6. CASE OnDenied
    BY <2>1, <2>6 DEF OnDenied, DialogTypeOK, OverlayHasKeyboard, OpenedFromOverlay, Asking, service
  <2>7. CASE OnUntyped
    BY <2>1, <2>7 DEF OnUntyped, DialogTypeOK, OverlayHasKeyboard, OpenedFromOverlay, Asking,
       service, screen
  <2> QED
    BY <1>1, <2>2, <2>3, <2>4, <2>5, <2>6, <2>7 DEF OnDaemonEvent
<1>2. CASE Refresh
  <2>1. inbox' \in Seq(Messages) /\ Len(inbox') <= MaxMessages /\ connected' \in BOOLEAN
    <3>1. CASE UNCHANGED <<inbox, connected>>
      BY <3>1 DEF DialogTypeOK
    <3>2. CASE ~UNCHANGED <<inbox, connected>>
      <4>1. PICK m \in {"status_locked", "status_unlocked"} : inbox' = Append(inbox, m)
        BY <1>2, <3>2 DEF Refresh
      <4>2. inbox \in Seq(Messages) /\ Len(inbox) + 1 <= MaxMessages /\ m \in Messages
        BY <1>2, MaxMessagesIsNat DEF Refresh, Room, DialogTypeOK, Messages
      <4>3. connected' = TRUE
        BY <1>2, <3>2 DEF Refresh
      <4> QED
        BY <4>1, <4>2, <4>3, MaxMessagesIsNat
    <3> QED
      BY <3>1, <3>2
  <2>2. CASE overlay
    <3>1. HideOverlay /\ ~ShowFor
      BY <1>2, <2>2 DEF Refresh, HideOverlay, ShowFor
    <3> QED
      BY <1>2, <2>1, <3>1, ScreenKeeps DEF Refresh, DialogTypeOK
  <2>3. CASE ~overlay
    BY <1>2, <2>1, <2>3 DEF Refresh, DialogTypeOK, OverlayHasKeyboard,
       OpenedFromOverlay, Asking, service
  <2> QED
    BY <2>2, <2>3
<1> QED
  BY <1>1, <1>2

\* Every step keeps the invariant.
LEMMA DialogNextInv == DialogInv /\ [DialogNext]_dialogVars => DialogInv'
<1> SUFFICES ASSUME DialogInv, [DialogNext]_dialogVars PROVE DialogInv'
  OBVIOUS
<1>1. CASE UNCHANGED dialogVars
  BY <1>1 DEF dialogVars, service, link, screen, DialogInv, DialogTypeOK,
     OverlayHasKeyboard, OpenedFromOverlay, Asking
<1> QED
  BY <1>1, DaemonKeeps, DialogKeeps, WindowKeeps DEF DialogNext

\* The invariant holds in every reachable state.
THEOREM DialogInductive == DialogSpec => []DialogInv
BY DialogInitInv, DialogNextInv, PTL DEF DialogSpec

\* Every variable has its type, and overlay and window never show together.
THEOREM DialogTypeCorrect == DialogSpec => []DialogTypeOK
<1>1. DialogInv => DialogTypeOK
  BY DEF DialogInv
<1> QED
  BY <1>1, DialogInductive, PTL

\* OverlayHasKeyboard: whatever comes while a dialog is open, a visible overlay
\* with no dialog has the keyboard (lockdown.py, lines 148-175 and 206-232).
THEOREM KeyboardIsGrabbed == DialogSpec => []OverlayHasKeyboard
<1>1. DialogInv => OverlayHasKeyboard
  BY DEF DialogInv
<1> QED
  BY <1>1, DialogInductive, PTL
=============================================================================
