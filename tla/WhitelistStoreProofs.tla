------------------------- MODULE WhitelistStoreProofs -------------------------
(***************************************************************************)
(* Proofs about WhitelistStore, for every set of clients, ids, devices and *)
(* faults.                                                                 *)
(*                                                                         *)
(* Part 1 proves the types. Part 2 proves the three claims about the list  *)
(* with one inductive invariant: while no two operations have overlapped,  *)
(* and while the last operation can still end clean, the one thread that   *)
(* is busy is alone (AloneOK), and what it has done so far holds at each   *)
(* of its labels (Progress).                                               *)
(***************************************************************************)
EXTENDS WhitelistStore, FiniteSetTheorems, TLAPS

AddLabels    == {"add_assign", "add_append"}
RemoveLabels == {"remove_read", "remove_assign", "remove_check"}
SaveLabels   == {"unfreeze", "unfreeze_sig", "dump", "write", "replace",
                 "write_sig", "replace_sig", "freeze", "freeze_sig"}

\* What each thread's argument is, at each of its labels.
ArgOK ==
    /\ arg \in [Clients -> Ids \cup {None} \cup Entries]
    /\ \A c \in Clients :
          /\ pc[c] \in AddLabels => arg[c] \in Entries
          /\ pc[c] \in RemoveLabels => arg[c] \in Ids
          /\ pc[c] \in SaveLabels => arg[c] # None

\* Only one thread is busy, and it has been alone, as long as the history says so.
AloneOK ==
    /\ solo # None => pc[solo] # "idle"
    /\ solo # None => \A c \in Clients : pc[c] # "idle" => c = solo
    /\ \A c \in Clients : pc[c] # "idle" /\ (clean \/ ~overlapped) => solo = c

\* The files, as a restart finds them, are what is in memory.
Synced == Loaded = entries /\ Tampered = integrity_failed

NoId(l, i)     == \A e \in l : e.id # i
NoDevice(l, d) == \A e \in l : e.device # d

\* What the operation of thread c, alone since it began, has done so far.
SaveProgress(c) ==
    LET at(labels) == pc[c] \in labels IN
    /\ at({"write", "replace", "write_sig", "replace_sig"}) => list[c] = entries
    /\ at({"replace"}) => tmp = entries
    /\ at({"write_sig", "replace_sig", "freeze", "freeze_sig"}) => json = entries
    /\ at({"replace_sig"}) => tmp_sig = entries
    /\ at({"freeze", "freeze_sig"}) => sig = entries

AddProgress(c) ==
    /\ pc[c] = "add_assign" => /\ list[c] \subseteq entries
                               /\ NoDevice(list[c], arg[c].device)
    /\ pc[c] = "add_append" => NoDevice(entries, arg[c].device)

RemoveProgress(c) ==
    /\ pc[c] = "remove_assign" => list[c] \subseteq entries /\ NoId(list[c], arg[c])
    /\ pc[c] \in {"remove_check"} \cup SaveLabels /\ arg[c] \in Ids => NoId(entries, arg[c])

\* A removal that finds nothing has changed nothing.
Unchanged(c) ==
    /\ pc[c] \in {"remove_read", "remove_assign"} =>
          Synced /\ before[c] = Cardinality(entries)
    /\ pc[c] = "remove_check" =>
          /\ Tampered = integrity_failed
          /\ entries \subseteq Loaded /\ before[c] = Cardinality(Loaded)

Progress ==
    solo # None => /\ SaveProgress(solo) /\ AddProgress(solo) /\ RemoveProgress(solo)
                   /\ clean => Unchanged(solo)

\* The ids, and the entries they were given to, while no operations overlap.
KnownIds ==
    /\ \A e \in entries \cup json : e.id \in issued
    /\ removed \subseteq issued
    /\ \A c \in Clients :
          /\ pc[c] \in AddLabels => arg[c].id \in issued \ removed
          /\ pc[c] # "idle" /\ arg[c] \in Ids => arg[c] \in issued

OneEach(l) == \A e, f \in l : e.device = f.device => e.id = f.id

Serial ==
    ~overlapped => /\ KnownIds
                   /\ \A e \in entries \cup Loaded : e.id \notin removed
                   /\ OneEach(entries) /\ OneEach(json)

Settled == clean /\ Idle => Synced

IInv == TypeOK /\ ArgOK /\ AloneOK /\ Progress /\ Serial /\ Settled

(***************************************************************************)
(* Part 1: types                                                           *)
(***************************************************************************)

Types == TypeOK /\ ArgOK

\* There are finitely many entries.
LEMMA EntriesFinite == IsFiniteSet(Entries)
<1> DEFINE f == [p \in Ids \X Devices |-> [id |-> p[1], device |-> p[2]]]
<1>1. IsFiniteSet(Ids \X Devices)
  BY IdsFinite, FS_Product
<1>2. f \in Surjection(Ids \X Devices, Entries)
  <2>1. f \in [Ids \X Devices -> Entries]
    BY DEF Entries
  <2>2. ASSUME NEW e \in Entries PROVE \E p \in Ids \X Devices : f[p] = e
    <3>1. <<e.id, e.device>> \in Ids \X Devices
      BY DEF Entries
    <3>2. f[<<e.id, e.device>>] = e
      BY <3>1 DEF Entries
    <3> QED
      BY <3>1, <3>2
  <2> QED
    BY <2>1, <2>2 DEF Surjection
<1> QED
  BY <1>1, <1>2, FS_Surjection

\* A list's length is one the type invariant allows.
LEMMA ListLength ==
  ASSUME NEW l \in Lists
  PROVE  IsFiniteSet(l) /\ Cardinality(l) \in 0 .. Cardinality(Entries)
<1>1. IsFiniteSet(l) /\ Cardinality(l) <= Cardinality(Entries)
  BY EntriesFinite, FS_Subset DEF Lists
<1>2. Cardinality(l) \in Nat /\ Cardinality(Entries) \in Nat
  BY <1>1, EntriesFinite, FS_CardinalityType
<1> QED
  BY <1>1, <1>2

\* One thread goes to another label.
LEMMA GotoLabels ==
  ASSUME pc \in [Clients -> Labels], NEW c \in Clients, NEW from, NEW to, Goto(c, from, to)
  PROVE  /\ pc[c] = from /\ pc'[c] = to
         /\ \A u \in Clients \ {c} : pc'[u] = pc[u]
         /\ to \in Labels => pc' \in [Clients -> Labels]
BY DEF Goto

\* The initial state is well typed.
LEMMA InitTypes == Init => Types
<1> SUFFICES ASSUME Init PROVE Types
  OBVIOUS
<1>1. {} \in Lists /\ None \notin Lists
  BY NoneIsNoValue DEF Lists
<1>2. 0 \in 0 .. Cardinality(Entries)
  BY <1>1, ListLength, FS_EmptySet
<1> QED
  BY <1>1, <1>2 DEF Init, Types, TypeOK, ArgOK, Labels, AddLabels, RemoveLabels, SaveLabels

\* What the beginning of an operation writes into the history is well typed.
LEMMA BeginTypes ==
  ASSUME NEW c \in Clients, NEW to, Begin(c, to)
  PROVE  /\ solo' \in Clients \cup {None}
         /\ clean' \in BOOLEAN /\ overlapped' \in BOOLEAN
<1>1. clean' \in BOOLEAN /\ overlapped' \in BOOLEAN
  BY DEF Begin
<1>2. solo' \in Clients \cup {None}
  BY DEF Begin
<1> QED
  BY <1>1, <1>2

\* A request is well typed.
LEMMA RequestTypes ==
  ASSUME Types, NEW c \in Clients, Request(c)
  PROVE  Types'
<1> USE DEF Types, TypeOK, ArgOK, AddLabels, RemoveLabels, SaveLabels, memory, disk, local
<1>1. ASSUME NEW i \in Ids, NEW d \in Devices, AddRead(c, i, d) PROVE Types'
  <2>1. [id |-> i, device |-> d] \in Entries
    BY DEF Entries
  <2>2. Goto(c, "idle", "add_assign")
    BY <1>1 DEF AddRead, Begin
  <2>3. pc' \in [Clients -> Labels]
    BY <2>2, GotoLabels DEF Labels
  <2>4. ArgOK'
    BY <1>1, <2>1, <2>2, GotoLabels DEF AddRead
  <2>5. solo' \in Clients \cup {None} /\ clean' \in BOOLEAN /\ overlapped' \in BOOLEAN
    BY <1>1, BeginTypes DEF AddRead
  <2>6. list' \in [Clients -> Lists]
    BY <1>1 DEF AddRead, Holds, Lists
  <2> QED
    BY <1>1, <2>3, <2>4, <2>5, <2>6 DEF AddRead
<1>2. ASSUME NEW i \in Ids, RemoveCount(c, i) PROVE Types'
  <2>1. Goto(c, "idle", "remove_read")
    BY <1>2 DEF RemoveCount, Begin
  <2>2. pc' \in [Clients -> Labels]
    BY <2>1, GotoLabels DEF Labels
  <2>3. Cardinality(entries) \in 0 .. Cardinality(Entries)
    BY ListLength
  <2>4. ArgOK'
    BY <1>2, <2>1, GotoLabels DEF RemoveCount
  <2>5. solo' \in Clients \cup {None} /\ clean' \in BOOLEAN /\ overlapped' \in BOOLEAN
    BY <1>2, BeginTypes DEF RemoveCount
  <2> QED
    BY <1>2, <2>2, <2>3, <2>4, <2>5 DEF RemoveCount
<1> QED
  BY <1>1, <1>2 DEF Request

\* A thread that goes on with its operation keeps its argument.
LEMMA MoveTypes ==
  ASSUME Types, NEW c \in Clients, NEW from, NEW to \in Labels, Goto(c, from, to),
         to # "idle", arg' = arg,
         to \in AddLabels => from \in AddLabels,
         to \in RemoveLabels => from \in RemoveLabels,
         from # "idle"
  PROVE  ArgOK' /\ pc' \in [Clients -> Labels]
<1> USE DEF Types, TypeOK, ArgOK
<1>1. pc' \in [Clients -> Labels]
  BY GotoLabels
<1>2. arg[c] # None
  BY GotoLabels, NoneIsNoValue DEF Labels, AddLabels, RemoveLabels, SaveLabels
<1> QED
  BY <1>1, <1>2, GotoLabels

\* A thread that leaves its operation forgets what it held.
LEMMA LeaveTypes ==
  ASSUME Types, NEW c \in Clients, NEW from, Leave(c, from)
  PROVE  /\ ArgOK' /\ pc' \in [Clients -> Labels] /\ list' \in [Clients -> Lists]
         /\ before' \in [Clients -> 0 .. Cardinality(Entries)]
         /\ \A u \in Clients : arg'[u] \in Ids \cup {None} \/ arg'[u] \in Entries
<1> USE DEF Types, TypeOK, ArgOK
<1>1. Goto(c, from, "idle")
  BY DEF Leave
<1>2. pc' \in [Clients -> Labels]
  BY <1>1, GotoLabels DEF Labels
<1>3. {} \in Lists /\ 0 \in 0 .. Cardinality(Entries)
  BY ListLength, FS_EmptySet DEF Lists
<1>4. ArgOK'
  BY <1>1, GotoLabels DEF Leave, AddLabels, RemoveLabels, SaveLabels
<1> QED
  BY <1>2, <1>3, <1>4 DEF Leave

\* The statements of add and remove keep the types.
LEMMA OperationTypes ==
  ASSUME Types, NEW c \in Clients, Add(c) \/ Remove(c)
  PROVE  Types'
<1> USE DEF memory, disk, local, history
<1>1. CASE AddAssign(c)
  <2>1. ArgOK' /\ pc' \in [Clients -> Labels]
    BY <1>1, MoveTypes DEF AddAssign, Labels, AddLabels, RemoveLabels
  <2>2. entries' \in Lists
    BY <1>1 DEF AddAssign, Types, TypeOK
  <2> QED
    BY <1>1, <2>1, <2>2, NoneIsNoValue DEF AddAssign, Types, TypeOK
<1>2. CASE AddAppend(c)
  <2>1. ArgOK' /\ pc' \in [Clients -> Labels]
    BY <1>2, MoveTypes DEF AddAppend, Labels, AddLabels, RemoveLabels
  <2>2. arg[c] \in Entries
    BY <1>2, GotoLabels DEF AddAppend, Types, TypeOK, ArgOK, AddLabels
  <2>3. entries' \in Lists
    BY <1>2, <2>2 DEF AddAppend, Types, TypeOK, Lists
  <2> QED
    BY <1>2, <2>1, <2>3, NoneIsNoValue DEF AddAppend, Types, TypeOK
<1>3. CASE RemoveRead(c)
  <2>1. ArgOK' /\ pc' \in [Clients -> Labels]
    BY <1>3, MoveTypes DEF RemoveRead, Labels, AddLabels, RemoveLabels
  <2>2. list' \in [Clients -> Lists]
    BY <1>3 DEF RemoveRead, Types, TypeOK, Holds, Lists
  <2> QED
    BY <1>3, <2>1, <2>2 DEF RemoveRead, Types, TypeOK
<1>4. CASE RemoveAssign(c)
  <2>1. ArgOK' /\ pc' \in [Clients -> Labels]
    BY <1>4, MoveTypes DEF RemoveAssign, Labels, AddLabels, RemoveLabels
  <2>2. entries' \in Lists
    BY <1>4 DEF RemoveAssign, Types, TypeOK
  <2> QED
    BY <1>4, <2>1, <2>2, NoneIsNoValue DEF RemoveAssign, Types, TypeOK
<1>5. CASE RemoveFound(c)
  <2>1. ArgOK' /\ pc' \in [Clients -> Labels]
    BY <1>5, MoveTypes DEF RemoveFound, Labels, AddLabels, RemoveLabels
  <2> QED
    BY <1>5, <2>1 DEF RemoveFound, Types, TypeOK
<1>6. CASE RemoveMissing(c)
  <2>1. Leave(c, "remove_check")
    BY <1>6 DEF RemoveMissing
  <2> QED
    BY <1>6, <2>1, LeaveTypes DEF RemoveMissing, Leave, Types, TypeOK
<1> QED
  BY <1>1, <1>2, <1>3, <1>4, <1>5, <1>6 DEF Add, Remove

\* A step that fails changes no file and no list.
LEMMA RaiseTypes ==
  ASSUME Types, NEW c \in Clients, NEW from, Raise(c, from), UNCHANGED <<memory, disk>>
  PROVE  Types'
<1>1. Leave(c, from)
  BY DEF Raise
<1> QED
  BY <1>1, LeaveTypes DEF Raise, Leave, Types, TypeOK, memory, disk

\* The statements of save keep the types.
LEMMA SaveTypes ==
  ASSUME Types, NEW c \in Clients, Save(c)
  PROVE  Types'
<1> USE DEF memory, disk, local, history
<1>1. CASE Unfreeze(c) \/ UnfreezeSig(c) \/ Freeze(c)
  <2>1. ArgOK' /\ pc' \in [Clients -> Labels]
    BY <1>1, MoveTypes DEF Unfreeze, UnfreezeSig, Freeze, Labels, AddLabels, RemoveLabels
  <2> QED
    BY <1>1, <2>1, ChattrBool DEF Unfreeze, UnfreezeSig, Freeze, Types, TypeOK
<1>2. CASE Dump(c)
  <2>1. ArgOK' /\ pc' \in [Clients -> Labels]
    BY <1>2, MoveTypes DEF Dump, Labels, AddLabels, RemoveLabels
  <2>2. list' \in [Clients -> Lists]
    BY <1>2 DEF Dump, Types, TypeOK, Holds
  <2> QED
    BY <1>2, <2>1, <2>2 DEF Dump, Types, TypeOK
<1>3. CASE Write(c) \/ WriteSig(c)
  <2>1. ArgOK' /\ pc' \in [Clients -> Labels]
    BY <1>3, MoveTypes DEF Write, WriteSig, Labels, AddLabels, RemoveLabels
  <2>2. list[c] \in Lists
    BY DEF Types, TypeOK
  <2> QED
    BY <1>3, <2>1, <2>2 DEF Write, WriteSig, Types, TypeOK
<1>4. CASE Replace(c) \/ ReplaceSig(c)
  <2>1. ArgOK' /\ pc' \in [Clients -> Labels]
    BY <1>4, MoveTypes DEF Replace, ReplaceSig, Labels, AddLabels, RemoveLabels
  <2> QED
    BY <1>4, <2>1 DEF Replace, ReplaceSig, Types, TypeOK
<1>5. CASE WriteFails(c) \/ ReplaceFails(c) \/ WriteSigFails(c) \/ ReplaceSigFails(c)
  BY <1>5, RaiseTypes DEF WriteFails, ReplaceFails, WriteSigFails, ReplaceSigFails
<1>6. CASE FreezeSig(c)
  <2>1. Leave(c, "freeze_sig") /\ pc[c] = "freeze_sig"
    BY <1>6 DEF FreezeSig, Leave, Goto
  <2>2. arg[c] \in Ids \/ arg[c] \in Entries
    BY <2>1 DEF Types, TypeOK, ArgOK, SaveLabels
  <2>3. removed' \subseteq Ids /\ enrolled' \subseteq Devices
    BY <1>6, <2>2 DEF FreezeSig, Types, TypeOK, Entries
  <2>4. clean' \in BOOLEAN
    BY <1>6 DEF FreezeSig
  <2>5. solo' = None
    BY <2>1 DEF Leave
  <2> QED
    BY <1>6, <2>1, <2>3, <2>4, <2>5, LeaveTypes, ChattrBool DEF FreezeSig, Types, TypeOK
<1> QED
  BY <1>1, <1>2, <1>3, <1>4, <1>5, <1>6 DEF Save

\* A restart is well typed.
LEMMA RestartTypes ==
  ASSUME Types, Restart
  PROVE  Types'
<1> USE DEF Types, TypeOK
<1>1. Loaded \in Lists
  BY DEF Loaded, Lists
<1>2. Loaded # None /\ {} \in Lists /\ 0 \in 0 .. Cardinality(Entries)
  BY <1>1, NoneIsNoValue, ListLength, FS_EmptySet DEF Lists
<1>3. Tampered \in BOOLEAN
  BY DEF Tampered
<1>4. enrolled' \subseteq Devices
  BY DEF Restart
<1>5. pc' \in [Clients -> Labels] /\ ArgOK'
  BY DEF Restart, Labels, ArgOK, AddLabels, RemoveLabels, SaveLabels
<1> QED
  BY <1>1, <1>2, <1>3, <1>4, <1>5 DEF Restart, disk

\* Every step keeps the types.
LEMMA NextTypes == Types /\ [Next]_vars => Types'
<1> SUFFICES ASSUME Types, [Next]_vars PROVE Types'
  OBVIOUS
<1>1. CASE UNCHANGED vars
  BY <1>1 DEF vars, memory, disk, local, history, Types, TypeOK, ArgOK
<1> QED
  BY <1>1, RequestTypes, OperationTypes, SaveTypes, RestartTypes DEF Next

\* Every variable has its type, the loaded list included.
THEOREM TypeCorrect == Spec => []TypeOK
<1>1. Types => TypeOK
  BY DEF Types
<1> QED
  BY <1>1, InitTypes, NextTypes, PTL DEF Spec

(***************************************************************************)
(* Part 2: what is durable, what is removed, and one entry for each device *)
(***************************************************************************)

ProgressOf(c) == SaveProgress(c) /\ AddProgress(c) /\ RemoveProgress(c)

\* The initial state satisfies the inductive invariant.
LEMMA InitIInv == Init => IInv
<1> SUFFICES ASSUME Init PROVE IInv
  OBVIOUS
<1>1. TypeOK /\ ArgOK
  BY InitTypes DEF Types
<1>2. Loaded = {} /\ Tampered = FALSE
  BY DEF Init, Loaded, Tampered
<1>3. \A c \in Clients : pc[c] = "idle"
  BY DEF Init
<1>4. AloneOK /\ Progress
  BY <1>3 DEF Init, AloneOK, Progress
<1>5. Serial
  BY <1>2, <1>3 DEF Init, Serial, KnownIds, OneEach, AddLabels
<1>6. Settled
  BY <1>2 DEF Init, Settled, Synced
<1> QED
  BY <1>1, <1>4, <1>5, <1>6 DEF IInv

\* A thread that is busy is alone whenever the history allows for it.
LEMMA BusyAlone ==
  ASSUME AloneOK, NEW c \in Clients, pc[c] # "idle"
  PROVE  /\ solo # None => solo = c
         /\ clean \/ ~overlapped => solo = c
         /\ solo = c /\ c # None => \A u \in Clients \ {c} : pc[u] = "idle"
BY DEF AloneOK

\* A step that leaves the list, the files and the history alone keeps Serial,
\* and so does one that changes them for the better.
LEMMA SerialStep ==
  ASSUME Types, Serial, NEW c \in Clients, NEW from, NEW to, Goto(c, from, to),
         from # "idle", to \in AddLabels => from \in AddLabels,
         arg' = arg \/ (arg' = [arg EXCEPT ![c] = None] /\ to = "idle"),
         UNCHANGED <<issued, removed, overlapped>>,
         ~overlapped => /\ \A e \in entries' \cup json' : e.id \in issued
                        /\ \A e \in entries' \cup Loaded' : e.id \notin removed
                        /\ OneEach(entries') /\ OneEach(json')
  PROVE  Serial'
<1> SUFFICES ASSUME ~overlapped PROVE KnownIds'
  BY DEF Serial, OneEach
<1>1. KnownIds /\ pc[c] # "idle"
  BY GotoLabels DEF Serial, Types, TypeOK
<1>2. ASSUME NEW u \in Clients PROVE
         /\ pc'[u] \in AddLabels => arg'[u].id \in issued \ removed
         /\ pc'[u] # "idle" /\ arg'[u] \in Ids => arg'[u] \in issued
  <2>1. CASE u = c
    <3>1. pc[c] = from /\ pc'[c] = to
      BY GotoLabels DEF Types, TypeOK
    <3>2. CASE arg' = arg
      BY <1>1, <2>1, <3>1, <3>2 DEF KnownIds
    <3>3. CASE to = "idle"
      BY <2>1, <3>1, <3>3 DEF AddLabels
    <3> QED
      BY <3>2, <3>3
  <2>2. CASE u # c
    <3>1. pc'[u] = pc[u] /\ arg'[u] = arg[u]
      BY <2>2, GotoLabels DEF Types, TypeOK, ArgOK
    <3> QED
      BY <1>1, <3>1 DEF KnownIds
  <2> QED
    BY <2>1, <2>2
<1> QED
  BY <1>1, <1>2 DEF KnownIds

\* The lists and files of a step that changes none of them.
LEMMA SameLists ==
  ASSUME Serial, UNCHANGED <<entries, json, sig>>
  PROVE  ~overlapped => /\ \A e \in entries' \cup json' : e.id \in issued
                        /\ \A e \in entries' \cup Loaded' : e.id \notin removed
                        /\ OneEach(entries') /\ OneEach(json')
<1>1. Loaded' = Loaded
  BY DEF Loaded, Tampered
<1> QED
  BY <1>1 DEF Serial, KnownIds

\* A thread goes on to the next statement of its operation.
LEMMA MoveStep ==
  ASSUME IInv, Types', NEW c \in Clients, NEW from, NEW to, Goto(c, from, to),
         from # "idle", to # "idle", UNCHANGED history,
         solo = c => ProgressOf(c)' /\ (clean => Unchanged(c)'),
         Serial'
  PROVE  IInv'
<1> USE DEF IInv
<1>1. /\ pc[c] # "idle" /\ pc'[c] # "idle"
      /\ \A u \in Clients \ {c} : pc'[u] = pc[u]
  BY GotoLabels DEF TypeOK
<1>2. UNCHANGED <<solo, clean, overlapped>>
  BY DEF history
<1>3. AloneOK'
  <2>1. solo' # None => pc'[solo'] # "idle"
    BY <1>1, <1>2, BusyAlone
  <2>2. solo' # None => \A u \in Clients : pc'[u] # "idle" => u = solo'
    BY <1>1, <1>2, BusyAlone DEF AloneOK
  <2>3. \A u \in Clients : pc'[u] # "idle" /\ (clean' \/ ~overlapped') => solo' = u
    BY <1>1, <1>2, BusyAlone DEF AloneOK
  <2> QED
    BY <2>1, <2>2, <2>3 DEF AloneOK
<1>4. Progress'
  BY <1>1, <1>2, BusyAlone DEF Progress, ProgressOf
<1>5. Settled'
  BY <1>1 DEF Settled, Idle
<1> QED
  BY <1>3, <1>4, <1>5 DEF Types

\* A request begins an operation: alone if nobody else is at work.
LEMMA BeginStep ==
  ASSUME IInv, Types', NEW c \in Clients, NEW to, to # "idle", Begin(c, to),
         Idle => ProgressOf(c)' /\ (clean => Unchanged(c)'),
         Serial'
  PROVE  IInv'
<1> USE DEF IInv
<1>1. /\ pc[c] = "idle" /\ pc'[c] # "idle"
      /\ \A u \in Clients \ {c} : pc'[u] = pc[u]
  BY GotoLabels DEF TypeOK, Begin
<1>2. /\ solo' = IF Idle THEN c ELSE None
      /\ clean' => clean /\ Idle
      /\ ~overlapped' => Idle
  BY DEF Begin
<1>3. AloneOK'
  <2>1. solo' # None => /\ pc'[solo'] # "idle"
                        /\ \A u \in Clients : pc'[u] # "idle" => u = solo'
    BY <1>1, <1>2 DEF Idle
  <2>2. \A u \in Clients : pc'[u] # "idle" /\ (clean' \/ ~overlapped') => solo' = u
    BY <1>1, <1>2 DEF Idle
  <2> QED
    BY <2>1, <2>2 DEF AloneOK
<1>4. Progress'
  BY <1>2 DEF Progress, ProgressOf
<1>5. Settled'
  BY <1>1 DEF Settled, Idle
<1> QED
  BY <1>3, <1>4, <1>5 DEF Types

\* A thread leaves its operation.
LEMMA LeaveStep ==
  ASSUME IInv, Types', NEW c \in Clients, NEW from, Leave(c, from), from # "idle",
         overlapped' = overlapped,
         clean' => solo = c /\ Synced',
         Serial'
  PROVE  IInv'
<1> USE DEF IInv
<1>1. /\ pc[c] # "idle" /\ pc'[c] = "idle"
      /\ \A u \in Clients \ {c} : pc'[u] = pc[u]
  BY GotoLabels DEF TypeOK, Leave
<1>2. solo' = None
  BY DEF Leave
<1>3. c # None
  BY NoneIsNoValue
<1>4. AloneOK'
  <2>1. ASSUME NEW u \in Clients, clean' \/ ~overlapped' PROVE pc'[u] = "idle"
    <3>1. solo = c
      BY <1>1, <2>1, BusyAlone
    <3> QED
      BY <1>1, <1>3, <3>1, BusyAlone
  <2> QED
    BY <1>2, <2>1 DEF AloneOK
<1>5. Progress' /\ Settled'
  BY <1>2 DEF Progress, Settled
<1> QED
  BY <1>4, <1>5 DEF Types

\* Requests: a new id is nobody's yet, and its device's other entries go.
LEMMA RequestIInv ==
  ASSUME IInv, Types', NEW c \in Clients, Request(c)
  PROVE  IInv'
<1> USE DEF IInv
<1>1. ASSUME NEW i \in Ids, NEW d \in Devices, AddRead(c, i, d) PROVE IInv'
  <2> DEFINE new == [id |-> i, device |-> d]
  <2>1. /\ Begin(c, "add_assign") /\ Goto(c, "idle", "add_assign") /\ i \notin issued
        /\ arg'[c] = new /\ list'[c] = entries \ OfDevice(d)
        /\ UNCHANGED <<entries, json, sig, removed>> /\ issued' = issued \cup {i}
        /\ \A u \in Clients \ {c} : arg'[u] = arg[u]
    BY <1>1 DEF AddRead, Begin, Holds, Types, TypeOK, ArgOK, memory, disk
  <2>2. new \in Entries /\ new \notin Ids
    BY IdsAreNoEntries DEF Entries
  <2>3. ~overlapped' => ~overlapped /\ Idle
    BY <2>1 DEF Begin
  <2>4. ProgressOf(c)' /\ Unchanged(c)'
    <3>1. pc'[c] = "add_assign"
      BY <2>1, GotoLabels DEF TypeOK
    <3>2. NoDevice(list'[c], d) /\ list'[c] \subseteq entries'
      BY <2>1 DEF OfDevice, NoDevice
    <3> QED
      BY <2>1, <3>1, <3>2
      DEF ProgressOf, SaveProgress, AddProgress, RemoveProgress, Unchanged, SaveLabels
  <2>5. Serial'
    <3> SUFFICES ASSUME ~overlapped' PROVE
           /\ KnownIds'
           /\ \A e \in entries' \cup Loaded' : e.id \notin removed'
           /\ OneEach(entries') /\ OneEach(json')
      BY DEF Serial, OneEach
    <3>1. \A u \in Clients \ {c} : pc'[u] = pc[u] /\ pc[u] = "idle"
      BY <2>1, <2>3, GotoLabels DEF Idle, TypeOK
    <3>2. KnownIds /\ Loaded' = Loaded
      BY <2>1, <2>3 DEF Serial, Loaded, Tampered
    <3>3. KnownIds'
      BY <2>1, <2>2, <3>1, <3>2 DEF KnownIds, AddLabels
    <3> QED
      BY <2>1, <2>3, <3>2, <3>3 DEF Serial
  <2> QED
    BY <2>1, <2>4, <2>5, BeginStep
<1>2. ASSUME NEW i \in Ids, RemoveCount(c, i) PROVE IInv'
  <2>1. /\ Begin(c, "remove_read") /\ Goto(c, "idle", "remove_read")
        /\ OfId(i) # {} \/ i \in removed
        /\ arg'[c] = i /\ before'[c] = Cardinality(entries)
        /\ UNCHANGED <<entries, integrity_failed, json, sig, removed, issued>>
        /\ \A u \in Clients \ {c} : arg'[u] = arg[u]
    BY <1>2 DEF RemoveCount, Begin, Types, TypeOK, ArgOK, memory, disk
  <2>2. ~overlapped' => ~overlapped /\ Idle
    BY <2>1 DEF Begin
  <2>3. pc'[c] = "remove_read"
    BY <2>1, GotoLabels DEF TypeOK
  <2>4. Idle => ProgressOf(c)' /\ (clean => Unchanged(c)')
    <3>1. Idle /\ clean => Synced'
      BY <2>1 DEF Settled, Synced, Loaded, Tampered
    <3> QED
      BY <2>1, <2>3, <3>1
      DEF ProgressOf, SaveProgress, AddProgress, RemoveProgress, Unchanged, SaveLabels
  <2>5. Serial'
    <3> SUFFICES ASSUME ~overlapped' PROVE
           /\ KnownIds'
           /\ \A e \in entries' \cup Loaded' : e.id \notin removed'
           /\ OneEach(entries') /\ OneEach(json')
      BY DEF Serial, OneEach
    <3>1. \A u \in Clients \ {c} : pc'[u] = pc[u] /\ pc[u] = "idle"
      BY <2>1, <2>2, GotoLabels DEF Idle, TypeOK
    <3>2. KnownIds /\ Loaded' = Loaded
      BY <2>1, <2>2 DEF Serial, Loaded, Tampered
    <3>3. i \in issued
      BY <2>1, <3>2 DEF KnownIds, OfId
    <3>4. KnownIds'
      BY <2>1, <2>3, <3>1, <3>2, <3>3 DEF KnownIds, AddLabels
    <3> QED
      BY <2>1, <2>2, <3>2, <3>4 DEF Serial
  <2> QED
    BY <2>1, <2>4, <2>5, BeginStep
<1> QED
  BY <1>1, <1>2 DEF Request

\* The statements of add and remove.
LEMMA OperationIInv ==
  ASSUME IInv, Types', NEW c \in Clients, Add(c) \/ Remove(c)
  PROVE  IInv'
<1> USE DEF IInv, memory, disk, local
<1>1. pc[c] # "idle"
  BY DEF Add, Remove, AddAssign, AddAppend, RemoveRead, RemoveAssign, RemoveFound,
     RemoveMissing, Leave, Goto
<1>2. /\ solo = c => ProgressOf(c) /\ (clean => Unchanged(c))
      /\ ~overlapped => solo = c
  BY <1>1, NoneIsNoValue, BusyAlone DEF Progress, ProgressOf
<1>3. CASE AddAssign(c)
  <2>1. /\ Goto(c, "add_assign", "add_append") /\ entries' = list[c]
        /\ UNCHANGED <<json, sig, arg, list, history, issued, removed, overlapped>>
    BY <1>3 DEF AddAssign, history
  <2>2. pc[c] = "add_assign" /\ pc'[c] = "add_append"
    BY <2>1, GotoLabels DEF TypeOK
  <2>3. solo = c => ProgressOf(c)' /\ Unchanged(c)'
    BY <1>2, <2>1, <2>2
    DEF ProgressOf, SaveProgress, AddProgress, RemoveProgress, Unchanged, SaveLabels
  <2>4. ~overlapped => entries' \subseteq entries
    BY <1>2, <2>1, <2>2 DEF ProgressOf, AddProgress
  <2>5. Serial'
    BY <2>1, <2>4, SerialStep DEF Types, Serial, KnownIds, OneEach, Loaded, Tampered,
       AddLabels
  <2> QED
    BY <2>1, <2>3, <2>5, MoveStep
<1>4. CASE AddAppend(c)
  <2>1. /\ Goto(c, "add_append", "unfreeze") /\ entries' = entries \cup {arg[c]}
        /\ UNCHANGED <<json, sig, arg, list, history, issued, removed, overlapped>>
    BY <1>4 DEF AddAppend, history
  <2>2. pc[c] = "add_append" /\ pc'[c] = "unfreeze"
    BY <2>1, GotoLabels DEF TypeOK
  <2>3. arg[c] \in Entries /\ arg[c] \notin Ids
    BY <2>2, IdsAreNoEntries DEF ArgOK, AddLabels
  <2>4. solo = c => ProgressOf(c)' /\ Unchanged(c)'
    BY <1>2, <2>1, <2>2, <2>3
    DEF ProgressOf, SaveProgress, AddProgress, RemoveProgress, Unchanged
  <2>5. ~overlapped => arg[c].id \in issued \ removed /\ NoDevice(entries, arg[c].device)
    BY <1>2, <2>2 DEF Serial, KnownIds, AddLabels, ProgressOf, AddProgress
  <2>6. ~overlapped => OneEach(entries')
    BY <2>1, <2>5 DEF Serial, OneEach, NoDevice
  <2>7. Serial'
    BY <2>1, <2>5, <2>6, SerialStep DEF Types, Serial, KnownIds, Loaded, Tampered, AddLabels
  <2> QED
    BY <2>1, <2>4, <2>7, MoveStep
<1>5. CASE RemoveRead(c)
  <2>1. /\ Goto(c, "remove_read", "remove_assign") /\ list'[c] = entries \ OfId(arg[c])
        /\ UNCHANGED <<entries, integrity_failed, json, sig, arg, before, history,
                       issued, removed, overlapped>>
    BY <1>5 DEF RemoveRead, Holds, TypeOK, history
  <2>2. pc[c] = "remove_read" /\ pc'[c] = "remove_assign"
    BY <2>1, GotoLabels DEF TypeOK
  <2>3. NoId(list'[c], arg[c]) /\ list'[c] \subseteq entries
    BY <2>1 DEF NoId, OfId
  <2>4. solo = c => ProgressOf(c)' /\ (clean => Unchanged(c)')
    BY <1>2, <2>1, <2>2, <2>3 DEF ProgressOf, SaveProgress, AddProgress, RemoveProgress,
       Unchanged, SaveLabels, Synced, Loaded, Tampered
  <2>5. Serial'
    BY <2>1, SameLists, SerialStep DEF Types, AddLabels
  <2> QED
    BY <2>1, <2>4, <2>5, MoveStep
<1>6. CASE RemoveAssign(c)
  <2>1. /\ Goto(c, "remove_assign", "remove_check") /\ entries' = list[c]
        /\ UNCHANGED <<integrity_failed, json, sig, arg, before, list, history, issued,
                       removed, overlapped>>
    BY <1>6 DEF RemoveAssign, history
  <2>2. pc[c] = "remove_assign" /\ pc'[c] = "remove_check"
    BY <2>1, GotoLabels DEF TypeOK
  <2>3. solo = c => entries' \subseteq entries /\ NoId(entries', arg[c])
    BY <1>2, <2>1, <2>2 DEF ProgressOf, RemoveProgress
  <2>4. solo = c => ProgressOf(c)' /\ (clean => Unchanged(c)')
    BY <1>2, <2>1, <2>2, <2>3 DEF ProgressOf, SaveProgress, AddProgress, RemoveProgress,
       Unchanged, SaveLabels, Synced, Loaded, Tampered
  <2>5. Serial'
    BY <1>2, <2>1, <2>3, SerialStep DEF Types, Serial, KnownIds, OneEach, Loaded, Tampered,
       AddLabels
  <2> QED
    BY <2>1, <2>4, <2>5, MoveStep
<1>7. CASE RemoveFound(c)
  <2>1. /\ Goto(c, "remove_check", "unfreeze")
        /\ UNCHANGED <<entries, json, sig, arg, history, issued, removed, overlapped>>
    BY <1>7 DEF RemoveFound, history
  <2>2. pc[c] = "remove_check" /\ pc'[c] = "unfreeze"
    BY <2>1, GotoLabels DEF TypeOK
  <2>3. solo = c => ProgressOf(c)' /\ Unchanged(c)'
    BY <1>2, <2>1, <2>2
    DEF ProgressOf, SaveProgress, AddProgress, RemoveProgress, Unchanged
  <2>4. Serial'
    BY <2>1, SameLists, SerialStep DEF Types, AddLabels
  <2> QED
    BY <2>1, <2>3, <2>4, MoveStep
<1>8. CASE RemoveMissing(c)
  <2>1. /\ Leave(c, "remove_check") /\ Goto(c, "remove_check", "idle")
        /\ Cardinality(entries) >= before[c]
        /\ arg' = [arg EXCEPT ![c] = None]
        /\ UNCHANGED <<entries, integrity_failed, json, sig, issued, removed, clean,
                       overlapped>>
    BY <1>8 DEF RemoveMissing, Leave
  <2>2. pc[c] = "remove_check"
    BY <2>1, GotoLabels DEF TypeOK
  <2>3. ASSUME clean' PROVE solo = c /\ Synced'
    <3>1. solo = c /\ clean
      BY <1>1, <2>1, <2>3, BusyAlone
    <3>2. /\ Tampered = integrity_failed
          /\ entries \subseteq Loaded /\ before[c] = Cardinality(Loaded)
      BY <1>2, <2>2, <3>1 DEF Unchanged
    <3>3. Loaded \in Lists
      BY DEF Loaded, TypeOK, Lists
    <3>4. IsFiniteSet(Loaded) /\ Cardinality(entries) <= Cardinality(Loaded)
      BY <3>2, <3>3, ListLength, FS_Subset
    <3>5. Cardinality(entries) \in Int /\ Cardinality(Loaded) \in Int
      BY <3>3, ListLength DEF TypeOK
    <3>6. Cardinality(entries) = Cardinality(Loaded)
      BY <2>1, <3>2, <3>4, <3>5
    <3>7. entries = Loaded
      BY <3>2, <3>4, <3>6, FS_Subset
    <3> QED
      BY <2>1, <3>1, <3>2, <3>7 DEF Synced, Loaded, Tampered
  <2>4. Serial'
    BY <2>1, SameLists, SerialStep DEF Types, AddLabels
  <2> QED
    BY <2>1, <2>3, <2>4, LeaveStep
<1> QED
  BY <1>3, <1>4, <1>5, <1>6, <1>7, <1>8 DEF Add, Remove

\* The statements of save.
LEMMA SaveIInv ==
  ASSUME IInv, Types', NEW c \in Clients, Save(c)
  PROVE  IInv'
<1> USE DEF IInv, memory, disk, local
<1>1. pc[c] # "idle" /\ c # None
  BY NoneIsNoValue DEF Save, Unfreeze, UnfreezeSig, Dump, Write, WriteFails, Replace,
     ReplaceFails, WriteSig, WriteSigFails, ReplaceSig, ReplaceSigFails, Freeze, FreezeSig,
     Raise, Leave, Goto
<1>2. /\ solo = c => ProgressOf(c)
      /\ ~overlapped => solo = c
  BY <1>1, BusyAlone DEF Progress, ProgressOf
<1>3. CASE Unfreeze(c) \/ UnfreezeSig(c)
  <2>1. PICK from \in {"unfreeze", "unfreeze_sig"}, to \in {"unfreeze_sig", "dump"} :
           /\ Goto(c, from, to)
           /\ UNCHANGED <<entries, json, sig, arg, history, issued, removed, overlapped>>
    BY <1>3 DEF Unfreeze, UnfreezeSig, history
  <2>2. pc[c] = from /\ pc'[c] = to
    BY <2>1, GotoLabels DEF TypeOK
  <2>3. solo = c => ProgressOf(c)' /\ Unchanged(c)'
    BY <1>2, <2>1, <2>2
    DEF ProgressOf, SaveProgress, AddProgress, RemoveProgress, Unchanged, SaveLabels
  <2>4. Serial'
    BY <2>1, SameLists, SerialStep DEF Types, AddLabels
  <2> QED
    BY <2>1, <2>3, <2>4, MoveStep
<1>4. CASE Dump(c)
  <2>1. /\ Goto(c, "dump", "write") /\ list'[c] = entries
        /\ UNCHANGED <<entries, json, sig, arg, history, issued, removed, overlapped>>
    BY <1>4 DEF Dump, Holds, TypeOK, history
  <2>2. pc[c] = "dump" /\ pc'[c] = "write"
    BY <2>1, GotoLabels DEF TypeOK
  <2>3. solo = c => ProgressOf(c)' /\ Unchanged(c)'
    BY <1>2, <2>1, <2>2
    DEF ProgressOf, SaveProgress, AddProgress, RemoveProgress, Unchanged, SaveLabels
  <2>4. Serial'
    BY <2>1, SameLists, SerialStep DEF Types, AddLabels
  <2> QED
    BY <2>1, <2>3, <2>4, MoveStep
<1>5. CASE Write(c)
  <2>1. /\ Goto(c, "write", "replace") /\ tmp' = list[c]
        /\ UNCHANGED <<entries, json, sig, arg, list, history, issued, removed, overlapped>>
    BY <1>5 DEF Write, history
  <2>2. pc[c] = "write" /\ pc'[c] = "replace"
    BY <2>1, GotoLabels DEF TypeOK
  <2>3. solo = c => ProgressOf(c)' /\ Unchanged(c)'
    BY <1>2, <2>1, <2>2
    DEF ProgressOf, SaveProgress, AddProgress, RemoveProgress, Unchanged, SaveLabels
  <2>4. Serial'
    BY <2>1, SameLists, SerialStep DEF Types, AddLabels
  <2> QED
    BY <2>1, <2>3, <2>4, MoveStep
<1>6. CASE Replace(c)
  <2>1. /\ Goto(c, "replace", "write_sig") /\ json' = tmp
        /\ UNCHANGED <<entries, sig, arg, list, history, issued, removed, overlapped>>
    BY <1>6 DEF Replace, history
  <2>2. pc[c] = "replace" /\ pc'[c] = "write_sig"
    BY <2>1, GotoLabels DEF TypeOK
  <2>3. solo = c => json' = entries'
    BY <1>2, <2>1, <2>2 DEF ProgressOf, SaveProgress
  <2>4. solo = c => ProgressOf(c)' /\ Unchanged(c)'
    BY <1>2, <2>1, <2>2, <2>3
    DEF ProgressOf, SaveProgress, AddProgress, RemoveProgress, Unchanged, SaveLabels
  <2>5. Serial'
    BY <1>2, <2>1, <2>3, SerialStep DEF Types, Serial, KnownIds, Loaded, AddLabels
  <2> QED
    BY <2>1, <2>4, <2>5, MoveStep
<1>7. CASE WriteSig(c)
  <2>1. /\ Goto(c, "write_sig", "replace_sig") /\ tmp_sig' = list[c]
        /\ UNCHANGED <<entries, json, sig, arg, list, history, issued, removed, overlapped>>
    BY <1>7 DEF WriteSig, history
  <2>2. pc[c] = "write_sig" /\ pc'[c] = "replace_sig"
    BY <2>1, GotoLabels DEF TypeOK
  <2>3. solo = c => ProgressOf(c)' /\ Unchanged(c)'
    BY <1>2, <2>1, <2>2
    DEF ProgressOf, SaveProgress, AddProgress, RemoveProgress, Unchanged, SaveLabels
  <2>4. Serial'
    BY <2>1, SameLists, SerialStep DEF Types, AddLabels
  <2> QED
    BY <2>1, <2>3, <2>4, MoveStep
<1>8. CASE ReplaceSig(c)
  <2>1. /\ Goto(c, "replace_sig", "freeze") /\ sig' = tmp_sig
        /\ UNCHANGED <<entries, json, arg, list, history, issued, removed, overlapped>>
    BY <1>8 DEF ReplaceSig, history
  <2>2. pc[c] = "replace_sig" /\ pc'[c] = "freeze"
    BY <2>1, GotoLabels DEF TypeOK
  <2>3. solo = c => json' = entries' /\ sig' = entries'
    BY <1>2, <2>1, <2>2 DEF ProgressOf, SaveProgress
  <2>4. solo = c => ProgressOf(c)' /\ Unchanged(c)'
    BY <1>2, <2>1, <2>2, <2>3
    DEF ProgressOf, SaveProgress, AddProgress, RemoveProgress, Unchanged, SaveLabels
  <2>5. Serial'
    BY <1>2, <2>1, <2>3, SerialStep DEF Types, Serial, KnownIds, Loaded, AddLabels
  <2> QED
    BY <2>1, <2>4, <2>5, MoveStep
<1>9. CASE Freeze(c)
  <2>1. /\ Goto(c, "freeze", "freeze_sig")
        /\ UNCHANGED <<entries, json, sig, arg, history, issued, removed, overlapped>>
    BY <1>9 DEF Freeze, history
  <2>2. pc[c] = "freeze" /\ pc'[c] = "freeze_sig"
    BY <2>1, GotoLabels DEF TypeOK
  <2>3. solo = c => ProgressOf(c)' /\ Unchanged(c)'
    BY <1>2, <2>1, <2>2
    DEF ProgressOf, SaveProgress, AddProgress, RemoveProgress, Unchanged, SaveLabels
  <2>4. Serial'
    BY <2>1, SameLists, SerialStep DEF Types, AddLabels
  <2> QED
    BY <2>1, <2>3, <2>4, MoveStep
<1>10. CASE WriteFails(c) \/ ReplaceFails(c) \/ WriteSigFails(c) \/ ReplaceSigFails(c)
  <2>1. PICK from \in {"write", "replace", "write_sig", "replace_sig"} :
           Raise(c, from) /\ UNCHANGED <<memory, disk>>
    BY <1>10 DEF WriteFails, ReplaceFails, WriteSigFails, ReplaceSigFails
  <2>2. /\ Leave(c, from) /\ Goto(c, from, "idle") /\ clean' = FALSE
        /\ arg' = [arg EXCEPT ![c] = None]
        /\ UNCHANGED <<entries, json, sig, issued, removed, overlapped>>
    BY <2>1 DEF Raise, Leave
  <2>3. Serial'
    BY <2>2, SameLists, SerialStep DEF Types, AddLabels
  <2> QED
    BY <2>2, <2>3, LeaveStep
<1>11. CASE FreezeSig(c)
  <2>1. /\ Leave(c, "freeze_sig") /\ Goto(c, "freeze_sig", "idle")
        /\ integrity_failed' = FALSE /\ clean' = (solo = c)
        /\ removed' = removed \cup (IF arg[c] \in Ids THEN {arg[c]} ELSE {})
        /\ UNCHANGED <<entries, json, sig, issued, overlapped>>
    BY <1>11 DEF FreezeSig, Leave
  <2>2. pc[c] = "freeze_sig" /\ pc'[c] = "idle"
    BY <2>1, GotoLabels DEF TypeOK
  <2>3. solo = c => /\ json = entries /\ sig = entries
                    /\ arg[c] \in Ids => NoId(entries, arg[c])
    BY <1>2, <2>2 DEF ProgressOf, SaveProgress, RemoveProgress, SaveLabels
  <2>4. clean' => solo = c /\ Synced'
    BY <2>1, <2>3 DEF Synced, Loaded, Tampered
  <2>5. Serial'
    <3> SUFFICES ASSUME ~overlapped PROVE
           /\ KnownIds'
           /\ \A e \in entries' \cup Loaded' : e.id \notin removed'
           /\ OneEach(entries') /\ OneEach(json')
      BY <2>1 DEF Serial, OneEach
    <3>1. solo = c /\ KnownIds /\ \A e \in entries : e.id \notin removed
      BY <1>2 DEF Serial
    <3>2. \A u \in Clients : pc'[u] = "idle"
      BY <1>1, <2>1, <2>2, <3>1, BusyAlone, GotoLabels DEF TypeOK
    <3>3. arg[c] \in Ids => arg[c] \in issued
      BY <1>1, <3>1 DEF KnownIds
    <3>4. KnownIds'
      BY <2>1, <3>1, <3>2, <3>3 DEF KnownIds, AddLabels
    <3>5. Loaded' \subseteq entries'
      BY <2>1, <2>3, <3>1 DEF Loaded, Tampered
    <3>6. \A e \in entries' \cup Loaded' : e.id \notin removed'
      BY <2>1, <2>3, <3>1, <3>5 DEF NoId
    <3> QED
      BY <2>1, <3>4, <3>6 DEF Serial
  <2> QED
    BY <2>1, <2>4, <2>5, LeaveStep
<1> QED
  BY <1>3, <1>4, <1>5, <1>6, <1>7, <1>8, <1>9, <1>10, <1>11 DEF Save

\* A restart reads back what the files hold, and nobody is at work.
LEMMA RestartIInv == IInv /\ Types' /\ Restart => IInv'
<1> SUFFICES ASSUME IInv, Types', Restart PROVE IInv'
  OBVIOUS
<1> USE DEF IInv
<1>1. /\ \A u \in Clients : pc'[u] = "idle"
      /\ solo' = None /\ entries' = Loaded /\ integrity_failed' = Tampered
      /\ UNCHANGED <<json, sig, issued, removed, overlapped>>
  BY DEF Restart, disk
<1>2. Loaded' = Loaded /\ Tampered' = Tampered
  BY <1>1 DEF Loaded, Tampered
<1>3. AloneOK' /\ Progress' /\ Settled'
  BY <1>1, <1>2 DEF AloneOK, Progress, Settled, Synced
<1>4. Serial'
  <2> SUFFICES ASSUME ~overlapped PROVE
         /\ KnownIds'
         /\ \A e \in entries' \cup Loaded' : e.id \notin removed'
         /\ OneEach(entries') /\ OneEach(json')
    BY <1>1 DEF Serial, OneEach
  <2>1. Loaded \subseteq json
    BY DEF Loaded
  <2>2. KnownIds'
    BY <1>1, <2>1 DEF Serial, KnownIds, AddLabels
  <2> QED
    BY <1>1, <1>2, <2>1, <2>2 DEF Serial, OneEach
<1> QED
  BY <1>3, <1>4 DEF Types

\* Every step keeps the inductive invariant.
LEMMA NextIInv == IInv /\ [Next]_vars => IInv'
<1> SUFFICES ASSUME IInv, [Next]_vars PROVE IInv'
  OBVIOUS
<1>1. Types'
  BY NextTypes DEF IInv, Types
<1>2. CASE UNCHANGED vars
  <2>1. UNCHANGED <<entries, integrity_failed, json, sig, tmp, tmp_sig, pc, arg, list, before,
                    issued, removed, solo, clean, overlapped>>
    BY <1>2 DEF vars, memory, disk, local, history
  <2>2. AloneOK' /\ Progress'
    BY <2>1 DEF IInv, AloneOK, Progress, SaveProgress, AddProgress, RemoveProgress, Unchanged,
       NoId, NoDevice, Synced, Loaded, Tampered
  <2>3. Serial' /\ Settled'
    BY <2>1 DEF IInv, Serial, KnownIds, OneEach, Settled, Idle, Synced, Loaded, Tampered
  <2> QED
    BY <1>1, <2>2, <2>3 DEF IInv, Types
<1>3. CASE Restart
  BY <1>1, <1>3, RestartIInv
<1>4. ASSUME NEW c \in Clients, Request(c) \/ Add(c) \/ Remove(c) \/ Save(c) PROVE IInv'
  BY <1>1, <1>4, RequestIInv, OperationIInv, SaveIInv
<1> QED
  BY <1>2, <1>3, <1>4 DEF Next

\* The invariant holds in every reachable state.
THEOREM Inductive == Spec => []IInv
BY InitIInv, NextIInv, PTL DEF Spec

\* SettledDurable: once an operation has run alone to its end (whitelist.py
\* save, lines 140-178), a restart finds what is in memory, whatever failed,
\* crashed or collided before it.
THEOREM Durable == Spec => []SettledDurable
<1>1. IInv => SettledDurable
  BY DEF IInv, Settled, SettledDurable, Synced
<1> QED
  BY <1>1, Inductive, PTL

\* RemovedStaysRemoved: as long as no two operations overlapped, an entry
\* whose removal was acknowledged is neither in memory nor in the files.
THEOREM NotBack == Spec => []RemovedStaysRemoved
<1>1. IInv => RemovedStaysRemoved
  BY DEF IInv, Serial, RemovedStaysRemoved
<1> QED
  BY <1>1, Inductive, PTL

\* OneEntryPerDevice: as long as no two operations overlapped, no device has
\* two entries in self.entries.
THEOREM OneEntry == Spec => []OneEntryPerDevice
<1>1. IInv => OneEntryPerDevice
  BY DEF IInv, Serial, OneEach, OneEntryPerDevice
<1> QED
  BY <1>1, Inductive, PTL
=============================================================================
