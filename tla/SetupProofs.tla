----------------------------- MODULE SetupProofs -----------------------------
(***************************************************************************)
(* Proofs about Setup, for every set of wizards, passwords and devices and *)
(* every bound on the keys.                                                *)
(*                                                                         *)
(* Each process that is alone with the files keeps an invariant of its own *)
(* (KeyProgress, DaemonOK, WizardOK): what it has found or written so far  *)
(* is still there. Whoever changes a file ends the others' being alone, so *)
(* that only a process's own steps can disturb its part. That a new key is *)
(* not the one of an old signature rests on DrawnOK.                       *)
(***************************************************************************)
EXTENDS Setup, TLAPS

KeyLabels    == {"key", "key_write", "key_replace", "key_restrict", "key_read"}
DaemonLabels == {"idle", "load", "serving"} \cup KeyLabels
WizardLabels == {"idle", "password", "list", "sign", "code", "done"} \cup KeyLabels
Labels       == DaemonLabels \cup WizardLabels

\* Each process is at a label of its own, and holds a key where it must.
ControlOK ==
    /\ pc \in [Procs -> Labels]
    /\ pc[Daemon] \in DaemonLabels
    /\ pc[Daemon] \in {"idle"} \cup KeyLabels => held[Daemon] = None
    /\ \A w \in Wizards :
          /\ pc[w] \in WizardLabels
          /\ pc[w] \in {"list", "sign"} => held[w] # None
          /\ pc[w] = "idle" => ~reset[w]

\* Every key there is has been drawn.
DrawnOK ==
    /\ {key, tmp} \subseteq 1 .. drawn \cup {None}
    /\ \A p \in Procs : held[p] \in 1 .. drawn \cup {None}
    /\ sig # None => sig[1] \in 1 .. drawn

\* What ensure_master_key() has done so far, for a process alone with the files.
KeyProgress(p) ==
    alone[p] =>
       /\ pc[p] = "key_replace" => tmp # None
       /\ pc[p] \in {"key_restrict", "key_read"} => key # None

\* What the daemon, alone with the files, has found in them.
DaemonOK ==
    alone[Daemon] =>
       /\ pc[Daemon] \in {"load", "serving"} =>
             held[Daemon] = key \/ (held[Daemon] = None /\ loose)
       /\ Serving => entries = Loadable(held[Daemon])

\* What a wizard, alone with the files, has done so far.
WizardOK(w) ==
    LET at(labels) == pc[w] \in labels IN
    alone[w] =>
       /\ at({"password"}) => admin = None
       /\ at({"password", "key", "key_write"}) => key = None
       /\ at({"password", "list"} \cup KeyLabels) /\ reset[w] => sig = None
       /\ at({"list", "sign", "code"} \cup KeyLabels) => admin # None
       /\ at({"key_replace"}) /\ sig # None => sig[1] # tmp
       /\ at({"key_restrict", "key_read", "list"}) /\ sig # None => sig[1] # key
       /\ at({"list", "sign", "code"}) => key # None /\ ~loose /\ held[w] = key
       /\ at({"sign"}) => json = {}
       /\ at({"code"}) =>
             /\ json # None /\ sig # None
             /\ sig = <<key, json>> \/ (~reset[w] /\ sig[1] # key)

Types == TypeOK /\ ControlOK /\ DrawnOK

ProcOK(p) ==
    /\ KeyProgress(p)
    /\ p = Daemon => DaemonOK
    /\ p \in Wizards => WizardOK(p)

IInv == Types /\ \A p \in Procs : ProcOK(p)

(***************************************************************************)
(* Part 1: types                                                           *)
(***************************************************************************)

\* The initial state is well typed.
LEMMA InitTypes == Init => Types
<1> SUFFICES ASSUME Init PROVE Types
  OBVIOUS
<1>1. ControlOK
  BY DEF Init, ControlOK, Procs, Labels, DaemonLabels, WizardLabels
<1>2. TypeOK
  <2>1. pc[Daemon] = "idle" /\ held[Daemon] = None /\ \A w \in Wizards : pc[w] = "idle"
    BY DEF Init, Procs
  <2>2. alone \in [Procs -> BOOLEAN] /\ reset \in [Wizards -> BOOLEAN]
    BY DEF Init
  <2>3. held \in [Procs -> Keys \cup {None}] /\ drawn \in 0 .. MaxKeys
    BY MaxKeysIsNat DEF Init
  <2> QED
    BY <2>1, <2>2, <2>3 DEF Init, TypeOK
<1>3. DrawnOK
  BY DEF Init, DrawnOK
<1> QED
  BY <1>1, <1>2, <1>3 DEF Types

\* A process goes to another label and keeps its memory.
LEMMA GotoEffect ==
  ASSUME ControlOK, NEW p \in Procs, NEW from, NEW to, Goto(p, from, to)
  PROVE  /\ pc[p] = from /\ pc'[p] = to /\ UNCHANGED <<held, reset>>
         /\ \A q \in Procs \ {p} : pc'[q] = pc[q]
         /\ to \in Labels => pc' \in [Procs -> Labels]
BY DEF Goto, ControlOK

\* The label it goes to is one of its own.
LEMMA GotoControl ==
  ASSUME ControlOK, NEW p \in Procs, NEW from, NEW to, Goto(p, from, to),
         p = Daemon => /\ to \in DaemonLabels \ {"idle"}
                       /\ to \in KeyLabels => from \in {"idle"} \cup KeyLabels,
         p \in Wizards => /\ to \in WizardLabels \ {"idle"}
                          /\ to \in {"list", "sign"} => held[p] # None
  PROVE  ControlOK' /\ (pc'[Daemon] = "idle" => pc[Daemon] = "idle")
<1>1. to \in Labels
  BY DEF Procs, Labels
<1>2. pc' \in [Procs -> Labels] /\ UNCHANGED held
  BY <1>1, GotoEffect
<1>3. /\ pc'[Daemon] \in DaemonLabels
      /\ pc'[Daemon] \in {"idle"} \cup KeyLabels => held'[Daemon] = None
      /\ pc'[Daemon] = "idle" => pc[Daemon] = "idle"
  <2>1. CASE p = Daemon
    BY <1>2, <2>1, GotoEffect DEF ControlOK
  <2>2. CASE p # Daemon
    BY <1>2, <2>2, GotoEffect DEF ControlOK, Procs
  <2> QED
    BY <2>1, <2>2
<1>4. ASSUME NEW w \in Wizards PROVE
         /\ pc'[w] \in WizardLabels
         /\ pc'[w] \in {"list", "sign"} => held'[w] # None
         /\ pc'[w] = "idle" => ~reset'[w]
  BY <1>2, GotoEffect DEF ControlOK, Procs
<1> QED
  BY <1>2, <1>3, <1>4 DEF ControlOK

\* A process ends and forgets.
LEMMA QuitEffect ==
  ASSUME Types, NEW p \in Procs, Quit(p)
  PROVE  /\ pc'[p] = "idle" /\ held'[p] = None
         /\ \A q \in Procs \ {p} : /\ pc'[q] = pc[q] /\ held'[q] = held[q]
                                   /\ alone'[q] = alone[q]
         /\ \A w \in Wizards \ {p} : reset'[w] = reset[w]
         /\ alone' \in [Procs -> BOOLEAN] /\ reset' \in [Wizards -> BOOLEAN]
         /\ held' \in [Procs -> Keys \cup {None}]
         /\ ControlOK'
<1> USE DEF Types, TypeOK, Quit
<1>1. pc' = [pc EXCEPT ![p] = "idle"] /\ held' = [held EXCEPT ![p] = None]
  OBVIOUS
<1>2. pc \in [Procs -> Labels] /\ held \in [Procs -> Keys \cup {None}]
  BY DEF ControlOK
<1>3. ControlOK'
  <2>1. \A w \in Wizards : reset'[w] => w # p /\ reset[w]
    OBVIOUS
  <2>2. /\ pc' \in [Procs -> Labels] /\ pc'[p] = "idle" /\ held'[p] = None
        /\ \A q \in Procs \ {p} : pc'[q] = pc[q] /\ held'[q] = held[q]
    BY <1>1, <1>2 DEF Labels, DaemonLabels
  <2>3. ASSUME NEW w \in Wizards PROVE
           /\ pc'[w] \in WizardLabels
           /\ pc'[w] \in {"list", "sign"} => held'[w] # None
           /\ pc'[w] = "idle" => ~reset'[w]
    BY <2>1, <2>2 DEF ControlOK, WizardLabels, Procs
  <2>4. /\ pc'[Daemon] \in DaemonLabels
        /\ pc'[Daemon] \in {"idle"} \cup KeyLabels => held'[Daemon] = None
    BY <2>2 DEF ControlOK, DaemonLabels, Procs
  <2> QED
    BY <2>2, <2>3, <2>4 DEF ControlOK
<1>4. reset' \in [Wizards -> BOOLEAN] /\ \A w \in Wizards \ {p} : reset'[w] = reset[w]
  OBVIOUS
<1> QED
  BY <1>1, <1>2, <1>3, <1>4

\* What a process that changes a file does to the others' being alone.
LEMMA TouchEffect ==
  ASSUME Types, NEW p \in Procs, Touch(p)
  PROVE  /\ alone' \in [Procs -> BOOLEAN]
         /\ alone'[p] <=> alone[p]
         /\ \A q \in Procs \ {p} : alone'[q] => pc[q] = "idle"
<1>1. \A q \in Procs : alone'[q] = (alone[q] /\ (q = p \/ pc[q] = "idle"))
  BY DEF Touch
<1>2. alone' \in [Procs -> BOOLEAN]
  BY DEF Touch
<1> QED
  BY <1>1, <1>2 DEF Types, TypeOK

\* An end, or an exception, keeps the types.
LEMMA QuitTypes ==
  ASSUME Types, NEW p \in Procs, Quit(p), UNCHANGED <<files, drawn>>,
         entries' = IF p = Daemon THEN {} ELSE entries
  PROVE  Types'
<1> USE DEF Types, files, keyfile, list
<1>1. DrawnOK'
  BY QuitEffect DEF DrawnOK
<1>2. pc'[Daemon] = "idle" => held'[Daemon] = None /\ entries' = {}
  BY QuitEffect DEF TypeOK, Procs
<1>3. \A w \in Wizards : pc'[w] = "sign" => held'[w] # None
  BY QuitEffect DEF ControlOK
<1> QED
  BY <1>1, <1>2, <1>3, QuitEffect DEF TypeOK

\* An exception keeps the types: only ensure_master_key() raises in the daemon.
LEMMA RaiseTypes ==
  ASSUME Types, NEW p \in Procs, NEW from, Raise(p, from),
         UNCHANGED <<files, entries, drawn>>
  PROVE  Types'
<1>1. CASE p = Daemon /\ Goto(p, from, "load") /\ UNCHANGED alone
  <2>1. ControlOK' /\ UNCHANGED held
    BY <1>1, GotoControl, GotoEffect, DaemonApart DEF Types, DaemonLabels, KeyLabels
  <2>2. DrawnOK'
    BY <2>1 DEF Types, DrawnOK, files, keyfile, list
  <2>3. pc'[Daemon] # "idle"
    BY <1>1, GotoEffect DEF Types
  <2> QED
    BY <1>1, <2>1, <2>2, <2>3, GotoEffect DEF Types, TypeOK, ControlOK, files, keyfile, list
<1>2. CASE p # Daemon /\ pc[p] = from /\ Quit(p)
  BY <1>2, QuitTypes
<1> QED
  BY <1>1, <1>2 DEF Raise

\* The files are well typed, and hold no key that was not drawn.
FilesOK ==
    /\ admin \in Passwords \cup {None} /\ recovery \in BOOLEAN
    /\ {key, tmp} \subseteq Keys \cup {None} /\ loose \in BOOLEAN
    /\ json \in {None} \cup SUBSET Devices
    /\ sig \in {None} \cup (Keys \X SUBSET Devices)
    /\ frozen \subseteq {"json", "sig"}
    /\ drawn \in 0 .. MaxKeys
    /\ {key, tmp} \subseteq 1 .. drawn \cup {None}
    /\ sig # None => sig[1] \in 1 .. drawn

LEMMA TypesOfFiles == Types => FilesOK
BY DEF Types, TypeOK, DrawnOK, FilesOK

\* Files that are left alone stay well typed.
LEMMA SameFiles ==
  ASSUME Types, UNCHANGED <<files, drawn>>
  PROVE  FilesOK'
BY TypesOfFiles DEF FilesOK, files, keyfile, list

\* A process that goes on with what it holds keeps the types if the files do.
LEMMA GotoTypes ==
  ASSUME Types, NEW p \in Procs, NEW from, NEW to, Goto(p, from, to),
         p = Daemon => /\ to \in DaemonLabels \ {"idle"}
                       /\ to \in KeyLabels => from \in {"idle"} \cup KeyLabels,
         p \in Wizards => /\ to \in WizardLabels \ {"idle"}
                          /\ to \in {"list", "sign"} => held[p] # None,
         entries' = entries, FilesOK', alone' \in [Procs -> BOOLEAN], drawn' >= drawn
  PROVE  Types'
<1>1. ControlOK' /\ (pc'[Daemon] = "idle" => pc[Daemon] = "idle") /\ UNCHANGED <<held, reset>>
  BY GotoControl, GotoEffect DEF Types
<1>2. DrawnOK'
  <2>1. drawn \in Int /\ drawn' \in Int
    BY DEF Types, TypeOK, FilesOK
  <2>2. \A p_1 \in Procs : held'[p_1] \in 1 .. drawn' \cup {None}
    BY <1>1, <2>1 DEF Types, DrawnOK
  <2> QED
    BY <2>2 DEF FilesOK, DrawnOK
<1> QED
  BY <1>1, <1>2 DEF Types, TypeOK, FilesOK, ControlOK

\* The steps of ensure_master_key().
LEMMA EnsureTypes ==
  ASSUME Types, NEW p \in Procs, EnsureMasterKey(p)
  PROVE  Types'
<1> USE DEF keyfile, list
<1>1. CASE KeyCheck(p)
  <2>1. PICK to \in {"key_write", "key_read"} : Goto(p, "key", to)
    BY <1>1 DEF KeyCheck
  <2>2. FilesOK' /\ entries' = entries /\ alone' = alone /\ drawn' = drawn
    BY <1>1, SameFiles DEF KeyCheck
  <2> QED
    BY <2>1, <2>2, GotoTypes DEF Types, TypeOK, KeyLabels, DaemonLabels, WizardLabels
<1>2. CASE KeyWrite(p)
  <2>1. drawn' \in 0 .. MaxKeys /\ drawn' = drawn + 1 /\ drawn \in Nat
    BY <1>2, MaxKeysIsNat DEF KeyWrite, Types, TypeOK
  <2>2. FilesOK'
    BY <1>2, <2>1, TypesOfFiles DEF KeyWrite, FilesOK, Keys
  <2>3. alone' \in [Procs -> BOOLEAN]
    BY <1>2, TouchEffect DEF KeyWrite
  <2> QED
    BY <1>2, <2>1, <2>2, <2>3, GotoTypes DEF KeyWrite, KeyLabels, DaemonLabels, WizardLabels
<1>3. CASE KeyReplace(p)
  <2>1. CASE tmp = None
    BY <1>3, <2>1, RaiseTypes DEF KeyReplace
  <2>2. CASE tmp # None
    <3>1. /\ Goto(p, "key_replace", "key_restrict") /\ Touch(p)
          /\ key' = tmp /\ tmp' = None /\ loose' = TRUE
          /\ UNCHANGED <<admin, recovery, list, entries, drawn>>
      BY <1>3, <2>2 DEF KeyReplace
    <3>2. FilesOK'
      BY <3>1, TypesOfFiles DEF FilesOK
    <3>3. alone' \in [Procs -> BOOLEAN] /\ drawn' >= drawn
      BY <3>1, TouchEffect DEF Types, TypeOK
    <3> QED
      BY <3>1, <3>2, <3>3, GotoTypes DEF KeyLabels, DaemonLabels, WizardLabels
  <2> QED
    BY <2>1, <2>2
<1>4. CASE KeyRestrict(p)
  <2>1. FilesOK'
    BY <1>4, TypesOfFiles DEF KeyRestrict, FilesOK
  <2>2. alone' \in [Procs -> BOOLEAN] /\ drawn' >= drawn
    BY <1>4, TouchEffect DEF KeyRestrict, Types, TypeOK
  <2> QED
    BY <1>4, <2>1, <2>2, GotoTypes DEF KeyRestrict, KeyLabels, DaemonLabels, WizardLabels
<1>5. CASE KeyRead(p)
  <2>1. CASE key = None \/ loose
    BY <1>5, <2>1, RaiseTypes DEF KeyRead
  <2>2. CASE key # None /\ ~loose
    <3>1. /\ pc' = [pc EXCEPT ![p] = IF p = Daemon THEN "load" ELSE "list"]
          /\ held' = [held EXCEPT ![p] = key]
          /\ UNCHANGED <<files, reset, entries, drawn, alone>>
      BY <1>5, <2>2 DEF KeyRead
    <3>2. ControlOK'
      BY <2>2, <3>1, DaemonApart
      DEF Types, TypeOK, ControlOK, Procs, Labels, DaemonLabels, WizardLabels, KeyLabels
    <3>3. DrawnOK'
      BY <3>1 DEF Types, TypeOK, DrawnOK, files
    <3>4. pc'[Daemon] = "idle" => pc[Daemon] = "idle" /\ held'[Daemon] = held[Daemon]
      BY <3>1 DEF Types, ControlOK, Procs
    <3>5. \A w \in Wizards : pc'[w] = "sign" => held'[w] # None
      BY <3>2 DEF ControlOK
    <3> QED
      BY <3>1, <3>2, <3>3, <3>4, <3>5 DEF Types, TypeOK, files
  <2> QED
    BY <2>1, <2>2
<1> QED
  BY <1>1, <1>2, <1>3, <1>4, <1>5 DEF EnsureMasterKey

\* The wizard's own steps.
LEMMA WizardTypes ==
  ASSUME Types, NEW w \in Wizards, Wizard(w)
  PROVE  Types'
<1> USE DEF keyfile, list
<1>w. w \in Procs /\ w # Daemon
  BY DaemonApart DEF Procs
<1>n. drawn \in Int /\ None \notin Keys
  BY NoneApart DEF Types, TypeOK, Keys
<1>1. CASE Setup(w)
  <2>1. FilesOK' /\ alone' \in [Procs -> BOOLEAN]
    BY <1>1, SameFiles DEF Setup, Types, TypeOK
  <2> QED
    BY <1>1, <1>w, <1>n, <2>1, GotoTypes DEF Setup, WizardLabels, KeyLabels
<1>2. CASE Reset(w)
  <2>1. FilesOK'
    BY <1>2, TypesOfFiles DEF Reset, Wipe, FilesOK
  <2>2. alone' \in [Procs -> BOOLEAN]
    BY <1>2, <1>w, TouchEffect DEF Reset
  <2>3. reset' \in [Wizards -> BOOLEAN]
    BY <1>2 DEF Reset, Types, TypeOK
  <2>4. ControlOK' /\ pc'[Daemon] = pc[Daemon]
    <3>1. CASE "sig" \in frozen
      BY <1>2, <3>1 DEF Reset, Types, ControlOK
    <3>2. CASE "sig" \notin frozen
      <4>1. /\ pc' = [pc EXCEPT ![w] = "password"] /\ held' = held
            /\ reset' = [reset EXCEPT ![w] = TRUE]
        BY <1>2, <3>2 DEF Reset
      <4>2. \A v \in Wizards \ {w} : pc'[v] = pc[v] /\ reset'[v] = reset[v]
        BY <4>1 DEF Types, TypeOK, ControlOK, Procs
      <4>3. pc' \in [Procs -> Labels] /\ pc'[w] = "password" /\ pc'[Daemon] = pc[Daemon]
        BY <1>w, <4>1 DEF Types, ControlOK, Procs, Labels, WizardLabels
      <4> QED
        BY <4>1, <4>2, <4>3 DEF Types, ControlOK, WizardLabels
    <3> QED
      BY <3>1, <3>2
  <2>5. DrawnOK'
    BY <1>2, <2>1 DEF Reset, Types, DrawnOK, FilesOK
  <2> QED
    BY <1>2, <2>1, <2>2, <2>3, <2>4, <2>5 DEF Reset, Types, TypeOK, FilesOK, ControlOK
<1>3. CASE RegenerateRecovery(w)
  <2>1. alone' \in [Procs -> BOOLEAN]
    BY <1>3, <1>w, TouchEffect DEF RegenerateRecovery
  <2> QED
    BY <1>3, <2>1 DEF RegenerateRecovery, Types, TypeOK, DrawnOK, ControlOK, memory
<1>4. CASE SetPassword(w)
  <2>1. FilesOK'
    BY <1>4, TypesOfFiles DEF SetPassword, FilesOK
  <2>2. alone' \in [Procs -> BOOLEAN]
    BY <1>4, <1>w, TouchEffect DEF SetPassword
  <2> QED
    BY <1>4, <1>w, <1>n, <2>1, <2>2, GotoTypes DEF SetPassword, WizardLabels, KeyLabels
<1>5. CASE EnsureMasterKey(w)
  BY <1>5, <1>w, EnsureTypes
<1>6. CASE InitList(w)
  <2>1. CASE json # None /\ sig # None
    <3>1. FilesOK' /\ alone' \in [Procs -> BOOLEAN]
      BY <1>6, <2>1, SameFiles DEF InitList, Types, TypeOK
    <3> QED
      BY <1>6, <1>w, <1>n, <2>1, <3>1, GotoTypes DEF InitList, WizardLabels, KeyLabels
  <2>2. CASE ~(json # None /\ sig # None) /\ "json" \in frozen
    BY <1>6, <1>w, <2>2, RaiseTypes DEF InitList
  <2>3. CASE ~(json # None /\ sig # None) /\ "json" \notin frozen
    <3>1. /\ Goto(w, "list", "sign") /\ json' = {} /\ Touch(w)
          /\ UNCHANGED <<admin, recovery, keyfile, sig, frozen, entries, drawn>>
      BY <1>6, <2>3 DEF InitList
    <3>2. FilesOK'
      BY <3>1, TypesOfFiles DEF FilesOK
    <3>3. alone' \in [Procs -> BOOLEAN] /\ held[w] # None
      BY <1>w, <3>1, TouchEffect DEF Types, ControlOK, Goto
    <3> QED
      BY <1>w, <1>n, <3>1, <3>2, <3>3, GotoTypes DEF WizardLabels, KeyLabels
  <2> QED
    BY <2>1, <2>2, <2>3
<1>7. CASE SignList(w)
  <2>1. CASE "sig" \in frozen
    BY <1>7, <1>w, <2>1, RaiseTypes DEF SignList
  <2>2. CASE "sig" \notin frozen
    <3>1. /\ Goto(w, "sign", "code") /\ sig' = <<held[w], {}>> /\ Touch(w)
          /\ UNCHANGED <<admin, recovery, keyfile, json, frozen, entries, drawn>>
      BY <1>7, <2>2 DEF SignList
    <3>2. held[w] \in Keys /\ held[w] \in 1 .. drawn
      BY <1>w, <3>1 DEF Types, TypeOK, ControlOK, DrawnOK, Goto
    <3>3. FilesOK'
      BY <3>1, <3>2, TypesOfFiles DEF FilesOK
    <3>4. alone' \in [Procs -> BOOLEAN]
      BY <1>w, <3>1, TouchEffect
    <3> QED
      BY <1>w, <1>n, <3>1, <3>3, <3>4, GotoTypes DEF WizardLabels, KeyLabels
  <2> QED
    BY <2>1, <2>2
<1>8. CASE GenerateCode(w)
  <2>1. FilesOK'
    BY <1>8, TypesOfFiles DEF GenerateCode, FilesOK
  <2>2. alone' \in [Procs -> BOOLEAN]
    BY <1>8, <1>w, TouchEffect DEF GenerateCode
  <2> QED
    BY <1>8, <1>w, <1>n, <2>1, <2>2, GotoTypes DEF GenerateCode, WizardLabels, KeyLabels
<1>9. CASE Leave(w)
  BY <1>9, <1>w, QuitTypes DEF Leave
<1>10. CASE Lock(w)
  <2>1. alone' \in [Procs -> BOOLEAN]
    BY <1>10, <1>w, TouchEffect DEF Lock
  <2> QED
    BY <1>10, <2>1 DEF Lock, Types, TypeOK, DrawnOK, ControlOK, memory
<1>11. CASE ResetInterrupted(w)
  <2>1. alone' \in [Procs -> BOOLEAN]
    BY <1>11, <1>w, TouchEffect DEF ResetInterrupted
  <2>2. FilesOK'
    BY <1>11, TypesOfFiles DEF ResetInterrupted, Wipe, FilesOK
  <2> QED
    BY <1>11, <2>1, <2>2 DEF ResetInterrupted, Types, TypeOK, FilesOK, DrawnOK, ControlOK, memory
<1> QED
  BY <1>1, <1>2, <1>3, <1>4, <1>5, <1>6, <1>7, <1>8, <1>9, <1>10, <1>11 DEF Wizard

\* The daemon's own steps.
LEMMA DaemonTypes ==
  ASSUME Types, DaemonStep
  PROVE  Types'
<1> USE DEF keyfile, list
<1>d. Daemon \in Procs /\ Daemon \notin Wizards
  BY DaemonApart DEF Procs
<1>n. drawn \in Int /\ None \notin Keys
  BY NoneApart DEF Types, TypeOK, Keys
<1>1. CASE Start
  <2>1. FilesOK' /\ alone' \in [Procs -> BOOLEAN]
    BY <1>1, SameFiles DEF Start, Types, TypeOK
  <2> QED
    BY <1>1, <1>d, <1>n, <2>1, GotoTypes DEF Start, DaemonLabels, KeyLabels
<1>2. CASE EnsureMasterKey(Daemon)
  BY <1>2, <1>d, EnsureTypes
<1>3. CASE Load
  <2>1. Goto(Daemon, "load", "serving") /\ UNCHANGED <<files, drawn, alone>>
    BY <1>3 DEF Load
  <2>2. ControlOK' /\ pc'[Daemon] = "serving" /\ UNCHANGED <<held, reset>>
    BY <1>d, <2>1, GotoControl, GotoEffect DEF Types, DaemonLabels, KeyLabels
  <2>3. entries' \subseteq Devices
    BY <1>3 DEF Load, Loadable, Types, TypeOK
  <2> QED
    BY <2>1, <2>2, <2>3 DEF Types, TypeOK, DrawnOK, ControlOK, files
<1>4. CASE Save
  <2>1. entries' \subseteq Devices
    BY <1>4 DEF Save, Types, TypeOK
  <2>2. alone' \in [Procs -> BOOLEAN]
    BY <1>4, <1>d, TouchEffect DEF Save
  <2>3. frozen' \subseteq {"json", "sig"}
    BY <1>4 DEF Save, Types, TypeOK
  <2>4. /\ sig' \in {None} \cup (Keys \X SUBSET Devices)
        /\ sig' # None => sig'[1] \in 1 .. drawn
    <3>1. CASE held[Daemon] = None
      BY <1>4, <3>1 DEF Save, Types, TypeOK, DrawnOK
    <3>2. CASE held[Daemon] # None
      BY <1>4, <1>d, <2>1, <3>2 DEF Save, Types, TypeOK, DrawnOK
    <3> QED
      BY <3>1, <3>2
  <2>5. json' \in SUBSET Devices /\ pc[Daemon] = "serving"
    BY <1>4, <2>1 DEF Save, Serving
  <2> QED
    BY <1>4, <2>1, <2>2, <2>3, <2>4, <2>5 DEF Save, Types, TypeOK, DrawnOK, ControlOK
<1>5. CASE UseCode
  <2>1. alone' \in [Procs -> BOOLEAN]
    BY <1>5, <1>d, TouchEffect DEF UseCode
  <2> QED
    BY <1>5, <2>1 DEF UseCode, Types, TypeOK, DrawnOK, ControlOK, memory
<1>6. CASE Stop
  BY <1>6, <1>d, QuitTypes DEF Stop
<1> QED
  BY <1>1, <1>2, <1>3, <1>4, <1>5, <1>6 DEF DaemonStep

\* Every step keeps the types.
LEMMA NextTypes == Types /\ [Next]_vars => Types'
<1> SUFFICES ASSUME Types, [Next]_vars PROVE Types'
  OBVIOUS
<1>1. CASE UNCHANGED vars
  BY <1>1 DEF vars, files, keyfile, list, memory, Types, TypeOK, ControlOK, DrawnOK
<1> QED
  BY <1>1, WizardTypes, DaemonTypes DEF Next

\* Every variable has its type, and whoever is about to sign has read a key.
THEOREM TypeCorrect == Spec => []TypeOK
<1>1. Types => TypeOK
  BY DEF Types
<1> QED
  BY <1>1, InitTypes, NextTypes, PTL DEF Spec

(***************************************************************************)
(* Part 2: what a process alone with the files has done                    *)
(***************************************************************************)

\* A step of p, as the other process q sees it: q's own memory stays, and
\* either no file has changed or q, if it runs, is not alone any more.
Apart(p, q) ==
    /\ pc'[q] = pc[q] /\ held'[q] = held[q]
    /\ q \in Wizards => reset'[q] = reset[q]
    /\ q = Daemon => entries' = entries
    /\ \/ Touch(p)
       \/ UNCHANGED files /\ alone'[q] = alone[q]

\* Then q's part of the invariant stays.
LEMMA OthersKeep ==
  ASSUME Types, NEW p \in Procs, NEW q \in Procs \ {p}, Apart(p, q), ProcOK(q)
  PROVE  ProcOK(q)'
<1>1. CASE Touch(p)
  <2>1. alone'[q] => pc'[q] = "idle"
    BY <1>1, TouchEffect DEF Apart
  <2> QED
    BY <2>1 DEF ProcOK, KeyProgress, DaemonOK, WizardOK, Serving, KeyLabels
<1>2. CASE UNCHANGED files /\ alone'[q] = alone[q]
  <2>1. UNCHANGED <<admin, key, tmp, loose, json, sig>> /\ alone'[q] = alone[q]
    BY <1>2 DEF files, keyfile, list
  <2>2. KeyProgress(q)'
    BY <2>1 DEF Apart, ProcOK, KeyProgress
  <2>3. q = Daemon => DaemonOK'
    BY <2>1 DEF Apart, ProcOK, DaemonOK, Serving, Loadable, Signed
  <2>4. q \in Wizards => WizardOK(q)'
    BY <2>1 DEF Apart, ProcOK, WizardOK
  <2> QED
    BY <2>2, <2>3, <2>4 DEF ProcOK
<1> QED
  BY <1>1, <1>2 DEF Apart

\* A process that has left has no part to keep.
LEMMA IdleKeeps ==
  ASSUME NEW p \in Procs, pc[p] = "idle"
  PROVE  ProcOK(p)
BY DEF ProcOK, KeyProgress, DaemonOK, WizardOK, Serving, KeyLabels

\* Exceptions and ends, as the others see them.
LEMMA LeaveApart ==
  ASSUME Types, NEW p \in Procs, NEW q \in Procs \ {p}, NEW from,
         Quit(p) \/ Raise(p, from), UNCHANGED files,
         q = Daemon => entries' = entries
  PROVE  Apart(p, q)
<1>1. CASE Quit(p)
  BY <1>1, QuitEffect DEF Apart
<1>2. CASE p = Daemon /\ Goto(p, from, "load") /\ UNCHANGED alone
  BY <1>2, GotoEffect DEF Apart, Types
<1> QED
  BY <1>1, <1>2 DEF Raise

\* ensure_master_key(), as the others see it.
LEMMA EnsureApart ==
  ASSUME Types, NEW p \in Procs, NEW q \in Procs \ {p}, EnsureMasterKey(p)
  PROVE  Apart(p, q)
<1>1. CASE KeyCheck(p)
  BY <1>1, GotoEffect DEF KeyCheck, Apart, Types
<1>2. CASE KeyWrite(p)
  BY <1>2, GotoEffect DEF KeyWrite, Apart, Types
<1>3. CASE KeyReplace(p)
  <2>1. CASE tmp = None
    BY <1>3, <2>1, LeaveApart DEF KeyReplace
  <2>2. CASE tmp # None
    BY <1>3, <2>2, GotoEffect DEF KeyReplace, Apart, Types
  <2> QED
    BY <2>1, <2>2
<1>4. CASE KeyRestrict(p)
  BY <1>4, GotoEffect DEF KeyRestrict, Apart, Types
<1>5. CASE KeyRead(p)
  <2>1. CASE key = None \/ loose
    BY <1>5, <2>1, LeaveApart DEF KeyRead
  <2>2. CASE ~(key = None \/ loose)
    BY <1>5, <2>2 DEF KeyRead, Apart, Types, TypeOK, ControlOK
  <2> QED
    BY <2>1, <2>2
<1> QED
  BY <1>1, <1>2, <1>3, <1>4, <1>5 DEF EnsureMasterKey

\* The wizard, as the others see it.
LEMMA WizardApart ==
  ASSUME Types, NEW w \in Wizards, Wizard(w), NEW q \in Procs \ {w}
  PROVE  Apart(w, q)
<1>w. w \in Procs /\ w # Daemon
  BY DaemonApart DEF Procs
<1>1. CASE Setup(w)
  BY <1>1, <1>w, GotoEffect DEF Setup, Apart, Types
<1>2. CASE Reset(w)
  BY <1>2, <1>w DEF Reset, Apart, Types, TypeOK, ControlOK
<1>3. CASE ResetInterrupted(w) \/ RegenerateRecovery(w) \/ Lock(w)
  BY <1>3, <1>w DEF ResetInterrupted, RegenerateRecovery, Lock, Apart, memory
<1>4. CASE SetPassword(w) \/ GenerateCode(w)
  BY <1>4, <1>w, GotoEffect DEF SetPassword, GenerateCode, Apart, Types
<1>5. CASE EnsureMasterKey(w)
  BY <1>5, <1>w, EnsureApart
<1>6. CASE InitList(w)
  <2>1. CASE (json # None /\ sig # None) \/ "json" \notin frozen
    BY <1>6, <1>w, <2>1, GotoEffect DEF InitList, Apart, Types
  <2>2. CASE ~((json # None /\ sig # None) \/ "json" \notin frozen)
    BY <1>6, <1>w, <2>2, LeaveApart DEF InitList
  <2> QED
    BY <2>1, <2>2
<1>7. CASE SignList(w)
  <2>1. CASE "sig" \in frozen
    BY <1>7, <1>w, <2>1, LeaveApart DEF SignList
  <2>2. CASE "sig" \notin frozen
    BY <1>7, <1>w, <2>2, GotoEffect DEF SignList, Apart, Types
  <2> QED
    BY <2>1, <2>2
<1>8. CASE Leave(w)
  BY <1>8, <1>w, LeaveApart DEF Leave
<1> QED
  BY <1>1, <1>2, <1>3, <1>4, <1>5, <1>6, <1>7, <1>8 DEF Wizard

\* The daemon, as the wizards see it.
LEMMA DaemonApartSteps ==
  ASSUME Types, DaemonStep, NEW q \in Procs \ {Daemon}
  PROVE  Apart(Daemon, q)
<1>d. Daemon \in Procs
  BY DEF Procs
<1>1. CASE Start \/ Load
  BY <1>1, <1>d, GotoEffect DEF Start, Load, Apart, Types
<1>2. CASE EnsureMasterKey(Daemon)
  BY <1>2, <1>d, EnsureApart
<1>3. CASE Save \/ UseCode
  BY <1>3 DEF Save, UseCode, Apart, memory
<1>4. CASE Stop
  BY <1>4, <1>d, LeaveApart DEF Stop
<1> QED
  BY <1>1, <1>2, <1>3, <1>4 DEF DaemonStep

\* ensure_master_key() keeps the part of its caller: under a process alone
\* with the files the temporary file it wrote and the key it made are there.
LEMMA EnsureKeeps ==
  ASSUME Types, NEW p \in Procs, ProcOK(p), EnsureMasterKey(p)
  PROVE  ProcOK(p)'
<1> USE DEF keyfile, list, files
<1>n. None \notin 1 .. MaxKeys /\ drawn \in 0 .. MaxKeys /\ MaxKeys \in Nat
  BY NoneApart, MaxKeysIsNat DEF Types, TypeOK
<1>d. p = Daemon <=> p \notin Wizards
  BY DaemonApart DEF Procs
<1>1. CASE KeyCheck(p)
  <2>1. /\ pc[p] = "key" /\ pc'[p] = IF key = None THEN "key_write" ELSE "key_read"
        /\ UNCHANGED <<admin, key, tmp, loose, json, sig, reset, held, entries, alone>>
    BY <1>1, GotoEffect DEF KeyCheck, Types
  <2>2. KeyProgress(p)'
    BY <2>1 DEF KeyProgress
  <2>3. p = Daemon => DaemonOK'
    BY <2>1 DEF DaemonOK, Serving
  <2>4. p \in Wizards => WizardOK(p)'
    BY <2>1 DEF ProcOK, WizardOK, KeyLabels
  <2> QED
    BY <2>2, <2>3, <2>4 DEF ProcOK
<1>2. CASE KeyWrite(p)
  <2>1. /\ pc[p] = "key_write" /\ pc'[p] = "key_replace" /\ tmp' = drawn + 1
        /\ drawn < MaxKeys /\ (alone'[p] <=> alone[p])
        /\ UNCHANGED <<admin, key, loose, json, sig, reset, held, entries>>
    BY <1>2, GotoEffect, TouchEffect DEF KeyWrite, Types
  <2>2. tmp' # None /\ (sig # None => sig[1] # tmp')
    BY <1>n, <2>1 DEF Types, DrawnOK
  <2>3. KeyProgress(p)'
    BY <2>1, <2>2 DEF KeyProgress
  <2>4. p = Daemon => DaemonOK'
    BY <2>1 DEF DaemonOK, Serving
  <2>5. p \in Wizards => WizardOK(p)'
    BY <2>1, <2>2 DEF ProcOK, WizardOK, KeyLabels
  <2> QED
    BY <2>3, <2>4, <2>5 DEF ProcOK
<1>3. CASE KeyReplace(p) /\ tmp = None
  <2>1. Raise(p, "key_replace") /\ UNCHANGED <<files, entries, drawn>>
    BY <1>3 DEF KeyReplace
  <2>2. CASE p = Daemon /\ Goto(p, "key_replace", "load") /\ UNCHANGED alone
    <3>1. pc[p] = "key_replace" /\ pc'[p] = "load"
      BY <2>2, GotoEffect DEF Types
    <3> QED
      BY <1>3, <1>d, <2>2, <3>1 DEF ProcOK, KeyProgress, DaemonOK
  <2>3. CASE Quit(p)
    BY <2>3, QuitEffect, IdleKeeps DEF ProcOK, KeyProgress, DaemonOK, WizardOK, Serving,
       KeyLabels
  <2> QED
    BY <2>1, <2>2, <2>3 DEF Raise
<1>4. CASE KeyReplace(p) /\ tmp # None
  <2>1. /\ pc[p] = "key_replace" /\ pc'[p] = "key_restrict" /\ key' = tmp
        /\ (alone'[p] <=> alone[p])
        /\ UNCHANGED <<admin, json, sig, reset, held, entries>>
    BY <1>4, GotoEffect, TouchEffect DEF KeyReplace, Types
  <2>2. KeyProgress(p)'
    BY <1>4, <2>1 DEF KeyProgress
  <2>3. p = Daemon => DaemonOK'
    BY <2>1 DEF DaemonOK, Serving
  <2>4. p \in Wizards => WizardOK(p)'
    BY <2>1 DEF ProcOK, WizardOK, KeyLabels
  <2> QED
    BY <2>2, <2>3, <2>4 DEF ProcOK
<1>5. CASE KeyRestrict(p)
  <2>1. /\ pc[p] = "key_restrict" /\ pc'[p] = "key_read"
        /\ (alone'[p] <=> alone[p])
        /\ UNCHANGED <<admin, key, json, sig, reset, held, entries>>
    BY <1>5, GotoEffect, TouchEffect DEF KeyRestrict, Types
  <2>2. KeyProgress(p)'
    BY <2>1 DEF ProcOK, KeyProgress
  <2>3. p = Daemon => DaemonOK'
    BY <2>1 DEF DaemonOK, Serving
  <2>4. p \in Wizards => WizardOK(p)'
    BY <2>1 DEF ProcOK, WizardOK, KeyLabels
  <2> QED
    BY <2>2, <2>3, <2>4 DEF ProcOK
<1>6. CASE KeyRead(p) /\ (key = None \/ loose)
  <2>1. Raise(p, "key_read") /\ UNCHANGED <<files, entries, drawn>>
    BY <1>6 DEF KeyRead
  <2>2. CASE p = Daemon /\ Goto(p, "key_read", "load") /\ UNCHANGED alone
    <3>1. pc[p] = "key_read" /\ pc'[p] = "load" /\ held'[Daemon] = held[Daemon]
      BY <2>2, GotoEffect DEF Types
    <3>2. held[Daemon] = None
      BY <2>2, <3>1 DEF Types, ControlOK, KeyLabels
    <3>3. alone[Daemon] => loose
      BY <1>6, <2>2, <3>1 DEF ProcOK, KeyProgress
    <3> QED
      BY <1>d, <2>1, <2>2, <3>1, <3>2, <3>3 DEF ProcOK, KeyProgress, DaemonOK, Serving
  <2>3. CASE Quit(p)
    BY <2>3, QuitEffect DEF ProcOK, KeyProgress, DaemonOK, WizardOK, Serving, KeyLabels
  <2> QED
    BY <2>1, <2>2, <2>3 DEF Raise
<1>7. CASE KeyRead(p) /\ ~(key = None \/ loose)
  <2>1. /\ pc[p] = "key_read" /\ pc'[p] = IF p = Daemon THEN "load" ELSE "list"
        /\ held'[p] = key
        /\ UNCHANGED <<admin, key, tmp, loose, json, sig, reset, entries, alone>>
    BY <1>7 DEF KeyRead, Types, TypeOK, ControlOK
  <2>2. KeyProgress(p)'
    BY <2>1 DEF KeyProgress
  <2>3. p = Daemon => DaemonOK'
    BY <2>1 DEF DaemonOK, Serving
  <2>4. p \in Wizards => WizardOK(p)'
    BY <1>7, <1>d, <2>1 DEF ProcOK, WizardOK, KeyLabels
  <2> QED
    BY <2>2, <2>3, <2>4 DEF ProcOK
<1> QED
  BY <1>1, <1>2, <1>3, <1>4, <1>5, <1>6, <1>7 DEF EnsureMasterKey

\* An exception or an end of a wizard leaves it nothing to keep.
LEMMA QuitKeeps ==
  ASSUME Types, NEW p \in Procs, NEW from, Quit(p) \/ (p # Daemon /\ Raise(p, from))
  PROVE  ProcOK(p)'
<1>1. pc'[p] = "idle"
  BY QuitEffect DEF Raise
<1> QED
  BY <1>1 DEF ProcOK, KeyProgress, DaemonOK, WizardOK, Serving, KeyLabels

\* The wizard's steps keep its own part.
LEMMA WizardKeeps ==
  ASSUME Types, NEW w \in Wizards, ProcOK(w), Wizard(w)
  PROVE  ProcOK(w)'
<1> USE DEF keyfile, list, files
<1>w. w \in Procs /\ w # Daemon
  BY DaemonApart DEF Procs
<1>k. WizardOK(w)' /\ KeyProgress(w)' => ProcOK(w)'
  BY <1>w DEF ProcOK
<1>o. WizardOK(w) /\ KeyProgress(w)
  BY DEF ProcOK
<1>1. CASE Setup(w)
  <2>1. /\ pc'[w] = "password" /\ admin = None /\ key = None /\ ~reset[w]
        /\ UNCHANGED <<admin, key, tmp, loose, json, sig, reset, held>>
    <3>1. pc[w] = "idle"
      BY <1>1 DEF Setup, Goto
    <3> QED
      BY <1>1, <1>w, <3>1, GotoEffect DEF Setup, ExistingSecrets, Types, ControlOK
  <2> QED
    BY <1>k, <2>1 DEF KeyProgress, WizardOK, KeyLabels
<1>2. CASE Reset(w)
  <2>1. CASE "sig" \in frozen
    <3>1. pc'[w] = "idle"
      BY <1>2, <2>1 DEF Reset
    <3> QED
      BY <1>k, <3>1 DEF KeyProgress, WizardOK, KeyLabels
  <2>2. CASE "sig" \notin frozen
    <3>1. pc'[w] = "password" /\ admin' = None /\ key' = None /\ sig' = None
      BY <1>2, <1>w, <2>2 DEF Reset, Wipe, Types, ControlOK
    <3> QED
      BY <1>k, <3>1 DEF KeyProgress, WizardOK, KeyLabels
  <2> QED
    BY <2>1, <2>2
<1>3. CASE ResetInterrupted(w) \/ RegenerateRecovery(w) \/ Lock(w)
  <2>1. pc'[w] \in {"idle", "done"}
    BY <1>3 DEF ResetInterrupted, RegenerateRecovery, Lock, memory
  <2> QED
    BY <1>k, <2>1 DEF KeyProgress, WizardOK, KeyLabels
<1>4. CASE SetPassword(w)
  <2>1. /\ pc[w] = "password" /\ pc'[w] = "key" /\ admin' # None
        /\ (alone'[w] <=> alone[w])
        /\ UNCHANGED <<key, tmp, loose, json, sig, reset, held>>
    BY <1>4, <1>w, GotoEffect, TouchEffect, NoneApart DEF SetPassword, Types
  <2> QED
    BY <1>k, <1>o, <2>1 DEF KeyProgress, WizardOK, KeyLabels
<1>5. CASE EnsureMasterKey(w)
  BY <1>5, <1>w, EnsureKeeps
<1>6. CASE InitList(w) /\ json # None /\ sig # None
  <2>1. /\ pc[w] = "list" /\ pc'[w] = "code"
        /\ UNCHANGED <<admin, key, tmp, loose, json, sig, reset, held, alone>>
    BY <1>6, <1>w, GotoEffect DEF InitList, Types
  <2> QED
    BY <1>6, <1>k, <1>o, <2>1 DEF KeyProgress, WizardOK, KeyLabels
<1>7. CASE InitList(w) /\ ~(json # None /\ sig # None) /\ "json" \in frozen
  BY <1>7, <1>w, QuitKeeps DEF InitList
<1>8. CASE InitList(w) /\ ~(json # None /\ sig # None) /\ "json" \notin frozen
  <2>1. /\ pc[w] = "list" /\ pc'[w] = "sign" /\ json' = {}
        /\ (alone'[w] <=> alone[w])
        /\ UNCHANGED <<admin, key, tmp, loose, sig, reset, held>>
    BY <1>8, <1>w, GotoEffect, TouchEffect DEF InitList, Types
  <2> QED
    BY <1>k, <1>o, <2>1 DEF KeyProgress, WizardOK, KeyLabels
<1>9. CASE SignList(w) /\ "sig" \in frozen
  BY <1>9, <1>w, QuitKeeps DEF SignList
<1>10. CASE SignList(w) /\ "sig" \notin frozen
  <2>1. /\ pc[w] = "sign" /\ pc'[w] = "code" /\ sig' = <<held[w], {}>>
        /\ (alone'[w] <=> alone[w])
        /\ UNCHANGED <<admin, key, tmp, loose, json, reset, held>>
    BY <1>10, <1>w, GotoEffect, TouchEffect DEF SignList, Types
  <2>2. held[w] \in Keys
    BY <1>w, <2>1 DEF Types, TypeOK, ControlOK
  <2>3. sig' # None
    BY <2>1, <2>2, NoneIsNoList DEF Keys
  <2>4. alone[w] => json' = {} /\ json' # None /\ held[w] = key' /\ sig' = <<key', json'>>
    BY <1>o, <2>1, NoneIsNoList DEF WizardOK
  <2> QED
    BY <1>k, <1>o, <2>1, <2>3, <2>4 DEF KeyProgress, WizardOK, KeyLabels
<1>11. CASE GenerateCode(w)
  <2>1. pc'[w] = "done"
    BY <1>11, <1>w, GotoEffect DEF GenerateCode, Types
  <2> QED
    BY <1>k, <2>1 DEF KeyProgress, WizardOK, KeyLabels
<1>12. CASE Leave(w)
  BY <1>12, <1>w, QuitKeeps DEF Leave
<1> QED
  BY <1>1, <1>2, <1>3, <1>4, <1>5, <1>6, <1>7, <1>8, <1>9, <1>10, <1>11, <1>12 DEF Wizard

\* The daemon's steps keep its own part: what it loads or saves is what it trusts.
LEMMA DaemonKeeps ==
  ASSUME Types, ProcOK(Daemon), DaemonStep
  PROVE  ProcOK(Daemon)'
<1> USE DEF keyfile, list, files
<1>d. Daemon \in Procs /\ Daemon \notin Wizards
  BY DaemonApart DEF Procs
<1>k. DaemonOK' /\ KeyProgress(Daemon)' => ProcOK(Daemon)'
  BY <1>d DEF ProcOK
<1>o. DaemonOK /\ KeyProgress(Daemon)
  BY DEF ProcOK
<1>1. CASE Start
  <2>1. pc'[Daemon] = "key"
    BY <1>1, <1>d, GotoEffect DEF Start, Types
  <2> QED
    BY <1>k, <2>1 DEF KeyProgress, DaemonOK, Serving
<1>2. CASE EnsureMasterKey(Daemon)
  BY <1>2, <1>d, EnsureKeeps
<1>3. CASE Load
  <2>1. /\ pc[Daemon] = "load" /\ pc'[Daemon] = "serving"
        /\ entries' = Loadable(held[Daemon])
        /\ UNCHANGED <<key, tmp, loose, json, sig, held, alone>>
    BY <1>3, <1>d, GotoEffect DEF Load, Types
  <2> QED
    BY <1>k, <1>o, <2>1 DEF KeyProgress, DaemonOK, Loadable, Signed
<1>4. CASE Save
  <2>1. /\ pc[Daemon] = "serving" /\ pc'[Daemon] = "serving"
        /\ json' = entries' /\ (alone'[Daemon] <=> alone[Daemon])
        /\ UNCHANGED <<key, tmp, loose, held>>
    BY <1>4, <1>d, TouchEffect DEF Save, Serving, memory
  <2>2. held[Daemon] # None => sig' = <<held[Daemon], json'>>
    BY <1>4, <2>1 DEF Save
  <2>3. entries' = Loadable(held[Daemon])'
    <3>1. entries' \subseteq Devices
      BY <1>4 DEF Save, Types, TypeOK
    <3>2. json' # None
      BY <2>1, <3>1, NoneIsNoList
    <3> QED
      BY <2>1, <2>2, <3>2 DEF Loadable, Signed
  <2> QED
    BY <1>k, <1>o, <2>1, <2>3 DEF KeyProgress, DaemonOK, Serving
<1>5. CASE UseCode
  <2>1. /\ pc[Daemon] = "serving" /\ (alone'[Daemon] <=> alone[Daemon])
        /\ UNCHANGED <<pc, key, tmp, loose, json, sig, held, entries>>
    BY <1>5, <1>d, TouchEffect DEF UseCode, Serving, memory
  <2> QED
    BY <1>k, <1>o, <2>1 DEF KeyProgress, DaemonOK, Serving, Loadable, Signed
<1>6. CASE Stop
  BY <1>6, <1>d, QuitKeeps DEF Stop
<1> QED
  BY <1>1, <1>2, <1>3, <1>4, <1>5, <1>6 DEF DaemonStep

\* The initial state satisfies the invariant.
LEMMA InitIInv == Init => IInv
<1> SUFFICES ASSUME Init PROVE IInv
  OBVIOUS
<1>1. \A p \in Procs : pc[p] = "idle"
  BY DEF Init
<1> QED
  BY <1>1, InitTypes, IdleKeeps DEF IInv

\* Every step keeps the invariant.
LEMMA NextIInv == IInv /\ [Next]_vars => IInv'
<1> SUFFICES ASSUME IInv, [Next]_vars PROVE IInv'
  OBVIOUS
<1> USE DEF IInv
<1>1. Types'
  BY NextTypes
<1>2. CASE UNCHANGED vars
  <2>1. UNCHANGED <<admin, key, tmp, loose, json, sig, pc, reset, held, entries, alone>>
    BY <1>2 DEF vars, files, keyfile, list, memory
  <2>2. \A p \in Procs : KeyProgress(p)'
    BY <2>1 DEF ProcOK, KeyProgress
  <2>3. Daemon \in Procs => DaemonOK'
    BY <2>1 DEF ProcOK, DaemonOK, Serving, Loadable, Signed
  <2>4. \A w \in Procs : w \in Wizards => WizardOK(w)'
    BY <2>1 DEF ProcOK, WizardOK
  <2> QED
    BY <1>1, <2>2, <2>3, <2>4 DEF ProcOK
<1>3. CASE DaemonStep
  <2>1. Daemon \in Procs
    BY DEF Procs
  <2>2. \A q \in Procs \ {Daemon} : ProcOK(q)'
    BY <1>3, <2>1, DaemonApartSteps, OthersKeep
  <2> QED
    BY <1>1, <1>3, <2>1, <2>2, DaemonKeeps
<1>4. ASSUME NEW w \in Wizards, Wizard(w) PROVE IInv'
  <2>1. w \in Procs
    BY DEF Procs
  <2>2. \A q \in Procs \ {w} : ProcOK(q)'
    BY <1>4, <2>1, WizardApart, OthersKeep
  <2> QED
    BY <1>1, <1>4, <2>1, <2>2, WizardKeeps
<1> QED
  BY <1>2, <1>3, <1>4 DEF Next

\* The invariant holds in every reachable state.
THEOREM Inductive == Spec => []IInv
BY InitIInv, NextIInv, PTL DEF Spec

\* MemoryIsDisk: what a daemon whose files nobody has touched trusts is what a
\* restart would load, with the same key (daemon.py, lines 73-80).
THEOREM TrustsTheDisk == Spec => []MemoryIsDisk
<1>1. IInv => MemoryIsDisk
  BY DEF IInv, Procs, ProcOK, DaemonOK, MemoryIsDisk, Serving
<1> QED
  BY <1>1, Inductive, PTL

\* PasswordKept: only a wizard that another process has disturbed can replace
\* a password (setup.py, lines 113-126).
THEOREM KeepsPassword == Spec => PasswordKept
<1> DEFINE A == admin # None /\ admin' \notin {admin, None} =>
                   \E w \in Wizards : Open(w) /\ ~alone[w]
<1>1. IInv /\ [Next]_vars => A
  <2> SUFFICES ASSUME IInv, Next, admin # None, admin' \notin {admin, None}
               PROVE  \E w \in Wizards : Open(w) /\ ~alone[w]
    BY DEF vars, files
  <2>1. PICK w \in Wizards : SetPassword(w)
    BY DEF Next, DaemonStep, Wizard, Start, Load, Save, UseCode, Stop, EnsureMasterKey, KeyCheck,
       KeyWrite, KeyReplace, KeyRestrict, KeyRead, Setup, Reset, ResetInterrupted, Wipe,
       RegenerateRecovery, InitList, SignList, GenerateCode, Leave, Lock, files
  <2>2. pc[w] = "password"
    BY <2>1 DEF SetPassword, Goto
  <2>3. ~alone[w]
    BY <2>2 DEF IInv, Procs, ProcOK, WizardOK
  <2> QED
    BY <2>2, <2>3 DEF Open
<1>2. IInv /\ [Next]_vars => [A]_vars
  BY <1>1
<1> QED
  BY <1>2, Inductive, PTL DEF Spec, PasswordKept

\* CeremonyComplete: a setup or reset that nobody disturbs leaves all the
\* secrets, a key only root reads, and a signed list (setup.py, lines 113-162).
THEOREM LeavesAllSecrets == Spec => CeremonyComplete
<1> DEFINE Done(w) ==
              /\ admin' # None /\ recovery' /\ key' # None /\ ~loose'
              /\ json' # None /\ sig' # None
              /\ sig' = <<key', json'>> \/ (~reset[w] /\ sig'[1] # key')
           A == \A w \in Wizards : Ends(w) /\ alone[w] => Done(w)
<1>1. IInv /\ [Next]_vars => A
  <2> SUFFICES ASSUME IInv, [Next]_vars, NEW w \in Wizards, Ends(w), alone[w]
               PROVE  Done(w)
    OBVIOUS
  <2>1. w \in Procs /\ w # Daemon /\ pc[w] = "code" /\ pc'[w] = "done"
    BY DaemonApart DEF Ends, Procs
  <2>2. ~ UNCHANGED vars
    BY <2>1 DEF vars, memory
  <2>3. ~DaemonStep
    BY <2>1, DaemonApartSteps DEF IInv, Apart
  <2>4. PICK v \in Wizards : Wizard(v)
    BY <2>2, <2>3 DEF Next
  <2>5. v = w
    BY <2>1, <2>4, WizardApart DEF IInv, Apart
  <2>6. GenerateCode(w)
    <3>1. ~Leave(w)
      BY <2>1, QuitEffect DEF Leave, IInv
    <3>2. ~(Setup(w) \/ Reset(w) \/ ResetInterrupted(w) \/ RegenerateRecovery(w)
            \/ SetPassword(w) \/ InitList(w) \/ SignList(w) \/ Lock(w))
      BY <2>1 DEF Setup, Reset, ResetInterrupted, RegenerateRecovery, SetPassword, InitList,
         SignList, Lock, Goto, Raise
    <3>3. ~EnsureMasterKey(w)
      BY <2>1 DEF EnsureMasterKey, KeyCheck, KeyWrite, KeyReplace, KeyRestrict, KeyRead, Goto,
         Raise
    <3> QED
      BY <2>4, <2>5, <3>1, <3>2, <3>3 DEF Wizard
  <2>7. recovery' /\ UNCHANGED <<admin, key, loose, json, sig>>
    BY <2>6 DEF GenerateCode, keyfile, list
  <2> QED
    BY <2>1, <2>7 DEF IInv, ProcOK, WizardOK
<1>2. IInv /\ [Next]_vars => [A]_vars
  BY <1>1
<1> QED
  BY <1>2, Inductive, PTL DEF Spec, CeremonyComplete
=============================================================================
