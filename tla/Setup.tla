-------------------------------- MODULE Setup --------------------------------
(***************************************************************************)
(* The files of a secret-holding installation and who writes them: the     *)
(* wizard (scripts/setup.py: first run, --reset, --regenerate-recovery),   *)
(* the installer around it, and the daemon, whose start generates the      *)
(* master key when none is there (integrity.py) and loads the whitelist,   *)
(* and which saves the list when a device is enrolled or removed.          *)
(*                                                                         *)
(* Every file replacement is a step. A signature is the key and the list   *)
(* it was made of. A wizard may be interrupted, and a daemon stopped, at   *)
(* any step. The daemon's save() is one step (WhitelistStore has its       *)
(* statements), and so is generate_new() (RecoveryCode has them).          *)
(***************************************************************************)
EXTENDS FiniteSets, Integers

CONSTANTS
    Wizards,        \* runs of setup.py that may be open at a time
    Daemon,         \* the daemon's main thread
    Passwords,
    Devices,
    MaxKeys,        \* bound: keys ever drawn
    None            \* no file; Python's None

ASSUME DaemonApart  == Daemon \notin Wizards
ASSUME MaxKeysIsNat == MaxKeys \in Nat
ASSUME NoneApart    == None \notin Passwords \cup 1 .. MaxKeys
ASSUME NoneIsNoList == /\ \A l \in SUBSET Devices : None # l
                       /\ \A s \in (1 .. MaxKeys) \X SUBSET Devices : None # s

Procs == Wizards \cup {Daemon}
Keys  == 1 .. MaxKeys

VARIABLES
    admin,          \* admin.hash: the password it verifies
    recovery,       \* recovery.hash exists
    key,            \* master.key
    tmp,            \* master.key.tmp
    loose,          \* master.key is readable by others
    json,           \* whitelist.json: its devices
    sig,            \* whitelist.sig: the key and the list it was made of
    frozen,         \* which of the two files are immutable
    pc,             \* where each process is
    reset,          \* which open wizards run with --reset
    held,           \* the master key in each process's memory
    entries,        \* the daemon's whitelist.entries
    drawn,          \* history: keys drawn so far
    alone           \* history: nobody else has changed a file since it began

keyfile == <<key, tmp, loose>>
list    == <<json, sig, frozen>>
files   == <<admin, recovery, keyfile, list>>
memory  == <<pc, held, reset, entries>>
vars    == <<files, memory, drawn, alone>>

Open(w) == pc[w] # "idle"
Serving == pc[Daemon] = "serving"

Goto(p, from, to) ==
    pc[p] = from /\ pc' = [pc EXCEPT ![p] = to] /\ UNCHANGED <<held, reset>>

\* p changes a file: the others that run are no longer alone with theirs.
Touch(p) == alone' = [q \in Procs |-> alone[q] /\ (q = p \/ pc[q] = "idle")]

\* p ends: its memory is gone.
Quit(p) ==
    /\ pc' = [pc EXCEPT ![p] = "idle"]
    /\ reset' = [w \in Wizards |-> w # p /\ reset[w]]
    /\ held' = [held EXCEPT ![p] = None]
    /\ alone' = [alone EXCEPT ![p] = TRUE]

\* An exception ends a wizard; the daemon goes on without a key.
Raise(p, from) ==
    \/ p = Daemon /\ Goto(p, from, "load") /\ UNCHANGED alone
    \/ p # Daemon /\ pc[p] = from /\ Quit(p)

Signed(k, devices) == sig = <<k, devices>>

-----------------------------------------------------------------------------
(* ensure_master_key(), called by the wizard and by the daemon. *)

KeyCheck(p) ==
    /\ Goto(p, "key", IF key = None THEN "key_write" ELSE "key_read")
    /\ UNCHANGED <<files, entries, drawn, alone>>

KeyWrite(p) ==
    /\ Goto(p, "key_write", "key_replace")
    /\ drawn < MaxKeys
    /\ drawn' = drawn + 1
    /\ tmp' = drawn + 1
    /\ Touch(p)
    /\ UNCHANGED <<admin, recovery, key, loose, list, entries>>

\* The new file has the mode of the umask until the chmod. The temporary file
\* is missing when somebody else has moved it.
KeyReplace(p) ==
    IF tmp = None
    THEN Raise(p, "key_replace") /\ UNCHANGED <<files, entries, drawn>>
    ELSE /\ Goto(p, "key_replace", "key_restrict")
         /\ key' = tmp /\ tmp' = None /\ loose' = TRUE
         /\ Touch(p)
         /\ UNCHANGED <<admin, recovery, list, entries, drawn>>

KeyRestrict(p) ==
    /\ Goto(p, "key_restrict", "key_read")
    /\ loose' = FALSE
    /\ Touch(p)
    /\ UNCHANGED <<admin, recovery, key, tmp, list, entries, drawn>>

\* Mutant of KeyRead: the key is not kept.
KeyReadForgotten(p) ==
    /\ Goto(p, "key_read", IF p = Daemon THEN "load" ELSE "list")
    /\ UNCHANGED <<files, entries, drawn, alone>>

\* The permissions are checked first; a missing file counts as too loose. Every
\* key written is long enough, so the check of its length is left out.
KeyRead(p) ==
    IF key = None \/ loose
    THEN Raise(p, "key_read") /\ UNCHANGED <<files, entries, drawn>>
    ELSE /\ pc[p] = "key_read"
         /\ pc' = [pc EXCEPT ![p] = IF p = Daemon THEN "load" ELSE "list"]
         /\ held' = [held EXCEPT ![p] = key]
         /\ UNCHANGED <<files, reset, entries, drawn, alone>>

EnsureMasterKey(p) ==
    \/ KeyCheck(p) \/ KeyWrite(p) \/ KeyReplace(p) \/ KeyRestrict(p)
    \/ KeyRead(p)

-----------------------------------------------------------------------------
(* The wizard. *)

\* Mutant of ExistingSecrets: it takes all three to be set up.
AllSecrets == admin # None /\ key # None /\ recovery

ExistingSecrets == admin # None \/ key # None \/ recovery

\* A plain run that finds a secret is refused.
Setup(w) ==
    /\ ~ExistingSecrets
    /\ Goto(w, "idle", "password")
    /\ UNCHANGED <<files, entries, drawn, alone>>

\* The first n of the three unlinks of --reset. Whatever another process does
\* between two of them it may as well do before or after all of them.
Wipe(n) ==
    /\ admin' = None
    /\ key' = IF n >= 2 THEN None ELSE key
    /\ loose' = (loose /\ n < 2)
    /\ recovery' = (recovery /\ n < 3)

\* --reset deletes the secrets, then the signature: unlink() of an immutable
\* file is a PermissionError, which nobody catches.
Reset(w) ==
    /\ pc[w] = "idle"
    /\ Wipe(3)
    /\ Touch(w)
    /\ IF "sig" \in frozen
       THEN UNCHANGED <<sig, pc, reset>>
       ELSE /\ sig' = None
            /\ pc' = [pc EXCEPT ![w] = "password"]
            /\ reset' = [reset EXCEPT ![w] = TRUE]
    /\ UNCHANGED <<tmp, json, frozen, held, entries, drawn>>

\* Ctrl-C between two unlinks.
ResetInterrupted(w) ==
    /\ pc[w] = "idle"
    /\ \E n \in 1 .. 3 : Wipe(n)
    /\ Touch(w)
    /\ UNCHANGED <<tmp, list, memory, drawn>>

RegenerateRecovery(w) ==
    /\ pc[w] = "idle" /\ admin # None
    /\ recovery' = TRUE
    /\ Touch(w)
    /\ UNCHANGED <<admin, keyfile, list, memory, drawn>>

SetPassword(w) ==
    /\ Goto(w, "password", "key")
    /\ admin' \in Passwords
    /\ Touch(w)
    /\ UNCHANGED <<recovery, keyfile, list, entries, drawn>>

\* Mutant of InitList: a list alone is enough to skip the step.
InitListIfNone(w) ==
    /\ Goto(w, "list", IF json # None THEN "code" ELSE "sign")
    /\ json' = IF json # None THEN json ELSE {}
    /\ Touch(w)
    /\ UNCHANGED <<admin, recovery, keyfile, sig, frozen, entries, drawn>>

\* _init_signed_whitelist(): an initialised list is left alone.
InitList(w) ==
    IF json # None /\ sig # None
    THEN /\ Goto(w, "list", "code")
         /\ UNCHANGED <<files, entries, drawn, alone>>
    ELSE IF "json" \in frozen
    THEN Raise(w, "list") /\ UNCHANGED <<files, entries, drawn>>
    ELSE /\ Goto(w, "list", "sign")
         /\ json' = {}
         /\ Touch(w)
         /\ UNCHANGED <<admin, recovery, keyfile, sig, frozen, entries, drawn>>

SignList(w) ==
    IF "sig" \in frozen
    THEN Raise(w, "sign") /\ UNCHANGED <<files, entries, drawn>>
    ELSE /\ Goto(w, "sign", "code")
         /\ sig' = <<held[w], {}>>
         /\ Touch(w)
         /\ UNCHANGED <<admin, recovery, keyfile, json, frozen, entries, drawn>>

GenerateCode(w) ==
    /\ Goto(w, "code", "done")
    /\ recovery' = TRUE
    /\ Touch(w)
    /\ UNCHANGED <<admin, keyfile, list, entries, drawn>>

\* Ctrl-C, a closed terminal; or the end.
Leave(w) == Open(w) /\ Quit(w) /\ UNCHANGED <<files, entries, drawn>>

\* The installer goes on after a wizard that succeeded, where chattr works.
Lock(w) ==
    /\ pc[w] = "done" /\ ~reset[w]
    /\ frozen' = {"json", "sig"}
    /\ Touch(w)
    /\ UNCHANGED <<admin, recovery, keyfile, json, sig, memory, drawn>>

Wizard(w) ==
    \/ Setup(w) \/ SetPassword(w)
    \/ Reset(w) \/ ResetInterrupted(w) \/ RegenerateRecovery(w)
    \/ EnsureMasterKey(w) \/ InitList(w) \/ SignList(w) \/ GenerateCode(w)
    \/ Leave(w) \/ Lock(w)

-----------------------------------------------------------------------------
(* The daemon, which systemd starts at any time once the unit is enabled. *)

Start ==
    /\ Goto(Daemon, "idle", "key")
    /\ UNCHANGED <<files, entries, drawn, alone>>

\* What _load() makes of the files: without a key nothing is verified.
Loadable(k) ==
    IF json = None \/ (k # None /\ ~Signed(k, json)) THEN {} ELSE json

Load ==
    /\ Goto(Daemon, "load", "serving")
    /\ entries' = Loadable(held[Daemon])
    /\ UNCHANGED <<files, drawn, alone>>

\* Mutant of Save: the signature is not renewed.
SaveUnsigned ==
    /\ Serving /\ admin # None
    /\ \E d \in Devices : entries' \in {entries \cup {d}, entries \ {d}}
    /\ json' = entries'
    /\ Touch(Daemon)
    /\ UNCHANGED <<admin, recovery, keyfile, sig, frozen, pc, held, reset, drawn>>

\* A device is enrolled or removed under the admin password. Freezing the
\* files is best effort.
Save ==
    /\ Serving /\ admin # None
    /\ \E d \in Devices : entries' \in {entries \cup {d}, entries \ {d}} \ {entries}
    /\ json' = entries'
    /\ IF held[Daemon] = None
       THEN /\ sig' = sig
            /\ frozen' \in {frozen \ {"json"}, frozen \cup {"json"}}
       ELSE /\ sig' = <<held[Daemon], entries'>>
            /\ frozen' \in {{}, {"json", "sig"}}
    /\ Touch(Daemon)
    /\ UNCHANGED <<admin, recovery, keyfile, pc, held, reset, drawn>>

\* The paper code is used once: its hash is deleted.
UseCode ==
    /\ Serving /\ recovery
    /\ recovery' = FALSE
    /\ Touch(Daemon)
    /\ UNCHANGED <<admin, keyfile, list, memory, drawn>>

Stop ==
    /\ pc[Daemon] # "idle"
    /\ Quit(Daemon)
    /\ entries' = {}
    /\ UNCHANGED <<files, drawn>>

DaemonStep == Start \/ EnsureMasterKey(Daemon) \/ Load \/ Save \/ UseCode \/ Stop

Init ==
    /\ admin = None /\ recovery = FALSE
    /\ key = None /\ tmp = None /\ loose = FALSE
    /\ json = None /\ sig = None /\ frozen = {}
    /\ pc = [p \in Procs |-> "idle"]
    /\ reset = [w \in Wizards |-> FALSE]
    /\ held = [p \in Procs |-> None]
    /\ entries = {}
    /\ drawn = 0
    /\ alone = [p \in Procs |-> TRUE]

Next == DaemonStep \/ \E w \in Wizards : Wizard(w)

Spec == Init /\ [][Next]_vars

-----------------------------------------------------------------------------
(* Properties. *)

\* Every variable has its type; the daemon holds a key and entries only while
\* it runs, and a process that is about to sign has read a key.
TypeOK ==
    /\ admin \in Passwords \cup {None} /\ recovery \in BOOLEAN
    /\ {key, tmp} \subseteq Keys \cup {None} /\ loose \in BOOLEAN
    /\ json \in {None} \cup SUBSET Devices
    /\ sig \in {None} \cup (Keys \X SUBSET Devices)
    /\ frozen \subseteq {"json", "sig"}
    /\ reset \in [Wizards -> BOOLEAN]
    /\ held \in [Procs -> Keys \cup {None}]
    /\ entries \subseteq Devices
    /\ pc[Daemon] = "idle" => held[Daemon] = None /\ entries = {}
    /\ \A w \in Wizards : pc[w] = "sign" => held[w] # None
    /\ drawn \in 0 .. MaxKeys
    /\ alone \in [Procs -> BOOLEAN]

Ends(w) == pc[w] = "code" /\ pc'[w] = "done"

\* A setup or reset that reaches its end with no other process at work (setup.py
\* 113-162) leaves all the secrets, a key only root can read and a list whose
\* signature verifies with it -- unless a plain setup found a signed list and
\* left it alone, in which case the key may be another one.
CeremonyComplete ==
    [][\A w \in Wizards :
          Ends(w) /\ alone[w] =>
             /\ admin' # None /\ recovery' /\ key' # None /\ ~loose'
             /\ json' # None /\ sig' # None
             /\ sig' = <<key', json'>> \/ (~reset[w] /\ sig'[1] # key')]_vars

\* "It refuses to overwrite an existing admin password by default" (setup.py
\* 4-6): whatever secrets were used up or lost before, only --reset removes a
\* password, and only a run that another process disturbed replaces one.
PasswordKept ==
    [][admin # None /\ admin' \notin {admin, None} =>
          \E w \in Wizards : Open(w) /\ ~alone[w]]_vars

\* A daemon that serves, and whose files nobody else has touched since it
\* started, trusts what a restart would load, with the key on disk -- or with
\* none, because the key was left readable by others (daemon.py 73-80).
MemoryIsDisk ==
    Serving /\ alone[Daemon] =>
       /\ entries = Loadable(held[Daemon])
       /\ held[Daemon] = key \/ (held[Daemon] = None /\ loose)

\* "Whitelist entries are preserved" (setup.py 179-180, 132-133): a reset that
\* nobody disturbs takes no device off the list.
ResetKeepsDevices ==
    [][\A w \in Wizards :
          pc'[w] # pc[w] /\ reset[w] /\ alone[w] /\ json # None
             => json \subseteq json']_vars

\* "The sig will be regenerated below" (setup.py 133): after a ceremony that
\* nobody disturbed the daemon can load the list.
ListLoadsAfterCeremony ==
    [][\A w \in Wizards :
          Ends(w) /\ alone[w] => sig' = <<key', json'>>]_vars

\* A setup that did not complete can be run again (install.sh 400-401): it is
\* not refused for what the first one left.
CanRunAgain ==
    [][\A w \in Wizards :
          Open(w) /\ pc'[w] = "idle" /\ pc[w] # "done" /\ ~reset[w] /\ alone[w]
             => ~ExistingSecrets]_vars

\* The daemon fails closed: what it trusts has been verified (integrity.py 15-16).
FailsClosed == Serving /\ alone[Daemon] /\ entries # {} => held[Daemon] # None
=============================================================================
