--------------------------- MODULE WhitelistStore ---------------------------
(***************************************************************************)
(* The signed whitelist: the list of entries in the daemon's memory, and   *)
(* whitelist.json and whitelist.sig on disk (whitelist.py). IPC threads    *)
(* add and remove entries, each operation being a series of reads and      *)
(* writes of self.entries followed by save(), which takes no lock either   *)
(* and works on two temporary files whose names all threads share. The USB *)
(* monitor's thread reads self.entries at any moment (match). A restart    *)
(* loads the files, and loads nothing if the signature does not match.     *)
(*                                                                         *)
(* A list of entries is a set, a file is the list it holds, a signature is *)
(* the list it signs. write_bytes and write_text are one step. The daemon  *)
(* has its master key; the files exist, as setup.py leaves them.           *)
(***************************************************************************)
EXTENDS Integers, FiniteSets

CONSTANTS
    Clients,        \* the IPC connections' threads
    Ids,            \* the entry ids, each given to one entry
    Devices,        \* vendor, product and serial
    None,           \* no file, nobody
    Chattr,         \* whether chattr works on the file system
    FaultKinds      \* what may go wrong: a subset of AllFaults

AllFaults == {"write",      \* writing a temporary file raises OSError
              "daemon"}     \* the daemon dies and systemd restarts it

ASSUME ChattrBool      == Chattr \in BOOLEAN
ASSUME FaultKindsTyped == FaultKinds \subseteq AllFaults
ASSUME IdsFinite       == IsFiniteSet(Ids) /\ IsFiniteSet(Devices)

Entries == [id : Ids, device : Devices]
Lists   == SUBSET Entries

ASSUME NoneIsNoValue ==
    /\ None \notin Clients \cup Ids
    /\ \A v \in Lists : None # v
    /\ \A e \in Entries : None # e
ASSUME IdsAreNoEntries == Ids \cap Entries = {}

VARIABLES
    entries,            \* self.entries
    integrity_failed,   \* self.integrity_failed
    json, sig,          \* the files, by what they hold or sign
    tmp, tmp_sig,       \* the temporary files, or None
    frozen, sig_frozen, \* the files' immutable attribute
    pc,                 \* where each thread is
    arg,                \* the entry each thread adds, or the id it removes
    list,               \* the list each thread has computed or dumped
    before,             \* the length each removal has noted
    issued,             \* history: the ids given out
    removed,            \* history: the ids whose removal was acknowledged
    enrolled,           \* history: devices added, not since to be removed
    solo,               \* history: the thread that has run alone since it began
    clean,              \* history: the last operation ran alone, to its end
    overlapped          \* history: two operations have been under way at once

memory  == <<entries, integrity_failed>>
disk    == <<json, sig, tmp, tmp_sig, frozen, sig_frozen>>
local   == <<arg, list, before>>
history == <<issued, removed, enrolled, solo, clean, overlapped>>
vars    == <<memory, disk, pc, local, history>>

Idle == \A c \in Clients : pc[c] = "idle"

OfDevice(d) == {e \in entries : e.device = d}
OfId(i)     == {e \in entries : e.id = i}
DevicesOf(l) == {e.device : e \in l}

\* What _load makes of the files.
Tampered == sig # json

\* Mutant of Loaded: self.entries is not set when the signature is refused.
LoadedUnset == IF Tampered THEN None ELSE json

Loaded == IF Tampered THEN {} ELSE json

-----------------------------------------------------------------------------
Goto(c, from, to) ==
    /\ pc[c] = from
    /\ pc' = [pc EXCEPT ![c] = to]

Holds(c, l) == list' = [list EXCEPT ![c] = l]

\* The handler is entered.
Begin(c, to) ==
    /\ Goto(c, "idle", to)
    /\ solo' = IF Idle THEN c ELSE None
    /\ clean' = (clean /\ Idle)
    /\ overlapped' = (overlapped \/ ~Idle)

\* The handler is left; the thread forgets what it held.
Leave(c, from) ==
    /\ Goto(c, from, "idle")
    /\ arg' = [arg EXCEPT ![c] = None]
    /\ list' = [list EXCEPT ![c] = {}]
    /\ before' = [before EXCEPT ![c] = 0]
    /\ solo' = None

\* The handler is left by an exception.
Raise(c, from) ==
    /\ Leave(c, from)
    /\ clean' = FALSE
    /\ UNCHANGED <<issued, removed, enrolled, overlapped>>

\* Mutant of AddRead: the entries of the device stay.
AddBesides(c, i, d) ==
    /\ i \notin issued
    /\ Begin(c, "add_assign")
    /\ arg' = [arg EXCEPT ![c] = [id |-> i, device |-> d]]
    /\ Holds(c, entries)
    /\ issued' = issued \cup {i}
    /\ UNCHANGED <<memory, disk, before, removed, enrolled>>

\* add: the entries that stay are the other devices'.
AddRead(c, i, d) ==
    /\ i \notin issued
    /\ Begin(c, "add_assign")
    /\ arg' = [arg EXCEPT ![c] = [id |-> i, device |-> d]]
    /\ Holds(c, entries \ OfDevice(d))
    /\ issued' = issued \cup {i}
    /\ UNCHANGED <<memory, disk, before, removed, enrolled>>

AddAssign(c) ==
    /\ Goto(c, "add_assign", "add_append")
    /\ entries' = list[c]
    /\ UNCHANGED <<integrity_failed, disk, local, history>>

AddAppend(c) ==
    /\ Goto(c, "add_append", "unfreeze")
    /\ entries' = entries \cup {arg[c]}
    /\ UNCHANGED <<integrity_failed, disk, local, history>>

\* remove: the length, then the entries that stay, then the comparison with
\* the length of whatever self.entries is by then. The id is one a client has
\* listed; it may be gone.
RemoveCount(c, i) ==
    /\ OfId(i) # {} \/ i \in removed
    /\ Begin(c, "remove_read")
    /\ arg' = [arg EXCEPT ![c] = i]
    /\ before' = [before EXCEPT ![c] = Cardinality(entries)]
    /\ enrolled' = enrolled \ DevicesOf(OfId(i))
    /\ UNCHANGED <<memory, disk, list, issued, removed>>

RemoveRead(c) ==
    /\ Goto(c, "remove_read", "remove_assign")
    /\ Holds(c, entries \ OfId(arg[c]))
    /\ UNCHANGED <<memory, disk, arg, before, history>>

RemoveAssign(c) ==
    /\ Goto(c, "remove_assign", "remove_check")
    /\ entries' = list[c]
    /\ UNCHANGED <<integrity_failed, disk, local, history>>


\* Mutant of RemoveFound: the removal is acknowledged but not saved.
RemoveUnsaved(c) ==
    /\ Cardinality(entries) < before[c]
    /\ Leave(c, "remove_check")
    /\ removed' = removed \cup {arg[c]}
    /\ UNCHANGED <<memory, disk, issued, enrolled, clean, overlapped>>

RemoveFound(c) ==
    /\ Cardinality(entries) < before[c]
    /\ Goto(c, "remove_check", "unfreeze")
    /\ UNCHANGED <<memory, disk, local, history>>

RemoveMissing(c) ==
    /\ Cardinality(entries) >= before[c]
    /\ Leave(c, "remove_check")
    /\ UNCHANGED <<memory, disk, issued, removed, enrolled, clean, overlapped>>

-----------------------------------------------------------------------------
(* save. *)

\* chattr -i on both files.
Unfreeze(c) ==
    /\ Goto(c, "unfreeze", "unfreeze_sig")
    /\ frozen' = FALSE
    /\ UNCHANGED <<memory, json, sig, tmp, tmp_sig, sig_frozen, local, history>>

UnfreezeSig(c) ==
    /\ Goto(c, "unfreeze_sig", "dump")
    /\ sig_frozen' = FALSE
    /\ UNCHANGED <<memory, json, sig, tmp, tmp_sig, frozen, local, history>>

\* Mutant of Dump: the list the thread computed, not the one it stored.
DumpComputed(c) ==
    /\ Goto(c, "dump", "write")
    /\ UNCHANGED <<memory, disk, local, history>>

Dump(c) ==
    /\ Goto(c, "dump", "write")
    /\ Holds(c, entries)
    /\ UNCHANGED <<memory, disk, arg, before, history>>

Write(c) ==
    /\ Goto(c, "write", "replace")
    /\ tmp' = list[c]
    /\ UNCHANGED <<memory, json, sig, tmp_sig, frozen, sig_frozen, local, history>>

WriteFails(c) ==
    /\ "write" \in FaultKinds
    /\ Raise(c, "write")
    /\ UNCHANGED <<memory, disk>>

\* os.replace: the temporary file becomes the file, which is not immutable.
Replace(c) ==
    /\ tmp # None /\ ~frozen
    /\ Goto(c, "replace", "write_sig")
    /\ json' = tmp
    /\ tmp' = None
    /\ UNCHANGED <<memory, sig, tmp_sig, frozen, sig_frozen, local, history>>

\* Another thread has taken the temporary file, or frozen the target.
ReplaceFails(c) ==
    /\ tmp = None \/ frozen
    /\ Raise(c, "replace")
    /\ UNCHANGED <<memory, disk>>

\* The signature is of the list this thread dumped.
WriteSig(c) ==
    /\ Goto(c, "write_sig", "replace_sig")
    /\ tmp_sig' = list[c]
    /\ UNCHANGED <<memory, json, sig, tmp, frozen, sig_frozen, local, history>>

WriteSigFails(c) ==
    /\ "write" \in FaultKinds
    /\ Raise(c, "write_sig")
    /\ UNCHANGED <<memory, disk>>

ReplaceSig(c) ==
    /\ tmp_sig # None /\ ~sig_frozen
    /\ Goto(c, "replace_sig", "freeze")
    /\ sig' = tmp_sig
    /\ tmp_sig' = None
    /\ UNCHANGED <<memory, json, tmp, frozen, sig_frozen, local, history>>

ReplaceSigFails(c) ==
    /\ tmp_sig = None \/ sig_frozen
    /\ Raise(c, "replace_sig")
    /\ UNCHANGED <<memory, disk>>

\* chattr +i on both files, then the handler's answer.
Freeze(c) ==
    /\ Goto(c, "freeze", "freeze_sig")
    /\ frozen' = Chattr
    /\ UNCHANGED <<memory, json, sig, tmp, tmp_sig, sig_frozen, local, history>>

FreezeSig(c) ==
    /\ Leave(c, "freeze_sig")
    /\ sig_frozen' = Chattr
    /\ integrity_failed' = FALSE
    /\ clean' = (solo = c)
    /\ IF arg[c] \in Ids
         THEN /\ removed' = removed \cup {arg[c]}
              /\ UNCHANGED enrolled
         ELSE /\ enrolled' = enrolled \cup {arg[c].device}
              /\ UNCHANGED removed
    /\ UNCHANGED <<entries, json, sig, tmp, tmp_sig, frozen, issued, overlapped>>

Save(c) ==
    \/ Unfreeze(c) \/ UnfreezeSig(c) \/ Dump(c)
    \/ Write(c) \/ WriteFails(c) \/ Replace(c) \/ ReplaceFails(c)
    \/ WriteSig(c) \/ WriteSigFails(c) \/ ReplaceSig(c) \/ ReplaceSigFails(c)
    \/ Freeze(c) \/ FreezeSig(c)

Add(c)    == AddAssign(c) \/ AddAppend(c)
Remove(c) == RemoveRead(c) \/ RemoveAssign(c) \/ RemoveFound(c) \/ RemoveMissing(c)

\* A new request.
Request(c) ==
    \/ \E i \in Ids, d \in Devices : AddRead(c, i, d)
    \/ \E i \in Ids : RemoveCount(c, i)

\* The daemon dies and is started again: _load.
Restart ==
    /\ "daemon" \in FaultKinds
    /\ entries' = Loaded
    /\ integrity_failed' = Tampered
    /\ pc' = [c \in Clients |-> "idle"]
    /\ arg' = [c \in Clients |-> None]
    /\ list' = [c \in Clients |-> {}]
    /\ before' = [c \in Clients |-> 0]
    /\ solo' = None
    /\ clean' = TRUE
    /\ enrolled' = IF Tampered THEN {} ELSE enrolled \cap DevicesOf(json)
    /\ UNCHANGED <<disk, issued, removed, overlapped>>

Init ==
    /\ entries = {} /\ integrity_failed = FALSE
    /\ json = {} /\ sig = {} /\ tmp = None /\ tmp_sig = None
    /\ frozen = FALSE /\ sig_frozen = FALSE
    /\ pc = [c \in Clients |-> "idle"]
    /\ arg = [c \in Clients |-> None]
    /\ list = [c \in Clients |-> {}]
    /\ before = [c \in Clients |-> 0]
    /\ issued = {} /\ removed = {} /\ enrolled = {}
    /\ solo = None /\ clean = TRUE /\ overlapped = FALSE

Next ==
    \/ \E c \in Clients : Request(c) \/ Add(c) \/ Remove(c) \/ Save(c)
    \/ Restart

Spec == Init /\ [][Next]_vars

-----------------------------------------------------------------------------
(* Properties. *)

Labels == {"idle", "add_assign", "add_append", "remove_read", "remove_assign",
           "remove_check", "unfreeze", "unfreeze_sig", "dump", "write",
           "replace", "write_sig", "replace_sig", "freeze", "freeze_sig"}

\* Every variable has its type, the loaded list included.
TypeOK ==
    /\ entries # None /\ entries \in Lists
    /\ integrity_failed \in BOOLEAN
    /\ json \in Lists /\ sig \in Lists
    /\ tmp = None \/ tmp \in Lists
    /\ tmp_sig = None \/ tmp_sig \in Lists
    /\ frozen \in BOOLEAN /\ sig_frozen \in BOOLEAN
    /\ pc \in [Clients -> Labels]
    /\ \A c \in Clients : arg[c] \in Ids \cup {None} \/ arg[c] \in Entries
    /\ list \in [Clients -> Lists]
    /\ before \in [Clients -> 0 .. Cardinality(Entries)]
    /\ issued \subseteq Ids /\ removed \subseteq Ids
    /\ enrolled \subseteq Devices
    /\ solo \in Clients \cup {None} /\ clean \in BOOLEAN /\ overlapped \in BOOLEAN

\* An operation that ran alone and succeeded is durable: a restart loads what
\* is in memory. What failed writes, crashes and colliding saves before it
\* left behind - stray temporary files, immutable files, a signature of
\* another list - never spoils it.
SettledDurable ==
    clean /\ Idle => /\ Loaded = entries
                     /\ Tampered = integrity_failed

\* As long as no two operations have overlapped, an entry whose removal was
\* acknowledged never authorises its device again, in memory or after a
\* restart, whatever fails.
RemovedStaysRemoved ==
    ~overlapped => \A e \in entries \cup Loaded : e.id \notin removed

\* As long as no two operations have overlapped, a device never has two
\* entries, of which match() would find the older one with its old can_unlock.
OneEntryPerDevice ==
    ~overlapped => \A e, f \in entries : e.device = f.device => e.id = f.id

\* What whitelist.py:85 says, "Thread-safe": with no fault, once the threads
\* are done every device that was enrolled is in the list. Two operations
\* that overlap lose each other's change.
EnrolledIsListed == Idle => enrolled \subseteq DevicesOf(entries)

\* What whitelist.py:85 says, "via atomic file replace": with no fault, once
\* the threads are done the signature is the list's. Two saves that overlap
\* leave one's list with the other's signature, and a restart loads nothing.
QuietIsSigned == Idle => ~Tampered

\* A device that is enrolled matches at every moment the monitor may look.
\* To enrol it again takes it out of the list first.
EnrolledMatches == enrolled \subseteq DevicesOf(entries)

\* What daemon.py:83 reports, "WHITELIST TAMPER DETECTED", means that someone
\* changed the files. A crash between the two replacements is reported too.
NoFalseAlarm == ~integrity_failed
=============================================================================
