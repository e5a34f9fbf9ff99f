---------------------------- MODULE RecoveryCode ----------------------------
(***************************************************************************)
(* The paper recovery code: one hash file on disk, read and deleted by the *)
(* daemon's IPC threads (recovery.py, verify_and_consume, called for       *)
(* unlock_with_seed) and replaced by another process, the setup wizard     *)
(* (generate_new). Neither side takes a lock: a thread's existence check,  *)
(* permission check, read, argon2 verification and deletion are separate   *)
(* steps, and so are the wizard's os.replace and chmod.                    *)
(*                                                                         *)
(* A code is a model value and its hash is the code itself. The lockdown   *)
(* is the flag "locked", which a restart keeps (module Lockdown has its    *)
(* life cycle); the counting of failures is module AuthThrottle's.         *)
(***************************************************************************)
EXTENDS Integers, FiniteSets

CONSTANTS
    Clients,        \* the IPC connections' threads
    Codes,          \* the codes the wizard may draw; none is drawn twice
    None,           \* no hash file, no code
    FaultKinds      \* what may go wrong: a subset of AllFaults

AllFaults == {"unlink",     \* deleting the hash file raises OSError
              "daemon",     \* the daemon dies and systemd restarts it
              "power"}      \* the machine restarts, the wizard dies too

ASSUME NoneIsNoCode    == None \notin Codes
ASSUME FaultKindsTyped == FaultKinds \subseteq AllFaults

VARIABLES
    hash_file,      \* the code recovery_seed.hash holds, or None
    private,        \* whether its permissions are 0600
    locked,         \* self.locked
    pc,             \* where each thread is
    code,           \* the code each thread was given
    stored,         \* the hash each thread has read
    setup,          \* the code the wizard has stored but not yet displayed
    paper,          \* the code on the admin's paper, or None
    drawn,          \* history: the codes drawn so far
    used,           \* history: <<thread, code>> accepted
    kept,           \* history: codes accepted whose hash could not be deleted
    told            \* history: <<thread, code>> whose use was broadcast

vars == <<hash_file, private, locked, pc, code, stored, setup, paper,
          drawn, used, kept, told>>

local   == <<pc, code, stored>>
history == <<drawn, used, kept, told>>

Goto(c, label) == pc' = [pc EXCEPT ![c] = label]

\* The thread answers and forgets what it held.
Respond(c) ==
    /\ Goto(c, "idle")
    /\ code' = [code EXCEPT ![c] = None]
    /\ stored' = [stored EXCEPT ![c] = None]

-----------------------------------------------------------------------------
(* verify_and_consume, one thread. *)

\* unlock_with_seed arrives and the file exists. Without one the command is
\* refused, which changes nothing here.
Submit(c, k) ==
    /\ pc[c] = "idle"
    /\ hash_file # None
    /\ Goto(c, "perms")
    /\ code' = [code EXCEPT ![c] = k]
    /\ UNCHANGED <<hash_file, private, locked, stored, setup, paper, history>>

\* _perms_too_loose raises, also when the file has vanished meanwhile.
CheckPerms(c) ==
    /\ pc[c] = "perms"
    /\ IF hash_file # None /\ private
         THEN Goto(c, "read") /\ UNCHANGED <<code, stored>>
         ELSE Respond(c)
    /\ UNCHANGED <<hash_file, private, locked, setup, paper, history>>

\* Mutant of Read: a file that vanished reads as an empty hash.
ReadMissing(c) ==
    /\ pc[c] = "read"
    /\ Goto(c, "verify")
    /\ stored' = [stored EXCEPT ![c] = hash_file]
    /\ UNCHANGED <<hash_file, private, locked, code, setup, paper, history>>

\* read_text; a file that vanished is a refusal.
Read(c) ==
    /\ pc[c] = "read"
    /\ IF hash_file # None
         THEN /\ Goto(c, "verify")
              /\ stored' = [stored EXCEPT ![c] = hash_file]
              /\ UNCHANGED code
         ELSE Respond(c)
    /\ UNCHANGED <<hash_file, private, locked, setup, paper, history>>

\* argon2's answer, from the hash read before.
Verify(c) ==
    /\ pc[c] = "verify"
    /\ IF stored[c] = code[c]
         THEN Goto(c, "unlink") /\ UNCHANGED <<code, stored>>
         ELSE Respond(c)
    /\ UNCHANGED <<hash_file, private, locked, setup, paper, history>>

\* The code is accepted, whatever became of the file.
Accepted(c) ==
    /\ pc[c] = "unlink"
    /\ Goto(c, "accepted")
    /\ used' = used \cup {<<c, code[c]>>}
    /\ UNCHANGED <<private, locked, code, stored, setup, paper, drawn, told>>

\* Mutant of Consume: the file is deleted only if a lockdown stands.
ConsumeIfLocked(c) ==
    /\ Accepted(c)
    /\ hash_file' = IF locked THEN None ELSE hash_file
    /\ UNCHANGED kept

\* Delete the path, whichever hash it names by now.
Consume(c) ==
    /\ Accepted(c)
    /\ hash_file' = None
    /\ UNCHANGED kept

\* The deletion fails and the exception is dropped.
ConsumeFails(c) ==
    /\ "unlink" \in FaultKinds
    /\ hash_file # None
    /\ Accepted(c)
    /\ kept' = kept \cup ({hash_file} \cap {code[c]})
    /\ UNCHANGED hash_file

\* _clear_lockdown(warn_regenerate_seed=True): a return without a broadcast
\* if no lockdown stands any more.
Clear(c) ==
    /\ pc[c] = "accepted"
    /\ locked' = FALSE
    /\ told' = IF locked THEN told \cup {<<c, code[c]>>} ELSE told
    /\ Respond(c)
    /\ UNCHANGED <<hash_file, private, setup, paper, drawn, used, kept>>

Client(c) ==
    \/ \E k \in Codes : Submit(c, k)
    \/ CheckPerms(c) \/ Read(c) \/ Verify(c)
    \/ Consume(c) \/ ConsumeFails(c) \/ Clear(c)

-----------------------------------------------------------------------------
(* The setup wizard. *)

\* Mutant of Generate: the old code's hash is kept if there is one.
GenerateIfMissing(k) ==
    /\ setup = None
    /\ k \notin drawn
    /\ hash_file' = IF hash_file = None THEN k ELSE hash_file
    /\ private' = FALSE
    /\ setup' = k
    /\ paper' = None
    /\ drawn' = drawn \cup {k}
    /\ UNCHANGED <<locked, local, used, kept, told>>

\* generate_new as far as os.replace: the new file has the umask's mode, and
\* the code on the paper is void.
Generate(k) ==
    /\ setup = None
    /\ k \notin drawn
    /\ hash_file' = k
    /\ private' = FALSE
    /\ setup' = k
    /\ paper' = None
    /\ drawn' = drawn \cup {k}
    /\ UNCHANGED <<locked, local, used, kept, told>>

\* The rest of it: chmod, then the code is displayed and written down, also
\* if its file is gone by now.
Display ==
    /\ setup # None
    /\ private' = TRUE
    /\ setup' = None
    /\ paper' = setup
    /\ UNCHANGED <<hash_file, locked, local, history>>

\* setup.py --reset deletes the hash; a new code follows unless it is aborted.
Reset ==
    /\ setup = None
    /\ hash_file # None
    /\ hash_file' = None
    /\ paper' = None
    /\ UNCHANGED <<private, locked, local, setup, history>>

Wizard == (\E k \in Codes : Generate(k)) \/ Display \/ Reset

-----------------------------------------------------------------------------
(* The rest of the system. *)

\* A lockdown begins, or another way of unlocking ends it.
SetLocked(b) ==
    /\ locked # b
    /\ locked' = b
    /\ UNCHANGED <<hash_file, private, local, setup, paper, history>>

\* The daemon's threads die with it; the lockdown is on disk.
Restart ==
    /\ "daemon" \in FaultKinds
    /\ pc' = [c \in Clients |-> "idle"]
    /\ code' = [c \in Clients |-> None]
    /\ stored' = [c \in Clients |-> None]
    /\ UNCHANGED <<hash_file, private, locked, setup, paper, history>>

\* With the machine, the wizard dies too, its code never seen.
PowerLoss ==
    /\ "power" \in FaultKinds
    /\ pc' = [c \in Clients |-> "idle"]
    /\ code' = [c \in Clients |-> None]
    /\ stored' = [c \in Clients |-> None]
    /\ setup' = None
    /\ UNCHANGED <<hash_file, private, locked, paper, history>>

Init ==
    /\ hash_file = None
    /\ private = TRUE
    /\ locked = FALSE
    /\ pc = [c \in Clients |-> "idle"]
    /\ code = [c \in Clients |-> None]
    /\ stored = [c \in Clients |-> None]
    /\ setup = None
    /\ paper = None
    /\ drawn = {}
    /\ used = {}
    /\ kept = {}
    /\ told = {}

Next ==
    \/ \E c \in Clients : Client(c)
    \/ Wizard
    \/ \E b \in BOOLEAN : SetLocked(b)
    \/ Restart
    \/ PowerLoss

Spec == Init /\ [][Next]_vars

-----------------------------------------------------------------------------
(* Properties. *)

Uses == Clients \X Codes

\* Types: a thread that verifies holds a code and a hash.
TypeOK ==
    /\ hash_file \in Codes \cup {None}
    /\ private \in BOOLEAN
    /\ locked \in BOOLEAN
    /\ pc \in [Clients -> {"idle", "perms", "read", "verify", "unlink",
                           "accepted"}]
    /\ code \in [Clients -> Codes \cup {None}]
    /\ stored \in [Clients -> Codes \cup {None}]
    /\ setup \in Codes \cup {None}
    /\ paper \in Codes \cup {None}
    /\ drawn \subseteq Codes
    /\ kept \subseteq Codes
    /\ used \subseteq Uses /\ told \subseteq Uses
    /\ \A c \in Clients :
         /\ pc[c] # "idle" => code[c] \in Codes
         /\ pc[c] \in {"verify", "unlink"} => stored[c] \in Codes

\* A code that was accepted is off the disk for good, so an attempt begun
\* later is refused, however the deletions race with each other and with the
\* wizard (verify_and_consume's "one-time use"). Only a deletion that fails
\* while the code's own hash is on disk leaves it in force.
ReplayRefused == \A u \in used : hash_file = u[2] => u[2] \in kept

\* Even racing with others, one connection is never granted the same code
\* twice: the uses of a code are bounded by the connections that verified it
\* before its first deletion.
OncePerConnection ==
    \A c \in Clients :
        pc[c] = "unlink" /\ <<c, code[c]>> \in used => code[c] \in kept

\* Whatever fails and whoever deletes the file meanwhile, a hash that is on
\* disk once the wizard is done is the hash of the admin's paper, never of a
\* code it has replaced (generate_new).
PaperIsCurrent ==
    hash_file # None /\ setup = None /\ paper # None => hash_file = paper

\* What recovery.py:15-16 says, "so the same paper code can't be used twice".
\* Two connections that both verify before either deletes are both granted.
OneUse == \A u, v \in used : u[2] = v[2] => u = v

\* What setup.py:100-102 says of the code it displays, "this 16-character
\* code will let you clear a lockdown one time". A thread that verified the
\* old code deletes the new one's hash.
UnusedPaperWorks ==
    /\ paper # None
    /\ \A u \in used : u[2] # paper
    => hash_file = paper

\* What recovery.py:5-6 says, "After a single successful use it is
\* invalidated and the admin is told to generate a new one". Not if no
\* lockdown stands when the thread comes to clear it.
AdminTold ==
    \A u \in used : u \in told \/ pc[u[1]] = "accepted"

\* What setup.py:100-102 says: the use of a code ends the lockdown. A crash
\* between the deletion and the clearing loses the code and keeps the lockdown.
UseUnlocks ==
    [][\A c \in Clients :
         pc[c] = "accepted" /\ pc'[c] # "accepted" => ~locked']_vars
=============================================================================
