--------------------------- MODULE LockdownService ---------------------------
(***************************************************************************)
(* What the daemon promises about a lockdown, apart from how it does it: a *)
(* system that is locked or not, a record of it on disk, and guards on the *)
(* text consoles. Operations enter or clear the lockdown. They may         *)
(* overlap, be cut short, or die with the process, and then little is      *)
(* promised; but only entering locks, records and guards, only clearing    *)
(* undoes it, a start does what the record says, and an operation that ran *)
(* alone to its end has done all of its work.                              *)
(***************************************************************************)

CONSTANTS
    Operators,   \* the threads that run operations
    Starter,     \* the one that restores a lockdown when the process starts
    Guards       \* what keeps the text consoles closed

VARIABLES
    mode,        \* "down", "unlocked" or "locked"
    durable,     \* is the lockdown recorded on disk?
    guards,      \* the guards in force
    entering,    \* the operators that are entering a lockdown, or restoring it
    clearing,    \* the operators that are clearing one
    sole,        \* the operator that has been alone, and without a fault, so far
    complete     \* did the last operation to end do all of its work?

work  == <<entering, clearing, sole, complete>>
state == <<mode, durable, guards, work>>

Active == entering \cup clearing

Begin(t) == /\ t \notin Active
            /\ sole' = IF Active = {} THEN {t} ELSE {}
            /\ complete' = FALSE

Init ==
    /\ mode = "down" /\ durable = FALSE
    /\ guards \subseteq Guards
    /\ entering = {} /\ clearing = {} /\ sole = {} /\ complete = FALSE

\* An operation begins in the mode it is to change.
BeginEnter(t) ==
    /\ mode = "unlocked"
    /\ Begin(t)
    /\ entering' = entering \cup {t}
    /\ UNCHANGED <<mode, durable, guards, clearing>>

BeginClear(t) ==
    /\ mode = "locked"
    /\ Begin(t)
    /\ clearing' = clearing \cup {t}
    /\ UNCHANGED <<mode, durable, guards, entering>>

\* What an operation under way may do, one thing at a time.
Enter ==
    /\ entering # {}
    /\ \/ mode' = "locked" /\ UNCHANGED <<durable, guards>>
       \/ durable' = TRUE  /\ UNCHANGED <<mode, guards>>
       \/ /\ \E g \in Guards : guards' = guards \cup {g}
          /\ UNCHANGED <<mode, durable>>
    /\ UNCHANGED work

Clear ==
    /\ clearing # {}
    /\ \/ mode' = "unlocked" /\ UNCHANGED <<durable, guards>>
       \/ durable' = FALSE   /\ UNCHANGED <<mode, guards>>
       \/ /\ \E g \in Guards : guards' = guards \ {g}
          /\ UNCHANGED <<mode, durable>>
    /\ UNCHANGED work

\* An operation that skips something is not promised to be complete.
Skip(t) ==
    /\ t \in sole
    /\ sole' = {}
    /\ UNCHANGED <<mode, durable, guards, entering, clearing, complete>>

Done(t) ==
    IF t \in entering
    THEN mode = "locked" /\ durable /\ guards = Guards
    ELSE mode = "unlocked" /\ ~durable /\ guards = {}

Leave(t) ==
    /\ t \in Active
    /\ entering' = entering \ {t} /\ clearing' = clearing \ {t}
    /\ sole' = sole \ {t}

\* The end of an operation. Alone and unhindered, it has done its work.
Return(t) ==
    /\ Leave(t)
    /\ complete' = (t \in sole)
    /\ t \in sole => Done(t)
    /\ UNCHANGED <<mode, durable, guards>>

\* A record that an entering operation fails to write may be left torn: it
\* then still counts as a record.
MayRecord == durable' = durable \/ (entering # {} /\ durable')

Fail(t) ==
    /\ Leave(t)
    /\ MayRecord
    /\ UNCHANGED <<mode, guards, complete>>

Crash ==
    /\ mode # "down"
    /\ mode' = "down"
    /\ MayRecord
    /\ entering' = {} /\ clearing' = {} /\ sole' = {}
    /\ complete' = (complete /\ Active = {})
    /\ UNCHANGED guards

\* A start believes the record, and restores the lockdown before anything
\* else happens.
Start ==
    /\ mode = "down"
    /\ \/ durable /\ mode' = "locked"
          /\ entering' = {Starter} /\ sole' = {Starter} /\ complete' = FALSE
       \/ ~durable /\ mode' = "unlocked"
          /\ UNCHANGED <<entering, sole, complete>>
    /\ UNCHANGED <<durable, guards, clearing>>

Reboot ==
    /\ mode = "down"
    /\ guards' \in SUBSET guards
    /\ UNCHANGED <<mode, durable, work>>

Next ==
    \/ \E t \in Operators :
          BeginEnter(t) \/ BeginClear(t) \/ Skip(t) \/ Return(t) \/ Fail(t)
    \/ Enter \/ Clear
    \/ Crash \/ Start \/ Reboot

Spec == Init /\ [][Next]_state
=============================================================================
