----------------------------- MODULE UnlockDialog -----------------------------
(***************************************************************************)
(* The operator at the lockdown screen: the overlay, which grabs the       *)
(* keyboard (ui/lockdown.py), the dialogs that ask for a password or the   *)
(* paper code, and the main window behind it (ui/main.py). A dialog runs   *)
(* an event loop of its own: while it is open the daemon's events and the  *)
(* refresh timer are handled as ever, and overlay, window and keyboard     *)
(* change under it; the `finally` of the dialog then grabs the keyboard    *)
(* whatever has become of the overlay.                                     *)
(*                                                                         *)
(* The daemon is its lockdown, its answers and its broadcasts, in the      *)
(* order of the connection. OverlaySync has the races of these messages;   *)
(* here a message is sent in the step that causes it.                      *)
(*                                                                         *)
(* What TTYWatcher also has is named apart, for ScreenProofs uses both.    *)
(***************************************************************************)
EXTENDS Integers, Sequences

CONSTANT MaxMessages        \* bound: messages the UI has not handled yet

ASSUME MaxMessagesIsNat == MaxMessages \in Nat

VARIABLES
    lockdown,       \* daemon: self.locked
    code,           \* daemon: the paper code is valid
    unsaid,         \* history: the lockdown has ended without a broadcast
    attempts,       \* commands on their way to the daemon
    inbox,          \* events on their way to the UI
    connected,      \* the client has a socket
    overlay,        \* the overlay is visible
    grabbed,        \* the overlay is Qt's keyboard grabber
    error,          \* its error label is visible
    dialog,         \* the dialog that is open
    window,         \* the main window is visible
    warning,        \* the message box about the consumed code is open
    unsettled       \* history: overlay shown or hidden under the last dialog

service == <<lockdown, code, unsaid>>
link    == <<attempts, inbox, connected>>
screen  == <<overlay, grabbed, error, dialog, window, warning, unsettled>>
dialogVars == <<service, link, screen>>

Kinds    == {"password", "seed"}
Messages == {"lockdown_enter", "lockdown_clear", "clear_warn", "denied",
             "status_locked", "status_unlocked",
             "untyped"}     \* the answer of a handler that raised

Asking == dialog # "none"

\* The bound leaves room for the messages of one more step.
Room == Len(inbox) < MaxMessages

Send(message) == inbox' = IF connected THEN Append(inbox, message) ELSE inbox

-----------------------------------------------------------------------------
(* The daemon. *)

\* The monitor's events. A file operation that fails ends them before the
\* broadcast.
Insert ==
    /\ ~lockdown /\ Room
    /\ lockdown' = TRUE
    /\ \/ Send("lockdown_enter") /\ unsaid' = FALSE
       \/ UNCHANGED <<inbox, unsaid>>
    /\ UNCHANGED <<code, attempts, connected, screen>>

UnlockKey ==
    /\ lockdown /\ Room
    /\ lockdown' = FALSE
    /\ \/ Send("lockdown_clear") /\ unsaid' = FALSE
       \/ UNCHANGED inbox /\ unsaid' = TRUE
    /\ UNCHANGED <<code, attempts, connected, screen>>

\* A correct code is consumed whether or not there is a lockdown to clear.
Accept ==
    /\ attempts # <<>> /\ Room
    /\ LET seed == Head(attempts) = "seed" IN
       /\ seed => code
       /\ code' = (code /\ ~seed)
       /\ IF lockdown
          THEN /\ Send(IF seed THEN "clear_warn" ELSE "lockdown_clear")
               /\ unsaid' = FALSE
          ELSE UNCHANGED <<inbox, unsaid>>
    /\ lockdown' = FALSE
    /\ attempts' = Tail(attempts)
    /\ UNCHANGED <<connected, screen>>

\* A wrong credential, or the lockout.
Deny ==
    /\ attempts # <<>> /\ Room
    /\ attempts' = Tail(attempts)
    /\ Send("denied")
    /\ UNCHANGED <<service, connected, screen>>

\* An exception ends the handler: either the code could not be verified, or the
\* credential was good and an unlink of the clear failed, before anything is
\* broadcast. The answer is an error without a type.
HandlerRaises ==
    /\ attempts # <<>> /\ Room
    /\ LET seed == Head(attempts) = "seed" IN
       \/ seed /\ UNCHANGED service
       \/ /\ lockdown /\ (seed => code)
          /\ lockdown' = FALSE
          /\ code' = (code /\ ~seed)
          /\ unsaid' = TRUE
    /\ attempts' = Tail(attempts)
    /\ Send("untyped")
    /\ UNCHANGED <<connected, screen>>

\* The daemon ends: a lockdown it was about to clear may be over after it.
ConnectionLost ==
    /\ connected
    /\ connected' = FALSE
    /\ attempts' = <<>>
    /\ lockdown' \in {lockdown, FALSE}
    /\ unsaid' = FALSE
    /\ UNCHANGED <<code, inbox, screen>>

-----------------------------------------------------------------------------
(* The overlay. *)

ShowFor ==
    /\ overlay' = TRUE /\ error' = FALSE
    /\ grabbed' = TRUE
    /\ unsettled' = Asking

HideOverlay ==
    /\ overlay' = FALSE
    /\ grabbed' = FALSE
    /\ unsettled' = Asking
    /\ UNCHANGED error

\* A button of the overlay, which a message box blocks.
OpenDialog(kind) ==
    /\ overlay /\ ~Asking /\ ~warning
    /\ dialog' = kind
    /\ grabbed' = FALSE /\ unsettled' = FALSE
    /\ UNCHANGED <<service, link, overlay, error, window, warning>>

\* Mutant of Regrab: not on a cancelled dialog.
RegrabOnSubmit(submit) == grabbed' = (submit \/ grabbed)

\* The `finally` of both dialogs.
Regrab(submit) == grabbed' = TRUE

\* Typing takes the keyboard; the mouse is enough to cancel.
CloseDialog(submit) ==
    /\ Asking /\ ~warning
    /\ submit => ~grabbed /\ Len(attempts) < MaxMessages
    /\ dialog' = "none"
    /\ Regrab(submit)
    /\ attempts' = IF submit /\ connected THEN Append(attempts, dialog) ELSE attempts
    /\ error' = IF submit THEN ~connected ELSE error
    /\ UNCHANGED <<service, inbox, connected, overlay, window, warning, unsettled>>

\* A stay-on-top overlay covers the box and has its keyboard.
CloseWarning ==
    /\ warning /\ ~overlay
    /\ warning' = FALSE
    /\ UNCHANGED <<service, link, overlay, grabbed, error, dialog, window, unsettled>>

-----------------------------------------------------------------------------
(* The main window. *)

Take(message) == inbox # <<>> /\ Head(inbox) = message /\ inbox' = Tail(inbox)

\* Mutant of OnLocked: the main window stays.
OnLockedBeside ==
    /\ Take("lockdown_enter") \/ Take("status_locked")
    /\ ShowFor
    /\ UNCHANGED <<service, attempts, connected, dialog, window, warning>>

OnLocked ==
    /\ Take("lockdown_enter") \/ Take("status_locked")
    /\ window' = FALSE
    /\ ShowFor
    /\ UNCHANGED <<service, attempts, connected, dialog, warning>>

OnClear ==
    /\ \/ Take("lockdown_clear") /\ UNCHANGED warning
       \/ Take("clear_warn") /\ warning' = TRUE
    /\ HideOverlay
    /\ window' = TRUE
    /\ UNCHANGED <<service, attempts, connected, dialog>>

OnStatusUnlocked ==
    /\ Take("status_unlocked")
    /\ IF overlay THEN HideOverlay /\ window' = TRUE
       ELSE UNCHANGED <<overlay, grabbed, error, unsettled, window>>
    /\ UNCHANGED <<service, attempts, connected, dialog, warning>>

\* Mutant of OnDenied: no answer is shown behind a dialog.
OnDeniedIfClosed ==
    /\ Take("denied")
    /\ error' = (error \/ ~Asking)
    /\ UNCHANGED <<service, attempts, connected, overlay, grabbed, dialog, window,
                   warning, unsettled>>

OnDenied ==
    /\ Take("denied")
    /\ error' = TRUE
    /\ UNCHANGED <<service, attempts, connected, overlay, grabbed, dialog, window,
                   warning, unsettled>>

\* None of the window's cases is about an event without a type.
OnUntyped ==
    /\ Take("untyped")
    /\ UNCHANGED <<service, attempts, connected, screen>>

OnDaemonEvent ==
    OnLocked \/ OnClear \/ OnStatusUnlocked \/ OnDenied \/ OnUntyped

\* The refresh timer finds no socket. What the receiving thread had emitted
\* stays queued; the connection that follows may fail.
Refresh ==
    /\ ~connected /\ Room
    /\ IF overlay THEN HideOverlay ELSE UNCHANGED <<overlay, grabbed, error, unsettled>>
    /\ \/ UNCHANGED <<inbox, connected>>
       \/ /\ connected' = TRUE
          /\ inbox' = Append(inbox, IF lockdown THEN "status_locked" ELSE "status_unlocked")
    /\ UNCHANGED <<service, attempts, dialog, window, warning>>

DialogInit ==
    /\ lockdown = FALSE /\ code = TRUE /\ unsaid = FALSE
    /\ attempts = <<>> /\ inbox = <<>> /\ connected = FALSE
    /\ overlay = FALSE /\ grabbed = FALSE /\ error = FALSE
    /\ dialog = "none" /\ window = TRUE /\ warning = FALSE
    /\ unsettled = FALSE

Answer == Accept \/ Deny \/ HandlerRaises

DialogNext ==
    \/ Insert \/ UnlockKey \/ Answer \/ ConnectionLost
    \/ \E kind \in Kinds : OpenDialog(kind)
    \/ \E submit \in BOOLEAN : CloseDialog(submit)
    \/ CloseWarning \/ OnDaemonEvent \/ Refresh

Fairness == WF_dialogVars(Answer) /\ WF_dialogVars(OnDaemonEvent)

DialogSpec == DialogInit /\ [][DialogNext]_dialogVars /\ Fairness

-----------------------------------------------------------------------------
(* Properties. *)

\* Every variable has its type, and overlay and main window do not compete for
\* the screen (main.py 138-141).
DialogTypeOK ==
    /\ {lockdown, code, unsaid, connected, overlay, grabbed, error, window,
        warning, unsettled} \subseteq BOOLEAN
    /\ attempts \in Seq(Kinds) /\ Len(attempts) <= MaxMessages
    /\ inbox \in Seq(Messages) /\ Len(inbox) <= MaxMessages
    /\ dialog \in Kinds \cup {"none"}
    /\ ~(overlay /\ window)

\* "A full-screen overlay grabs the keyboard" (README.md 24): whenever it is
\* visible with no dialog open, whatever came while one was open. And it has the
\* keyboard at no other time, unless it was shown or hidden under the dialog.
OverlayHasKeyboard ==
    /\ overlay /\ ~Asking => grabbed
    /\ grabbed /\ ~unsettled => overlay /\ ~Asking

\* An unlock attempt that reaches the daemon is answered on the screen: the
\* overlay goes or its error label comes (main.py 230-245), also when the operator
\* has already opened the next dialog, unless the connection is lost, its own
\* handler raises, or the lockdown has ended unsaid, after which a good credential
\* has nothing to clear.
AttemptAnswered ==
    attempts # <<>> ~>
        \/ ~overlay \/ error \/ ~connected
        \/ ~lockdown /\ unsaid
        \/ \E i \in DOMAIN inbox : inbox[i] = "untyped"

\* The overlay's error label is the window's only answer to an attempt that did
\* not clear the lockdown (main.py 230-245), and a handler that raises has none.
EveryAttemptAnswered == attempts # <<>> ~> ~overlay \/ error \/ ~connected

\* "Release the keyboard grab so the input dialog can receive typing"
\* (lockdown.py 207-208).
DialogCanType == Asking => ~grabbed

\* A hidden overlay does not keep the keyboard (lockdown.py 172-175).
HiddenOverlayLetsGo == ~overlay => ~grabbed

\* The main window comes back with the unlock (main.py 147-151, 184-189).
WindowReturns == connected /\ inbox = <<>> /\ ~lockdown /\ ~unsaid => window

\* The warning that the code was consumed (main.py 154-161) does not end up under
\* the overlay of the next lockdown, whose buttons it blocks.
WarningIsSeen == ~(overlay /\ warning)
=============================================================================
