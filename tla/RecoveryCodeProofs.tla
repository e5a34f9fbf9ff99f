------------------------- MODULE RecoveryCodeProofs -------------------------
(***************************************************************************)
(* Proofs about module RecoveryCode, for every set of connections and of   *)
(* codes, every interleaving and every fault.                              *)
(*                                                                         *)
(* The argument: a code enters the disk only when it is drawn, which       *)
(* happens once; an accepted code was drawn, and its acceptance took       *)
(* whatever was on the disk off it, or is in "kept". So an accepted code   *)
(* is not on disk (ReplayRefused), and a thread that read a hash after its *)
(* own acceptance read another one (OncePerConnection). Between the        *)
(* wizard's replacement of the file and its display nobody has a paper,    *)
(* and only deletions touch the file (PaperIsCurrent).                     *)
(***************************************************************************)
EXTENDS RecoveryCode, TLAPS

\* What is on disk or was read from it has been drawn.
DrawnFirst ==
    /\ hash_file # None => hash_file \in drawn
    /\ \A c \in Clients : pc[c] \in {"verify", "unlink"} => stored[c] \in drawn
    /\ \A u \in used : u[2] \in drawn

\* What a thread has read, it has not been granted before.
ReadAfresh ==
    \A c \in Clients :
        /\ pc[c] \in {"verify", "unlink"} /\ <<c, stored[c]>> \in used
             => stored[c] \in kept
        /\ pc[c] = "unlink" => stored[c] = code[c]

IInv == TypeOK /\ DrawnFirst /\ ReplayRefused /\ ReadAfresh

-----------------------------------------------------------------------------
\* The initial state satisfies the inductive invariant.
LEMMA InitIInv == Init => IInv
<1> USE NoneIsNoCode
<1> QED BY DEF Init, IInv, TypeOK, DrawnFirst, ReplayRefused, ReadAfresh, Uses

\* An answer puts the thread back to idle and keeps the inductive invariant.
LEMMA RespondIInv ==
    ASSUME IInv, NEW c \in Clients, pc[c] # "idle", Respond(c),
           UNCHANGED <<hash_file, private, locked, setup, paper, drawn, used,
                       kept>>,
           told' \subseteq Uses
    PROVE  IInv'
<1>1. TypeOK'
  BY DEF IInv, TypeOK, Respond, Goto
<1>2. \A d \in Clients : pc'[d] # "idle" =>
        pc'[d] = pc[d] /\ code'[d] = code[d] /\ stored'[d] = stored[d]
  BY DEF IInv, TypeOK, Respond, Goto
<1> QED BY <1>1, <1>2 DEF IInv, DrawnFirst, ReplayRefused, ReadAfresh

\* Every step of a connection's thread keeps the inductive invariant.
LEMMA ClientIInv ==
    ASSUME IInv, NEW c \in Clients, Client(c)
    PROVE  IInv'
<1> USE NoneIsNoCode
<1>1. ASSUME NEW k \in Codes, Submit(c, k) PROVE IInv'
  BY <1>1 DEF IInv, TypeOK, DrawnFirst, ReplayRefused, ReadAfresh, Submit,
              Goto, history
<1>2. CASE CheckPerms(c)
  <2>1. CASE Respond(c)
    <3>1. pc[c] # "idle" /\ told' \subseteq Uses
      BY <1>2 DEF CheckPerms, history, IInv, TypeOK
    <3> QED BY <1>2, <2>1, <3>1, RespondIInv DEF CheckPerms, history
  <2>2. CASE Goto(c, "read") /\ UNCHANGED <<code, stored>>
    BY <1>2, <2>2 DEF IInv, TypeOK, DrawnFirst, ReplayRefused, ReadAfresh,
                      CheckPerms, Goto, history
  <2> QED BY <1>2, <2>1, <2>2 DEF CheckPerms
<1>3. CASE Read(c)
  <2>1. CASE hash_file = None
    <3>1. pc[c] # "idle" /\ told' \subseteq Uses
      BY <1>3 DEF Read, history, IInv, TypeOK
    <3> QED BY <1>3, <2>1, <3>1, RespondIInv DEF Read, history
  <2>2. CASE hash_file # None
    <3>1. /\ pc' = [pc EXCEPT ![c] = "verify"]
          /\ stored' = [stored EXCEPT ![c] = hash_file]
          /\ hash_file \in Codes
          /\ UNCHANGED <<hash_file, private, locked, code, setup, paper,
                         drawn, used, kept, told>>
      BY <1>3, <2>2 DEF Read, Goto, history, IInv, TypeOK
    <3>2. TypeOK'
      BY <1>3, <3>1 DEF Read, IInv, TypeOK
    <3>3. DrawnFirst' /\ ReplayRefused'
      BY <2>2, <3>1 DEF IInv, TypeOK, DrawnFirst, ReplayRefused
    <3>4. <<c, hash_file>> \in used => hash_file \in kept
      BY DEF IInv, ReplayRefused
    <3>5. ReadAfresh'
      BY <3>1, <3>4 DEF IInv, TypeOK, ReadAfresh
    <3> QED BY <3>2, <3>3, <3>5 DEF IInv
  <2> QED BY <2>1, <2>2
<1>4. CASE Verify(c)
  <2>1. CASE stored[c] # code[c]
    <3>1. pc[c] # "idle" /\ told' \subseteq Uses
      BY <1>4 DEF Verify, history, IInv, TypeOK
    <3> QED BY <1>4, <2>1, <3>1, RespondIInv DEF Verify, history
  <2>2. CASE stored[c] = code[c]
    BY <1>4, <2>2 DEF IInv, TypeOK, DrawnFirst, ReplayRefused, ReadAfresh,
                      Verify, Goto, history
  <2> QED BY <2>1, <2>2
<1>5. CASE Consume(c)
  <2>1. /\ pc[c] = "unlink"
        /\ pc' = [pc EXCEPT ![c] = "accepted"]
        /\ used' = used \cup {<<c, code[c]>>}
        /\ hash_file' = None
        /\ UNCHANGED <<private, locked, code, stored, setup, paper, drawn,
                       kept, told>>
    BY <1>5 DEF Consume, Accepted, Goto
  <2>2. code[c] \in Codes /\ code[c] \in drawn
    BY <2>1 DEF IInv, TypeOK, DrawnFirst, ReadAfresh
  <2>3. TypeOK'
    BY <2>1, <2>2 DEF IInv, TypeOK, Uses
  <2>4. DrawnFirst'
    BY <2>1, <2>2 DEF IInv, TypeOK, DrawnFirst
  <2>5. ReplayRefused'
    BY <2>1, <2>4 DEF IInv, TypeOK, ReplayRefused, DrawnFirst
  <2>6. ReadAfresh'
    BY <2>1 DEF IInv, TypeOK, ReadAfresh
  <2> QED BY <2>3, <2>4, <2>5, <2>6 DEF IInv
<1>6. CASE ConsumeFails(c)
  <2>1. /\ pc[c] = "unlink" /\ hash_file # None
        /\ pc' = [pc EXCEPT ![c] = "accepted"]
        /\ used' = used \cup {<<c, code[c]>>}
        /\ kept' = kept \cup ({hash_file} \cap {code[c]})
        /\ UNCHANGED <<hash_file, private, locked, code, stored, setup, paper,
                       drawn, told>>
    BY <1>6 DEF ConsumeFails, Accepted, Goto
  <2>2. code[c] \in Codes /\ code[c] \in drawn /\ hash_file \in Codes
    BY <2>1 DEF IInv, TypeOK, DrawnFirst, ReadAfresh
  <2>3. TypeOK'
    BY <2>1, <2>2 DEF IInv, TypeOK, Uses
  <2>4. DrawnFirst'
    BY <2>1, <2>2 DEF IInv, TypeOK, DrawnFirst
  <2>5. ReplayRefused'
    <3> SUFFICES ASSUME NEW u \in used', hash_file = u[2]
                 PROVE  u[2] \in kept'
      BY <2>1 DEF ReplayRefused
    <3>1. CASE u \in used
      BY <2>1, <3>1 DEF IInv, ReplayRefused
    <3>2. CASE u = <<c, code[c]>>
      BY <2>1, <3>2
    <3> QED BY <2>1, <3>1, <3>2
  <2>6. ReadAfresh'
    BY <2>1 DEF IInv, TypeOK, ReadAfresh
  <2> QED BY <2>3, <2>4, <2>5, <2>6 DEF IInv
<1>7. CASE Clear(c)
  <2>1. /\ pc[c] = "accepted" /\ Respond(c)
        /\ locked' = FALSE
        /\ UNCHANGED <<hash_file, private, setup, paper, drawn, used, kept>>
    BY <1>7 DEF Clear
  <2>2. told' \subseteq Uses
    BY <1>7 DEF Clear, IInv, TypeOK, Uses
  <2>3. TypeOK'
    BY <2>1, <2>2 DEF IInv, TypeOK, Respond, Goto
  <2>4. \A d \in Clients : pc'[d] # "idle" =>
          pc'[d] = pc[d] /\ code'[d] = code[d] /\ stored'[d] = stored[d]
    BY <2>1 DEF IInv, TypeOK, Respond, Goto
  <2> QED BY <2>1, <2>3, <2>4 DEF IInv, DrawnFirst, ReplayRefused, ReadAfresh
<1> QED
  BY <1>1, <1>2, <1>3, <1>4, <1>5, <1>6, <1>7 DEF Client

\* Every step of the setup wizard keeps the inductive invariant.
LEMMA WizardIInv == IInv /\ Wizard => IInv'
<1> USE NoneIsNoCode DEF local, history
<1> SUFFICES ASSUME IInv, Wizard PROVE IInv'
  OBVIOUS
<1>1. ASSUME NEW k \in Codes, Generate(k) PROVE IInv'
  <2>1. TypeOK' /\ DrawnFirst' /\ ReadAfresh'
    BY <1>1 DEF IInv, TypeOK, DrawnFirst, ReadAfresh, Generate
  <2>2. ReplayRefused'
    BY <1>1 DEF IInv, DrawnFirst, ReplayRefused, Generate
  <2> QED BY <2>1, <2>2 DEF IInv
<1>2. CASE Display
  BY <1>2 DEF IInv, TypeOK, DrawnFirst, ReplayRefused, ReadAfresh, Display
<1>3. CASE Reset
  <2>1. TypeOK' /\ DrawnFirst' /\ ReadAfresh'
    BY <1>3 DEF IInv, TypeOK, DrawnFirst, ReadAfresh, Reset
  <2>2. ReplayRefused'
    BY <1>3 DEF IInv, TypeOK, DrawnFirst, ReplayRefused, Reset
  <2> QED BY <2>1, <2>2 DEF IInv
<1> QED BY <1>1, <1>2, <1>3 DEF Wizard

\* The rest of the system keeps the inductive invariant.
LEMMA EnvironmentIInv ==
    IInv /\ ((\E b \in BOOLEAN : SetLocked(b)) \/ Restart \/ PowerLoss)
      => IInv'
<1> USE DEF local, history, IInv, TypeOK, DrawnFirst, ReplayRefused, ReadAfresh
<1>1. ASSUME IInv, NEW b \in BOOLEAN, SetLocked(b) PROVE IInv'
  BY <1>1 DEF SetLocked
<1>2. ASSUME IInv, Restart PROVE IInv'
  BY <1>2 DEF Restart
<1>3. ASSUME IInv, PowerLoss PROVE IInv'
  BY <1>3 DEF PowerLoss
<1> QED BY <1>1, <1>2, <1>3

\* The inductive invariant holds in every reachable state.
THEOREM Inductive == Spec => []IInv
<1>1. IInv /\ [Next]_vars => IInv'
  <2>1. IInv /\ UNCHANGED vars => IInv'
    BY DEF IInv, TypeOK, DrawnFirst, ReplayRefused, ReadAfresh, vars
  <2> QED BY <2>1, ClientIInv, WizardIInv, EnvironmentIInv DEF Next
<1> QED BY <1>1, InitIInv, PTL DEF Spec

\* Every variable keeps its type, under every interleaving of connections and
\* wizard and every fault.
THEOREM TypeCorrect == Spec => []TypeOK
<1>1. IInv => TypeOK
  BY DEF IInv
<1> QED BY <1>1, Inductive, PTL

\* A code that was accepted is off the disk for good: no later attempt can be
\* granted it, however the deletions race with each other and with the wizard.
THEOREM ReplayIsRefused == Spec => []ReplayRefused
<1>1. IInv => ReplayRefused
  BY DEF IInv
<1> QED BY <1>1, Inductive, PTL

\* No connection is granted the same code twice: a code's uses are bounded by
\* the connections that verified it before its first deletion.
THEOREM GrantedOncePerConnection == Spec => []OncePerConnection
<1>1. IInv => OncePerConnection
  BY DEF IInv, ReadAfresh, OncePerConnection
<1> QED BY <1>1, Inductive, PTL

-----------------------------------------------------------------------------
\* While the wizard has not displayed its code, no paper is in force and the
\* file holds that code or nothing.
PaperPending == setup # None => paper = None /\ hash_file \in {None, setup}

PaperInv == PaperPending /\ PaperIsCurrent

\* Every step keeps the wizard's part of the argument.
LEMMA PaperInvStep == PaperInv /\ [Next]_vars => PaperInv'
<1> USE NoneIsNoCode DEF PaperInv, PaperPending, PaperIsCurrent, local, history
<1> SUFFICES ASSUME PaperInv, [Next]_vars PROVE PaperInv'
  OBVIOUS
<1>1. ASSUME NEW c \in Clients, Client(c) PROVE PaperInv'
  <2>1. /\ UNCHANGED <<setup, paper>>
        /\ hash_file' = hash_file \/ hash_file' = None
    BY <1>1 DEF Client, Submit, CheckPerms, Read, Verify, Consume,
                ConsumeFails, Accepted, Clear
  <2> QED BY <2>1
<1>2. ASSUME NEW k \in Codes, Generate(k) PROVE PaperInv'
  BY <1>2 DEF Generate
<1>3. CASE Display
  BY <1>3 DEF Display
<1>4. CASE Reset
  BY <1>4 DEF Reset
<1>5. CASE (\E b \in BOOLEAN : SetLocked(b)) \/ Restart \/ PowerLoss
  BY <1>5 DEF SetLocked, Restart, PowerLoss
<1>6. CASE UNCHANGED vars
  BY <1>6 DEF vars
<1> QED BY <1>1, <1>2, <1>3, <1>4, <1>5, <1>6 DEF Next, Wizard

\* A hash on disk, once the wizard is done, is that of the admin's paper.
THEOREM PaperStaysCurrent == Spec => []PaperIsCurrent
<1>1. Init => PaperInv
  BY NoneIsNoCode DEF Init, PaperInv, PaperPending, PaperIsCurrent
<1>2. PaperInv => PaperIsCurrent
  BY DEF PaperInv
<1> QED BY <1>1, <1>2, PaperInvStep, PTL DEF Spec
=============================================================================
