------------------------- MODULE AuthThrottleProofs -------------------------
(***************************************************************************)
(* Proofs about the throttle, for any finite number of connections, any    *)
(* threshold and any lockout length: it charges for failures, and the wait *)
(* it sets is never longer than the highest count allows. The wait is a    *)
(* power of two; that powers grow is proved here by induction, as a search *)
(* for the least number at which they do not.                              *)
(***************************************************************************)
EXTENDS AuthThrottle, FiniteSetTheorems, WellFoundedInduction, TLAPS

\* The part of the type invariant that the argument needs. The lockout's
\* length plays no role in it.
CountersTyped ==
    /\ failures \in Nat
    /\ uncharged \in Nat
    /\ pc \in [Clients -> Labels]

\* Below the threshold, the failures the throttle has not acted on are among
\* those it has counted; a failure counted at or above it has a thread that
\* is about to start a lockout.
CInv ==
    /\ CountersTyped
    /\ uncharged <= failures
    /\ FailuresAreCharged

\* Between two statements the set of threads about to start a lockout is a
\* finite set of clients.
LEMMA EngagingFinite ==
  ASSUME NEW label
  PROVE  IsFiniteSet(At(label)) /\ Cardinality(At(label)) \in Nat
  BY ClientsFinite, FS_Subset, FS_CardinalityType DEF At

\* CInv holds in the initial state.
LEMMA InitCInv == Init => CInv
<1> SUFFICES ASSUME Init PROVE CInv
  OBVIOUS
<1>1. CountersTyped /\ uncharged = 0 /\ failures = 0
  BY DEF Init, CountersTyped, Labels
<1> QED
  BY <1>1, EngagingFinite, ThresholdNat DEF CInv, FailuresAreCharged

\* A step that neither counts nor charges, and leaves "engage" alone.
LEMMA OtherStep ==
  ASSUME CInv, NEW c \in Clients, NEW label \in Labels,
         Goto(c, label), pc[c] # "engage", label # "engage",
         \/ UNCHANGED <<failures, uncharged>>
         \/ failures' = 0 /\ uncharged' = 0
         \/ failures' = failures + 1 /\ uncharged' = uncharged + 1
            /\ failures + 1 < Threshold
  PROVE  CInv'
<1>1. CountersTyped'
  BY DEF CInv, CountersTyped, Goto
<1>2. At("engage")' = At("engage")
  BY DEF CInv, CountersTyped, Goto, At
<1>3. Cardinality(At("engage")) \in Nat
  BY EngagingFinite
<1> QED
  BY <1>1, <1>2, <1>3, ThresholdNat DEF CInv, CountersTyped, FailuresAreCharged

\* Every step preserves CInv.
LEMMA NextCInv == CInv /\ [Next]_vars => CInv'
<1> SUFFICES ASSUME CInv, [Next]_vars PROVE CInv'
  OBVIOUS
<1> USE DEF Labels
<1>1. ASSUME NEW c \in Clients, Refuse(c) PROVE CInv'
  BY <1>1, OtherStep DEF Refuse
<1>2. ASSUME NEW c \in Clients, NEW command \in Commands, Accept(c, command) PROVE CInv'
  BY <1>2, OtherStep DEF Accept
<1>3. ASSUME NEW c \in Clients, Verified(c) PROVE CInv'
  BY <1>3, OtherStep DEF Verified
<1>4. ASSUME NEW c \in Clients, CountFailure(c) PROVE CInv'
  <2>1. CASE failures + 1 < Threshold
    <3>1. Goto(c, "record")
      BY <1>4, <2>1, ThresholdNat DEF CountFailure, CInv, CountersTyped
    <3> QED
      BY <1>4, <2>1, <3>1, OtherStep DEF CountFailure
  <2>2. CASE failures + 1 >= Threshold
    <3>1. Goto(c, "engage") /\ uncharged' = uncharged + 1 /\ failures' = failures + 1
      BY <1>4, <2>2 DEF CountFailure
    <3>2. CountersTyped'
      BY <3>1 DEF CInv, CountersTyped, Goto
    <3>3. c \notin At("engage") /\ At("engage")' = At("engage") \cup {c}
      BY <1>4, <3>1 DEF CountFailure, Goto, At, CInv, CountersTyped
    <3>4. Cardinality(At("engage")') = Cardinality(At("engage")) + 1
      BY <3>3, EngagingFinite, FS_AddElement
    <3> QED
      BY <3>1, <3>2, <3>4, EngagingFinite, ThresholdNat
      DEF CInv, CountersTyped, FailuresAreCharged
  <2> QED
    BY <2>1, <2>2, ThresholdNat DEF CInv, CountersTyped
<1>5. ASSUME NEW c \in Clients, Engage(c) PROVE CInv'
  <2>1. CountersTyped' /\ uncharged' = 0 /\ failures' = failures
    BY <1>5 DEF Engage, CInv, CountersTyped, Goto
  <2>2. Cardinality(At("engage")') \in Nat
    <3>1. At("engage")' \subseteq Clients
      BY DEF At
    <3> QED
      BY <3>1, ClientsFinite, FS_Subset, FS_CardinalityType
  <2> QED
    BY <2>1, <2>2, ThresholdNat DEF CInv, CountersTyped, FailuresAreCharged
<1>6. ASSUME NEW c \in Clients,
             RecordFailure(c) \/ Succeed(c) \/ ClearLockdown(c) \/ SendRefusal(c)
      PROVE  CInv'
  <2>1. Goto(c, "idle") \/ Goto(c, "clear")
    BY <1>6 DEF RecordFailure, Succeed, ClearLockdown, SendRefusal, Respond
  <2>2. UNCHANGED <<failures, uncharged>> \/ (failures' = 0 /\ uncharged' = 0)
    BY <1>6 DEF RecordFailure, Succeed, ClearLockdown, SendRefusal
  <2>3. pc[c] # "engage"
    BY <1>6 DEF RecordFailure, Succeed, ClearLockdown, SendRefusal
  <2> QED
    BY <2>1, <2>2, <2>3, OtherStep
<1>7. CASE EnterLockdown \/ Tick \/ UNCHANGED vars
  <2>1. UNCHANGED <<failures, uncharged, pc>>
    BY <1>7 DEF EnterLockdown, Tick, vars
  <2> QED
    BY <2>1 DEF CInv, CountersTyped, FailuresAreCharged, At
<1>8. CASE Restart
  <2>1. CountersTyped' /\ uncharged' = 0 /\ failures' = 0
    BY <1>8 DEF Restart, CountersTyped
  <2>2. Cardinality(At("engage")') \in Nat
    <3>1. At("engage")' \subseteq Clients
      BY DEF At
    <3> QED
      BY <3>1, ClientsFinite, FS_Subset, FS_CardinalityType
  <2> QED
    BY <2>1, <2>2, ThresholdNat DEF CInv, FailuresAreCharged
<1> QED
  BY <1>1, <1>2, <1>3, <1>4, <1>5, <1>6, <1>7, <1>8 DEF Next, Handle

\* Between two moments at which the throttle acts, no more than Threshold - 1
\* failures are counted, plus one per thread about to start a lockout.
THEOREM BruteForceBounded == Spec => []FailuresAreCharged
<1>1. CInv => FailuresAreCharged
  BY DEF CInv
<1> QED
  BY <1>1, InitCInv, NextCInv, PTL DEF Spec

-----------------------------------------------------------------------------
(* The wait is one the backoff can produce. *)

\* What the definition of ^ says of powers of two. The provers have no theory of
\* exponentiation, so the facts about the backoff start from here.
PowersDouble == \A k \in Nat : 2 ^ (k + 1) = 2 * 2 ^ k

\* The least-number principle, for sets.
LEMMA LeastNumber ==
  ASSUME NEW S \in SUBSET Nat, S # {}
  PROVE  \E m \in S : \A k \in S : m <= k
<1>1. PICK m \in S : \A k \in S : <<k, m>> \notin OpToRel(<, Nat)
  BY WFMin, NatLessThanWellFounded, Zenon
<1>2. \A k \in S : ~(k < m)
  BY <1>1, Zenon DEF OpToRel
<1> QED
  BY <1>2

\* Powers of two are positive.
LEMMA PowerPositive ==
  ASSUME PowersDouble, NEW k \in Nat
  PROVE  2 ^ k \in Nat /\ 2 ^ k >= 1
<1> DEFINE S == {j \in Nat : ~(2 ^ j >= 1)}
<1>1. ASSUME S # {} PROVE FALSE
  <2>1. PICK m \in S : \A j \in S : m <= j
    BY <1>1, LeastNumber
  <2>2. m \in Nat /\ m # 0
    <3>1. ASSUME m = 0 PROVE 2 ^ m = 1
      <4>1. 2 ^ m = 2 ^ 0
        BY <3>1, Zenon
      <4>2. 2 ^ 0 = 1
        OBVIOUS
      <4> QED
        BY <4>1, <4>2, Zenon
    <3> QED
      BY <3>1
  <2>3. m - 1 \in Nat /\ m - 1 \notin S
    BY <2>1, <2>2
  <2>4. 2 ^ ((m - 1) + 1) = 2 * 2 ^ (m - 1)
    BY <2>3 DEF PowersDouble
  <2>5. (m - 1) + 1 = m /\ 2 ^ (m - 1) >= 1
    BY <2>2, <2>3
  <2> QED
    BY <2>2, <2>4, <2>5
<1> QED
  BY <1>1

\* And they do not fall.
LEMMA PowerGrows ==
  ASSUME PowersDouble, NEW j \in Nat, NEW k \in Nat, j <= k
  PROVE  2 ^ j <= 2 ^ k
<1> DEFINE S == {i \in Nat : j <= i /\ ~(2 ^ j <= 2 ^ i)}
<1>1. ASSUME S # {} PROVE FALSE
  <2>1. PICK m \in S : \A i \in S : m <= i
    BY <1>1, LeastNumber
  <2>2. m \in Nat /\ m > j
    <3>1. m # j
      OBVIOUS
    <3> QED
      BY <3>1
  <2>3. m - 1 \in Nat /\ m - 1 \notin S
    BY <2>1, <2>2
  <2>4. 2 ^ ((m - 1) + 1) = 2 * 2 ^ (m - 1) /\ 2 ^ (m - 1) \in Nat
    BY <2>3, PowerPositive DEF PowersDouble
  <2>5. (m - 1) + 1 = m /\ 2 ^ j <= 2 ^ (m - 1)
    BY <2>2, <2>3
  <2> QED
    BY <2>2, <2>4, <2>5, PowerPositive
<1> QED
  BY <1>1

\* A wait that starts is between LockoutTicks and the one at the bound.
LEMMA LockoutRange ==
  ASSUME PowersDouble, NEW k \in Threshold .. MaxFailures
  PROVE  Lockout(k) \in LockoutTicks .. LockoutTicks * 2 ^ (MaxFailures - Threshold)
<1> DEFINE a == 2 ^ (k - Threshold)
           b == 2 ^ (MaxFailures - Threshold)
<1>1. k - Threshold \in Nat /\ MaxFailures - Threshold \in Nat
      /\ k - Threshold <= MaxFailures - Threshold
  BY ThresholdNat, MaxFailuresNat
<1>2. a \in Nat /\ a >= 1 /\ b \in Nat /\ a <= b
  BY <1>1, PowerPositive, PowerGrows
<1>3. LockoutTicks \in Nat
  BY LockoutPositive
<1> HIDE DEF a, b
<1>4. LockoutTicks * a \in LockoutTicks .. LockoutTicks * b
  BY <1>2, <1>3
<1> QED
  BY <1>4 DEF Lockout, a, b

\* The longest wait is a number.
LEMMA MaxWaitInt == LockoutTicks * 2 ^ (MaxFailures - Threshold) \in Int
BY LockoutPositive, MaxFailuresNat, ThresholdNat

\* The failures that are counted, and those about to be, are within the bound;
\* the wait about to start follows from a count at or above the threshold.
ThrottleInv ==
    /\ TypeOK
    /\ failures + Cardinality(At("count")) <= MaxFailures
    /\ \A c \in Clients : pc[c] = "engage" => n[c] >= Threshold

\* The set of threads at a label is finite in the next state too.
LEMMA NextFinite ==
  ASSUME NEW label
  PROVE  IsFiniteSet(At(label)') /\ Cardinality(At(label)') \in Nat
<1>1. At(label)' \subseteq Clients
  BY DEF At
<1> QED
  BY <1>1, ClientsFinite, FS_Subset, FS_CardinalityType

\* The initial state satisfies it.
LEMMA InitThrottleInv == PowersDouble /\ Init => ThrottleInv
<1> SUFFICES ASSUME PowersDouble, Init PROVE ThrottleInv
  OBVIOUS
<1>1. At("count") = {}
  BY DEF Init, At
<1>2. 0 \in 0 .. LockoutTicks * 2 ^ (MaxFailures - Threshold)
  BY LockoutRange, LockoutPositive, MaxFailuresNat, ThresholdNat
<1>3. TypeOK
  <2>1. lockout \in 0 .. LockoutTicks * 2 ^ (MaxFailures - Threshold)
    BY <1>2 DEF Init
  <2>2. failures \in 0 .. MaxFailures /\ n \in [Clients -> 0 .. MaxFailures]
    BY MaxFailuresNat, ThresholdNat DEF Init
  <2>3. pc \in [Clients -> Labels] /\ cmd \in [Clients -> Commands]
    BY DEF Init, Labels, Commands
  <2>4. locked \in BOOLEAN /\ uncharged \in Nat /\ timeline = {}
    BY DEF Init
  <2> QED
    BY <2>1, <2>2, <2>3, <2>4 DEF TypeOK
<1>4. failures + Cardinality(At("count")) <= MaxFailures
  BY <1>1, FS_EmptySet, MaxFailuresNat, ThresholdNat DEF Init
<1> QED
  BY <1>3, <1>4 DEF ThrottleInv, Init

\* A step that neither counts nor starts a wait.
LEMMA ThrottleFrame ==
  ASSUME ThrottleInv, At("count")' \subseteq At("count"),
         failures' \in {failures, 0}, lockout' \in {lockout, 0},
         uncharged' \in {uncharged, 0}, locked' \in BOOLEAN,
         timeline' \subseteq {"WRONG_PASSWORD", "WRONG_RECOVERY_CODE"},
         pc' \in [Clients -> Labels], cmd' \in [Clients -> Commands],
         n' \in [Clients -> 0 .. MaxFailures],
         \A c \in Clients : pc'[c] = "engage" => pc[c] = "engage" /\ n'[c] = n[c]
  PROVE  ThrottleInv'
<1>1. failures' \in 0 .. MaxFailures /\ failures' <= failures
  BY MaxFailuresNat, ThresholdNat DEF ThrottleInv, TypeOK
<1>2. lockout' \in 0 .. LockoutTicks * 2 ^ (MaxFailures - Threshold)
  <2> DEFINE W == LockoutTicks * 2 ^ (MaxFailures - Threshold)
  <2>1. W \in Int /\ lockout \in 0 .. W
    BY MaxWaitInt DEF ThrottleInv, TypeOK
  <2> HIDE DEF W
  <2>2. lockout' \in 0 .. W
    BY <2>1
  <2> QED
    BY <2>2 DEF W
<1>3. Cardinality(At("count")') <= Cardinality(At("count"))
  BY EngagingFinite, FS_Subset
<1>4. (failures + Cardinality(At("count")) <= MaxFailures)'
  BY <1>1, <1>3, EngagingFinite, NextFinite, MaxFailuresNat DEF ThrottleInv, TypeOK
<1>5. TypeOK'
  BY <1>1, <1>2 DEF TypeOK, ThrottleInv
<1>6. \A c \in Clients : pc'[c] = "engage" => n'[c] >= Threshold
  BY DEF ThrottleInv
<1> QED
  BY <1>4, <1>5, <1>6 DEF ThrottleInv

\* A thread answers, or goes on to a label where it neither counts nor waits to
\* start a lockout.
LEMMA ThreadMoves ==
  ASSUME ThrottleInv, NEW c \in Clients, NEW label \in Labels \ {"count", "engage"},
         Goto(c, label)
  PROVE  /\ pc' \in [Clients -> Labels] /\ At("count")' \subseteq At("count")
         /\ \A d \in Clients : pc'[d] = "engage" => d # c /\ pc[d] = "engage"
BY DEF ThrottleInv, TypeOK, Goto, At

\* The steps that count nothing.
LEMMA OthersKeepThrottle ==
  ASSUME ThrottleInv, NEW c \in Clients,
         \/ Refuse(c) \/ RecordFailure(c) \/ Succeed(c) \/ ClearLockdown(c)
         \/ SendRefusal(c) \/ \E command \in Commands : Accept(c, command)
  PROVE  ThrottleInv'
<1> USE DEF Labels
<1>1. \E label \in Labels \ {"count", "engage"} : Goto(c, label)
  BY DEF Refuse, RecordFailure, Succeed, ClearLockdown, SendRefusal, Accept, Respond
<1>2. /\ pc' \in [Clients -> Labels] /\ At("count")' \subseteq At("count")
      /\ \A d \in Clients : pc'[d] = "engage" => d # c /\ pc[d] = "engage"
  BY <1>1, ThreadMoves
<1>3. /\ failures' \in {failures, 0} /\ lockout' \in {lockout, 0}
      /\ uncharged' \in {uncharged, 0}
  BY DEF Refuse, RecordFailure, Succeed, ClearLockdown, SendRefusal, Accept
<1>4. locked' \in BOOLEAN
  BY DEF Refuse, RecordFailure, Succeed, ClearLockdown, SendRefusal, Accept, ThrottleInv, TypeOK
<1>5. timeline' \subseteq {"WRONG_PASSWORD", "WRONG_RECOVERY_CODE"}
  BY DEF Refuse, RecordFailure, Succeed, ClearLockdown, SendRefusal, Accept, ThrottleInv, TypeOK
<1>6. /\ cmd' \in [Clients -> Commands] /\ n' \in [Clients -> 0 .. MaxFailures]
      /\ \A d \in Clients \ {c} : n'[d] = n[d]
  BY MaxFailuresNat, ThresholdNat DEF Refuse, RecordFailure, Succeed, ClearLockdown,
     SendRefusal, Accept, Respond, Commands, ThrottleInv, TypeOK
<1> QED
  BY <1>2, <1>3, <1>4, <1>5, <1>6, ThrottleFrame

\* Every step keeps the throttle within its bounds.
LEMMA NextThrottleInv == PowersDouble /\ ThrottleInv /\ [Next]_vars => ThrottleInv'
<1> SUFFICES ASSUME PowersDouble, ThrottleInv, [Next]_vars PROVE ThrottleInv'
  OBVIOUS
<1> USE DEF Labels
<1>1. ASSUME NEW c \in Clients, Verified(c) PROVE ThrottleInv'
  <2>1. CASE Goto(c, "succeed")
    <3>1. UNCHANGED <<failures, lockout, locked, timeline, cmd, n, uncharged>>
      BY <1>1 DEF Verified
    <3> QED
      BY <2>1, <3>1, ThreadMoves, ThrottleFrame DEF ThrottleInv, TypeOK
  <2>2. CASE ~Goto(c, "succeed")
    <3>1. /\ failures + Cardinality(At("count")) < MaxFailures /\ pc[c] = "verify"
          /\ Goto(c, "count")
          /\ UNCHANGED <<failures, lockout, locked, timeline, cmd, n, uncharged>>
      BY <1>1, <2>2 DEF Verified
    <3>2. TypeOK' /\ \A d \in Clients : pc'[d] = "engage" => pc[d] = "engage"
      BY <3>1 DEF ThrottleInv, TypeOK, Goto
    <3>3. c \notin At("count") /\ At("count")' = At("count") \cup {c}
      BY <3>1 DEF Goto, At, ThrottleInv, TypeOK
    <3>4. Cardinality(At("count")') = Cardinality(At("count")) + 1
      BY <3>3, EngagingFinite, FS_AddElement
    <3>5. (failures + Cardinality(At("count")) <= MaxFailures)'
      BY <3>1, <3>4, EngagingFinite, MaxFailuresNat DEF ThrottleInv, TypeOK
    <3> QED
      BY <3>1, <3>2, <3>5 DEF ThrottleInv
  <2> QED
    BY <2>1, <2>2
<1>2. ASSUME NEW c \in Clients, CountFailure(c) PROVE ThrottleInv'
  <2>1. c \in At("count") /\ Cardinality(At("count")) \in Nat
    BY <1>2, EngagingFinite DEF CountFailure, At
  <2>2. PICK label \in {"engage", "record"} :
           /\ Goto(c, label)
           /\ label = "engage" => failures + 1 >= Threshold
    BY <1>2 DEF CountFailure
  <2>3. At("count")' = At("count") \ {c}
    BY <2>2 DEF Goto, At, ThrottleInv, TypeOK
  <2>4. Cardinality(At("count")') = Cardinality(At("count")) - 1
    BY <2>1, <2>3, EngagingFinite, FS_RemoveElement
  <2>5. Cardinality(At("count")') \in Nat
    BY NextFinite
  <2>6. failures' = failures + 1 /\ failures \in Nat /\ failures + 1 <= MaxFailures
    BY <1>2, <2>1, <2>4, <2>5, MaxFailuresNat DEF CountFailure, ThrottleInv, TypeOK
  <2>7. n' = [n EXCEPT ![c] = failures + 1] /\ n' \in [Clients -> 0 .. MaxFailures]
    BY <1>2, <2>6, MaxFailuresNat DEF CountFailure, ThrottleInv, TypeOK
  <2>8. /\ uncharged' = uncharged + 1
        /\ UNCHANGED <<lockout, locked, timeline, cmd>>
    BY <1>2 DEF CountFailure
  <2>9. TypeOK'
    BY <2>2, <2>6, <2>7, <2>8, MaxFailuresNat DEF ThrottleInv, TypeOK, Goto
  <2>10. (failures + Cardinality(At("count")) <= MaxFailures)'
    BY <2>1, <2>4, <2>6, MaxFailuresNat DEF ThrottleInv
  <2>11. \A d \in Clients : pc'[d] = "engage" => n'[d] >= Threshold
    BY <2>2, <2>6, <2>7 DEF Goto, ThrottleInv, TypeOK
  <2> QED
    BY <2>9, <2>10, <2>11 DEF ThrottleInv
<1>3. ASSUME NEW c \in Clients, Engage(c) PROVE ThrottleInv'
  <2>1. n[c] \in Threshold .. MaxFailures
    BY <1>3, MaxFailuresNat, ThresholdNat DEF Engage, ThrottleInv, TypeOK
  <2>2. lockout' \in 0 .. LockoutTicks * 2 ^ (MaxFailures - Threshold)
    BY <1>3, <2>1, LockoutRange, LockoutPositive DEF Engage
  <2>3. /\ Goto(c, "record") /\ uncharged' = 0
        /\ UNCHANGED <<failures, locked, timeline, cmd, n>>
    BY <1>3 DEF Engage
  <2>4. /\ pc' \in [Clients -> Labels] /\ At("count")' \subseteq At("count")
        /\ \A d \in Clients : pc'[d] = "engage" => pc[d] = "engage"
    BY <2>3, ThreadMoves
  <2>5. TypeOK'
    BY <2>2, <2>3, <2>4 DEF ThrottleInv, TypeOK
  <2>6. Cardinality(At("count")') <= Cardinality(At("count"))
    BY <2>4, EngagingFinite, FS_Subset
  <2>7. (failures + Cardinality(At("count")) <= MaxFailures)'
    BY <2>3, <2>6, EngagingFinite, NextFinite, MaxFailuresNat DEF ThrottleInv, TypeOK
  <2> QED
    BY <2>3, <2>4, <2>5, <2>7 DEF ThrottleInv
<1>4. CASE EnterLockdown \/ UNCHANGED vars
  <2>1. UNCHANGED <<failures, lockout, timeline, pc, cmd, n, uncharged>>
    BY <1>4 DEF EnterLockdown, vars
  <2>2. locked' \in BOOLEAN
    BY <1>4 DEF EnterLockdown, vars, ThrottleInv, TypeOK
  <2>3. At("count")' = At("count")
    BY <2>1 DEF At
  <2> QED
    BY <2>1, <2>2, <2>3, ThrottleFrame DEF ThrottleInv, TypeOK
<1>5. CASE Tick
  <2>1. /\ lockout > 0 /\ lockout' = lockout - 1
        /\ UNCHANGED <<failures, locked, timeline, pc, cmd, n, uncharged>>
    BY <1>5 DEF Tick
  <2>2. At("count")' = At("count")
    BY <2>1 DEF At
  <2>3. lockout' \in 0 .. LockoutTicks * 2 ^ (MaxFailures - Threshold)
    <3> DEFINE W == LockoutTicks * 2 ^ (MaxFailures - Threshold)
    <3>1. W \in Int /\ lockout \in 0 .. W
      BY MaxWaitInt DEF ThrottleInv, TypeOK
    <3> HIDE DEF W
    <3>2. lockout' \in 0 .. W
      BY <2>1, <3>1
    <3> QED
      BY <3>2 DEF W
  <2>4. TypeOK'
    BY <2>1, <2>3 DEF ThrottleInv, TypeOK
  <2> QED
    BY <2>1, <2>2, <2>4 DEF ThrottleInv
<1>6. CASE Restart
  <2>1. At("count")' = {}
    BY <1>6 DEF Restart, At
  <2>2. /\ pc' \in [Clients -> Labels] /\ cmd' \in [Clients -> Commands]
        /\ n' \in [Clients -> 0 .. MaxFailures]
        /\ \A c \in Clients : pc'[c] # "engage"
    BY <1>6, MaxFailuresNat, ThresholdNat DEF Restart, Commands
  <2>3. /\ failures' = 0 /\ lockout' = 0 /\ uncharged' = 0
        /\ UNCHANGED <<locked, timeline>>
    BY <1>6 DEF Restart
  <2> QED
    BY <2>1, <2>2, <2>3, ThrottleFrame DEF ThrottleInv, TypeOK
<1>7. ASSUME NEW c \in Clients,
             \/ Refuse(c) \/ RecordFailure(c) \/ Succeed(c) \/ ClearLockdown(c)
             \/ SendRefusal(c) \/ \E command \in Commands : Accept(c, command)
      PROVE  ThrottleInv'
  BY <1>7, OthersKeepThrottle
<1> QED
  BY <1>1, <1>2, <1>3, <1>4, <1>5, <1>6, <1>7 DEF Next, Handle

\* Every variable has its type; the wait never exceeds the one that follows from
\* the highest count (daemon.py, _record_auth_failure).
THEOREM ThrottleTypeCorrect == PowersDouble => (Spec => []TypeOK)
<1> SUFFICES ASSUME PowersDouble PROVE Spec => []TypeOK
  OBVIOUS
<1>1. Init => ThrottleInv
  BY InitThrottleInv
<1>2. ThrottleInv /\ [Next]_vars => ThrottleInv'
  BY NextThrottleInv
<1>3. ThrottleInv => TypeOK
  BY DEF ThrottleInv
<1> QED
  BY <1>1, <1>2, <1>3, PTL DEF Spec
=============================================================================
