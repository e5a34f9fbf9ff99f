------------------------- MODULE OverlaySyncProofs -------------------------
(***************************************************************************)
(* Proofs about OverlaySync, for every set of daemon threads and intrusion *)
(* attempts, every fault, and whatever bounds are put on versions and      *)
(* lines: once nothing is on its way, the UI shows what the daemon holds.  *)
(*                                                                         *)
(* The claims are about quiet states; the invariants behind them are about *)
(* every state with a connection. Each says: unless something that will    *)
(* correct the UI is still on its way (a change that is not broadcast, a   *)
(* request, a response), the lines on their way end by showing the state   *)
(* the daemon is in. Part 1 is about such sequences of lines, part 2 about *)
(* types, and parts 3 to 5 prove the overlay, the whitelist, the timeline. *)
(***************************************************************************)
EXTENDS OverlaySync, TLAPS

(***************************************************************************)
(* Part 1: sequences of lines                                              *)
(***************************************************************************)

\* Some line of s is of one of the types.
Holds(s, types) == \E i \in 1 .. Len(s) : s[i][1] \in types

\* Once s is handled, what is shown is v: the last line of the types says so,
\* or there is none and v is what is shown now.
Ends(s, types, shown, v) ==
    \/ ~Holds(s, types) /\ shown = v
    \/ \E i \in 1 .. Len(s) :
          /\ s[i][1] \in types /\ s[i][2] = v
          /\ \A j \in 1 .. Len(s) : j > i => s[j][1] \notin types

\* A line is of the types, or the lines before it are.
LEMMA HoldsAppend ==
  ASSUME NEW S, NEW s \in Seq(S), NEW l \in S, NEW types
  PROVE  Holds(Append(s, l), types) <=> Holds(s, types) \/ l[1] \in types
<1> DEFINE a == Append(s, l)
<1>1. /\ Len(a) = Len(s) + 1 /\ Len(s) \in Nat
      /\ a[Len(a)] = l
      /\ \A i \in 1 .. Len(s) : a[i] = s[i]
  OBVIOUS
<1> HIDE DEF a
<1>2. \A i \in 1 .. Len(a) : i \in 1 .. Len(s) \/ i = Len(a)
  BY <1>1
<1>3. Len(a) \in 1 .. Len(a) /\ \A i \in 1 .. Len(s) : i \in 1 .. Len(a)
  BY <1>1
<1>4. Holds(a, types) <=> Holds(s, types) \/ l[1] \in types
  BY <1>1, <1>2, <1>3 DEF Holds
<1> QED
  BY <1>4 DEF a

\* The first line is of the types, or one of the rest is.
LEMMA HoldsTail ==
  ASSUME NEW S, NEW s \in Seq(S), s # <<>>, NEW types
  PROVE  Holds(s, types) <=> Head(s)[1] \in types \/ Holds(Tail(s), types)
<1> DEFINE r == Tail(s)
<1>1. /\ Len(r) = Len(s) - 1 /\ Len(s) \in Nat \ {0}
      /\ Head(s) = s[1]
      /\ \A i \in 1 .. Len(r) : r[i] = s[i + 1]
  OBVIOUS
<1> HIDE DEF r
<1>2. \A i \in 1 .. Len(s) : i = 1 \/ (i - 1 \in 1 .. Len(r) /\ r[i - 1] = s[i])
  BY <1>1
<1>3. 1 \in 1 .. Len(s) /\ \A i \in 1 .. Len(r) : i + 1 \in 1 .. Len(s)
  BY <1>1
<1>4. Holds(s, types) <=> Head(s)[1] \in types \/ Holds(r, types)
  BY <1>1, <1>2, <1>3 DEF Holds
<1> QED
  BY <1>4 DEF r

\* A new line of the types has the last word; any other changes nothing.
LEMMA EndsAppend ==
  ASSUME NEW S, NEW s \in Seq(S), NEW l \in S, NEW types, NEW shown, NEW v,
         l[1] \in types => l[2] = v,
         l[1] \notin types => Ends(s, types, shown, v)
  PROVE  Ends(Append(s, l), types, shown, v)
<1> DEFINE a == Append(s, l)
<1>1. /\ Len(a) = Len(s) + 1 /\ Len(s) \in Nat
      /\ a[Len(a)] = l
      /\ \A i \in 1 .. Len(s) : a[i] = s[i]
  OBVIOUS
<1>2. Holds(a, types) <=> Holds(s, types) \/ l[1] \in types
  BY HoldsAppend
<1> HIDE DEF a
<1>3. Len(a) \in 1 .. Len(a) /\ \A j \in 1 .. Len(a) : ~(j > Len(a))
  BY <1>1
<1>4. CASE l[1] \in types
  BY <1>1, <1>3, <1>4 DEF Ends, a
<1>5. CASE l[1] \notin types /\ ~Holds(s, types)
  BY <1>2, <1>5 DEF Ends, a
<1>6. CASE l[1] \notin types /\ Holds(s, types)
  <2>1. PICK i \in 1 .. Len(s) : /\ s[i][1] \in types /\ s[i][2] = v
                                 /\ \A j \in 1 .. Len(s) : j > i => s[j][1] \notin types
    BY <1>6 DEF Ends
  <2>2. \A j \in 1 .. Len(a) : j \in 1 .. Len(s) \/ j = Len(a)
    BY <1>1
  <2>3. i \in 1 .. Len(a)
    BY <1>1
  <2>4. \A j \in 1 .. Len(a) : j > i => a[j][1] \notin types
    BY <1>1, <1>6, <2>1, <2>2
  <2> QED
    BY <1>1, <2>1, <2>3, <2>4 DEF Ends, a
<1> QED
  BY <1>4, <1>5, <1>6

\* Handling the first line shows what it says, if it is of the types.
LEMMA EndsTail ==
  ASSUME NEW S, NEW s \in Seq(S), s # <<>>, NEW types, NEW shown, NEW new, NEW v,
         Ends(s, types, shown, v),
         new = IF Head(s)[1] \in types THEN Head(s)[2] ELSE shown
  PROVE  Ends(Tail(s), types, new, v)
<1> DEFINE r == Tail(s)
<1>1. /\ Len(r) = Len(s) - 1 /\ Len(s) \in Nat \ {0}
      /\ Head(s) = s[1]
      /\ \A i \in 1 .. Len(r) : r[i] = s[i + 1]
  OBVIOUS
<1>2. Holds(s, types) <=> Head(s)[1] \in types \/ Holds(r, types)
  BY HoldsTail
<1> HIDE DEF r
<1>3. CASE ~Holds(s, types)
  BY <1>2, <1>3 DEF Ends, r, Holds
<1>4. CASE Holds(s, types)
  <2>1. PICK i \in 1 .. Len(s) : /\ s[i][1] \in types /\ s[i][2] = v
                                 /\ \A j \in 1 .. Len(s) : j > i => s[j][1] \notin types
    BY <1>4 DEF Ends, Holds
  <2>2. CASE i = 1
    <3>1. \A j \in 1 .. Len(r) : r[j][1] \notin types
      BY <1>1, <2>1, <2>2
    <3>2. ~Holds(r, types)
      BY <3>1 DEF Holds
    <3> QED
      BY <1>1, <2>1, <2>2, <3>2 DEF Ends, r
  <2>3. CASE i # 1
    <3>1. i - 1 \in 1 .. Len(r) /\ r[i - 1] = s[i]
      BY <1>1, <2>3
    <3>2. \A j \in 1 .. Len(r) : j > i - 1 => r[j][1] \notin types
      BY <1>1, <2>1
    <3> QED
      BY <2>1, <3>1, <3>2 DEF Ends, r
  <2> QED
    BY <2>2, <2>3
<1> QED
  BY <1>3, <1>4

\* When every line is handled, v is shown.
LEMMA EndsEmpty ==
  ASSUME NEW types, NEW shown, NEW v, Ends(<<>>, types, shown, v)
  PROVE  shown = v
BY DEF Ends, Holds

(***************************************************************************)
(* The invariants                                                          *)
(***************************************************************************)

\* Lines whose attempts have been made.
Sent == {l \in Lines : l[1] = "intrusion_attempt" => l[2] \in made}

\* A command is on its way.
Asked(r) == \E i \in 1 .. Len(requests) : requests[i] = r

\* Types; a connection is one to a daemon that serves, and as long as its
\* thread does not run, both requests the UI begins with are waiting.
Types ==
    /\ TypeOK
    /\ say \in [Threads -> Sent \cup {None}]
    /\ response \in Sent \cup {None}
    /\ lines \in Seq(Sent)
    /\ link = "up" => up
    /\ link = "up" /\ ~registered => Asked("status") /\ Asked("list_whitelist")

IsA(l, types) == l # None /\ l[1] \in types

\* A thread is about to broadcast, or has computed, such a line.
Saying(types)    == \E t \in Threads : IsA(say[t], types)
Answering(types) == IsA(response, types)

Words    == {"lockdown_enter", "lockdown_clear", "status"}
Changes  == {"whitelist_changed"}
Answers  == {"whitelist_list"}
Statuses == {"status"}

\* Nothing that corrects the overlay is on its way to the socket, and the last
\* word was not out of date when it was sent.
OverlayTold ==
    /\ link = "up" /\ ~overtaken
    /\ ~Saying(Words) /\ ~Answering(Words) /\ ~Asked("status")

\* Then the lines on their way end by showing the lockdown as it is.
OverlayInv == OverlayTold => Ends(lines, Words, overlay, locked)

\* No change is about to make the UI ask for the list.
ListTold ==
    /\ link = "up" /\ ~untold
    /\ ~Saying(Changes) /\ ~Holds(lines, Changes) /\ ~Asked("list_whitelist")

\* Then the last list computed is the daemon's. Lists are not broadcast.
ListInv ==
    /\ ~Saying(Answers)
    /\ ListTold => IF Answering(Answers)
                     THEN response[2] = whitelist
                     ELSE Ends(lines, Answers, cache, whitelist)

Contains(s, l) == \E i \in 1 .. Len(s) : s[i] = l

\* A status has shown the overlay, and none is on its way to do it again.
Attached ==
    /\ link = "up" /\ overlay /\ reattached
    /\ ~Answering(Statuses) /\ ~Holds(lines, Statuses) /\ ~Asked("status")

\* The UI shows the attempt, or will when its line arrives.
Shown(x) ==
    \/ x \in timeline
    \/ Contains(lines, Attempt(x))
    \/ \E t \in Threads : say[t] = Attempt(x)

TimelineInv == Attached => \A x \in attempts \ unread : Shown(x)

(***************************************************************************)
(* Part 2: types                                                           *)
(***************************************************************************)

\* What each line says.
LEMMA Tags ==
  /\ Entered[1] = "lockdown_enter" /\ Entered[2] = TRUE
  /\ Cleared[1] = "lockdown_clear" /\ Cleared[2] = FALSE
  /\ ListChanged[1] = "whitelist_changed"
  /\ Refused[1] = "list_whitelist"
  /\ \A b : Status(b)[1] = "status" /\ Status(b)[2] = b
  /\ \A x : Attempt(x)[1] = "intrusion_attempt" /\ Attempt(x)[2] = x
  /\ \A n : List(n)[1] = "whitelist_list" /\ List(n)[2] = n
BY DEF Entered, Cleared, ListChanged, Refused, Status, Attempt, List

\* The lines the daemon may send.
LEMMA Members ==
  /\ Entered \in Lines /\ Cleared \in Lines
  /\ ListChanged \in Lines /\ Refused \in Lines
  /\ \A b \in BOOLEAN : Status(b) \in Lines
  /\ \A x \in Attempts : Attempt(x) \in Lines
  /\ \A n \in 0 .. MaxVersion : List(n) \in Lines
BY DEF Lines

\* What a line says if it has a given type.
LEMMA Contents ==
  ASSUME NEW l \in Lines
  PROVE  /\ l # None
         /\ l[1] = "lockdown_enter" => l[2] = TRUE
         /\ l[1] = "lockdown_clear" => l[2] = FALSE
         /\ l[1] = "status" => l[2] \in BOOLEAN
         /\ l[1] = "intrusion_attempt" => l[2] \in Attempts /\ l = Attempt(l[2])
         /\ l[1] = "whitelist_list" => l[2] \in 0 .. MaxVersion
<1>1. \/ l \in {Entered, Cleared, ListChanged, Refused}
      \/ \E b \in BOOLEAN : l = Status(b)
      \/ \E x \in Attempts : l = Attempt(x)
      \/ \E n \in 0 .. MaxVersion : l = List(n)
  BY DEF Lines
<1> HIDE DEF Entered, Cleared, ListChanged, Refused, Status, Attempt, List
<1>2. l # None
  BY NoneIsNoLine
<1>3. CASE l \in {Entered, Cleared, ListChanged, Refused}
  BY <1>2, <1>3, Tags
<1>4. CASE \E b \in BOOLEAN : l = Status(b)
  BY <1>2, <1>4, Tags
<1>5. CASE \E x \in Attempts : l = Attempt(x)
  BY <1>2, <1>5, Tags
<1>6. CASE \E n \in 0 .. MaxVersion : l = List(n)
  BY <1>2, <1>6, Tags
<1> QED
  BY <1>1, <1>3, <1>4, <1>5, <1>6

\* A command is sent.
LEMMA AskedAppend ==
  ASSUME requests \in Seq(Requests), NEW q \in Requests,
         requests' = Append(requests, q)
  PROVE  /\ requests' \in Seq(Requests)
         /\ \A r : Asked(r)' <=> Asked(r) \/ r = q
<1>1. /\ Len(requests') = Len(requests) + 1 /\ Len(requests) \in Nat
      /\ requests'[Len(requests')] = q
      /\ \A i \in 1 .. Len(requests) : requests'[i] = requests[i]
      /\ requests' \in Seq(Requests)
  OBVIOUS
<1>2. \A i \in 1 .. Len(requests') : i \in 1 .. Len(requests) \/ i = Len(requests')
  BY <1>1
<1>3. /\ Len(requests') \in 1 .. Len(requests')
      /\ \A i \in 1 .. Len(requests) : i \in 1 .. Len(requests')
  BY <1>1
<1> QED
  BY <1>1, <1>2, <1>3 DEF Asked

\* The first command is taken.
LEMMA AskedTail ==
  ASSUME requests \in Seq(Requests), requests # <<>>, requests' = Tail(requests)
  PROVE  /\ requests' \in Seq(Requests) /\ Head(requests) \in Requests
         /\ \A r : Asked(r) <=> r = Head(requests) \/ Asked(r)'
<1>1. /\ Len(requests') = Len(requests) - 1 /\ Len(requests) \in Nat \ {0}
      /\ Head(requests) = requests[1]
      /\ \A i \in 1 .. Len(requests') : requests'[i] = requests[i + 1]
      /\ requests' \in Seq(Requests) /\ Head(requests) \in Requests
  OBVIOUS
<1>2. \A i \in 1 .. Len(requests) :
         i = 1 \/ (i - 1 \in 1 .. Len(requests') /\ requests'[i - 1] = requests[i])
  BY <1>1
<1>3. 1 \in 1 .. Len(requests) /\ \A i \in 1 .. Len(requests') : i + 1 \in 1 .. Len(requests)
  BY <1>1
<1> QED
  BY <1>1, <1>2, <1>3 DEF Asked

\* Lines that could be sent still can be when another attempt is made.
LEMMA SentGrows ==
  ASSUME made \subseteq made'
  PROVE  /\ Sent \subseteq Sent'
         /\ lines \in Seq(Sent) => lines \in Seq(Sent')
BY DEF Sent

\* The initial state is well typed.
LEMMA InitTypes == Init => Types
<1> SUFFICES ASSUME Init PROVE Types
  OBVIOUS
<1>1. requests \in Seq(Requests) /\ lines \in Seq(Lines) /\ lines \in Seq(Sent)
  BY DEF Init
<1>2. 0 \in 0 .. MaxVersion
  BY BoundsNat
<1> QED
  BY <1>1, <1>2 DEF Init, Types, TypeOK

\* A thread changes the state and will broadcast a line about it.
LEMMA AnnounceTypes ==
  ASSUME Types, NEW t \in Threads, NEW l \in Lines, Announce(t, l),
         made \subseteq made', made' \subseteq Attempts, attempts' \subseteq made',
         locked' \in BOOLEAN, whitelist' \in 0 .. MaxVersion,
         l[1] = "intrusion_attempt" => l[2] \in made'
  PROVE  Types'
<1> USE DEF ui, ghosts
<1>1. /\ say' = [say EXCEPT ![t] = l]
      /\ UNCHANGED <<up, registered, requests, response, link, lines, overlay,
                     timeline, cache, reattached, unread, overtaken, untold>>
  BY DEF Announce
<1>2. l \in Sent'
  BY DEF Sent
<1>3. say' \in [Threads -> Sent' \cup {None}]
  BY <1>1, <1>2, SentGrows DEF Types
<1>4. /\ response' \in Sent' \cup {None}
      /\ lines' \in Seq(Sent')
  BY <1>1, SentGrows DEF Types
<1>5. \A u \in Threads : say'[u] \in Lines \cup {None}
  BY <1>3 DEF Sent
<1>6. \A r : Asked(r)' <=> Asked(r)
  BY <1>1 DEF Asked
<1>7. TypeOK'
  BY <1>1, <1>5 DEF Types, TypeOK
<1> QED
  BY <1>1, <1>3, <1>4, <1>6, <1>7 DEF Types

\* The steps of a daemon thread keep the types.
LEMMA ThreadTypes ==
  ASSUME Types, NEW t \in Threads, Thread(t)
  PROVE  Types'
<1>1. ASSUME EnterLockdown(t) PROVE Types'
  <2>1. /\ Announce(t, Entered) /\ locked' = TRUE /\ attempts' = {}
        /\ UNCHANGED <<whitelist, made>>
    BY <1>1 DEF EnterLockdown
  <2> QED
    BY <2>1, AnnounceTypes, Members, Tags DEF Types, TypeOK
<1>2. ASSUME ClearLockdown(t) PROVE Types'
  <2>1. /\ Announce(t, Cleared) /\ locked' = FALSE
        /\ UNCHANGED <<attempts, whitelist, made>>
    BY <1>2 DEF ClearLockdown
  <2> QED
    BY <2>1, AnnounceTypes, Members, Tags DEF Types, TypeOK
<1>3. ASSUME ChangeWhitelist(t) PROVE Types'
  <2>1. /\ Announce(t, ListChanged) /\ whitelist' = whitelist + 1 /\ whitelist < MaxVersion
        /\ UNCHANGED <<locked, attempts, made>>
    BY <1>3 DEF ChangeWhitelist
  <2>2. whitelist' \in 0 .. MaxVersion
    BY <2>1, BoundsNat DEF Types, TypeOK
  <2> QED
    BY <2>1, <2>2, AnnounceTypes, Members, Tags DEF Types, TypeOK
<1>4. ASSUME NEW x \in Attempts, RecordIntrusion(t, x) PROVE Types'
  <2>1. /\ Announce(t, Attempt(x)) /\ made' = made \cup {x}
        /\ attempts' = attempts \cup {x} \/ attempts' = attempts
        /\ UNCHANGED <<locked, whitelist>>
    BY <1>4 DEF RecordIntrusion, LogRow
  <2> QED
    BY <2>1, AnnounceTypes, Members, Tags DEF Types, TypeOK
<1>5. ASSUME GiveUp(t) PROVE Types'
  <2>1. /\ say' = [say EXCEPT ![t] = None]
        /\ overtaken' \in BOOLEAN /\ untold' \in BOOLEAN
        /\ UNCHANGED <<up, locked, attempts, whitelist, made, registered, requests,
                       response, link, lines, overlay, timeline, cache, reattached, unread>>
    BY <1>5 DEF GiveUp, ui, Types, TypeOK
  <2>2. Sent' = Sent /\ \A r : Asked(r)' <=> Asked(r)
    BY <2>1 DEF Sent, Asked
  <2>3. say' \in [Threads -> Sent' \cup {None}]
    BY <2>1, <2>2 DEF Types
  <2>4. TypeOK'
    BY <2>1, <2>2, <2>3 DEF Types, TypeOK, Sent
  <2> QED
    BY <2>1, <2>2, <2>3, <2>4 DEF Types
<1>6. ASSUME Broadcast(t) PROVE Types'
  <2>1. /\ say[t] # None
        /\ say' = [say EXCEPT ![t] = None]
        /\ lines' = Append(lines, say[t]) \/ lines' = lines
        /\ UNCHANGED <<up, locked, attempts, whitelist, made, registered, requests,
                       response, link, overlay, timeline, cache, reattached, unread, untold>>
    BY <1>6 DEF Broadcast, ui
  <2>2. overtaken' \in BOOLEAN
    BY <1>6 DEF Broadcast, OutOfDate, Types, TypeOK
  <2>3. Sent' = Sent /\ \A r : Asked(r)' <=> Asked(r)
    BY <2>1 DEF Sent, Asked
  <2>4. say[t] \in Sent /\ lines \in Seq(Sent)
    BY <2>1 DEF Types
  <2>5. lines' \in Seq(Sent') /\ lines' \in Seq(Lines)
    <3>1. lines' \in Seq(Sent)
      BY <2>1, <2>4
    <3>2. Sent \subseteq Lines
      BY DEF Sent
    <3> QED
      BY <2>3, <3>1, <3>2
  <2>6. say' \in [Threads -> Sent' \cup {None}]
    BY <2>1, <2>3 DEF Types
  <2>7. TypeOK'
    BY <2>1, <2>2, <2>3, <2>5, <2>6 DEF Types, TypeOK, Sent
  <2> QED
    BY <2>1, <2>3, <2>5, <2>6, <2>7 DEF Types
<1> QED
  BY <1>1, <1>2, <1>3, <1>4, <1>5, <1>6 DEF Thread

\* The steps of the connection's thread keep the types.
LEMMA ConnectionTypes ==
  ASSUME Types, Connection
  PROVE  Types'
<1> USE DEF state, ui, ghosts
<1>1. ASSUME Accept PROVE Types'
  <2>1. /\ up /\ link = "up" /\ registered' = TRUE
        /\ UNCHANGED <<up, locked, attempts, whitelist, say, made, requests, response,
                       link, lines, overlay, timeline, cache, reattached, unread,
                       overtaken, untold>>
    BY <1>1 DEF Accept
  <2>2. Sent' = Sent
    BY <2>1 DEF Sent
  <2>3. TypeOK'
    BY <2>1 DEF Types, TypeOK
  <2> QED
    BY <2>1, <2>2, <2>3 DEF Types
<1>2. ASSUME HandleCommand \/ RefuseList PROVE Types'
  <2>1. /\ registered /\ requests # <<>> /\ requests' = Tail(requests)
        /\ response' \in {Status(locked), List(whitelist), Refused}
        /\ UNCHANGED <<up, locked, attempts, whitelist, say, made, registered, link,
                       lines, overlay, timeline, cache, reattached, unread, overtaken>>
    BY <1>2 DEF HandleCommand, RefuseList, Compute, Computed
  <2>2. untold' \in BOOLEAN
    <3>1. untold' = TRUE \/ untold' = (untold /\ Head(requests) # "list_whitelist")
      BY <1>2 DEF HandleCommand, RefuseList, Compute
    <3> QED
      BY <3>1 DEF Types, TypeOK
  <2>3. requests' \in Seq(Requests)
    BY <2>1, AskedTail DEF Types, TypeOK
  <2>4. response' \in Sent /\ response' \in Lines
    BY <2>1, Members, Tags DEF Types, TypeOK, Sent
  <2>5. Sent' = Sent
    BY <2>1 DEF Sent
  <2>6. TypeOK'
    BY <2>1, <2>2, <2>3, <2>4 DEF Types, TypeOK
  <2> QED
    BY <2>1, <2>4, <2>5, <2>6 DEF Types
<1>3. ASSUME SendResponse PROVE Types'
  <2>1. /\ response # None /\ response' = None /\ lines' = Append(lines, response)
        /\ UNCHANGED <<up, locked, attempts, whitelist, say, made, registered, requests,
                       link, overlay, timeline, cache, reattached, unread, untold>>
    BY <1>3 DEF SendResponse
  <2>2. overtaken' \in BOOLEAN
    BY <1>3 DEF SendResponse, OutOfDate, Types, TypeOK
  <2>3. Sent' = Sent /\ \A r : Asked(r)' <=> Asked(r)
    BY <2>1 DEF Sent, Asked
  <2>4. response \in Sent /\ lines \in Seq(Sent)
    BY <2>1 DEF Types
  <2>5. lines' \in Seq(Sent') /\ lines' \in Seq(Lines)
    BY <2>1, <2>3, <2>4 DEF Sent
  <2>6. TypeOK'
    BY <2>1, <2>2, <2>5 DEF Types, TypeOK
  <2> QED
    BY <2>1, <2>3, <2>5, <2>6 DEF Types
<1> QED
  BY <1>1, <1>2, <1>3 DEF Connection

\* A line is handled: the rest stay as they are, and the line is one that the
\* daemon may have sent.
LEMMA TakeTypes ==
  ASSUME Types, NEW type, Take(type)
  PROVE  /\ lines # <<>> /\ lines' = Tail(lines)
         /\ Head(lines)[1] = type /\ Head(lines) \in Sent
         /\ lines' \in Seq(Sent) /\ lines' \in Seq(Lines)
         /\ Sent' = Sent
         /\ UNCHANGED <<up, locked, attempts, whitelist, say, made, registered, response,
                        overtaken, untold>>
<1>1. /\ lines # <<>> /\ Head(lines)[1] = type /\ lines' = Tail(lines)
      /\ UNCHANGED <<up, locked, attempts, whitelist, say, made, registered, response,
                     overtaken, untold>>
  BY DEF Take, state, ghosts
<1>2. lines \in Seq(Sent) /\ Sent \subseteq Lines
  BY DEF Types, Sent
<1>3. Head(lines) \in Sent /\ lines' \in Seq(Sent)
  BY <1>1, <1>2
<1>4. lines' \in Seq(Lines)
  BY <1>2, <1>3
<1>5. Sent' = Sent
  BY <1>1 DEF Sent
<1> QED
  BY <1>1, <1>3, <1>4, <1>5

\* A command is sent, or the socket turns out to be dead.
LEMMA SendTypes ==
  ASSUME Types, NEW r \in Requests, SendCommand(r)
  PROVE  /\ requests' \in Seq(Requests) /\ link' \in {"up", "broken", "down"}
         /\ link' = "up" => link = "up" /\ Asked(r)'
         /\ \A q : Asked(q) => Asked(q)'
         /\ registered \/ response # None => link' = "up"
<1>1. CASE link = "up"
  BY <1>1, AskedAppend DEF SendCommand, Types, TypeOK
<1>2. CASE link # "up"
  BY <1>2 DEF SendCommand, Types, TypeOK, Asked
<1> QED
  BY <1>1, <1>2

\* The handler of a line changes nothing but what is shown.
LEMMA HandlerTypes ==
  ASSUME Types, NEW type, Take(type), UNCHANGED <<requests, link>>,
         overlay' \in BOOLEAN, timeline' \subseteq made, reattached' \in BOOLEAN,
         unread' \subseteq made, cache' \in 0 .. MaxVersion
  PROVE  Types'
<1>1. \A r : Asked(r)' <=> Asked(r)
  BY DEF Asked
<1>2. TypeOK'
  BY TakeTypes DEF Types, TypeOK
<1> QED
  BY TakeTypes, <1>1, <1>2 DEF Types

\* The steps of the UI keep the types.
LEMMA UITypes ==
  ASSUME Types, UI
  PROVE  Types'
<1> USE DEF state, ui, ghosts
<1>0. attempts \subseteq made /\ timeline \subseteq made /\ unread \subseteq made
  BY DEF Types, TypeOK
<1>1. ASSUME OnLockdownEnter \/ OnStatusLocked PROVE Types'
  <2>1. /\ Take("lockdown_enter") \/ Take("status")
        /\ overlay' = TRUE /\ timeline' \in {{}, attempts} /\ reattached' \in BOOLEAN
        /\ unread' \in {unread, attempts, {}}
        /\ UNCHANGED <<requests, link, cache>>
    BY <1>1 DEF OnLockdownEnter, OnStatusLocked, ShowFor, Reattach, Rehydrated
  <2>2. timeline' \subseteq made /\ unread' \subseteq made /\ cache' \in 0 .. MaxVersion
    BY <2>1, <1>0 DEF Types, TypeOK
  <2> QED
    BY <2>1, <2>2, HandlerTypes
<1>2. ASSUME OnLockdownClear \/ OnStatusUnlocked PROVE Types'
  <2>1. /\ Take("lockdown_clear") \/ Take("status")
        /\ overlay' = FALSE
        /\ UNCHANGED <<requests, link, cache, timeline, reattached, unread>>
    BY <1>2 DEF OnLockdownClear, OnStatusUnlocked, HideOverlay
  <2>2. /\ timeline' \subseteq made /\ unread' \subseteq made
        /\ cache' \in 0 .. MaxVersion /\ reattached' \in BOOLEAN
    BY <2>1, <1>0 DEF Types, TypeOK
  <2> QED
    BY <2>1, <2>2, HandlerTypes
<1>3. ASSUME OnIntrusionAttempt PROVE Types'
  <2>1. /\ Take("intrusion_attempt")
        /\ timeline' = timeline \cup {Head(lines)[2]}
        /\ UNCHANGED <<requests, link, cache, overlay, reattached, unread>>
    BY <1>3 DEF OnIntrusionAttempt, RecordRow
  <2>2. Head(lines)[2] \in made
    BY <2>1, TakeTypes DEF Sent
  <2>3. /\ timeline' \subseteq made /\ unread' \subseteq made /\ cache' \in 0 .. MaxVersion
        /\ overlay' \in BOOLEAN /\ reattached' \in BOOLEAN
    BY <2>1, <2>2, <1>0 DEF Types, TypeOK
  <2> QED
    BY <2>1, <2>3, HandlerTypes
<1>4. ASSUME OnWhitelistList PROVE Types'
  <2>1. /\ Take("whitelist_list")
        /\ cache' = Head(lines)[2]
        /\ UNCHANGED <<requests, link, overlay, timeline, reattached, unread>>
    BY <1>4 DEF OnWhitelistList
  <2>2. cache' \in 0 .. MaxVersion
    BY <2>1, TakeTypes, Contents DEF Sent
  <2>3. /\ timeline' \subseteq made /\ unread' \subseteq made
        /\ overlay' \in BOOLEAN /\ reattached' \in BOOLEAN
    BY <2>1, <1>0 DEF Types, TypeOK
  <2> QED
    BY <2>1, <2>2, <2>3, HandlerTypes
<1>5. ASSUME OnWhitelistChanged PROVE Types'
  <2>1. /\ Take("whitelist_changed") /\ SendCommand("list_whitelist")
        /\ UNCHANGED <<overlay, timeline, cache, reattached, unread>>
    BY <1>5 DEF OnWhitelistChanged
  <2>2. /\ requests' \in Seq(Requests) /\ link' \in {"up", "broken", "down"}
        /\ link' = "up" => link = "up"
        /\ \A q : Asked(q) => Asked(q)'
        /\ registered \/ response # None => link' = "up"
    BY <2>1, SendTypes DEF Requests
  <2>3. /\ lines' \in Seq(Sent) /\ lines' \in Seq(Lines) /\ Sent' = Sent
        /\ UNCHANGED <<up, locked, attempts, whitelist, say, made, registered, response,
                       overtaken, untold>>
    BY <2>1, TakeTypes
  <2>4. TypeOK'
    BY <2>1, <2>2, <2>3 DEF Types, TypeOK
  <2> QED
    BY <2>2, <2>3, <2>4 DEF Types
<1>6. ASSUME OnListRefused PROVE Types'
  <2>1. /\ Take("list_whitelist")
        /\ UNCHANGED <<requests, link, overlay, timeline, cache, reattached, unread>>
    BY <1>6 DEF OnListRefused
  <2>2. /\ timeline' \subseteq made /\ unread' \subseteq made /\ cache' \in 0 .. MaxVersion
        /\ overlay' \in BOOLEAN /\ reattached' \in BOOLEAN
    BY <2>1, <1>0 DEF Types, TypeOK
  <2> QED
    BY <2>1, <2>2, HandlerTypes
<1>7. ASSUME ShowWhitelist PROVE Types'
  <2>1. /\ SendCommand("list_whitelist")
        /\ UNCHANGED <<up, locked, attempts, whitelist, say, made, registered, response, lines,
                       overlay, timeline, cache, reattached, unread, overtaken, untold>>
    BY <1>7 DEF ShowWhitelist
  <2>2. /\ requests' \in Seq(Requests) /\ link' \in {"up", "broken", "down"}
        /\ link' = "up" => link = "up"
        /\ \A q : Asked(q) => Asked(q)'
        /\ registered \/ response # None => link' = "up"
    BY <2>1, SendTypes DEF Requests
  <2>3. Sent' = Sent
    BY <2>1 DEF Sent
  <2>4. TypeOK'
    BY <2>1, <2>2 DEF Types, TypeOK
  <2> QED
    BY <2>1, <2>2, <2>3, <2>4 DEF Types
<1>8. ASSUME RecvEnds PROVE Types'
  <2>1. /\ link = "broken" /\ link' = "down"
        /\ UNCHANGED <<up, locked, attempts, whitelist, say, made, registered, requests, response,
                       lines, overlay, timeline, cache, reattached, unread, overtaken, untold>>
    BY <1>8 DEF RecvEnds
  <2>2. Sent' = Sent
    BY <2>1 DEF Sent
  <2>3. TypeOK'
    BY <2>1 DEF Types, TypeOK
  <2> QED
    BY <2>1, <2>2, <2>3 DEF Types
<1>9. ASSUME Refresh PROVE Types'
  <2>1. /\ link = "down" /\ overlay' = FALSE
        /\ \/ up /\ link' = "up" /\ requests' = <<"status", "list_whitelist">>
           \/ ~up /\ UNCHANGED <<link, requests>>
        /\ UNCHANGED <<up, locked, attempts, whitelist, say, made, registered, response,
                       lines, timeline, cache, reattached, unread, overtaken, untold>>
    BY <1>9 DEF Refresh, HideOverlay, Connect
  <2>2. Sent' = Sent
    BY <2>1 DEF Sent
  <2>3. /\ requests' \in Seq(Requests)
        /\ link' = "up" => up /\ Asked("status")' /\ Asked("list_whitelist")'
    <3>1. ASSUME requests' = <<"status", "list_whitelist">>
          PROVE  /\ requests' \in Seq(Requests)
                 /\ Asked("status")' /\ Asked("list_whitelist")'
      <4>1. /\ Len(requests') = 2 /\ requests'[1] = "status"
            /\ requests'[2] = "list_whitelist" /\ requests' \in Seq(Requests)
        BY <3>1 DEF Requests
      <4>2. 1 \in 1 .. Len(requests') /\ 2 \in 1 .. Len(requests')
        BY <4>1
      <4> QED
        BY <4>1, <4>2 DEF Asked
    <3> QED
      BY <2>1, <3>1 DEF Types, TypeOK
  <2>4. TypeOK'
    BY <2>1, <2>3 DEF Types, TypeOK
  <2> QED
    BY <2>1, <2>2, <2>3, <2>4 DEF Types
<1>10. ASSUME RestartUI PROVE Types'
  <2>1. /\ link' = "down" /\ registered' = FALSE /\ requests' = <<>> /\ response' = None
        /\ lines' = <<>> /\ overlay' = FALSE /\ timeline' = {} /\ cache' = 0
        /\ reattached' = FALSE /\ unread' = {}
        /\ UNCHANGED <<up, locked, attempts, whitelist, say, made, overtaken, untold>>
    BY <1>10 DEF RestartUI
  <2>2. Sent' = Sent
    BY <2>1 DEF Sent
  <2>3. /\ requests' \in Seq(Requests) /\ lines' \in Seq(Sent) /\ lines' \in Seq(Lines)
        /\ cache' \in 0 .. MaxVersion
    BY <2>1, BoundsNat
  <2>4. TypeOK'
    BY <2>1, <2>3 DEF Types, TypeOK
  <2> QED
    BY <2>1, <2>2, <2>3, <2>4 DEF Types
<1> QED
  BY <1>1, <1>2, <1>3, <1>4, <1>5, <1>6, <1>7, <1>8, <1>9, <1>10 DEF UI

\* The end and the start of the daemon keep the types.
LEMMA ProcessTypes ==
  ASSUME Types, Stop \/ Start
  PROVE  Types'
<1> USE DEF ui, ghosts
<1>1. ASSUME Stop PROVE Types'
  <2>1. /\ up' = FALSE /\ say' = [t \in Threads |-> None] /\ registered' = FALSE
        /\ requests' = <<>> /\ response' = None
        /\ link' \in {"broken", "down"}
        /\ UNCHANGED <<locked, attempts, whitelist, made, lines, overlay, timeline, cache,
                       reattached, unread, overtaken, untold>>
    BY <1>1 DEF Stop, Types, TypeOK
  <2>2. Sent' = Sent
    BY <2>1 DEF Sent
  <2>3. requests' \in Seq(Requests)
    BY <2>1
  <2>4. TypeOK'
    BY <2>1, <2>3 DEF Types, TypeOK
  <2> QED
    BY <2>1, <2>2, <2>3, <2>4 DEF Types
<1>2. ASSUME Start PROVE Types'
  <2>1. /\ ~up /\ up' = TRUE /\ locked' \in BOOLEAN /\ attempts' \in {attempts, {}}
        /\ UNCHANGED <<whitelist, say, made, registered, requests, response, link, lines,
                       overlay, timeline, cache, reattached, unread, overtaken, untold>>
    BY <1>2 DEF Start
  <2>2. Sent' = Sent
    BY <2>1 DEF Sent
  <2>3. TypeOK'
    BY <2>1 DEF Types, TypeOK
  <2> QED
    BY <2>1, <2>2, <2>3 DEF Types
<1> QED
  BY <1>1, <1>2

\* Every step keeps the types.
LEMMA NextTypes == Types /\ [Next]_vars => Types'
<1> SUFFICES ASSUME Types, [Next]_vars PROVE Types'
  OBVIOUS
<1>1. CASE UNCHANGED vars
  <2>1. UNCHANGED <<up, locked, attempts, whitelist, say, made, registered, requests, response,
                    link, lines, overlay, timeline, cache, reattached, unread, overtaken, untold>>
    BY <1>1 DEF vars, state, ui, ghosts
  <2>2. Sent' = Sent /\ \A r : Asked(r)' <=> Asked(r)
    BY <2>1 DEF Sent, Asked
  <2>3. TypeOK'
    BY <2>1 DEF Types, TypeOK
  <2> QED
    BY <2>1, <2>2, <2>3 DEF Types
<1> QED
  BY <1>1, ThreadTypes, ConnectionTypes, UITypes, ProcessTypes DEF Next

\* Every variable keeps its type, an attempt is shown or sent only if it was
\* made, and only a daemon that serves has connections.
THEOREM TypeCorrect == Spec => []TypeOK
<1>1. Types => TypeOK
  BY DEF Types
<1> QED
  BY <1>1, InitTypes, NextTypes, PTL DEF Spec

\* A thread that announces a line adds it to what will be broadcast.
LEMMA SayingAfterAnnounce ==
  ASSUME Types, NEW t \in Threads, NEW l \in Lines, Announce(t, l)
  PROVE  \A types : Saying(types)' <=> Saying(types) \/ l[1] \in types
<1>1. /\ say[t] = None /\ l # None
      /\ say'[t] = l /\ \A u \in Threads \ {t} : say'[u] = say[u]
  BY Contents DEF Announce, Types
<1> QED
  BY <1>1 DEF Saying, IsA

\* A thread that broadcasts its line, or drops it, removes it.
LEMMA SayingAfterSent ==
  ASSUME Types, NEW t \in Threads, say' = [say EXCEPT ![t] = None]
  PROVE  \A types : Saying(types) <=> Saying(types)' \/ IsA(say[t], types)
<1>1. say'[t] = None /\ \A u \in Threads \ {t} : say'[u] = say[u]
  BY DEF Types
<1> QED
  BY <1>1 DEF Saying, IsA

\* A connection whose thread is not running has asked for everything.
LEMMA NotRegistered ==
  ASSUME Types, link = "up", ~registered
  PROVE  Asked("status") /\ Asked("list_whitelist")
BY DEF Types

(***************************************************************************)
(* Part 3: the overlay                                                     *)
(***************************************************************************)

\* What is on its way and what is shown stay as they are.
LEMMA OverlaySame ==
  ASSUME OverlayInv, OverlayTold' => OverlayTold, UNCHANGED <<lines, overlay, locked>>
  PROVE  OverlayInv'
BY DEF OverlayInv, Ends, Holds, Words

\* A line is sent: a word that is up to date, or no word.
LEMMA OverlayAppend ==
  ASSUME Types, OverlayInv, NEW l \in Sent, lines' = Append(lines, l),
         UNCHANGED <<overlay, locked>>,
         OverlayTold' => IF l[1] \in Words THEN l[2] = locked ELSE OverlayTold
  PROVE  OverlayInv'
<1>1. OverlayTold' => Ends(Append(lines, l), Words, overlay, locked)
  BY EndsAppend DEF OverlayInv, Types
<1> QED
  BY <1>1 DEF OverlayInv, Ends, Holds, Words

\* A line is handled: the overlay obeys it if it is a word.
LEMMA OverlayTail ==
  ASSUME Types, OverlayInv, lines # <<>>, lines' = Tail(lines),
         UNCHANGED locked, OverlayTold' => OverlayTold,
         overlay' = IF Head(lines)[1] \in Words THEN Head(lines)[2] ELSE overlay
  PROVE  OverlayInv'
<1>1. OverlayTold' => Ends(Tail(lines), Words, overlay', locked)
  BY EndsTail DEF OverlayInv, Types
<1> QED
  BY <1>1 DEF OverlayInv, Ends, Holds, Words

\* The steps of a daemon thread.
LEMMA OverlayThread ==
  ASSUME Types, OverlayInv, NEW t \in Threads, Thread(t)
  PROVE  OverlayInv'
<1> USE DEF state, ui, ghosts
<1>1. ASSUME EnterLockdown(t) \/ ClearLockdown(t) PROVE OverlayInv'
  <2>1. Announce(t, Entered) \/ Announce(t, Cleared)
    BY <1>1 DEF EnterLockdown, ClearLockdown
  <2>2. Saying(Words)'
    BY <2>1, SayingAfterAnnounce, Members, Tags DEF Words
  <2> QED
    BY <2>2 DEF OverlayInv, OverlayTold
<1>2. ASSUME NEW l \in Lines, Announce(t, l), l[1] \notin Words, UNCHANGED locked
      PROVE  OverlayInv'
  <2>1. UNCHANGED <<requests, response, link, lines, overlay, overtaken>>
    BY <1>2 DEF Announce
  <2>2. Saying(Words) => Saying(Words)'
    BY <1>2, SayingAfterAnnounce
  <2>3. OverlayTold' => OverlayTold
    BY <2>1, <2>2 DEF OverlayTold, Answering, IsA, Asked, Words
  <2> QED
    BY <1>2, <2>1, <2>3, OverlaySame
<1>3. ASSUME ChangeWhitelist(t) PROVE OverlayInv'
  BY <1>2, <1>3, Members, Tags DEF ChangeWhitelist, Words
<1>4. ASSUME NEW x \in Attempts, RecordIntrusion(t, x) PROVE OverlayInv'
  BY <1>2, <1>4, Members, Tags DEF RecordIntrusion, Words
<1>5. ASSUME GiveUp(t) PROVE OverlayInv'
  <2>1. /\ say' = [say EXCEPT ![t] = None]
        /\ overtaken' = FALSE => overtaken = FALSE /\ say[t] = ListChanged
        /\ UNCHANGED <<locked, requests, response, link, lines, overlay>>
    BY <1>5 DEF GiveUp, Types, TypeOK
  <2>2. ~overtaken' => ~overtaken /\ ~IsA(say[t], Words)
    BY <1>5, Tags DEF GiveUp, IsA, Words
  <2>3. OverlayTold' => OverlayTold
    BY <2>1, <2>2, SayingAfterSent DEF OverlayTold, Answering, IsA, Asked, Words
  <2> QED
    BY <2>1, <2>3, OverlaySame
<1>6. ASSUME Broadcast(t) PROVE OverlayInv'
  <2>1. /\ say[t] # None /\ say[t] \in Sent /\ say' = [say EXCEPT ![t] = None]
        /\ UNCHANGED <<locked, registered, requests, response, link, overlay>>
    BY <1>6 DEF Broadcast, Types
  <2>2. CASE registered
    <3>1. lines' = Append(lines, say[t]) /\ overtaken' = OutOfDate(say[t])
      BY <1>6, <2>2 DEF Broadcast
    <3>2. CASE say[t][1] \in Words
      <4>1. ~overtaken' => say[t][2] = locked
        BY <3>1, <3>2 DEF OutOfDate, Words
      <4> QED
        BY <2>1, <3>1, <3>2, <4>1, OverlayAppend DEF OverlayTold
    <3>3. CASE say[t][1] \notin Words
      <4>1. overtaken' = overtaken
        BY <3>1, <3>3 DEF OutOfDate, Words
      <4>2. OverlayTold' => OverlayTold
        BY <2>1, <3>3, <4>1, SayingAfterSent DEF OverlayTold, Answering, IsA, Asked, Words
      <4> QED
        BY <2>1, <3>1, <3>3, <4>2, OverlayAppend
    <3> QED
      BY <3>2, <3>3
  <2>3. CASE ~registered
    <3>1. link = "up" => Asked("status")
      BY <2>3, NotRegistered
    <3>2. ~OverlayTold'
      BY <2>1, <3>1 DEF OverlayTold, Asked
    <3> QED
      BY <3>2 DEF OverlayInv
  <2> QED
    BY <2>2, <2>3
<1> QED
  BY <1>1, <1>3, <1>4, <1>5, <1>6 DEF Thread

\* The steps of the connection's thread.
LEMMA OverlayConnection ==
  ASSUME Types, OverlayInv, Connection
  PROVE  OverlayInv'
<1> USE DEF state, ui, ghosts
<1>1. ASSUME Accept PROVE OverlayInv'
  <2>1. UNCHANGED <<say, requests, response, link, lines, overlay, locked, overtaken>>
    BY <1>1 DEF Accept
  <2>2. OverlayTold' => OverlayTold
    BY <2>1 DEF OverlayTold, Saying, Answering, IsA, Asked, Words
  <2> QED
    BY <2>1, <2>2, OverlaySame
<1>2. ASSUME HandleCommand \/ RefuseList PROVE OverlayInv'
  <2>1. /\ response = None /\ requests # <<>> /\ requests' = Tail(requests)
        /\ Head(requests) = "status" => response' = Status(locked)
        /\ UNCHANGED <<say, link, lines, overlay, locked, overtaken>>
    BY <1>2 DEF HandleCommand, RefuseList, Compute, Computed
  <2>2. Asked("status") => Head(requests) = "status" \/ Asked("status")'
    BY <2>1, AskedTail DEF Types, TypeOK
  <2>3. Head(requests) = "status" => Answering(Words)'
    <3>1. Status(locked) # None
      BY Members, Contents DEF Types, TypeOK
    <3>2. Status(locked)[1] = "status"
      BY Tags
    <3> QED
      BY <2>1, <3>1, <3>2 DEF Answering, IsA, Words
  <2>4. OverlayTold' => OverlayTold
    BY <2>1, <2>2, <2>3 DEF OverlayTold, Saying, Answering, IsA, Words
  <2> QED
    BY <2>1, <2>4, OverlaySame
<1>3. ASSUME SendResponse PROVE OverlayInv'
  <2>1. /\ response # None /\ response \in Sent
        /\ lines' = Append(lines, response) /\ overtaken' = OutOfDate(response)
        /\ UNCHANGED <<say, requests, link, overlay, locked>>
    BY <1>3 DEF SendResponse, Types
  <2>2. CASE response[1] \in Words
    <3>1. ~overtaken' => response[2] = locked
      BY <2>1, <2>2 DEF OutOfDate, Words
    <3> QED
      BY <2>1, <2>2, <3>1, OverlayAppend DEF OverlayTold
  <2>3. CASE response[1] \notin Words
    <3>1. overtaken' = overtaken
      BY <2>1, <2>3 DEF OutOfDate, Words
    <3>2. OverlayTold' => OverlayTold
      BY <2>1, <2>3, <3>1 DEF OverlayTold, Saying, Answering, IsA, Asked, Words
    <3> QED
      BY <2>1, <2>3, <3>2, OverlayAppend
  <2> QED
    BY <2>2, <2>3
<1> QED
  BY <1>1, <1>2, <1>3 DEF Connection

\* The handlers of lines.
LEMMA OverlayHandler ==
  ASSUME Types, OverlayInv, NEW type, Take(type),
         link' = "up" => link = "up", Asked("status") => Asked("status")',
         overlay' = IF type \in Words THEN Head(lines)[2] ELSE overlay
  PROVE  OverlayInv'
<1>1. /\ lines # <<>> /\ lines' = Tail(lines) /\ Head(lines)[1] = type
      /\ UNCHANGED <<say, response, locked, overtaken>>
  BY TakeTypes
<1>2. OverlayTold' => OverlayTold
  BY <1>1 DEF OverlayTold, Saying, Answering, IsA, Words
<1> QED
  BY <1>1, <1>2, OverlayTail

\* The steps of the UI.
LEMMA OverlayUI ==
  ASSUME Types, OverlayInv, UI
  PROVE  OverlayInv'
<1> USE DEF state, ui, ghosts
<1>1. ASSUME OnLockdownEnter \/ OnLockdownClear \/ OnStatusLocked \/ OnStatusUnlocked
      PROVE  OverlayInv'
  <2>1. PICK type \in Words : Take(type)
    BY <1>1 DEF OnLockdownEnter, OnLockdownClear, OnStatusLocked, OnStatusUnlocked, Words
  <2>2. Head(lines)[1] = type /\ Head(lines) \in Lines
    BY <2>1, TakeTypes DEF Sent
  <2>3. overlay' = Head(lines)[2]
    <3>1. CASE OnLockdownEnter
      BY <2>2, <3>1, Contents DEF OnLockdownEnter, ShowFor, Take
    <3>2. CASE OnLockdownClear
      BY <2>2, <3>2, Contents DEF OnLockdownClear, HideOverlay, Take
    <3>3. CASE OnStatusLocked
      <4>1. overlay' = TRUE /\ Head(lines)[1] = "status" /\ Head(lines)[2]
        BY <3>3 DEF OnStatusLocked, ShowFor, Take
      <4>2. Head(lines)[2] \in BOOLEAN
        BY <4>1, <2>2, Contents
      <4> QED
        BY <4>1, <4>2
    <3>4. CASE OnStatusUnlocked
      <4>1. overlay' = FALSE /\ Head(lines)[1] = "status" /\ ~Head(lines)[2]
        BY <3>4 DEF OnStatusUnlocked, HideOverlay, Take
      <4>2. Head(lines)[2] \in BOOLEAN
        BY <4>1, <2>2, Contents
      <4> QED
        BY <4>1, <4>2
    <3> QED
      BY <1>1, <3>1, <3>2, <3>3, <3>4
  <2>4. UNCHANGED <<requests, link>>
    BY <1>1 DEF OnLockdownEnter, OnLockdownClear, OnStatusLocked, OnStatusUnlocked
  <2> QED
    BY <2>1, <2>3, <2>4, OverlayHandler DEF Asked
<1>2. ASSUME OnIntrusionAttempt \/ OnWhitelistList \/ OnListRefused PROVE OverlayInv'
  <2>1. PICK type : Take(type) /\ type \notin Words
    BY <1>2 DEF OnIntrusionAttempt, OnWhitelistList, OnListRefused, Words
  <2>2. UNCHANGED <<requests, link, overlay>>
    BY <1>2 DEF OnIntrusionAttempt, RecordRow, OnWhitelistList, OnListRefused
  <2> QED
    BY <2>1, <2>2, OverlayHandler DEF Asked
<1>3. ASSUME OnWhitelistChanged PROVE OverlayInv'
  <2>1. /\ Take("whitelist_changed") /\ SendCommand("list_whitelist") /\ overlay' = overlay
    BY <1>3 DEF OnWhitelistChanged
  <2>2. (link' = "up" => link = "up") /\ (Asked("status") => Asked("status")')
    BY <2>1, SendTypes DEF Requests
  <2> QED
    BY <2>1, <2>2, OverlayHandler DEF Words
<1>4. ASSUME ShowWhitelist PROVE OverlayInv'
  <2>1. /\ SendCommand("list_whitelist")
        /\ UNCHANGED <<say, response, lines, overlay, locked, overtaken>>
    BY <1>4 DEF ShowWhitelist
  <2>2. (link' = "up" => link = "up") /\ (Asked("status") => Asked("status")')
    BY <2>1, SendTypes DEF Requests
  <2>3. OverlayTold' => OverlayTold
    BY <2>1, <2>2 DEF OverlayTold, Saying, Answering, IsA, Words
  <2> QED
    BY <2>1, <2>3, OverlaySame
<1>5. ASSUME RecvEnds \/ RestartUI PROVE OverlayInv'
  BY <1>5 DEF RecvEnds, RestartUI, OverlayInv, OverlayTold
<1>6. ASSUME Refresh PROVE OverlayInv'
  <2>1. ~registered /\ ~registered'
    BY <1>6 DEF Refresh, Types, TypeOK
  <2>2. link' = "up" => Asked("status")'
    BY <1>6, <2>1, UITypes, NotRegistered DEF UI, Types
  <2> QED
    BY <2>2 DEF OverlayInv, OverlayTold
<1> QED
  BY <1>1, <1>2, <1>3, <1>4, <1>5, <1>6 DEF UI

\* Every step keeps the overlay's invariant.
LEMMA NextOverlay == Types /\ OverlayInv /\ [Next]_vars => OverlayInv'
<1> SUFFICES ASSUME Types, OverlayInv, [Next]_vars PROVE OverlayInv'
  OBVIOUS
<1>1. CASE Stop \/ Start
  <2>1. link' # "up"
    BY <1>1 DEF Stop, Start, Types, TypeOK
  <2> QED
    BY <2>1 DEF OverlayInv, OverlayTold
<1>2. CASE UNCHANGED vars
  <2>1. UNCHANGED <<say, requests, response, link, lines, overlay, locked, overtaken>>
    BY <1>2 DEF vars, state, ui, ghosts
  <2>2. OverlayTold' => OverlayTold
    BY <2>1 DEF OverlayTold, Saying, Answering, IsA, Asked, Words
  <2> QED
    BY <2>1, <2>2, OverlaySame
<1> QED
  BY <1>1, <1>2, OverlayThread, OverlayConnection, OverlayUI DEF Next

\* Once nothing is on its way, the overlay is shown exactly if the system is
\* locked, unless the last word about the lockdown was out of date when it was
\* sent, or never sent.
THEOREM OverlayIsRight == Spec => []OverlayFollows
<1>1. Init => OverlayInv
  BY DEF Init, OverlayInv, OverlayTold
<1>2. Types /\ OverlayInv => OverlayFollows
  <2> SUFFICES ASSUME Types, OverlayInv, Quiet, ~overtaken PROVE overlay = locked
    BY DEF OverlayFollows
  <2>1. OverlayTold
    BY DEF Quiet, OverlayTold, Saying, Answering, IsA, Asked
  <2>2. Ends(<<>>, Words, overlay, locked)
    BY <2>1 DEF Quiet, OverlayInv
  <2> QED
    BY <2>2, EndsEmpty
<1>3. Types /\ OverlayInv /\ [Next]_vars => (Types /\ OverlayInv)'
  BY NextTypes, NextOverlay
<1>4. Init => Types /\ OverlayInv
  BY <1>1, InitTypes
<1> QED
  BY <1>2, <1>3, <1>4, PTL DEF Spec

(***************************************************************************)
(* Part 4: the whitelist                                                   *)
(***************************************************************************)

\* What is on its way and what is shown stay as they are.
LEMMA ListSame ==
  ASSUME ListInv, ~Saying(Answers)', ListTold' => ListTold,
         UNCHANGED <<response, lines, cache, whitelist>>
  PROVE  ListInv'
BY DEF ListInv, Ends, Holds, Answering, IsA, Answers

\* A line that is no list is broadcast.
LEMMA ListAppend ==
  ASSUME Types, ListInv, ~Saying(Answers)', NEW l \in Sent, lines' = Append(lines, l),
         l[1] \notin Answers, ListTold' => ListTold,
         UNCHANGED <<response, cache, whitelist>>
  PROVE  ListInv'
<1>1. ASSUME ListTold', ~Answering(Answers)
      PROVE  Ends(lines', Answers, cache, whitelist)
  BY <1>1, EndsAppend DEF ListInv, Types
<1>2. Answering(Answers)' <=> Answering(Answers)
  BY DEF Answering, IsA, Answers
<1> QED
  BY <1>1, <1>2 DEF ListInv, Ends, Holds, Answers

\* A line is handled: a list goes into the cache.
LEMMA ListTail ==
  ASSUME Types, ListInv, lines # <<>>, lines' = Tail(lines), ListTold' => ListTold,
         UNCHANGED <<say, response, whitelist>>,
         cache' = IF Head(lines)[1] \in Answers THEN Head(lines)[2] ELSE cache
  PROVE  ListInv'
<1>1. ASSUME ListTold', ~Answering(Answers)
      PROVE  Ends(lines', Answers, cache', whitelist)
  BY <1>1, EndsTail DEF ListInv, Types
<1>2. (Answering(Answers)' <=> Answering(Answers)) /\ ~Saying(Answers)'
  BY DEF ListInv, Answering, Saying, IsA, Answers
<1> QED
  BY <1>1, <1>2 DEF ListInv, Ends, Holds, Answers

\* The steps of a daemon thread.
LEMMA ListThread ==
  ASSUME Types, ListInv, NEW t \in Threads, Thread(t)
  PROVE  ListInv'
<1> USE DEF state, ui, ghosts
<1>1. ASSUME ChangeWhitelist(t) PROVE ListInv'
  <2>1. Announce(t, ListChanged)
    BY <1>1 DEF ChangeWhitelist
  <2>2. Saying(Changes)' /\ ~Saying(Answers)'
    BY <2>1, SayingAfterAnnounce, Members, Tags DEF Changes, Answers, ListInv
  <2> QED
    BY <2>2 DEF ListInv, ListTold
<1>2. ASSUME NEW l \in Lines, Announce(t, l), l[1] \notin Answers, UNCHANGED whitelist
      PROVE  ListInv'
  <2>1. UNCHANGED <<requests, response, link, lines, cache, untold>>
    BY <1>2 DEF Announce
  <2>2. (Saying(Changes) => Saying(Changes)') /\ ~Saying(Answers)'
    BY <1>2, SayingAfterAnnounce DEF ListInv
  <2>3. ListTold' => ListTold
    BY <2>1, <2>2 DEF ListTold, Asked, Holds, Changes
  <2> QED
    BY <1>2, <2>1, <2>2, <2>3, ListSame
<1>3. ASSUME EnterLockdown(t) \/ ClearLockdown(t) PROVE ListInv'
  BY <1>2, <1>3, Members, Tags DEF EnterLockdown, ClearLockdown, Answers
<1>4. ASSUME NEW x \in Attempts, RecordIntrusion(t, x) PROVE ListInv'
  BY <1>2, <1>4, Members, Tags DEF RecordIntrusion, Answers
<1>5. ASSUME GiveUp(t) PROVE ListInv'
  <2>1. /\ say' = [say EXCEPT ![t] = None]
        /\ UNCHANGED <<requests, response, link, lines, cache, whitelist>>
    BY <1>5 DEF GiveUp
  <2>2. ~untold' => ~untold /\ ~IsA(say[t], Changes)
    BY <1>5, Tags DEF GiveUp, IsA, Changes
  <2>3. ListTold' => ListTold
    BY <2>1, <2>2, SayingAfterSent DEF ListTold, Asked, Holds, Changes
  <2>4. ~Saying(Answers)'
    BY <2>1, SayingAfterSent DEF ListInv
  <2> QED
    BY <2>1, <2>3, <2>4, ListSame
<1>6. ASSUME Broadcast(t) PROVE ListInv'
  <2>1. /\ say[t] # None /\ say[t] \in Sent /\ say' = [say EXCEPT ![t] = None]
        /\ UNCHANGED <<registered, requests, response, link, cache, whitelist, untold>>
    BY <1>6 DEF Broadcast, Types
  <2>2. ~Saying(Answers)' /\ say[t][1] \notin Answers
    BY <2>1, SayingAfterSent DEF ListInv, IsA
  <2>3. CASE registered
    <3>1. lines' = Append(lines, say[t])
      BY <1>6, <2>3 DEF Broadcast
    <3>2. Holds(lines', Changes) <=> Holds(lines, Changes) \/ say[t][1] \in Changes
      BY <2>1, <3>1, HoldsAppend DEF Types
    <3>3. Saying(Changes) => Saying(Changes)' \/ say[t][1] \in Changes
      BY <2>1, SayingAfterSent DEF IsA
    <3>4. Holds(lines, Changes)' <=> Holds(lines', Changes)
      BY DEF Holds, Changes
    <3>5. ListTold' => ListTold
      BY <2>1, <3>2, <3>3, <3>4 DEF ListTold, Asked
    <3> QED
      BY <2>1, <2>2, <3>1, <3>5, ListAppend
  <2>4. CASE ~registered
    <3>1. link = "up" => Asked("list_whitelist")
      BY <2>4, NotRegistered
    <3>2. ~ListTold'
      BY <2>1, <3>1 DEF ListTold, Asked
    <3> QED
      BY <2>2, <3>2 DEF ListInv
  <2> QED
    BY <2>3, <2>4
<1> QED
  BY <1>1, <1>3, <1>4, <1>5, <1>6 DEF Thread

\* The steps of the connection's thread.
LEMMA ListConnection ==
  ASSUME Types, ListInv, Connection
  PROVE  ListInv'
<1> USE DEF state, ui, ghosts
<1>0. say' = say /\ ~Saying(Answers)'
  <2>1. say' = say
    BY DEF Connection, Accept, HandleCommand, Compute, RefuseList, SendResponse
  <2> QED
    BY <2>1 DEF ListInv, Saying, IsA, Answers
<1>1. ASSUME Accept PROVE ListInv'
  <2>1. UNCHANGED <<say, requests, response, link, lines, cache, whitelist, untold>>
    BY <1>1 DEF Accept
  <2>2. ListTold' => ListTold
    BY <2>1 DEF ListTold, Saying, IsA, Asked, Holds, Changes
  <2> QED
    BY <1>0, <2>1, <2>2, ListSame
<1>2. ASSUME RefuseList PROVE ListInv'
  BY <1>0, <1>2 DEF RefuseList, ListInv, ListTold
<1>3. ASSUME HandleCommand PROVE ListInv'
  <2>1. /\ response = None /\ requests # <<>> /\ requests' = Tail(requests)
        /\ response' = Computed(Head(requests))
        /\ untold' = (untold /\ Head(requests) # "list_whitelist")
        /\ UNCHANGED <<say, link, lines, cache, whitelist>>
    BY <1>3 DEF HandleCommand, Compute
  <2>2. /\ Head(requests) \in Requests
        /\ Asked("list_whitelist") => Head(requests) = "list_whitelist" \/ Asked("list_whitelist")'
    BY <2>1, AskedTail DEF Types, TypeOK
  <2>3. CASE Head(requests) = "list_whitelist"
    <3>1. response' = List(whitelist)
      BY <2>1, <2>3 DEF Computed
    <3>2. List(whitelist) # None
      BY Members, Contents DEF Types, TypeOK
    <3>3. List(whitelist)[1] = "whitelist_list" /\ List(whitelist)[2] = whitelist
      BY Tags
    <3>4. Answering(Answers)' /\ response'[2] = whitelist'
      BY <2>1, <3>1, <3>2, <3>3 DEF Answering, IsA, Answers
    <3> QED
      BY <1>0, <3>4 DEF ListInv
  <2>4. CASE Head(requests) = "status"
    <3>1. response' = Status(locked)
      BY <2>1, <2>4 DEF Computed
    <3>2. ~Answering(Answers)' /\ ~Answering(Answers)
      BY <2>1, <3>1, Tags DEF Answering, IsA, Answers
    <3>3. ListTold' => ListTold
      BY <2>1, <2>2, <2>4 DEF ListTold, Saying, IsA, Holds, Changes
    <3> QED
      BY <1>0, <2>1, <3>2, <3>3 DEF ListInv, Ends, Holds, Answers
  <2> QED
    BY <2>2, <2>3, <2>4 DEF Requests
<1>4. ASSUME SendResponse PROVE ListInv'
  <2>1. /\ response # None /\ response \in Sent /\ response' = None
        /\ lines' = Append(lines, response)
        /\ UNCHANGED <<say, requests, link, cache, whitelist, untold>>
    BY <1>4 DEF SendResponse, Types
  <2>2. Holds(lines, Changes) => Holds(lines', Changes)
    BY <2>1, HoldsAppend DEF Types
  <2>3. Holds(lines, Changes)' <=> Holds(lines', Changes)
    BY DEF Holds, Changes
  <2>4. ListTold' => ListTold
    BY <2>1, <2>2, <2>3 DEF ListTold, Saying, IsA, Asked, Changes
  <2>5. ListTold => /\ response[1] \in Answers => response[2] = whitelist
                    /\ response[1] \notin Answers => Ends(lines, Answers, cache, whitelist)
    BY <2>1 DEF ListInv, Answering, IsA
  <2>6. ListTold' => Ends(lines', Answers, cache, whitelist)
    BY <2>1, <2>4, <2>5, EndsAppend DEF Types
  <2>7. ~Answering(Answers)'
    BY <2>1 DEF Answering, IsA
  <2> QED
    BY <1>0, <2>1, <2>6, <2>7 DEF ListInv, Ends, Holds, Answers
<1> QED
  BY <1>1, <1>2, <1>3, <1>4 DEF Connection

\* The handlers of lines: one that learns of a change asks for the list.
LEMMA ListHandler ==
  ASSUME Types, ListInv, NEW type, Take(type),
         link' = "up" => link = "up" /\ (type \in Changes => Asked("list_whitelist")'),
         Asked("list_whitelist") => Asked("list_whitelist")',
         cache' = IF type \in Answers THEN Head(lines)[2] ELSE cache
  PROVE  ListInv'
<1>1. /\ lines # <<>> /\ lines' = Tail(lines) /\ Head(lines)[1] = type
      /\ UNCHANGED <<say, response, whitelist, untold>>
  BY TakeTypes
<1>2. Holds(lines, Changes) <=> type \in Changes \/ Holds(lines', Changes)
  BY <1>1, HoldsTail DEF Types
<1>3. Holds(lines, Changes)' <=> Holds(lines', Changes)
  BY DEF Holds, Changes
<1>4. ListTold' => ListTold
  BY <1>1, <1>2, <1>3 DEF ListTold, Saying, IsA, Changes
<1> QED
  BY <1>1, <1>4, ListTail

\* The steps of the UI.
LEMMA ListUI ==
  ASSUME Types, ListInv, UI
  PROVE  ListInv'
<1> USE DEF state, ui, ghosts
<1>1. ASSUME \/ OnLockdownEnter \/ OnLockdownClear \/ OnIntrusionAttempt
             \/ OnStatusLocked \/ OnStatusUnlocked \/ OnListRefused
      PROVE  ListInv'
  <2>1. PICK type : Take(type) /\ type \notin Changes \cup Answers
    BY <1>1 DEF OnLockdownEnter, OnLockdownClear, OnIntrusionAttempt, OnStatusLocked,
       OnStatusUnlocked, OnListRefused, Changes, Answers
  <2>2. UNCHANGED <<requests, link, cache>>
    BY <1>1 DEF OnLockdownEnter, OnLockdownClear, OnIntrusionAttempt, OnStatusLocked,
       OnStatusUnlocked, OnListRefused
  <2> QED
    BY <2>1, <2>2, ListHandler DEF Asked
<1>2. ASSUME OnWhitelistList PROVE ListInv'
  <2>1. Take("whitelist_list") /\ cache' = Head(lines)[2] /\ UNCHANGED <<requests, link>>
    BY <1>2 DEF OnWhitelistList
  <2> QED
    BY <2>1, ListHandler DEF Asked, Answers, Changes
<1>3. ASSUME OnWhitelistChanged PROVE ListInv'
  <2>1. Take("whitelist_changed") /\ SendCommand("list_whitelist") /\ cache' = cache
    BY <1>3 DEF OnWhitelistChanged
  <2>2. /\ link' = "up" => link = "up" /\ Asked("list_whitelist")'
        /\ Asked("list_whitelist") => Asked("list_whitelist")'
    BY <2>1, SendTypes DEF Requests
  <2> QED
    BY <2>1, <2>2, ListHandler DEF Answers
<1>4. ASSUME ShowWhitelist PROVE ListInv'
  <2>1. /\ SendCommand("list_whitelist")
        /\ UNCHANGED <<say, response, lines, cache, whitelist, untold>>
    BY <1>4 DEF ShowWhitelist
  <2>2. /\ link' = "up" => Asked("list_whitelist")'
        /\ ~Saying(Answers)'
    BY <2>1, SendTypes DEF Requests, ListInv, Saying, IsA, Answers
  <2> QED
    BY <2>2 DEF ListInv, ListTold
<1>5. ASSUME RecvEnds \/ RestartUI PROVE ListInv'
  <2>1. link' # "up" /\ UNCHANGED say
    BY <1>5 DEF RecvEnds, RestartUI
  <2> QED
    BY <2>1 DEF ListInv, ListTold, Saying, IsA, Answers
<1>6. ASSUME Refresh PROVE ListInv'
  <2>1. ~registered /\ ~registered' /\ UNCHANGED say
    BY <1>6 DEF Refresh, Types, TypeOK
  <2>2. link' = "up" => Asked("list_whitelist")'
    BY <1>6, <2>1, UITypes, NotRegistered DEF UI, Types
  <2> QED
    BY <2>1, <2>2 DEF ListInv, ListTold, Saying, IsA, Answers
<1> QED
  BY <1>1, <1>2, <1>3, <1>4, <1>5, <1>6 DEF UI

\* Every step keeps the list's invariant.
LEMMA NextList == Types /\ ListInv /\ [Next]_vars => ListInv'
<1> SUFFICES ASSUME Types, ListInv, [Next]_vars PROVE ListInv'
  OBVIOUS
<1>1. CASE Stop \/ Start
  <2>1. link' # "up" /\ \A t \in Threads : say'[t] = None \/ say'[t] = say[t]
    BY <1>1 DEF Stop, Start, Types, TypeOK
  <2> QED
    BY <2>1 DEF ListInv, ListTold, Saying, IsA, Answers
<1>2. CASE UNCHANGED vars
  <2>1. UNCHANGED <<say, requests, response, link, lines, cache, whitelist, untold>>
    BY <1>2 DEF vars, state, ui, ghosts
  <2>2. (ListTold' => ListTold) /\ ~Saying(Answers)'
    BY <2>1 DEF ListInv, ListTold, Saying, IsA, Asked, Holds, Changes, Answers
  <2> QED
    BY <2>1, <2>2, ListSame
<1> QED
  BY <1>1, <1>2, ListThread, ListConnection, ListUI DEF Next

\* Once nothing is on its way, the UI's whitelist is the daemon's, unless a
\* save that failed was not broadcast or the throttle refused the list.
THEOREM ListIsRight == Spec => []ListFollows
<1>1. Init => ListInv
  BY DEF Init, ListInv, ListTold, Saying, IsA
<1>2. Types /\ ListInv => ListFollows
  <2> SUFFICES ASSUME Types, ListInv, Quiet, ~untold PROVE cache = whitelist
    BY DEF ListFollows
  <2>1. ListTold /\ ~Answering(Answers)
    BY DEF Quiet, ListTold, Saying, Answering, IsA, Asked, Holds
  <2>2. Ends(<<>>, Answers, cache, whitelist)
    BY <2>1 DEF Quiet, ListInv
  <2> QED
    BY <2>2, EndsEmpty
<1>3. Types /\ ListInv /\ [Next]_vars => (Types /\ ListInv)'
  BY NextTypes, NextList
<1>4. Init => Types /\ ListInv
  BY <1>1, InitTypes
<1> QED
  BY <1>2, <1>3, <1>4, PTL DEF Spec

(***************************************************************************)
(* Part 5: the timeline                                                    *)
(***************************************************************************)

\* A line stays on its way when another is sent.
LEMMA ContainsAppend ==
  ASSUME NEW S, NEW s \in Seq(S), NEW l \in S
  PROVE  /\ Contains(Append(s, l), l)
         /\ \A e : Contains(s, e) => Contains(Append(s, l), e)
<1> DEFINE a == Append(s, l)
<1>1. /\ Len(a) = Len(s) + 1 /\ Len(s) \in Nat
      /\ a[Len(a)] = l
      /\ \A i \in 1 .. Len(s) : a[i] = s[i]
  OBVIOUS
<1> HIDE DEF a
<1>2. Len(a) \in 1 .. Len(a) /\ \A i \in 1 .. Len(s) : i \in 1 .. Len(a)
  BY <1>1
<1>3. Contains(a, l) /\ \A e : Contains(s, e) => Contains(a, e)
  BY <1>1, <1>2 DEF Contains
<1> QED
  BY <1>3 DEF a

\* Only the line that is handled leaves.
LEMMA ContainsTail ==
  ASSUME NEW S, NEW s \in Seq(S), s # <<>>
  PROVE  \A e : Contains(s, e) => e = Head(s) \/ Contains(Tail(s), e)
<1> DEFINE r == Tail(s)
<1>1. /\ Len(r) = Len(s) - 1 /\ Len(s) \in Nat \ {0}
      /\ Head(s) = s[1]
      /\ \A i \in 1 .. Len(r) : r[i] = s[i + 1]
  OBVIOUS
<1> HIDE DEF r
<1>2. \A i \in 1 .. Len(s) : i = 1 \/ (i - 1 \in 1 .. Len(r) /\ r[i - 1] = s[i])
  BY <1>1
<1>3. \A e : Contains(s, e) => e = Head(s) \/ Contains(r, e)
  BY <1>1, <1>2 DEF Contains
<1> QED
  BY <1>3 DEF r

\* A line is handled, or none: an attempt that is not on the timeline waits.
LEMMA ShownStill ==
  ASSUME NEW x, Shown(x), timeline \subseteq timeline' \/ x \in timeline',
         Contains(lines, Attempt(x)) => Contains(lines', Attempt(x)) \/ x \in timeline',
         UNCHANGED say
  PROVE  Shown(x)'
<1>1. Contains(lines, Attempt(x))' <=> Contains(lines', Attempt(x))
  BY DEF Contains, Attempt
<1> QED
  BY <1>1 DEF Shown, Attempt

\* A thread's line is one that nobody waited for.
LEMMA TimelineAnnounce ==
  ASSUME Types, NEW t \in Threads, NEW l \in Lines, Announce(t, l)
  PROVE  /\ Attached' => Attached
         /\ \A x \in Attempts : Shown(x) => Shown(x)'
         /\ \A x \in Attempts : l = Attempt(x) => Shown(x)'
<1> USE DEF ui
<1>1. /\ say[t] = None /\ say'[t] = l /\ \A u \in Threads \ {t} : say'[u] = say[u]
      /\ UNCHANGED <<requests, response, link, lines, overlay, reattached, unread, timeline>>
  BY DEF Announce, Types
<1>2. Attached' => Attached
  BY <1>1 DEF Attached, Answering, IsA, Asked, Holds, Statuses
<1>3. ASSUME NEW x \in Attempts, Shown(x) PROVE Shown(x)'
  <2>1. Attempt(x) # None
    BY Members, Contents
  <2>2. \A u \in Threads : say[u] = Attempt(x) => say'[u] = Attempt(x)
    BY <1>1, <2>1
  <2> QED
    BY <1>1, <1>3, <2>2 DEF Shown, Contains, Attempt
<1>4. \A x \in Attempts : l = Attempt(x) => Shown(x)'
  BY <1>1 DEF Shown, Attempt
<1> QED
  BY <1>2, <1>3, <1>4

\* The steps of a daemon thread.
LEMMA TimelineThread ==
  ASSUME Types, TimelineInv, NEW t \in Threads, Thread(t)
  PROVE  TimelineInv'
<1> USE DEF state, ui, ghosts
<1>0. attempts \subseteq Attempts
  BY DEF Types, TypeOK
<1>1. ASSUME EnterLockdown(t) PROVE TimelineInv'
  BY <1>1 DEF EnterLockdown, TimelineInv
<1>2. ASSUME ClearLockdown(t) \/ ChangeWhitelist(t) PROVE TimelineInv'
  <2>1. PICK l \in Lines : Announce(t, l)
    BY <1>2, Members DEF ClearLockdown, ChangeWhitelist
  <2>2. attempts' = attempts /\ unread' = unread
    BY <1>2 DEF ClearLockdown, ChangeWhitelist, Announce
  <2>3. (Attached' => Attached) /\ \A x \in Attempts : Shown(x) => Shown(x)'
    BY <2>1, TimelineAnnounce
  <2> QED
    BY <1>0, <2>2, <2>3 DEF TimelineInv
<1>3. ASSUME NEW y \in Attempts, RecordIntrusion(t, y) PROVE TimelineInv'
  <2>1. Announce(t, Attempt(y)) /\ attempts' \subseteq attempts \cup {y} /\ unread' = unread
    BY <1>3 DEF RecordIntrusion, LogRow, Announce
  <2>2. /\ Attached' => Attached
        /\ \A x \in Attempts : Shown(x) => Shown(x)'
        /\ Shown(y)'
    BY <2>1, TimelineAnnounce, Members
  <2>3. ASSUME Attached', NEW x \in attempts' \ unread' PROVE Shown(x)'
    BY <1>0, <2>1, <2>2, <2>3 DEF TimelineInv
  <2> QED
    BY <2>3 DEF TimelineInv
<1>4. ASSUME GiveUp(t) PROVE TimelineInv'
  <2>1. /\ say[t] \in {Entered, Cleared, ListChanged}
        /\ say'[t] = None /\ \A u \in Threads \ {t} : say'[u] = say[u]
        /\ UNCHANGED <<attempts, requests, response, link, lines, overlay, reattached, unread,
                       timeline>>
    BY <1>4 DEF GiveUp, Types
  <2>2. Attached' => Attached
    BY <2>1 DEF Attached, Answering, IsA, Asked, Holds, Statuses
  <2>3. ASSUME NEW x, Shown(x) PROVE Shown(x)'
    <3>1. say[t] # Attempt(x)
      BY <2>1, Tags
    <3>2. \A u \in Threads : say[u] = Attempt(x) => say'[u] = Attempt(x)
      BY <2>1, <3>1
    <3> QED
      BY <2>1, <2>3, <3>2 DEF Shown, Contains, Attempt
  <2> QED
    BY <2>1, <2>2, <2>3 DEF TimelineInv
<1>5. ASSUME Broadcast(t) PROVE TimelineInv'
  <2>1. /\ say[t] # None /\ say[t] \in Sent /\ lines \in Seq(Sent)
        /\ say'[t] = None /\ \A u \in Threads \ {t} : say'[u] = say[u]
        /\ UNCHANGED <<attempts, registered, requests, response, link, overlay, reattached, unread,
                       timeline>>
    BY <1>5 DEF Broadcast, Types
  <2>2. CASE registered
    <3>1. lines' = Append(lines, say[t])
      BY <1>5, <2>2 DEF Broadcast
    <3>2. Holds(lines, Statuses) => Holds(lines', Statuses)
      BY <2>1, <3>1, HoldsAppend
    <3>3. Holds(lines, Statuses)' <=> Holds(lines', Statuses)
      BY DEF Holds, Statuses
    <3>4. Attached' => Attached
      BY <2>1, <3>2, <3>3 DEF Attached, Answering, IsA, Asked, Statuses
    <3>5. /\ Contains(lines', say[t])
          /\ \A e : Contains(lines, e) => Contains(lines', e)
      BY <2>1, <3>1, ContainsAppend
    <3>6. ASSUME NEW x, Shown(x) PROVE Shown(x)'
      <4>1. Contains(lines, Attempt(x))' <=> Contains(lines', Attempt(x))
        BY DEF Contains, Attempt
      <4>2. \A u \in Threads : say[u] = Attempt(x) =>
               say'[u] = Attempt(x) \/ Contains(lines', Attempt(x))
        BY <2>1, <3>5
      <4> QED
        BY <2>1, <3>5, <3>6, <4>1, <4>2 DEF Shown, Attempt
    <3> QED
      BY <2>1, <3>4, <3>6 DEF TimelineInv
  <2>3. CASE ~registered
    <3>1. link = "up" => Asked("status")
      BY <2>3, NotRegistered
    <3>2. ~Attached'
      BY <2>1, <3>1 DEF Attached, Asked
    <3> QED
      BY <3>2 DEF TimelineInv
  <2> QED
    BY <2>2, <2>3
<1> QED
  BY <1>1, <1>2, <1>3, <1>4, <1>5 DEF Thread

\* The steps of the connection's thread.
LEMMA TimelineConnection ==
  ASSUME Types, TimelineInv, Connection
  PROVE  TimelineInv'
<1> USE DEF state, ui, ghosts
<1>0. UNCHANGED <<say, attempts, link, overlay, reattached, unread, timeline>>
  BY DEF Connection, Accept, HandleCommand, Compute, RefuseList, SendResponse
<1>1. ASSUME Accept PROVE TimelineInv'
  <2>1. UNCHANGED <<requests, response, lines>>
    BY <1>1 DEF Accept
  <2>2. Attached' => Attached
    BY <1>0, <2>1 DEF Attached, Answering, IsA, Asked, Holds, Statuses
  <2>3. \A x : Shown(x) => Shown(x)'
    BY <1>0, <2>1 DEF Shown, Contains, Attempt
  <2> QED
    BY <1>0, <2>2, <2>3 DEF TimelineInv
<1>2. ASSUME HandleCommand \/ RefuseList PROVE TimelineInv'
  <2>1. /\ response = None /\ requests # <<>> /\ requests' = Tail(requests)
        /\ Head(requests) = "status" => response' = Status(locked)
        /\ UNCHANGED lines
    BY <1>2 DEF HandleCommand, RefuseList, Compute, Computed
  <2>2. Asked("status") => Head(requests) = "status" \/ Asked("status")'
    BY <2>1, AskedTail DEF Types, TypeOK
  <2>3. Head(requests) = "status" => Answering(Statuses)'
    <3>1. Status(locked) # None
      BY Members, Contents DEF Types, TypeOK
    <3>2. Status(locked)[1] = "status"
      BY Tags
    <3> QED
      BY <2>1, <3>1, <3>2 DEF Answering, IsA, Statuses
  <2>4. Attached' => Attached
    BY <1>0, <2>1, <2>2, <2>3 DEF Attached, Answering, IsA, Holds, Statuses
  <2>5. \A x : Shown(x) => Shown(x)'
    BY <1>0, <2>1 DEF Shown, Contains, Attempt
  <2> QED
    BY <1>0, <2>4, <2>5 DEF TimelineInv
<1>3. ASSUME SendResponse PROVE TimelineInv'
  <2>1. /\ response # None /\ response \in Sent /\ lines \in Seq(Sent)
        /\ lines' = Append(lines, response)
        /\ UNCHANGED requests
    BY <1>3 DEF SendResponse, Types
  <2>2. Holds(lines', Statuses) <=> Holds(lines, Statuses) \/ response[1] \in Statuses
    BY <2>1, HoldsAppend
  <2>3. Holds(lines, Statuses)' <=> Holds(lines', Statuses)
    BY DEF Holds, Statuses
  <2>4. Attached' => Attached
    BY <1>0, <2>1, <2>2, <2>3 DEF Attached, Answering, IsA, Asked, Statuses
  <2>5. \A e : Contains(lines, e) => Contains(lines', e)
    BY <2>1, ContainsAppend
  <2>6. \A x : Shown(x) => Shown(x)'
    BY <1>0, <2>5, ShownStill
  <2> QED
    BY <1>0, <2>4, <2>6 DEF TimelineInv
<1> QED
  BY <1>1, <1>2, <1>3 DEF Connection

\* The handlers of lines that leave the overlay as it is. Only the handler of
\* an attempt takes one off the way, and puts it on the timeline.
LEMMA TimelineHandler ==
  ASSUME Types, TimelineInv, NEW type, Take(type), type # "status",
         link' = "up" => link = "up", Asked("status") => Asked("status")',
         UNCHANGED <<overlay, reattached, unread>>, timeline \subseteq timeline',
         type = "intrusion_attempt" => Head(lines)[2] \in timeline'
  PROVE  TimelineInv'
<1>1. /\ lines # <<>> /\ lines' = Tail(lines) /\ lines \in Seq(Sent)
      /\ Head(lines)[1] = type
      /\ UNCHANGED <<say, response, attempts>>
  BY TakeTypes DEF Types
<1>2. Holds(lines, Statuses) <=> type \in Statuses \/ Holds(lines', Statuses)
  BY <1>1, HoldsTail
<1>3. Holds(lines, Statuses)' <=> Holds(lines', Statuses)
  BY DEF Holds, Statuses
<1>4. Attached' => Attached
  BY <1>1, <1>2, <1>3 DEF Attached, Answering, IsA, Statuses
<1>5. ASSUME NEW x, Shown(x) PROVE Shown(x)'
  <2>1. Contains(lines, Attempt(x)) => Head(lines) = Attempt(x) \/ Contains(lines', Attempt(x))
    BY <1>1, ContainsTail
  <2>2. Head(lines) = Attempt(x) => x \in timeline'
    BY <1>1, Tags
  <2> QED
    BY <1>1, <1>5, <2>1, <2>2, ShownStill
<1> QED
  BY <1>1, <1>4, <1>5 DEF TimelineInv

\* The steps of the UI.
LEMMA TimelineUI ==
  ASSUME Types, TimelineInv, UI
  PROVE  TimelineInv'
<1> USE DEF state, ui, ghosts
<1>1. ASSUME \/ OnLockdownEnter \/ OnLockdownClear \/ OnStatusUnlocked
             \/ RecvEnds \/ Refresh \/ RestartUI
      PROVE  TimelineInv'
  <2>1. ~reattached' \/ ~overlay' \/ link' # "up"
    BY <1>1 DEF OnLockdownEnter, OnLockdownClear, OnStatusUnlocked, HideOverlay,
       RecvEnds, Refresh, RestartUI
  <2> QED
    BY <2>1 DEF TimelineInv, Attached
<1>2. ASSUME OnStatusLocked PROVE TimelineInv'
  <2>1. timeline' = Rehydrated /\ unread' = attempts \ Rehydrated /\ attempts' = attempts
    BY <1>2 DEF OnStatusLocked, ShowFor, Reattach, Take
  <2>2. ASSUME NEW x \in attempts' \ unread' PROVE Shown(x)'
    BY <2>1, <2>2 DEF Shown
  <2> QED
    BY <2>2 DEF TimelineInv, Attached
<1>3. ASSUME OnIntrusionAttempt PROVE TimelineInv'
  <2>1. /\ Take("intrusion_attempt") /\ timeline' = timeline \cup {Head(lines)[2]}
        /\ UNCHANGED <<requests, link, overlay, reattached, unread>>
    BY <1>3 DEF OnIntrusionAttempt, RecordRow
  <2> QED
    BY <2>1, TimelineHandler DEF Asked
<1>4. ASSUME OnWhitelistList \/ OnListRefused PROVE TimelineInv'
  <2>1. PICK type : Take(type) /\ type \notin {"status", "intrusion_attempt"}
    BY <1>4 DEF OnWhitelistList, OnListRefused
  <2>2. UNCHANGED <<requests, link, overlay, timeline, reattached, unread>>
    BY <1>4 DEF OnWhitelistList, OnListRefused
  <2> QED
    BY <2>1, <2>2, TimelineHandler DEF Asked
<1>5. ASSUME OnWhitelistChanged PROVE TimelineInv'
  <2>1. /\ Take("whitelist_changed") /\ SendCommand("list_whitelist")
        /\ UNCHANGED <<overlay, timeline, reattached, unread>>
    BY <1>5 DEF OnWhitelistChanged
  <2>2. (link' = "up" => link = "up") /\ (Asked("status") => Asked("status")')
    BY <2>1, SendTypes DEF Requests
  <2> QED
    BY <2>1, <2>2, TimelineHandler
<1>6. ASSUME ShowWhitelist PROVE TimelineInv'
  <2>1. /\ SendCommand("list_whitelist")
        /\ UNCHANGED <<say, response, lines, attempts, overlay, timeline, reattached, unread>>
    BY <1>6 DEF ShowWhitelist
  <2>2. (link' = "up" => link = "up") /\ (Asked("status") => Asked("status")')
    BY <2>1, SendTypes DEF Requests
  <2>3. Attached' => Attached
    BY <2>1, <2>2 DEF Attached, Answering, IsA, Holds, Statuses
  <2>4. \A x : Shown(x) => Shown(x)'
    BY <2>1 DEF Shown, Contains, Attempt
  <2> QED
    BY <2>1, <2>3, <2>4 DEF TimelineInv
<1> QED
  BY <1>1, <1>2, <1>3, <1>4, <1>5, <1>6 DEF UI

\* Every step keeps the timeline's invariant.
LEMMA NextTimeline == Types /\ TimelineInv /\ [Next]_vars => TimelineInv'
<1> SUFFICES ASSUME Types, TimelineInv, [Next]_vars PROVE TimelineInv'
  OBVIOUS
<1>1. CASE Stop \/ Start
  <2>1. link' # "up"
    BY <1>1 DEF Stop, Start, Types, TypeOK
  <2> QED
    BY <2>1 DEF TimelineInv, Attached
<1>2. CASE UNCHANGED vars
  <2>1. UNCHANGED <<say, requests, response, link, lines, attempts, overlay, timeline,
                    reattached, unread>>
    BY <1>2 DEF vars, state, ui, ghosts
  <2>2. Attached' => Attached
    BY <2>1 DEF Attached, Answering, IsA, Asked, Holds, Statuses
  <2>3. \A x : Shown(x) => Shown(x)'
    BY <2>1 DEF Shown, Contains, Attempt
  <2> QED
    BY <2>1, <2>2, <2>3 DEF TimelineInv
<1> QED
  BY <1>1, <1>2, TimelineThread, TimelineConnection, TimelineUI DEF Next

\* A UI that attaches to a lockdown in progress shows, once nothing is on its
\* way, every attempt logged since the lockdown began, except those that the log
\* already held when the overlay was shown if the UI's user may not read it.
THEOREM TimelineIsComplete == Spec => []ReattachedTimelineComplete
<1>1. Init => TimelineInv
  BY DEF Init, TimelineInv, Attached
<1>2. Types /\ TimelineInv => ReattachedTimelineComplete
  <2> SUFFICES ASSUME Types, TimelineInv, Quiet, overlay, reattached,
                      NEW x \in attempts \ unread
               PROVE  x \in timeline
    BY DEF ReattachedTimelineComplete
  <2>1. Attached
    BY DEF Quiet, Attached, Answering, IsA, Asked, Holds
  <2>2. Shown(x)
    BY <2>1 DEF TimelineInv
  <2>3. ~Contains(lines, Attempt(x))
    BY DEF Quiet, Contains
  <2>4. x \in Attempts
    BY DEF Types, TypeOK
  <2>5. Attempt(x) # None
    BY <2>4, Members, Contents
  <2> QED
    BY <2>2, <2>3, <2>5 DEF Shown, Quiet
<1>3. Types /\ TimelineInv /\ [Next]_vars => (Types /\ TimelineInv)'
  BY NextTypes, NextTimeline
<1>4. Init => Types /\ TimelineInv
  BY <1>1, InitTypes
<1> QED
  BY <1>2, <1>3, <1>4, PTL DEF Spec
=============================================================================
