---------------------------- MODULE ConsoleProofs ----------------------------
(***************************************************************************)
(* The lock-out, the PIN and the stream of the console, for any number of  *)
(* requests, sessions and events and any limits.  Logins and the stream    *)
(* share only the requests, so each has an invariant of its own.           *)
(***************************************************************************)
EXTENDS Console, FiniteSetTheorems, TLAPS

(* Logins that are past isLocked and have no result yet. *)
InFlight == {r \in Requests : req[r].pc \in {"hash", "compare"}}

(* While the console is not locked failCount has seen every wrong PIN;     *)
(* once it is, the only wrong PINs to come are those in flight.            *)
GuessInv ==
    /\ failCount < lockoutLimit
    /\ ~locked => tries <= failCount
    /\ locked => tries + Cardinality(InFlight) <= lockoutLimit - 1 + Cardinality(Requests)
    /\ tries + Cardinality(InFlight) <= calls

(* As long as set-ups have not overlapped, the one that is about to store  *)
(* its PIN is alone and there is no PIN yet.                               *)
SetupInv ==
    ~overlap =>
        /\ \A r \in Requests : req[r].pc = "store" => pin = None
        /\ \A r, o \in Requests : req[r].pc = "store" /\ req[o].pc = "store" => r = o

AuthInv == AuthTypeOK /\ GuessInv /\ SetupInv

(* How far the events of a session have come. *)
Progress ==
    \A s \in Sessions :
        /\ sess[s].pc \in {"publish", "send"} => sess[s].ev \in stored[s]
        /\ sess[s].pc \in {"publish", "send", "engine"} =>
               recent[s] < sess[s].ev /\ alerts[s] < sess[s].ev
        /\ sess[s].pc = "alert" => alerts[s] < sess[s].ev
        /\ recent[s] <= sess[s].ev /\ alerts[s] <= sess[s].ev

(* No client has an event that its session has not come to yet, or the one *)
(* that is about to be sent to it.                                         *)
Behind ==
    \A r \in Requests : \A n \in DOMAIN chan[r] :
        LET s == chan[r][n][1] IN
        /\ chan[r][n][2] <= sess[s].ev
        /\ sess[s].pc = "publish" => chan[r][n][2] < sess[s].ev
        /\ sess[s].pc = "send" /\ r \in sess[s].left => chan[r][n][2] < sess[s].ev

FeedInv ==
    FeedTypeOK /\ SendsToClients /\ CarriesStored /\ InOrder /\ Progress /\ Behind

-----------------------------------------------------------------------------
(* The number of logins in flight when one of them begins, ends or goes on.*)
LEMMA InFlightFinite ==
    /\ IsFiniteSet(InFlight) /\ Cardinality(InFlight) \in Nat
    /\ Cardinality(Requests) \in Nat
    /\ Cardinality(InFlight) <= Cardinality(Requests)
<1>1. InFlight \subseteq Requests
  BY DEF InFlight
<1> QED
  BY <1>1, ConsoleAssumption, FS_Subset, FS_CardinalityType

(* A login gets its result.                                                *)
LEMMA OneLess ==
    ASSUME NEW r \in InFlight, InFlight' = InFlight \ {r}
    PROVE  /\ Cardinality(InFlight') = Cardinality(InFlight) - 1
           /\ Cardinality(InFlight') >= 0
<1>1. IsFiniteSet(InFlight') /\ Cardinality(InFlight') = Cardinality(InFlight) - 1
  BY InFlightFinite, FS_RemoveElement
<1> QED
  BY <1>1, FS_CardinalityType

(* A login passes isLocked.                                                *)
LEMMA OneMore ==
    ASSUME NEW r \in Requests, r \notin InFlight, InFlight' = InFlight \cup {r}
    PROVE  Cardinality(InFlight') = Cardinality(InFlight) + 1
BY InFlightFinite, FS_AddElement

-----------------------------------------------------------------------------
(* The flags stay Boolean.                                                 *)
LEMMA FlagsKept == Flags /\ [Next]_vars => Flags'
<1> SUFFICES ASSUME Flags, [Next]_vars PROVE Flags'
  OBVIOUS
<1> USE DEF Flags, auth
<1>1. ASSUME NEW r \in Requests, NEW p \in Pins, SetupRead(r, p) \/ Login(r, p) PROVE Flags'
  BY <1>1, Zenon DEF SetupRead, Login
<1>2. ASSUME NEW r \in Requests, recordFailure(r) \/ resetFailures(r) PROVE Flags'
  BY <1>2 DEF recordFailure, resetFailures
<1>3. ASSUME NEW r \in Requests,
             SetPINHash(r) \/ GetPINHash(r) \/ issue(r) \/ TokenEnds(r)
      PROVE  Flags'
  BY <1>3 DEF SetPINHash, GetPINHash, issue, TokenEnds
<1>4. ASSUME NEW r \in Requests, Authorize(r) \/ Subscribe(r) \/ Receive(r) \/ Unsubscribe(r)
      PROVE  Flags'
  BY <1>4 DEF Authorize, Subscribe, Receive, Unsubscribe
<1>5. CASE LockEnds
  BY <1>5 DEF LockEnds
<1>6. ASSUME NEW s \in Sessions, SaveEvent(s) \/ Handling(s) PROVE Flags'
  BY <1>6 DEF SaveEvent, Handling, Publish, Send, Published, detectBurst, CreateAlert
<1>7. CASE UNCHANGED vars
  BY <1>7 DEF vars
<1> QED
  BY <1>1, <1>2, <1>3, <1>4, <1>5, <1>6, <1>7 DEF Next

(* Set-up and login keep their invariant.                                  *)
LEMMA AuthStep == AuthInv /\ [Next]_vars => AuthInv'
<1> SUFFICES ASSUME AuthInv, [Next]_vars PROVE AuthInv'
  OBVIOUS
<1>0. Flags'
  BY FlagsKept DEF AuthInv, AuthTypeOK
<1> USE <1>0, ConsoleAssumption, InFlightFinite
    DEF AuthInv, AuthTypeOK, GuessInv, SetupInv, Places, Goto, Answer, Idle
<1>1. ASSUME NEW r \in Requests, NEW p \in Pins, SetupRead(r, p) PROVE AuthInv'
  <2>1. InFlight' = InFlight
    BY <1>1 DEF SetupRead, InFlight
  <2>2. overlap' <=> overlap \/ \E o \in Requests : req[o].pc = "store"
    BY <1>1, Zenon DEF SetupRead
  <2>3. SetupInv'
    BY <1>1, <2>2 DEF SetupRead
  <2> QED
    BY <1>1, <2>1, <2>2, <2>3 DEF SetupRead
<1>2. ASSUME NEW r \in Requests, NEW p \in Pins, Login(r, p) PROVE AuthInv'
  <2>1. r \notin InFlight /\ InFlight' = InFlight \cup {r}
    BY <1>2 DEF Login, InFlight
  <2>2. Cardinality(InFlight') = Cardinality(InFlight) + 1
    BY <2>1, OneMore
  <2> QED
    BY <1>2, <2>2 DEF Login
<1>3. ASSUME NEW r \in Requests, SetPINHash(r) PROVE AuthInv'
  <2>1. InFlight' = InFlight
    BY <1>3 DEF SetPINHash, InFlight
  <2> QED
    BY <1>3, <2>1 DEF SetPINHash
<1>4. ASSUME NEW r \in Requests, GetPINHash(r) PROVE AuthInv'
  <2>1. CASE req' = [req EXCEPT ![r].pc = "compare", ![r].saw = pin]
    <3>1. InFlight' = InFlight
      BY <1>4, <2>1 DEF GetPINHash, InFlight
    <3> QED
      BY <1>4, <2>1, <3>1 DEF GetPINHash, auth
  <2>2. CASE Answer(r)
    <3>1. r \in InFlight /\ InFlight' = InFlight \ {r}
      BY <1>4, <2>2 DEF GetPINHash, InFlight
    <3>2. Cardinality(InFlight') = Cardinality(InFlight) - 1
      BY <3>1, OneLess
    <3> QED
      BY <1>4, <2>2, <3>2 DEF GetPINHash, auth
  <2> QED
    BY <1>4, <2>1, <2>2 DEF GetPINHash
<1>5. ASSUME NEW r \in Requests, recordFailure(r) PROVE AuthInv'
  <2>1. r \in InFlight /\ InFlight' = InFlight \ {r}
    BY <1>5 DEF recordFailure, InFlight
  <2>2. Cardinality(InFlight') = Cardinality(InFlight) - 1 /\ Cardinality(InFlight') >= 0
    BY <2>1, OneLess
  <2> QED
    <3>1. CASE failCount + 1 >= lockoutLimit
      BY <1>5, <2>2, <3>1 DEF recordFailure
    <3>2. CASE failCount + 1 < lockoutLimit
      BY <1>5, <2>2, <3>2 DEF recordFailure
    <3> QED
      BY <3>1, <3>2
<1>6. ASSUME NEW r \in Requests, resetFailures(r) PROVE AuthInv'
  <2>1. r \in InFlight /\ InFlight' = InFlight \ {r}
    BY <1>6 DEF resetFailures, InFlight
  <2>2. Cardinality(InFlight') = Cardinality(InFlight) - 1
    BY <2>1, OneLess
  <2> QED
    BY <1>6, <2>2 DEF resetFailures
<1>7. ASSUME NEW r \in Requests, issue(r) PROVE AuthInv'
  <2>1. InFlight' = InFlight
    BY <1>7 DEF issue, InFlight
  <2> QED
    BY <1>7, <2>1 DEF issue
<1>8. ASSUME NEW r \in Requests, TokenEnds(r) PROVE AuthInv'
  <2>1. InFlight' = InFlight
    BY <1>8 DEF TokenEnds, InFlight
  <2> QED
    BY <1>8, <2>1 DEF TokenEnds
<1>9. CASE LockEnds
  <2>1. InFlight' = InFlight
    BY <1>9 DEF LockEnds, InFlight
  <2> QED
    BY <1>9, <2>1 DEF LockEnds
<1>10. ASSUME NEW r \in Requests, Authorize(r) \/ Subscribe(r) \/ Receive(r) \/ Unsubscribe(r)
       PROVE  AuthInv'
  <2>1. InFlight' = InFlight
    BY <1>10 DEF Authorize, Subscribe, Receive, Unsubscribe, InFlight
  <2> QED
    BY <1>10, <2>1 DEF Authorize, Subscribe, Receive, Unsubscribe, auth
<1>11. CASE UNCHANGED <<auth, req>>
  <2>1. InFlight' = InFlight
    BY <1>11 DEF InFlight
  <2> QED
    BY <1>11, <2>1 DEF auth
<1>12. ASSUME NEW s \in Sessions, SaveEvent(s) \/ Handling(s) PROVE UNCHANGED <<auth, req>>
  BY <1>12 DEF SaveEvent, Handling, Publish, Send, Published, detectBurst, CreateAlert
<1>13. UNCHANGED vars => UNCHANGED <<auth, req>>
  BY DEF vars
<1> QED
  BY <1>1, <1>2, <1>3, <1>4, <1>5, <1>6, <1>7, <1>8, <1>9, <1>10, <1>11, <1>12, <1>13
     DEF Next

-----------------------------------------------------------------------------
(* What a stream holds are events of sessions.                             *)
LEMMA StreamHoldsEvents ==
    ASSUME FeedTypeOK, NEW r \in Requests
    PROVE  /\ chan[r] \in Seq(Events) /\ Len(chan[r]) \in Nat
           /\ DOMAIN chan[r] = 1..Len(chan[r])
           /\ \A n \in DOMAIN chan[r] :
                 /\ chan[r][n][1] \in Sessions
                 /\ chan[r][n][2] \in 1..MaxEvents
<1>1. chan[r] \in Seq(Events)
  BY DEF FeedTypeOK
<1>2. \A n \in DOMAIN chan[r] : chan[r][n] \in Sessions \X (1..MaxEvents)
  BY <1>1 DEF Events
<1> QED
  BY <1>1, <1>2

(* One session moves and the streams stay: a session that turns to         *)
(* "publish" has a new event, and one that turns to "send" takes the       *)
(* clients of this moment.                                                 *)
LEMMA SessionMoves ==
    ASSUME FeedInv, NEW s \in Sessions, UNCHANGED stream,
           \A t \in Sessions : stored[t] \subseteq stored'[t],
           \A t \in Sessions \ {s} : sess'[t] = sess[t],
           sess'[s].ev \in Nat, sess'[s].ev >= sess[s].ev,
           sess'[s].pc = "publish" => sess'[s].ev > sess[s].ev,
           sess'[s].pc = "send" =>
               sess[s].pc = "publish" /\ sess'[s].ev = sess[s].ev /\ sess'[s].left = clients
    PROVE  SendsToClients' /\ CarriesStored' /\ InOrder' /\ Behind'
<1>1. \A r \in Requests : \A n \in DOMAIN chan[r] :
          chan[r][n][1] \in Sessions /\ chan[r][n][2] \in 1..MaxEvents
  BY StreamHoldsEvents DEF FeedInv
<1>2. sess[s].ev \in Nat
  BY DEF FeedInv, FeedTypeOK, SessionRecords
<1>3. SendsToClients'
  BY DEF FeedInv, SendsToClients, stream
<1>4. CarriesStored'
  BY <1>1 DEF FeedInv, CarriesStored, stream
<1>5. InOrder'
  BY DEF FeedInv, InOrder, stream
<1>6. Behind'
  <2> SUFFICES ASSUME NEW r \in Requests, NEW n \in DOMAIN chan[r], NEW t, t = chan[r][n][1]
               PROVE  /\ chan[r][n][2] <= sess'[t].ev
                      /\ sess'[t].pc = "publish" => chan[r][n][2] < sess'[t].ev
                      /\ sess'[t].pc = "send" /\ r \in sess'[t].left =>
                             chan[r][n][2] < sess'[t].ev
    BY DEF Behind, stream
  <2>1. /\ chan[r][n][2] <= sess[t].ev
        /\ sess[t].pc = "publish" => chan[r][n][2] < sess[t].ev
        /\ sess[t].pc = "send" /\ r \in sess[t].left => chan[r][n][2] < sess[t].ev
    BY DEF FeedInv, Behind
  <2>2. CASE t = s
    BY <1>1, <1>2, <2>1, <2>2
  <2>3. CASE t # s
    BY <1>1, <2>1, <2>3
  <2> QED
    BY <2>2, <2>3
<1> QED
  BY <1>3, <1>4, <1>5, <1>6

(* A stream loses events at its front or all of them.                      *)
LEMMA StreamShrinks ==
    ASSUME FeedInv, UNCHANGED feed, NEW r \in Requests, NEW q \in Seq(Events),
           q = <<>> \/ (chan[r] # <<>> /\ q = Tail(chan[r])),
           chan' = [chan EXCEPT ![r] = q]
    PROVE  /\ chan' \in [Requests -> Seq(Events)]
           /\ \A o \in Requests : Len(chan'[o]) <= Capacity
           /\ CarriesStored' /\ InOrder' /\ Behind'
<1>1. chan[r] \in Seq(Events) /\ Len(chan[r]) <= Capacity
  BY DEF FeedInv, FeedTypeOK
<1>2. \E k \in Nat : \A n \in DOMAIN q : n + k \in DOMAIN chan[r] /\ q[n] = chan[r][n + k]
  <2>1. CASE q = <<>>
    BY <2>1
  <2>2. CASE chan[r] # <<>> /\ q = Tail(chan[r])
    <3>1. \A n \in DOMAIN q : n + 1 \in DOMAIN chan[r] /\ q[n] = chan[r][n + 1]
      BY <1>1, <2>2
    <3> QED
      BY <3>1
  <2> QED
    BY <2>1, <2>2
<1>3. PICK k \in Nat : \A n \in DOMAIN q : n + k \in DOMAIN chan[r] /\ q[n] = chan[r][n + k]
  BY <1>2
<1>4. /\ chan'[r] = q
      /\ \A o \in Requests : o # r => chan'[o] = chan[o]
  BY DEF FeedInv, FeedTypeOK
<1>5. /\ chan' \in [Requests -> Seq(Events)]
      /\ \A o \in Requests : Len(chan'[o]) <= Capacity
  BY <1>1, ConsoleAssumption DEF FeedInv, FeedTypeOK
<1>6. CarriesStored'
  BY <1>3, <1>4 DEF FeedInv, CarriesStored, feed
<1>7. InOrder'
  <2> SUFFICES ASSUME NEW o \in Requests, NEW m \in DOMAIN chan'[o], NEW n \in DOMAIN chan'[o],
                      m < n, chan'[o][m][1] = chan'[o][n][1]
               PROVE  chan'[o][m][2] < chan'[o][n][2]
    BY DEF InOrder
  <2>1. CASE o = r
    <3>1. m \in DOMAIN q /\ n \in DOMAIN q /\ m + k < n + k
      BY <1>4, <2>1
    <3> QED
      <4>1. /\ m + k \in DOMAIN chan[r] /\ chan'[o][m] = chan[r][m + k]
            /\ n + k \in DOMAIN chan[r] /\ chan'[o][n] = chan[r][n + k]
        BY <1>3, <1>4, <2>1, <3>1
      <4> QED
        BY <3>1, <4>1 DEF FeedInv, InOrder
  <2>2. CASE o # r
    BY <1>4, <2>2 DEF FeedInv, InOrder
  <2> QED
    BY <2>1, <2>2
<1>8. Behind'
  BY <1>3, <1>4 DEF FeedInv, Behind, feed
<1> QED
  BY <1>5, <1>6, <1>7, <1>8

(* Publish sends the event of a session to one of its clients, or passes   *)
(* over a full channel.                                                    *)
LEMMA SendKeeps ==
    ASSUME FeedInv, NEW s \in Sessions, NEW c \in Requests, Send(s, c)
    PROVE  FeedInv'
<1> DEFINE e == <<s, sess[s].ev>>
<1>1. /\ chan[c] \in Seq(Events) /\ Len(chan[c]) \in Nat
      /\ DOMAIN chan[c] = 1..Len(chan[c])
      /\ e \in Events /\ e[1] = s /\ e[2] = sess[s].ev /\ e[2] \in stored[s]
  <2>1. chan[c] \in Seq(Events)
    BY DEF FeedInv, FeedTypeOK
  <2>2. sess[s].ev \in stored[s] /\ stored[s] \subseteq 1..MaxEvents
    BY DEF FeedInv, FeedTypeOK, Progress, Send
  <2> QED
    BY <2>1, <2>2 DEF Events
<1>2. /\ UNCHANGED <<clients, stored, recent, alerts>>
      /\ sess[s].pc = "send" /\ c \in sess[s].left
      /\ sess' = [sess EXCEPT ![s].left = @ \ {c}]
  BY DEF Send
<1>3. /\ \A t \in Sessions : sess'[t].ev = sess[t].ev /\ sess'[t].pc = sess[t].pc
      /\ \A t \in Sessions : sess'[t].left \subseteq sess[t].left
      /\ c \notin sess'[s].left
      /\ sess' \in [Sessions -> SessionRecords]
  BY <1>2 DEF FeedInv, FeedTypeOK, SessionRecords
<1>4. \A r \in Requests : r # c => chan'[r] = chan[r]
  BY DEF Send, FeedInv, FeedTypeOK
<1>5. \/ chan' = chan
      \/ Len(chan[c]) < Capacity /\ chan' = [chan EXCEPT ![c] = Append(@, e)]
  BY DEF Send
<1>6. /\ chan' \in [Requests -> Seq(Events)]
      /\ \A r \in Requests : Len(chan'[r]) <= Capacity
  <2>1. CASE chan' = chan
    BY <2>1 DEF FeedInv, FeedTypeOK
  <2>2. CASE Len(chan[c]) < Capacity /\ chan' = [chan EXCEPT ![c] = Append(@, e)]
    <3>1. Append(chan[c], e) \in Seq(Events) /\ Len(Append(chan[c], e)) = Len(chan[c]) + 1
      BY <1>1
    <3> QED
      BY <1>1, <2>2, <3>1, ConsoleAssumption DEF FeedInv, FeedTypeOK
  <2> QED
    BY <1>5, <2>1, <2>2
<1>7. \A n \in DOMAIN chan'[c] :
          \/ n \in DOMAIN chan[c] /\ chan'[c][n] = chan[c][n]
          \/ n = Len(chan[c]) + 1 /\ chan'[c][n] = e
  <2>1. CASE chan' = chan
    BY <2>1
  <2>2. CASE chan' = [chan EXCEPT ![c] = Append(@, e)]
    <3>1. chan'[c] = Append(chan[c], e)
      BY <2>2 DEF FeedInv, FeedTypeOK
    <3> QED
      BY <1>1, <3>1
  <2> QED
    BY <1>5, <2>1, <2>2
<1>8. FeedTypeOK'
  BY <1>2, <1>3, <1>6 DEF FeedInv, FeedTypeOK
<1>9. SendsToClients'
  BY <1>2, <1>3 DEF FeedInv, SendsToClients
<1>10. CarriesStored'
  BY <1>1, <1>2, <1>4, <1>7 DEF FeedInv, CarriesStored
<1>11. \A n \in DOMAIN chan[c] : chan[c][n][1] = s => chan[c][n][2] < sess[s].ev
  BY <1>2 DEF FeedInv, Behind
<1>12. InOrder'
  <2> SUFFICES ASSUME NEW m \in DOMAIN chan'[c], NEW n \in DOMAIN chan'[c], m < n,
                      chan'[c][m][1] = chan'[c][n][1]
               PROVE  chan'[c][m][2] < chan'[c][n][2]
    BY <1>4 DEF FeedInv, InOrder
  <2>1. CASE n \in DOMAIN chan[c] /\ chan'[c][n] = chan[c][n]
    BY <1>1, <1>7, <2>1 DEF FeedInv, InOrder
  <2>2. CASE n = Len(chan[c]) + 1 /\ chan'[c][n] = e
    <3>1. m \in DOMAIN chan[c] /\ chan'[c][m] = chan[c][m]
      BY <1>1, <1>7, <2>2
    <3> QED
      BY <1>1, <1>11, <2>2, <3>1
  <2> QED
    BY <1>7, <2>1, <2>2
<1>13. Progress'
  BY <1>2, <1>3 DEF FeedInv, Progress
<1>14. Behind'
  <2>1. ASSUME NEW r \in Requests, NEW n \in DOMAIN chan[r], NEW t \in Sessions,
               t = chan[r][n][1]
        PROVE  /\ chan[r][n][2] <= sess'[t].ev
               /\ sess'[t].pc = "publish" => chan[r][n][2] < sess'[t].ev
               /\ sess'[t].pc = "send" /\ r \in sess'[t].left => chan[r][n][2] < sess'[t].ev
    BY <1>3, <2>1 DEF FeedInv, Behind
  <2>2. \A r \in Requests : \A n \in DOMAIN chan[r] : chan[r][n][1] \in Sessions
    BY StreamHoldsEvents DEF FeedInv
  <2>3. /\ e[2] <= sess'[s].ev /\ sess'[s].pc = "send" /\ c \notin sess'[s].left
    BY <1>1, <1>2, <1>3 DEF FeedInv, FeedTypeOK
  <2> SUFFICES ASSUME NEW r \in Requests, NEW n \in DOMAIN chan'[r], NEW t,
                      t = chan'[r][n][1]
               PROVE  /\ chan'[r][n][2] <= sess'[t].ev
                      /\ sess'[t].pc = "publish" => chan'[r][n][2] < sess'[t].ev
                      /\ sess'[t].pc = "send" /\ r \in sess'[t].left =>
                             chan'[r][n][2] < sess'[t].ev
    BY DEF Behind
  <2>4. CASE n \in DOMAIN chan[r] /\ chan'[r][n] = chan[r][n]
    BY <2>1, <2>2, <2>4
  <2>5. CASE r = c /\ chan'[r][n] = e
    BY <1>1, <2>3, <2>5
  <2> QED
    BY <1>4, <1>7, <2>4, <2>5
<1> QED
  BY <1>8, <1>9, <1>10, <1>12, <1>13, <1>14 DEF FeedInv

(* The stream and the handling of events keep their invariant.             *)
LEMMA FeedStep == FeedInv /\ [Next]_vars => FeedInv'
<1> SUFFICES ASSUME FeedInv, [Next]_vars PROVE FeedInv'
  OBVIOUS
<1> USE ConsoleAssumption
<1>1. ASSUME NEW r \in Requests, Subscribe(r) PROVE FeedInv'
  BY <1>1 DEF Subscribe, Publishing, feed, FeedInv, FeedTypeOK, SendsToClients,
              CarriesStored, InOrder, Progress, Behind
<1>2. ASSUME NEW r \in Requests, Receive(r) PROVE FeedInv'
  <2>1. Tail(chan[r]) \in Seq(Events)
    BY <1>2 DEF Receive, FeedInv, FeedTypeOK
  <2>2. CarriesStored' /\ InOrder' /\ Behind' /\ FeedTypeOK'
    BY <1>2, <2>1, StreamShrinks DEF Receive, feed, FeedInv, FeedTypeOK
  <2>3. SendsToClients' /\ Progress'
    BY <1>2 DEF Receive, feed, FeedInv, SendsToClients, Progress
  <2> QED
    BY <2>2, <2>3 DEF FeedInv
<1>3. ASSUME NEW r \in Requests, Unsubscribe(r) PROVE FeedInv'
  <2>1. <<>> \in Seq(Events)
    OBVIOUS
  <2>2. CarriesStored' /\ InOrder' /\ Behind' /\ FeedTypeOK'
    BY <1>3, <2>1, StreamShrinks DEF Unsubscribe, feed, FeedInv, FeedTypeOK
  <2>3. SendsToClients' /\ Progress'
    BY <1>3 DEF Unsubscribe, Publishing, feed, FeedInv, SendsToClients, Progress
  <2> QED
    BY <2>2, <2>3 DEF FeedInv
<1>4. ASSUME NEW s \in Sessions, SaveEvent(s) PROVE FeedInv'
  <2> DEFINE e == sess[s].ev + 1
  <2>1. e \in 1..MaxEvents /\ sess[s].ev \in Nat /\ sess[s].pc = "idle"
    BY <1>4 DEF SaveEvent, FeedInv, FeedTypeOK, SessionRecords
  <2>2. \/ /\ stored' = [stored EXCEPT ![s] = @ \cup {e}]
           /\ sess' = [sess EXCEPT ![s].pc = "publish", ![s].ev = e]
        \/ /\ \/ stored' = stored
              \/ stored' = [stored EXCEPT ![s] = @ \cup {e}]
           /\ sess' = [sess EXCEPT ![s].ev = e]
    BY <1>4, Zenon DEF SaveEvent
  <2>3. /\ stored' \in [Sessions -> SUBSET (1..MaxEvents)]
        /\ \A t \in Sessions : stored[t] \subseteq stored'[t]
    <3>1. CASE stored' = stored
      BY <3>1 DEF FeedInv, FeedTypeOK
    <3>2. CASE stored' = [stored EXCEPT ![s] = @ \cup {e}]
      BY <2>1, <3>2 DEF FeedInv, FeedTypeOK
    <3> QED
      BY <2>2, <3>1, <3>2
  <2>4. /\ \A t \in Sessions \ {s} : sess'[t] = sess[t]
        /\ sess'[s].ev = e
        /\ sess'[s].pc = "idle" \/ (sess'[s].pc = "publish" /\ e \in stored'[s])
    BY <2>1, <2>2 DEF FeedInv, FeedTypeOK, SessionRecords
  <2>5. sess' \in [Sessions -> SessionRecords]
    <3>0. e \in 0..MaxEvents
      BY <2>1
    <3> HIDE DEF e
    <3>1. CASE sess' = [sess EXCEPT ![s].pc = "publish", ![s].ev = e]
      BY <3>0, <3>1 DEF FeedInv, FeedTypeOK, SessionRecords
    <3>2. CASE sess' = [sess EXCEPT ![s].ev = e]
      BY <3>0, <3>2 DEF FeedInv, FeedTypeOK, SessionRecords
    <3> QED
      BY <2>2, <3>1, <3>2
  <2>6. SendsToClients' /\ CarriesStored' /\ InOrder' /\ Behind'
    BY <1>4, <2>1, <2>3, <2>4, SessionMoves DEF SaveEvent
  <2>7. FeedTypeOK'
    BY <1>4, <2>3, <2>5 DEF SaveEvent, stream, FeedInv, FeedTypeOK
  <2>8. Progress'
    <3> SUFFICES ASSUME NEW t \in Sessions
                 PROVE  /\ sess'[t].pc \in {"publish", "send"} => sess'[t].ev \in stored'[t]
                        /\ sess'[t].pc \in {"publish", "send", "engine"} =>
                               recent[t] < sess'[t].ev /\ alerts[t] < sess'[t].ev
                        /\ sess'[t].pc = "alert" => alerts[t] < sess'[t].ev
                        /\ recent[t] <= sess'[t].ev /\ alerts[t] <= sess'[t].ev
      BY <1>4 DEF SaveEvent, Progress
    <3>1. recent[t] \in Nat /\ alerts[t] \in Nat
      BY DEF FeedInv, FeedTypeOK
    <3>2. CASE t = s
      BY <2>1, <2>4, <3>1, <3>2 DEF FeedInv, Progress
    <3>3. CASE t # s
      BY <2>3, <2>4, <3>1, <3>3 DEF FeedInv, Progress
    <3> QED
      BY <3>2, <3>3
  <2> QED
    BY <2>6, <2>7, <2>8 DEF FeedInv
<1>5. ASSUME NEW s \in Sessions, Publish(s) \/ Published(s) PROVE FeedInv'
  <2>1. sess' \in [Sessions -> SessionRecords]
    <3>1. CASE Publish(s)
      BY <3>1 DEF Publish, FeedInv, FeedTypeOK, SessionRecords
    <3>2. CASE Published(s)
      BY <3>2 DEF Published, FeedInv, FeedTypeOK, SessionRecords
    <3> QED
      BY <1>5, <3>1, <3>2
  <2>2. /\ \A t \in Sessions \ {s} : sess'[t] = sess[t]
        /\ sess'[s].ev = sess[s].ev
    BY <1>5 DEF Publish, Published, FeedInv, FeedTypeOK, SessionRecords
  <2>3. \/ sess[s].pc = "publish" /\ sess'[s].pc = "send" /\ sess'[s].left = clients
        \/ sess[s].pc = "send" /\ sess'[s].pc = "engine"
    BY <1>5 DEF Publish, Published, FeedInv, FeedTypeOK, SessionRecords
  <2>4. sess[s].ev \in Nat /\ UNCHANGED <<stream, stored, recent, alerts>>
    BY <1>5 DEF Publish, Published, FeedInv, FeedTypeOK, SessionRecords
  <2>5. SendsToClients' /\ CarriesStored' /\ InOrder' /\ Behind'
    BY <2>2, <2>3, <2>4, SessionMoves
  <2>6. FeedTypeOK' /\ Progress'
    BY <2>1, <2>2, <2>3, <2>4 DEF stream, FeedInv, FeedTypeOK, Progress
  <2> QED
    BY <2>5, <2>6 DEF FeedInv
<1>6. ASSUME NEW s \in Sessions, detectBurst(s) PROVE FeedInv'
  <2>1. PICK n \in 0..recent[s] :
            /\ recent' = [recent EXCEPT ![s] = n + 1]
            /\ sess' = [sess EXCEPT ![s].pc = IF n + 1 >= BurstLimit THEN "alert" ELSE "idle"]
    BY <1>6 DEF detectBurst
  <2>2. PICK next \in {"alert", "idle"} : sess' = [sess EXCEPT ![s].pc = next]
    BY <2>1
  <2>3. sess' \in [Sessions -> SessionRecords]
    BY <2>2 DEF FeedInv, FeedTypeOK, SessionRecords
  <2>4. /\ \A t \in Sessions \ {s} : sess'[t] = sess[t]
        /\ sess'[s].ev = sess[s].ev /\ sess[s].pc = "engine" /\ sess'[s].pc = next
    BY <1>6, <2>2 DEF detectBurst, FeedInv, FeedTypeOK, SessionRecords
  <2>5. sess[s].ev \in 0..MaxEvents /\ UNCHANGED <<stream, stored, alerts>>
    BY <1>6 DEF detectBurst, FeedInv, FeedTypeOK, SessionRecords
  <2>6. n + 1 <= sess[s].ev /\ n + 1 \in 0..MaxEvents
    BY <2>1, <2>4, <2>5 DEF FeedInv, FeedTypeOK, Progress
  <2>7. SendsToClients' /\ CarriesStored' /\ InOrder' /\ Behind'
    BY <2>4, <2>5, SessionMoves
  <2>8. FeedTypeOK' /\ Progress'
    BY <2>1, <2>3, <2>4, <2>5, <2>6 DEF stream, FeedInv, FeedTypeOK, Progress
  <2> QED
    BY <2>7, <2>8 DEF FeedInv
<1>7. ASSUME NEW s \in Sessions, CreateAlert(s) PROVE FeedInv'
  <2>1. /\ sess' \in [Sessions -> SessionRecords]
        /\ \A t \in Sessions \ {s} : sess'[t] = sess[t]
        /\ sess'[s].ev = sess[s].ev /\ sess[s].pc = "alert" /\ sess'[s].pc = "idle"
    BY <1>7 DEF CreateAlert, FeedInv, FeedTypeOK, SessionRecords
  <2>2. sess[s].ev \in 0..MaxEvents /\ UNCHANGED <<stream, stored, recent>>
    BY <1>7 DEF CreateAlert, FeedInv, FeedTypeOK, SessionRecords
  <2>3. alerts[s] \in 0..MaxEvents /\ alerts[s] < sess[s].ev
    BY <2>1 DEF FeedInv, FeedTypeOK, Progress
  <2>4. /\ alerts' \in [Sessions -> 0..MaxEvents]
        /\ alerts'[s] <= sess[s].ev
        /\ \A t \in Sessions \ {s} : alerts'[t] = alerts[t]
    <3>1. CASE alerts' = [alerts EXCEPT ![s] = @ + 1]
      BY <2>2, <2>3, <3>1 DEF FeedInv, FeedTypeOK
    <3>2. CASE UNCHANGED alerts
      BY <2>2, <2>3, <3>2 DEF FeedInv, FeedTypeOK
    <3> QED
      BY <1>7, <3>1, <3>2 DEF CreateAlert
  <2>5. SendsToClients' /\ CarriesStored' /\ InOrder' /\ Behind'
    BY <2>1, <2>2, SessionMoves
  <2>6. FeedTypeOK' /\ Progress'
    BY <2>1, <2>2, <2>4 DEF stream, FeedInv, FeedTypeOK, Progress
  <2> QED
    BY <2>5, <2>6 DEF FeedInv
<1>8. CASE UNCHANGED <<stream, feed>>
  BY <1>8 DEF stream, feed, FeedInv, FeedTypeOK, SendsToClients, CarriesStored, InOrder,
              Progress, Behind
<1>9. ASSUME NEW r \in Requests,
             \/ \E p \in Pins : SetupRead(r, p) \/ Login(r, p)
             \/ SetPINHash(r) \/ GetPINHash(r) \/ recordFailure(r) \/ resetFailures(r)
             \/ issue(r) \/ TokenEnds(r) \/ Authorize(r)
       PROVE  UNCHANGED <<stream, feed>>
  BY <1>9 DEF SetupRead, Login, SetPINHash, GetPINHash, recordFailure, resetFailures,
              issue, TokenEnds, Authorize
<1>10. LockEnds \/ UNCHANGED vars => UNCHANGED <<stream, feed>>
  BY DEF LockEnds, vars
<1> QED
  BY <1>1, <1>2, <1>3, <1>4, <1>5, <1>6, <1>7, <1>8, <1>9, <1>10, SendKeeps DEF Next, Handling

-----------------------------------------------------------------------------
IndInv == AuthInv /\ FeedInv

(* Both invariants hold in every state.                                    *)
THEOREM Invariance == Spec => []IndInv
<1>1. Init => AuthInv
  <2> SUFFICES ASSUME Init PROVE AuthInv
    OBVIOUS
  <2>1. Cardinality(InFlight) = 0
    <3>1. InFlight = {}
      BY DEF Init, InFlight, Idle
    <3> QED
      BY <3>1, FS_EmptySet
  <2>2. Flags
    BY DEF Init, Flags
  <2> QED
    BY <2>1, <2>2, ConsoleAssumption, InFlightFinite
       DEF Init, AuthInv, AuthTypeOK, GuessInv, SetupInv, Idle, Places
<1>2. Init => FeedInv
  BY ConsoleAssumption
     DEF Init, FeedInv, FeedTypeOK, SessionRecords, SendsToClients, CarriesStored, InOrder, Progress, Behind
<1> QED
  BY <1>1, <1>2, AuthStep, FeedStep, PTL DEF Spec, IndInv

(* However logins overlap, no more wrong PINs are looked at than the limit *)
(* and those in flight when the lock came (auth.go, recordFailure).        *)
THEOREM LockoutHolds == Spec => []GuessesBounded
<1>1. IndInv => GuessesBounded
  BY ConsoleAssumption, InFlightFinite
     DEF IndInv, AuthInv, AuthTypeOK, Flags, GuessInv, GuessesBounded
<1> QED
  BY Invariance, <1>1, PTL

(* The stream of every client: no send on a closed channel, stored events  *)
(* only, those of one session in order and none twice (sse.go, Publish).   *)
THEOREM StreamIsSound == Spec => []FeedSound
<1>1. IndInv => FeedSound
  BY DEF IndInv, AuthInv, FeedInv, FeedSound, TypeOK
<1> QED
  BY Invariance, <1>1, PTL

(* Setup never replaces a PIN unless two set-ups overlapped.               *)
THEOREM PinIsKept == Spec => PinStays
<1>1. ASSUME AuthInv, [Next]_vars, pin # None, pin' # pin PROVE overlap
  <2>1. PICK r \in Requests : SetPINHash(r)
    BY <1>1 DEF Next, vars, auth, SetupRead, Login, GetPINHash, recordFailure, resetFailures,
       issue, TokenEnds, Authorize, Subscribe, Receive, Unsubscribe, LockEnds, SaveEvent,
       Handling, Publish, Send, Published, detectBurst, CreateAlert
  <2> QED
    BY <1>1, <2>1 DEF AuthInv, SetupInv, SetPINHash
<1>2. IndInv /\ [Next]_vars => [pin # None => pin' = pin \/ overlap]_vars
  BY <1>1 DEF IndInv
<1> QED
  BY Invariance, <1>2, PTL DEF Spec, PinStays

=============================================================================
