------------------------------ MODULE Console ------------------------------
(***************************************************************************)
(* What the backend does for its console: PIN set-up and login with a      *)
(* lock-out, tokens, the stream of events, and the way of an event from    *)
(* the collector into it (handleFileEvent): stored, published, examined    *)
(* for a burst.  Requests and collector sessions are goroutines; a step is *)
(* a critical section or a database call.                                  *)
(*                                                                         *)
(* Time is left out: a lock, a token or the minute of a burst may be over  *)
(* at any moment.  A PIN stands for its hash as well; a token is named     *)
(* after the request it was issued to, an event by its number.  REST       *)
(* queries and request parsing are left out.                               *)
(***************************************************************************)
EXTENDS Integers, Sequences, FiniteSets

CONSTANTS
    Requests,       \* HTTP requests that may be under way at once
    Sessions,       \* collector sessions
    Pins, None,
    lockoutLimit,   \* 10 in the code
    Capacity,       \* events a client's channel holds, 100 in the code
    BurstLimit,     \* events in a minute that raise an alert, 100 in the code
    MaxCalls,       \* bound: set-ups and logins
    MaxEvents       \* bound: events of a session

ASSUME ConsoleAssumption ==
    /\ None \notin Pins /\ IsFiniteSet(Requests)
    /\ {lockoutLimit, Capacity, BurstLimit} \subseteq Nat \ {0}
    /\ MaxCalls \in Nat /\ MaxEvents \in Nat

VARIABLES
    pin,            \* row 1 of auth_state
    req,            \* requests: where they are, the PIN they bring, the one they read
    failCount, locked,   \* fields of Auth; lockedUntil has not passed
    tokens,         \* sessions of Auth that have not expired
    clients, chan,  \* SSEPublisher: subscribed requests and their channels
    sess,           \* collector sessions: place, event in hand, clients to send to
    stored,         \* file_events: events of each session
    recent,         \* burstCount: events of the last minute, see below
    alerts,
    calls,
    tries, overlap  \* history: wrong PINs since the last success or end of a
                    \* lock; two set-ups have been between read and store at once

(* For a moment an agent may have two sessions, the old and the new one.   *)
(* In the code they share the burst window of the agent; here each session *)
(* has its own, since no property is about when a burst is found.          *)

auth == <<pin, failCount, locked, tokens, calls, tries, overlap>>
feed == <<sess, stored, recent, alerts>>
stream == <<clients, chan>>
vars == <<auth, req, stream, feed>>

Idle == [pc |-> "idle", pin |-> None, saw |-> None]
Places == {"idle", "hash", "compare", "store", "issue", "subscribe", "stream"}
Events == Sessions \X (1..MaxEvents)

Flags == locked \in BOOLEAN /\ overlap \in BOOLEAN

AuthTypeOK ==
    /\ Flags
    /\ pin \in Pins \cup {None}
    /\ req \in [Requests -> [pc : Places, pin : Pins \cup {None}, saw : Pins \cup {None}]]
    /\ failCount \in Nat
    /\ tokens \subseteq Requests
    /\ calls \in 0..MaxCalls /\ tries \in 0..MaxCalls

SessionRecords ==
    [pc : {"idle", "publish", "send", "engine", "alert"}, ev : 0..MaxEvents,
     left : SUBSET Requests]

FeedTypeOK ==
    /\ clients \subseteq Requests
    /\ chan \in [Requests -> Seq(Events)]
    /\ \A r \in Requests : Len(chan[r]) <= Capacity
    /\ sess \in [Sessions -> SessionRecords]
    /\ stored \in [Sessions -> SUBSET (1..MaxEvents)]
    /\ recent \in [Sessions -> 0..MaxEvents] /\ alerts \in [Sessions -> 0..MaxEvents]

TypeOK == AuthTypeOK /\ FeedTypeOK

Init ==
    /\ pin \in Pins \cup {None} /\ overlap = FALSE
    /\ req = [r \in Requests |-> Idle]
    /\ failCount = 0 /\ locked = FALSE /\ tokens = {}
    /\ clients = {} /\ chan = [r \in Requests |-> <<>>]
    /\ sess = [s \in Sessions |-> [pc |-> "idle", ev |-> 0, left |-> {}]]
    /\ stored = [s \in Sessions |-> {}]
    /\ recent = [s \in Sessions |-> 0] /\ alerts = [s \in Sessions |-> 0]
    /\ calls = 0 /\ tries = 0

Goto(r, pc) == req' = [req EXCEPT ![r].pc = pc]
Answer(r) == req' = [req EXCEPT ![r] = Idle]

-----------------------------------------------------------------------------
(* Set-up. *)

(* Mutant: GetPINHash is not asked for an existing PIN. *)
SetupUnchecked(r, p) ==
    /\ req[r].pc = "idle" /\ calls < MaxCalls /\ calls' = calls + 1
    /\ req' = [req EXCEPT ![r] = [pc |-> "store", pin |-> p, saw |-> None]]
    /\ overlap' = (overlap \/ \E o \in Requests : req[o].pc = "store")
    /\ UNCHANGED <<pin, failCount, locked, tokens, tries, stream, feed>>

(* GetPINHash; a PIN that exists or an error ends the request. *)
SetupRead(r, p) ==
    /\ req[r].pc = "idle" /\ calls < MaxCalls /\ calls' = calls + 1
    /\ pin = None
    /\ req' = [req EXCEPT ![r] = [pc |-> "store", pin |-> p, saw |-> None]]
    /\ overlap' = (overlap \/ \E o \in Requests : req[o].pc = "store")
    /\ UNCHANGED <<pin, failCount, locked, tokens, tries, stream, feed>>

(* SetPINHash, an upsert.  A call that fails may have taken effect. *)
SetPINHash(r) ==
    /\ req[r].pc = "store"
    /\ \/ pin' = req[r].pin /\ Goto(r, "issue")
       \/ pin' \in {pin, req[r].pin} /\ Answer(r)
    /\ UNCHANGED <<failCount, locked, tokens, calls, tries, overlap, stream, feed>>

-----------------------------------------------------------------------------
(* Login. *)

(* A locked console refuses; otherwise the hash is read and compared. *)
Login(r, p) ==
    /\ req[r].pc = "idle" /\ calls < MaxCalls /\ calls' = calls + 1
    /\ ~locked
    /\ req' = [req EXCEPT ![r] = [pc |-> "hash", pin |-> p, saw |-> None]]
    /\ UNCHANGED <<pin, failCount, locked, tokens, tries, overlap, stream, feed>>

(* GetPINHash: an error, or no PIN yet, ends the request. *)
GetPINHash(r) ==
    /\ req[r].pc = "hash"
    /\ \/ pin # None /\ req' = [req EXCEPT ![r].pc = "compare", ![r].saw = pin]
       \/ Answer(r)
    /\ UNCHANGED <<auth, stream, feed>>

(* Mutant: the lock comes with the failure after the limit. *)
recordFailureLate(r) ==
    /\ req[r].pc = "compare" /\ req[r].pin # req[r].saw
    /\ tries' = tries + 1
    /\ IF failCount + 1 > lockoutLimit
       THEN locked' = TRUE /\ failCount' = 0
       ELSE failCount' = failCount + 1 /\ UNCHANGED locked
    /\ Answer(r)
    /\ UNCHANGED <<pin, tokens, calls, overlap, stream, feed>>

recordFailure(r) ==
    /\ req[r].pc = "compare" /\ req[r].pin # req[r].saw
    /\ tries' = tries + 1
    /\ IF failCount + 1 >= lockoutLimit
       THEN locked' = TRUE /\ failCount' = 0
       ELSE failCount' = failCount + 1 /\ UNCHANGED locked
    /\ Answer(r)
    /\ UNCHANGED <<pin, tokens, calls, overlap, stream, feed>>

resetFailures(r) ==
    /\ req[r].pc = "compare" /\ req[r].pin = req[r].saw
    /\ failCount' = 0 /\ locked' = FALSE /\ tries' = 0
    /\ Goto(r, "issue")
    /\ UNCHANGED <<pin, tokens, calls, overlap, stream, feed>>

issue(r) ==
    /\ req[r].pc = "issue"
    /\ tokens' = tokens \cup {r}
    /\ Answer(r)
    /\ UNCHANGED <<pin, failCount, locked, calls, tries, overlap, stream, feed>>

(* lockedUntil passes. *)
LockEnds ==
    /\ locked
    /\ locked' = FALSE /\ tries' = 0
    /\ UNCHANGED <<pin, failCount, tokens, calls, overlap, req, stream, feed>>

(* A token expires; Authorize drops it when it meets it. *)
TokenEnds(r) ==
    /\ r \in tokens
    /\ tokens' = tokens \ {r}
    /\ UNCHANGED <<pin, failCount, locked, calls, tries, overlap, req, stream, feed>>

-----------------------------------------------------------------------------
(* The stream.  Publish holds the read lock, the others the write lock. *)

Publishing == \E s \in Sessions : sess[s].pc = "send"

Authorize(r) ==
    /\ req[r].pc = "idle" /\ r \in tokens
    /\ Goto(r, "subscribe")
    /\ UNCHANGED <<auth, stream, feed>>

Subscribe(r) ==
    /\ req[r].pc = "subscribe" /\ ~Publishing
    /\ clients' = clients \cup {r}
    /\ Goto(r, "stream")
    /\ UNCHANGED <<auth, chan, feed>>

Receive(r) ==
    /\ req[r].pc = "stream" /\ chan[r] # <<>>
    /\ chan' = [chan EXCEPT ![r] = Tail(@)]
    /\ UNCHANGED <<auth, req, clients, feed>>

(* Mutant: the channel is closed without waiting for Publish. *)
UnsubscribeUnlocked(r) ==
    /\ req[r].pc = "stream"
    /\ clients' = clients \ {r} /\ chan' = [chan EXCEPT ![r] = <<>>]
    /\ Answer(r)
    /\ UNCHANGED <<auth, feed>>

(* The client has gone: its channel is taken out and closed. *)
Unsubscribe(r) ==
    /\ req[r].pc = "stream" /\ ~Publishing
    /\ clients' = clients \ {r} /\ chan' = [chan EXCEPT ![r] = <<>>]
    /\ Answer(r)
    /\ UNCHANGED <<auth, feed>>

-----------------------------------------------------------------------------
(* handleFileEvent. *)

(* SaveEvent, one transaction.  An error, after which the event may be     *)
(* stored or not, ends the handling.                                       *)
SaveEvent(s) ==
    LET e == sess[s].ev + 1 IN
    /\ sess[s].pc = "idle" /\ e <= MaxEvents
    /\ \/ /\ stored' = [stored EXCEPT ![s] = @ \cup {e}]
          /\ sess' = [sess EXCEPT ![s].pc = "publish", ![s].ev = e]
       \/ /\ stored' \in {stored, [stored EXCEPT ![s] = @ \cup {e}]}
          /\ sess' = [sess EXCEPT ![s].ev = e]
    /\ UNCHANGED <<auth, req, stream, recent, alerts>>

Publish(s) ==
    /\ sess[s].pc = "publish"
    /\ sess' = [sess EXCEPT ![s].pc = "send", ![s].left = clients]
    /\ UNCHANGED <<auth, req, stream, stored, recent, alerts>>

(* Mutant: the send waits for room in the channel. *)
SendWaits(s, c) ==
    /\ sess[s].pc = "send" /\ c \in sess[s].left
    /\ Len(chan[c]) < Capacity
    /\ chan' = [chan EXCEPT ![c] = Append(@, <<s, sess[s].ev>>)]
    /\ sess' = [sess EXCEPT ![s].left = @ \ {c}]
    /\ UNCHANGED <<auth, req, clients, stored, recent, alerts>>

(* A full channel is passed over. *)
Send(s, c) ==
    /\ sess[s].pc = "send" /\ c \in sess[s].left
    /\ chan' = IF Len(chan[c]) < Capacity
               THEN [chan EXCEPT ![c] = Append(@, <<s, sess[s].ev>>)] ELSE chan
    /\ sess' = [sess EXCEPT ![s].left = @ \ {c}]
    /\ UNCHANGED <<auth, req, clients, stored, recent, alerts>>

Published(s) ==
    /\ sess[s].pc = "send" /\ sess[s].left = {}
    /\ sess' = [sess EXCEPT ![s].pc = "engine"]
    /\ UNCHANGED <<auth, req, stream, stored, recent, alerts>>

(* Process: events older than a minute leave, this one is added. *)
detectBurst(s) ==
    /\ sess[s].pc = "engine"
    /\ \E n \in 0..recent[s] :
          /\ recent' = [recent EXCEPT ![s] = n + 1]
          /\ sess' = [sess EXCEPT ![s].pc = IF n + 1 >= BurstLimit THEN "alert" ELSE "idle"]
    /\ UNCHANGED <<auth, req, stream, stored, alerts>>

(* CreateAlert; an error is logged. *)
CreateAlert(s) ==
    /\ sess[s].pc = "alert"
    /\ \/ alerts' = [alerts EXCEPT ![s] = @ + 1]
       \/ UNCHANGED alerts
    /\ sess' = [sess EXCEPT ![s].pc = "idle"]
    /\ UNCHANGED <<auth, req, stream, stored, recent>>

-----------------------------------------------------------------------------
(* What a session does on its own once an event is stored. *)
Handling(s) ==
    \/ Publish(s) \/ (\E c \in Requests : Send(s, c)) \/ Published(s)
    \/ detectBurst(s) \/ CreateAlert(s)

Next ==
    \/ \E r \in Requests, p \in Pins : SetupRead(r, p) \/ Login(r, p)
    \/ \E r \in Requests :
          \/ SetPINHash(r) \/ GetPINHash(r) \/ recordFailure(r) \/ resetFailures(r)
          \/ issue(r) \/ TokenEnds(r)
          \/ Authorize(r) \/ Subscribe(r) \/ Receive(r) \/ Unsubscribe(r)
    \/ LockEnds
    \/ \E s \in Sessions : SaveEvent(s) \/ Handling(s)

Spec == Init /\ [][Next]_vars

FairSpec == Spec /\ \A s \in Sessions : WF_vars(Handling(s))

-----------------------------------------------------------------------------
(* The lock-out of auth.go: however logins overlap, between two successes  *)
(* or ends of a lock no more wrong PINs are looked at than the limit and   *)
(* those that were past isLocked when the lock came.                       *)
GuessesBounded == tries <= lockoutLimit - 1 + Cardinality(Requests)

(* The PIN that a set-up was told is stored stays: Setup refuses to        *)
(* replace it, unless two set-ups overlapped (both found no PIN).          *)
PinStays == [][pin # None => pin' = pin \/ overlap]_vars

SendsToClients == \A s \in Sessions : sess[s].pc = "send" => sess[s].left \subseteq clients

CarriesStored ==
    \A r \in Requests : \A n \in DOMAIN chan[r] : chan[r][n][2] \in stored[chan[r][n][1]]

InOrder ==
    \A r \in Requests : \A m, n \in DOMAIN chan[r] :
        m < n /\ chan[r][m][1] = chan[r][n][1] => chan[r][m][2] < chan[r][n][2]

(* Publish never sends on a channel that Unsubscribe has closed (a panic), *)
(* and a stream carries events that were stored, those of one session in   *)
(* their order and none twice, however full channels made it skip some.    *)
FeedSound == TypeOK /\ SendsToClients /\ CarriesStored /\ InOrder

(* A client that reads nothing holds up no agent: a stored event has its   *)
(* turn in the burst detection, and the session takes the next one.        *)
SessionsGoOn == \A s \in Sessions : sess[s].pc = "publish" ~> sess[s].pc = "idle"

=============================================================================
