----------------------------- MODULE AgentSession -----------------------------
(***************************************************************************)
(* The collector's sessions of one agent (Backend/internal/collector/      *)
(* agent_session.go, tcp_server.go) and the row they keep in the agents    *)
(* table (store/agent_store.go).  Each accepted connection runs in its own *)
(* goroutine; the goroutines meet in the sync.Map "sessions" and in the    *)
(* database.  A goroutine's step is one operation on one of the two: the   *)
(* operations of a handler interleave with those of other sessions.        *)
(*                                                                         *)
(* Nothing is assumed of what a peer sends, nor when: frames may wait in   *)
(* the record that was read last, or in the socket, and are handled even   *)
(* after the connection was closed.                                        *)
(***************************************************************************)
EXTENDS Integers

CONSTANTS
    Sessions,      \* connections, each used once
    NoSession,
    MaxRest,       \* bounds of the model: frames read after the close,
    MaxDbErrors,   \* failed statements,
    MaxAdmin       \* operator requests

ASSUME SessionAssumption ==
    /\ NoSession \notin Sessions
    /\ MaxRest \in Nat /\ MaxDbErrors \in Nat /\ MaxAdmin \in Nat

VARIABLES
    conn,      \* conn[s]: the TLS connection of session s
    cert,      \* cert[s]: its certificate is the agent's bound one ("bound"),
               \* revoked or another one ("other"), or names another agent ("name")
    pc,        \* pc[s]: where the goroutine of s is
    rest,      \* rest[s]: frames handled since its connection was closed
    AgentID,   \* AgentID[s]: the session has an agent id
    acked,     \* acked[s]: the agent has the REGISTER ACK
    bound,     \* history: the registration of s passed the certificate check
    sessions,  \* the connection the sync.Map holds for the agent
    status,    \* the status column of the agent's row, "absent" without a row
    overlap,   \* history: handlers of two sessions have been under way at once
    stray,     \* history: a heartbeat was taken from a session not in the map
    dbErrors, adminOps

vars == <<conn, cert, pc, rest, AgentID, acked, bound, sessions, status, overlap,
          stray, dbErrors, adminOps>>

Registering == {"reg_db", "reg_swap", "reg_store", "reg_ack"}
Exiting == {"exit", "delete", "offline"}
Labels == {"idle", "read", "beat", "done"} \cup Registering \cup Exiting

(* Enrollment has left the agent's row offline.                            *)
Init ==
    /\ conn = [s \in Sessions |-> "none"]
    /\ cert = [s \in Sessions |-> "bound"]
    /\ pc = [s \in Sessions |-> "idle"]
    /\ rest = [s \in Sessions |-> 0]
    /\ AgentID = [s \in Sessions |-> FALSE]
    /\ acked = [s \in Sessions |-> FALSE]
    /\ bound = [s \in Sessions |-> FALSE]
    /\ sessions = NoSession
    /\ status = "offline" /\ overlap = FALSE /\ stray = FALSE
    /\ dbErrors = 0 /\ adminOps = 0

Goto(s, label) == pc' = [pc EXCEPT ![s] = label]
Close(s) == conn' = [conn EXCEPT ![s] = "closed"]

(* The handler of a frame, or the cleanup, of s begins.                    *)
Begin(s) ==
    overlap' = (overlap \/ \E o \in Sessions \ {s} : pc[o] \notin {"idle", "read", "done"})

(* An UPDATE of the agent's row changes nothing when there is no row.      *)
Update(value) == status' = IF status = "absent" THEN "absent" ELSE value

DbError == dbErrors < MaxDbErrors /\ dbErrors' = dbErrors + 1

-----------------------------------------------------------------------------
(* The connections.                                                        *)

(* tcp_server.go: a handshake is completed and the session's loop starts.  *)
Accept(s) ==
    /\ pc[s] = "idle"
    /\ conn' = [conn EXCEPT ![s] = "open"]
    /\ \E kind \in {"bound", "other", "name"} : cert' = [cert EXCEPT ![s] = kind]
    /\ Goto(s, "read")
    /\ UNCHANGED <<rest, stray, overlap, AgentID, acked, bound, sessions, status, dbErrors, adminOps>>

(* The agent closes the connection, or the network does.                   *)
PeerCloses(s) ==
    /\ conn[s] = "open"
    /\ Close(s)
    /\ UNCHANGED <<cert, rest, stray, overlap, pc, AgentID, acked, bound, sessions, status, dbErrors, adminOps>>

-----------------------------------------------------------------------------
(* handleRegister.                                                         *)

(* ReadFrame returns a frame: it came in before the connection was closed. *)
ReadFrame(s) ==
    /\ pc[s] = "read"
    /\ \/ conn[s] = "open" /\ UNCHANGED rest
       \/ conn[s] = "closed" /\ rest[s] < MaxRest /\ rest' = [rest EXCEPT ![s] = @ + 1]

(* The session has an id before its certificate is looked at.              *)
RecvRegister(s) ==
    /\ ReadFrame(s) /\ ~AgentID[s]
    /\ Begin(s)
    /\ AgentID' = [AgentID EXCEPT ![s] = TRUE]
    /\ IF cert[s] = "name"
         THEN Close(s) /\ UNCHANGED pc              \* rejectSession
         ELSE Goto(s, "reg_db") /\ UNCHANGED conn
    /\ UNCHANGED <<cert, stray, acked, bound, sessions, status, dbErrors, adminOps>>

(* rejectSession: a second REGISTER, or another message before the first   *)
(* or with the id of another agent.                                        *)
RecvRejected(s) ==
    /\ ReadFrame(s)
    /\ Close(s)
    /\ UNCHANGED <<cert, stray, overlap, pc, AgentID, acked, bound, sessions, status, dbErrors, adminOps>>

RegisterCommitsFirst(s) ==     \* mutated form: the row is written before the check
    /\ pc[s] = "reg_db"
    /\ status' = "online"
    /\ IF cert[s] = "other"
         THEN Close(s) /\ Goto(s, "read") /\ UNCHANGED bound
         ELSE Goto(s, "reg_swap") /\ bound' = [bound EXCEPT ![s] = TRUE] /\ UNCHANGED conn
    /\ UNCHANGED <<cert, rest, stray, overlap, AgentID, acked, sessions, dbErrors, adminOps>>

(* RegisterAgentWithCertificate: one transaction, rolled back if the       *)
(* certificate is not the agent's active one.                              *)
RegisterAgentWithCertificate(s) ==
    /\ pc[s] = "reg_db"
    /\ IF cert[s] = "other"
         THEN /\ Close(s) /\ Goto(s, "read")        \* rejectSession
              /\ UNCHANGED <<bound, status>>
         ELSE /\ status' = "online"
              /\ bound' = [bound EXCEPT ![s] = TRUE]
              /\ Goto(s, "reg_swap")
              /\ UNCHANGED conn
    /\ UNCHANGED <<cert, rest, stray, overlap, AgentID, acked, sessions, dbErrors, adminOps>>

(* Any other error leaves the session without an answer, but with an id;   *)
(* the error may be of a commit that took effect.                          *)
RegisterDbError(s) ==
    /\ pc[s] = "reg_db"
    /\ DbError
    /\ Goto(s, "read")
    /\ \/ UNCHANGED <<bound, status>>
       \/ cert[s] # "other" /\ status' = "online" /\ bound' = [bound EXCEPT ![s] = TRUE]
    /\ UNCHANGED <<cert, rest, stray, overlap, conn, AgentID, acked, sessions, adminOps>>

(* LoadAndDelete; the connection it finds is closed.                       *)
SwapOldSession(s) ==
    /\ pc[s] = "reg_swap"
    /\ sessions' = NoSession
    /\ conn' = IF sessions = NoSession THEN conn ELSE [conn EXCEPT ![sessions] = "closed"]
    /\ Goto(s, "reg_store")
    /\ UNCHANGED <<cert, rest, stray, overlap, AgentID, acked, bound, status, dbErrors, adminOps>>

StoreSession(s) ==
    /\ pc[s] = "reg_store"
    /\ sessions' = s
    /\ Goto(s, "reg_ack")
    /\ UNCHANGED <<cert, rest, stray, overlap, conn, AgentID, acked, bound, status, dbErrors, adminOps>>

(* The ACK.  A write error is only logged: the next read will fail too.    *)
SendAck(s) ==
    /\ pc[s] = "reg_ack"
    /\ acked' = [acked EXCEPT ![s] = (conn[s] = "open")]
    /\ Goto(s, "read")
    /\ UNCHANGED <<cert, rest, stray, overlap, conn, AgentID, bound, sessions, status, dbErrors, adminOps>>

-----------------------------------------------------------------------------
(* handleHeartbeat.                                                        *)

(* validateAgentIdentity asks for the id only, not for a registration.     *)
RecvHeartbeat(s) ==
    /\ ReadFrame(s) /\ AgentID[s]
    /\ Begin(s)
    /\ stray' = (stray \/ sessions # s)
    /\ Goto(s, "beat")
    /\ UNCHANGED <<cert, conn, AgentID, acked, bound, sessions, status, dbErrors, adminOps>>

BeatKeepsStatus(s) ==          \* mutated form: only last_seen is written
    /\ pc[s] = "beat"
    /\ Goto(s, "read")
    /\ UNCHANGED <<cert, rest, stray, overlap, conn, AgentID, acked, bound, sessions, status, dbErrors, adminOps>>

UpdateHeartbeat(s) ==
    /\ pc[s] = "beat"
    /\ Update("online")
    /\ Goto(s, "read")
    /\ UNCHANGED <<cert, rest, stray, overlap, conn, AgentID, acked, bound, sessions, dbErrors, adminOps>>

HeartbeatDbError(s) ==
    /\ pc[s] = "beat"
    /\ DbError
    /\ UNCHANGED status \/ Update("online")
    /\ Goto(s, "read")
    /\ UNCHANGED <<cert, rest, stray, overlap, conn, AgentID, acked, bound, sessions, adminOps>>

-----------------------------------------------------------------------------
(* The end of Run: the loop returns and the deferred function cleans up.   *)

(* A read error; on an open connection a malformed frame or a gap in the   *)
(* sequence numbers.                                                       *)
LoopEnds(s) ==
    /\ pc[s] = "read"
    /\ Begin(s)
    /\ Goto(s, "exit")
    /\ UNCHANGED <<cert, rest, stray, conn, AgentID, acked, bound, sessions, status, dbErrors, adminOps>>

ExitWithoutCheck(s) ==         \* mutated forms: the entry is not compared with
    /\ pc[s] = "exit"          \* the connection; the entry is left behind
    /\ IF AgentID[s] /\ sessions # NoSession
         THEN Goto(s, "delete") /\ UNCHANGED conn
         ELSE Goto(s, "done") /\ Close(s)
    /\ UNCHANGED <<cert, rest, stray, overlap, AgentID, acked, bound, sessions, status, dbErrors, adminOps>>

ExitNeverCurrent(s) ==
    /\ pc[s] = "exit"
    /\ Goto(s, "done") /\ Close(s)
    /\ UNCHANGED <<cert, rest, stray, overlap, AgentID, acked, bound, sessions, status, dbErrors, adminOps>>

(* sessions.Load: is this session the current one?                         *)
ExitCheck(s) ==
    /\ pc[s] = "exit"
    /\ IF AgentID[s] /\ sessions = s
         THEN Goto(s, "delete") /\ UNCHANGED conn
         ELSE Goto(s, "done") /\ Close(s)
    /\ UNCHANGED <<cert, rest, stray, overlap, AgentID, acked, bound, sessions, status, dbErrors, adminOps>>

(* sessions.Delete removes whatever entry is there now.                    *)
ExitDelete(s) ==
    /\ pc[s] = "delete"
    /\ sessions' = NoSession
    /\ Goto(s, "offline")
    /\ UNCHANGED <<cert, rest, stray, overlap, conn, AgentID, acked, bound, status, dbErrors, adminOps>>

SetOffline(s) ==
    /\ pc[s] = "offline"
    /\ Update("offline")
    /\ Goto(s, "done") /\ Close(s)
    /\ UNCHANGED <<cert, rest, stray, overlap, AgentID, acked, bound, sessions, dbErrors, adminOps>>

OfflineDbError(s) ==
    /\ pc[s] = "offline"
    /\ DbError
    /\ UNCHANGED status \/ Update("offline")
    /\ Goto(s, "done") /\ Close(s)
    /\ UNCHANGED <<cert, rest, stray, overlap, AgentID, acked, bound, sessions, adminOps>>

-----------------------------------------------------------------------------
(* The operator's requests (api/agent_handler.go).                         *)

AdminOp ==
    /\ adminOps < MaxAdmin /\ adminOps' = adminOps + 1
    /\ UNCHANGED <<cert, rest, stray, overlap, conn, pc, AgentID, acked, bound, sessions, dbErrors>>

(* UpdateStatus stores any string the request holds.                        *)
DeleteAgent == AdminOp /\ status' = "absent"
UpdateStatus == \E value \in {"online", "offline", "other"} : AdminOp /\ Update(value)

-----------------------------------------------------------------------------
(* The steps a session's goroutine takes by itself.                        *)
Proceed(s) ==
    \/ RegisterAgentWithCertificate(s) \/ RegisterDbError(s)
    \/ SwapOldSession(s) \/ StoreSession(s) \/ SendAck(s)
    \/ UpdateHeartbeat(s) \/ HeartbeatDbError(s)
    \/ ExitCheck(s) \/ ExitDelete(s) \/ SetOffline(s) \/ OfflineDbError(s)

Next ==
    \/ \E s \in Sessions :
        \/ Accept(s) \/ PeerCloses(s)
        \/ RecvRegister(s) \/ RecvRejected(s) \/ RecvHeartbeat(s)
        \/ LoopEnds(s) \/ Proceed(s)
    \/ DeleteAgent \/ UpdateStatus

Spec == Init /\ [][Next]_vars

(* Goroutines run; a read on a closed connection fails; an agent that has  *)
(* its ACK keeps sending heartbeats.                                       *)
ReadFails(s) == conn[s] = "closed" /\ LoopEnds(s)
Beats(s) == acked[s] /\ conn[s] = "open" /\ RecvHeartbeat(s)

FairSpec ==
    /\ Spec
    /\ \A s \in Sessions : WF_vars(Proceed(s)) /\ WF_vars(ReadFails(s))
                           /\ WF_vars(Beats(s))

-----------------------------------------------------------------------------
(* Properties.                                                             *)

Flags ==
    /\ AgentID \in [Sessions -> BOOLEAN]
    /\ acked \in [Sessions -> BOOLEAN]
    /\ bound \in [Sessions -> BOOLEAN]
    /\ overlap \in BOOLEAN /\ stray \in BOOLEAN

(* Every variable has its type.                                            *)
TypeOK ==
    /\ conn \in [Sessions -> {"none", "open", "closed"}]
    /\ cert \in [Sessions -> {"bound", "other", "name"}]
    /\ pc \in [Sessions -> Labels]
    /\ rest \in [Sessions -> 0..MaxRest]
    /\ Flags
    /\ sessions \in Sessions \cup {NoSession}
    /\ status \in {"online", "offline", "other", "absent"}
    /\ dbErrors \in 0..MaxDbErrors /\ adminOps \in 0..MaxAdmin

(* A session the agent can use.                                            *)
Live(s) == acked[s] /\ conn[s] = "open" /\ pc[s] \in {"read", "beat"}

(* A step of a session without an accepted certificate.                   *)
InertStep ==
    \A s \in Sessions :
        (pc[s] # pc'[s] /\ ~bound'[s]) =>
            /\ UNCHANGED sessions
            /\ status' # status => pc[s] = "beat" /\ status' = "online"
            /\ \A o \in Sessions \ {s} : conn'[o] = conn[o]

(* Only connections that passed the certificate check replace a session    *)
(* (the comment above LoadAndDelete): one that did not never gets into the *)
(* map, at no point of its life takes another's entry out of it, closes no *)
(* other connection and never sets the row offline; nor does its REGISTER  *)
(* set it online, through the transaction that writes the row before it    *)
(* looks at the certificate.  What it can do is send a heartbeat, when a   *)
(* database error left it open or the heartbeat was already read, and that *)
(* sets the row online.                                                    *)
RefusedIsInert == [][InertStep]_vars

(* An agent that is connected, registered and sending heartbeats is shown  *)
(* online in the long run, whatever old sessions clean up late, whichever  *)
(* statements fail and whatever the operator sets, unless its row is gone. *)
LiveIsOnline ==
    \A s \in Sessions :
        <>[](Live(s) /\ status # "absent") => <>[](status = "online")

(* A step that ends the cleanup.                                           *)
OfflineStep ==
    ~overlap' => \A s \in Sessions :
        (pc[s] = "offline" /\ pc'[s] = "done") =>
            \A o \in Sessions \ {s} : ~Live(o)

(* Run's cleanup: "offline only when the current active session is cut":   *)
(* when a session writes offline, no other session of the agent is usable, *)
(* as long as the handlers of the sessions have never overlapped.          *)
SerialOffline == [][OfflineStep]_vars

(* Map, connections and status agree as long as handlers never overlap:    *)
(* when no session is left the row does not say online (interfaces.go),    *)
(* unless a statement failed, the operator set it or a session that is not *)
(* in the map sent a heartbeat (refused, or replaced with the heartbeat    *)
(* already read); and a connection that registers takes the place of the   *)
(* one before, so that with registrations finished at most one session is  *)
(* usable.                                                                 *)
SerialSound ==
    /\ TypeOK
    /\ (\A s \in Sessions : pc[s] \in {"idle", "done"})
           /\ ~overlap /\ ~stray /\ dbErrors = 0 /\ adminOps = 0 => status # "online"
    /\ (~overlap /\ \A s \in Sessions : pc[s] \notin Registering) =>
           \A s, o \in Sessions : Live(s) /\ Live(o) => s = o
=============================================================================
