------------------------- MODULE AgentSessionProofs -------------------------
(***************************************************************************)
(* The sessions of an agent, for any number of connections, failed         *)
(* statements and operator requests.  What holds with overlapping handlers *)
(* too is that only sessions with an accepted certificate get to the map   *)
(* and the row (BoundInv).  Without overlap each handler works on the map  *)
(* alone, so that its check and its deletion see the same entry (Serial).  *)
(***************************************************************************)
EXTENDS AgentSession, TLAPS

Busy(s) == pc[s] \notin {"idle", "read", "done"}

(* Only a session that has passed the certificate check gets as far as the *)
(* map, the acknowledgement and the status column.                         *)
BoundInv ==
    \A s \in Sessions :
        /\ pc[s] \in {"reg_swap", "reg_store", "reg_ack", "delete", "offline"} => bound[s]
        /\ acked[s] => bound[s]
        /\ sessions = s => bound[s]

(* The agent has an acknowledgement only from a finished registration.     *)
AckInv ==
    \A s \in Sessions :
        /\ acked[s] => AgentID[s] /\ pc[s] \notin Registering \cup {"idle"}
        /\ pc[s] \in Registering => AgentID[s]

(* As long as no handlers have overlapped, one of them is under way at a   *)
(* time, and what it has found in the map, or put there, is there still.   *)
Serial ==
    /\ \A s, o \in Sessions : Busy(s) /\ Busy(o) => s = o
    /\ \A s \in Sessions :
        /\ pc[s] \in {"reg_ack", "delete"} \/ Live(s) => sessions = s
        /\ pc[s] = "beat" /\ ~stray => sessions = s
        /\ pc[s] \in {"reg_store", "offline"} => sessions = NoSession
        /\ sessions = s => AgentID[s] /\ pc[s] \in {"reg_ack", "read", "beat", "exit", "delete"}

(* A row that says online has a session that will see to it.               *)
Attended ==
    ~stray /\ dbErrors = 0 /\ adminOps = 0 /\ status = "online" =>
        \/ sessions # NoSession
        \/ \E s \in Sessions : pc[s] \in {"reg_swap", "reg_store", "offline"}

IndInv ==
    /\ TypeOK /\ BoundInv /\ AckInv
    /\ ~overlap => Serial /\ Attended

-----------------------------------------------------------------------------
(* What a step changes.                                                    *)

Handler(s) ==
    \/ Accept(s) \/ PeerCloses(s)
    \/ RecvRegister(s) \/ RecvRejected(s) \/ RecvHeartbeat(s)
    \/ LoopEnds(s) \/ Proceed(s)

Admin == DeleteAgent \/ UpdateStatus

(* A step of a session leaves the others where they are, and what they     *)
(* have reached.                                                           *)
LEMMA OthersStay ==
    ASSUME TypeOK, NEW s \in Sessions, Handler(s), NEW o \in Sessions \ {s}
    PROVE  /\ pc'[o] = pc[o] /\ AgentID'[o] = AgentID[o] /\ acked'[o] = acked[o]
           /\ bound'[o] = bound[o] /\ cert'[o] = cert[o]
           /\ conn'[o] = conn[o] \/ conn'[o] = "closed"
<1> USE DEF TypeOK, Flags
<1>1. pc'[o] = pc[o]
  BY DEF Handler, Proceed, Accept, PeerCloses, RecvRegister, RecvRejected, RecvHeartbeat, ReadFrame,
         LoopEnds, RegisterAgentWithCertificate, RegisterDbError, SwapOldSession, StoreSession,
         SendAck, UpdateHeartbeat, HeartbeatDbError, ExitCheck, ExitDelete, SetOffline,
         OfflineDbError, Goto, Close
<1>2. AgentID'[o] = AgentID[o] /\ acked'[o] = acked[o] /\ bound'[o] = bound[o] /\ cert'[o] = cert[o]
  BY DEF Handler, Proceed, Accept, PeerCloses, RecvRegister, RecvRejected, RecvHeartbeat, ReadFrame,
         LoopEnds, RegisterAgentWithCertificate, RegisterDbError, SwapOldSession, StoreSession,
         SendAck, UpdateHeartbeat, HeartbeatDbError, ExitCheck, ExitDelete, SetOffline,
         OfflineDbError, Goto, Close
<1>3. conn'[o] = conn[o] \/ conn'[o] = "closed"
  BY DEF Handler, Proceed, Accept, PeerCloses, RecvRegister, RecvRejected, RecvHeartbeat, ReadFrame,
         LoopEnds, RegisterAgentWithCertificate, RegisterDbError, SwapOldSession, StoreSession,
         SendAck, UpdateHeartbeat, HeartbeatDbError, ExitCheck, ExitDelete, SetOffline,
         OfflineDbError, Goto, Close
<1> QED
  BY <1>1, <1>2, <1>3

(* A heartbeat of a session that is not in the map is not forgotten.       *)
LEMMA StrayStays ==
    ASSUME NEW s \in Sessions, Handler(s), ~stray'
    PROVE  ~stray /\ (RecvHeartbeat(s) => sessions = s)
<1>1. CASE RecvHeartbeat(s)
  BY <1>1 DEF RecvHeartbeat
<1>2. CASE ~RecvHeartbeat(s)
  <2>1. stray' = stray
    BY <1>2 DEF Handler, Proceed, Accept, PeerCloses, RecvRegister, RecvRejected, LoopEnds,
         RegisterAgentWithCertificate, RegisterDbError, SwapOldSession, StoreSession,
         SendAck, UpdateHeartbeat, HeartbeatDbError, ExitCheck, ExitDelete, SetOffline,
         OfflineDbError
  <2> QED
    BY <1>2, <2>1
<1> QED
  BY <1>1, <1>2

(* An operator request changes the row only.                               *)
LEMMA AdminStays ==
    ASSUME Admin
    PROVE  UNCHANGED <<cert, rest, stray, overlap, conn, pc, AgentID, acked, bound, sessions, dbErrors>>
BY DEF Admin, DeleteAgent, UpdateStatus, AdminOp

(* The flags stay Boolean.                                                 *)
LEMMA FlagsKept ==
    ASSUME Flags, [Next]_vars
    PROVE  Flags'
<1>1. ASSUME NEW s \in Sessions, Handler(s) PROVE Flags'
  BY <1>1 DEF Flags, Begin, Handler, Proceed, Accept, PeerCloses, RecvRegister, RecvRejected,
         RecvHeartbeat, ReadFrame, LoopEnds, RegisterAgentWithCertificate, RegisterDbError, SwapOldSession,
         StoreSession, SendAck, UpdateHeartbeat, HeartbeatDbError, ExitCheck, ExitDelete,
         SetOffline, OfflineDbError, Goto, Close
<1>2. ASSUME Admin \/ UNCHANGED vars PROVE Flags'
  BY <1>2, AdminStays DEF vars, Flags
<1> QED
  BY <1>1, <1>2 DEF Next, Handler, Admin

(* Every step keeps the types.                                             *)
LEMMA TypeKept ==
    ASSUME TypeOK, [Next]_vars
    PROVE  TypeOK'
<1> USE SessionAssumption DEF TypeOK, Labels, Registering, Exiting
<1>0. Flags'
  BY FlagsKept
<1>1. ASSUME NEW s \in Sessions, Handler(s) PROVE TypeOK'
  <2> USE <1>0 DEF Goto, Close, DbError, Update
  <2>1. ASSUME Accept(s) \/ PeerCloses(s) \/ RecvRegister(s) \/ RecvRejected(s)
               \/ RecvHeartbeat(s) \/ LoopEnds(s)
        PROVE  TypeOK'
    BY <2>1 DEF Accept, PeerCloses, RecvRegister, RecvRejected, RecvHeartbeat, ReadFrame, LoopEnds
  <2>2. ASSUME RegisterAgentWithCertificate(s) \/ RegisterDbError(s) \/ SwapOldSession(s)
               \/ StoreSession(s) \/ SendAck(s)
        PROVE  TypeOK'
    BY <2>2 DEF RegisterAgentWithCertificate, RegisterDbError, SwapOldSession, StoreSession, SendAck
  <2>3. ASSUME UpdateHeartbeat(s) \/ HeartbeatDbError(s) \/ ExitCheck(s) \/ ExitDelete(s)
               \/ SetOffline(s) \/ OfflineDbError(s)
        PROVE  TypeOK'
    BY <2>3 DEF UpdateHeartbeat, HeartbeatDbError, ExitCheck, ExitDelete, SetOffline, OfflineDbError
  <2> QED
    BY <1>1, <2>1, <2>2, <2>3 DEF Handler, Proceed
<1>2. ASSUME Admin PROVE TypeOK'
  BY <1>0, <1>2 DEF Admin, DeleteAgent, UpdateStatus, AdminOp, Update
<1>3. CASE UNCHANGED vars
  BY <1>0, <1>3 DEF vars
<1> QED
  BY <1>1, <1>2, <1>3 DEF Next, Handler, Admin

-----------------------------------------------------------------------------
(* The certificate check and the acknowledgement.                          *)

(* handleRegister has passed the certificate check before it touches map   *)
(* and row; heartbeats and the cleanup follow a registration.              *)
LEMMA BoundKept ==
    ASSUME TypeOK, BoundInv, [Next]_vars
    PROVE  BoundInv'
<1>1. ASSUME NEW s \in Sessions, Handler(s) PROVE BoundInv'
  <2> USE DEF TypeOK, Flags, Goto, Close
  <2>1. ASSUME NEW o \in Sessions, o # s
        PROVE  /\ pc'[o] \in {"reg_swap", "reg_store", "reg_ack", "delete", "offline"} => bound'[o]
               /\ acked'[o] => bound'[o]
               /\ sessions' = o => bound'[o]
    <3>1. pc'[o] = pc[o] /\ acked'[o] = acked[o] /\ bound'[o] = bound[o]
      BY <1>1, <2>1, OthersStay
    <3>2. sessions' = o => sessions = o
      BY <1>1, <2>1, SessionAssumption
         DEF Handler, Proceed, Accept, PeerCloses, RecvRegister, RecvRejected, RecvHeartbeat, ReadFrame,
             LoopEnds, RegisterAgentWithCertificate, RegisterDbError, SwapOldSession,
             StoreSession, SendAck, UpdateHeartbeat, HeartbeatDbError, ExitCheck, ExitDelete,
             SetOffline, OfflineDbError
    <3> QED
      BY <3>1, <3>2 DEF BoundInv
  <2>2. /\ pc'[s] \in {"reg_swap", "reg_store", "reg_ack", "delete", "offline"} => bound'[s]
        /\ acked'[s] => bound'[s]
        /\ sessions' = s => bound'[s]
    <3> USE DEF BoundInv
    <3>1. CASE Accept(s) \/ PeerCloses(s) \/ RecvRegister(s) \/ RecvRejected(s)
               \/ RecvHeartbeat(s) \/ LoopEnds(s)
      BY <3>1 DEF Accept, PeerCloses, RecvRegister, RecvRejected, RecvHeartbeat, ReadFrame, LoopEnds
    <3>2. CASE RegisterAgentWithCertificate(s) \/ RegisterDbError(s) \/ SwapOldSession(s)
               \/ StoreSession(s) \/ SendAck(s)
      BY <3>2, SessionAssumption
         DEF RegisterAgentWithCertificate, RegisterDbError, SwapOldSession, StoreSession, SendAck
    <3>3. CASE UpdateHeartbeat(s) \/ HeartbeatDbError(s) \/ ExitCheck(s) \/ ExitDelete(s)
               \/ SetOffline(s) \/ OfflineDbError(s)
      BY <3>3, SessionAssumption
         DEF UpdateHeartbeat, HeartbeatDbError, ExitCheck, ExitDelete, SetOffline, OfflineDbError
    <3> QED
      BY <1>1, <3>1, <3>2, <3>3 DEF Handler, Proceed
  <2> QED
    BY <2>1, <2>2 DEF BoundInv
<1>2. ASSUME Admin \/ UNCHANGED vars PROVE BoundInv'
  BY <1>2, AdminStays DEF vars, BoundInv
<1> QED
  BY <1>1, <1>2 DEF Next, Handler, Admin

(* The ACK is the last step of handleRegister, which gives the id first.   *)
LEMMA AckKept ==
    ASSUME TypeOK, AckInv, [Next]_vars
    PROVE  AckInv'
<1>1. ASSUME NEW s \in Sessions, Handler(s) PROVE AckInv'
  <2> USE DEF TypeOK, Flags, Goto, Close, Registering
  <2>1. ASSUME NEW o \in Sessions, o # s
        PROVE  /\ acked'[o] => AgentID'[o] /\ pc'[o] \notin Registering \cup {"idle"}
               /\ pc'[o] \in Registering => AgentID'[o]
    BY <1>1, <2>1, OthersStay DEF AckInv
  <2>2. /\ acked'[s] => AgentID'[s] /\ pc'[s] \notin Registering \cup {"idle"}
        /\ pc'[s] \in Registering => AgentID'[s]
    <3> USE DEF AckInv
    <3>1. CASE Accept(s) \/ PeerCloses(s) \/ RecvRegister(s) \/ RecvRejected(s)
               \/ RecvHeartbeat(s) \/ LoopEnds(s)
      BY <3>1 DEF Accept, PeerCloses, RecvRegister, RecvRejected, RecvHeartbeat, ReadFrame, LoopEnds
    <3>2. CASE RegisterAgentWithCertificate(s) \/ RegisterDbError(s) \/ SwapOldSession(s)
               \/ StoreSession(s) \/ SendAck(s)
      BY <3>2
         DEF RegisterAgentWithCertificate, RegisterDbError, SwapOldSession, StoreSession, SendAck
    <3>3. CASE UpdateHeartbeat(s) \/ HeartbeatDbError(s) \/ ExitCheck(s) \/ ExitDelete(s)
               \/ SetOffline(s) \/ OfflineDbError(s)
      BY <3>3
         DEF UpdateHeartbeat, HeartbeatDbError, ExitCheck, ExitDelete, SetOffline, OfflineDbError
    <3> QED
      BY <1>1, <3>1, <3>2, <3>3 DEF Handler, Proceed
  <2> QED
    BY <2>1, <2>2 DEF AckInv
<1>2. ASSUME Admin \/ UNCHANGED vars PROVE AckInv'
  BY <1>2, AdminStays DEF vars, AckInv
<1> QED
  BY <1>1, <1>2 DEF Next, Handler, Admin

-----------------------------------------------------------------------------
(* Handlers one after the other.                                           *)

(* Handlers that have overlapped stay so; a handler that begins begins     *)
(* alone; one that goes on has been under way.                             *)
LEMMA Alone ==
    ASSUME TypeOK, NEW s \in Sessions, Handler(s), ~overlap'
    PROVE  /\ ~overlap
           /\ pc'[s] # pc[s] /\ ~Accept(s) /\ ~Busy(s) => \A o \in Sessions \ {s} : ~Busy(o)
<1> USE DEF TypeOK, Flags, Busy, Goto
<1>1. CASE RecvRegister(s) \/ RecvHeartbeat(s) \/ LoopEnds(s)
  BY <1>1 DEF RecvRegister, RecvHeartbeat, ReadFrame, LoopEnds, Begin
<1>2. CASE Accept(s) \/ PeerCloses(s) \/ RecvRejected(s)
  BY <1>2 DEF Accept, PeerCloses, RecvRejected
<1>3. CASE Proceed(s)
  BY <1>3 DEF Proceed, RegisterAgentWithCertificate, RegisterDbError, SwapOldSession,
              StoreSession, SendAck, UpdateHeartbeat, HeartbeatDbError, ExitCheck, ExitDelete,
              SetOffline, OfflineDbError
<1> QED
  BY <1>1, <1>2, <1>3 DEF Handler

(* One handler at a time.                                                  *)
LEMMA OneBusy ==
    ASSUME TypeOK, Serial, NEW s \in Sessions, Handler(s), ~overlap'
    PROVE  /\ \A t, o \in Sessions : Busy(t)' /\ Busy(o)' => t = o
           /\ Busy(s) \/ Busy(s)' => \A o \in Sessions \ {s} : ~Busy(o)
<1>1. \A o \in Sessions \ {s} : Busy(o)' = Busy(o)
  BY OthersStay DEF Busy
<1>2. Busy(s) => \A o \in Sessions \ {s} : ~Busy(o)
  BY DEF Serial
<1>3. Busy(s)' => \A o \in Sessions \ {s} : ~Busy(o)
  <2>1. CASE Busy(s)
    BY <1>2, <2>1
  <2>2. CASE ~Busy(s)
    <3>1. ~Busy(s)' \/ ~Accept(s)
      BY DEF Accept, Busy, Goto, TypeOK
    <3>2. Busy(s)' => pc'[s] # pc[s]
      BY <2>2 DEF Busy
    <3> QED
      BY <2>2, <3>1, <3>2, Alone
  <2> QED
    BY <2>1, <2>2
<1> QED
  BY <1>1, <1>2, <1>3 DEF Serial

(* Between its steps on the map a handler finds the map as it left it, and *)
(* whoever replaces an entry has closed its connection.                    *)
LEMMA SerialKept ==
    ASSUME TypeOK, AckInv, Serial, NEW s \in Sessions, Handler(s), ~overlap'
    PROVE  Serial'
<1> DEFINE Own(o) ==
      /\ pc[o] \in {"reg_ack", "delete"} \/ Live(o) => sessions = o
      /\ pc[o] = "beat" /\ ~stray => sessions = o
      /\ pc[o] \in {"reg_store", "offline"} => sessions = NoSession
      /\ sessions = o => AgentID[o] /\ pc[o] \in {"reg_ack", "read", "beat", "exit", "delete"}
<1> USE DEF TypeOK, Flags, Goto, Close
<1>1. /\ \A t, o \in Sessions : Busy(t)' /\ Busy(o)' => t = o
      /\ Busy(s) \/ Busy(s)' => \A o \in Sessions \ {s} : ~Busy(o)
  BY OneBusy
<1>2. \A o \in Sessions : Own(o)
  BY DEF Serial
<1>3. Own(s)'
  <2>1. CASE Accept(s) \/ PeerCloses(s) \/ RecvRejected(s) \/ LoopEnds(s)
    BY <1>2, <2>1 DEF Accept, PeerCloses, RecvRejected, LoopEnds, Live, AckInv
  <2>2. CASE RecvRegister(s)
    BY <1>2, <2>2 DEF RecvRegister, Live, AckInv
  <2>3. CASE RecvHeartbeat(s)
    <3>1. ~stray' => sessions = s
      BY <2>3, StrayStays
    <3> QED
      BY <1>2, <2>3, <3>1 DEF RecvHeartbeat, ReadFrame, Live, AckInv
  <2>4. CASE RegisterAgentWithCertificate(s) \/ RegisterDbError(s)
    BY <1>2, <2>4 DEF RegisterAgentWithCertificate, RegisterDbError, Live, AckInv, Registering
  <2>5. CASE SwapOldSession(s) \/ StoreSession(s) \/ SendAck(s)
    BY <1>2, <2>5, SessionAssumption
       DEF SwapOldSession, StoreSession, SendAck, Live, AckInv, Registering
  <2>6. CASE UpdateHeartbeat(s) \/ HeartbeatDbError(s)
    BY <1>2, <2>6 DEF UpdateHeartbeat, HeartbeatDbError, Live
  <2>7. CASE ExitCheck(s) \/ ExitDelete(s) \/ SetOffline(s) \/ OfflineDbError(s)
    BY <1>2, <2>7, SessionAssumption
       DEF ExitCheck, ExitDelete, SetOffline, OfflineDbError, Live
  <2> QED
    BY <2>1, <2>2, <2>3, <2>4, <2>5, <2>6, <2>7 DEF Handler, Proceed
<1>4. ASSUME NEW o \in Sessions, o # s PROVE Own(o)'
  <2>1. /\ pc'[o] = pc[o] /\ AgentID'[o] = AgentID[o] /\ acked'[o] = acked[o]
        /\ conn'[o] = conn[o] \/ conn'[o] = "closed"
    BY <1>4, OthersStay
  <2>2. Live(o)' => Live(o)
    BY <2>1 DEF Live
  <2>3. CASE sessions' = sessions
    BY <1>2, <2>1, <2>2, <2>3, StrayStays
  <2>4. CASE SwapOldSession(s)
    <3>1. sessions' = NoSession /\ (sessions = o => conn'[o] = "closed") /\ pc[s] = "reg_swap"
      BY <1>4, <2>4, SessionAssumption DEF SwapOldSession
    <3>2. ~Busy(o)
      BY <1>1, <1>4, <3>1 DEF Busy
    <3>3. ~Live(o)'
      BY <1>2, <1>4, <2>2, <3>1 DEF Live
    <3> QED
      BY <1>4, <2>1, <3>1, <3>2, <3>3, SessionAssumption DEF Busy
  <2>5. CASE StoreSession(s)
    <3>1. sessions' = s /\ pc[s] = "reg_store" /\ sessions = NoSession
      BY <1>2, <2>5 DEF StoreSession
    <3>2. ~Busy(o) /\ ~Live(o)
      BY <1>1, <1>2, <1>4, <3>1, SessionAssumption DEF Busy
    <3> QED
      BY <1>4, <2>1, <2>2, <3>1, <3>2 DEF Busy
  <2>6. CASE ExitDelete(s)
    <3>1. sessions' = NoSession /\ pc[s] = "delete" /\ sessions = s
      BY <1>2, <2>6 DEF ExitDelete
    <3>2. ~Busy(o) /\ ~Live(o)
      BY <1>1, <1>2, <1>4, <3>1 DEF Busy
    <3> QED
      BY <1>4, <2>1, <2>2, <3>1, <3>2, SessionAssumption DEF Busy
  <2> QED
    BY <2>3, <2>4, <2>5, <2>6
       DEF Handler, Proceed, Accept, PeerCloses, RecvRegister, RecvRejected, RecvHeartbeat, ReadFrame,
           LoopEnds, RegisterAgentWithCertificate, RegisterDbError, SendAck, UpdateHeartbeat,
           HeartbeatDbError, ExitCheck, SetOffline, OfflineDbError
<1> QED
  BY <1>1, <1>3, <1>4 DEF Serial

(* Whoever sets the row online is in the map, or on its way there.         *)
LEMMA AttendedKept ==
    ASSUME TypeOK, Serial, Attended, NEW s \in Sessions, Handler(s)
    PROVE  Attended'
<1> SUFFICES ASSUME ~stray', dbErrors' = 0, adminOps' = 0, status' = "online"
             PROVE  \/ sessions' # NoSession
                    \/ \E o \in Sessions : pc'[o] \in {"reg_swap", "reg_store", "offline"}
  BY DEF Attended
<1> USE DEF TypeOK, Goto, Close
<1>1. CASE RegisterAgentWithCertificate(s) /\ cert[s] # "other"
  BY <1>1 DEF RegisterAgentWithCertificate
<1>2. CASE SwapOldSession(s) \/ ExitDelete(s)
  BY <1>2 DEF SwapOldSession, ExitDelete
<1>3. CASE StoreSession(s)
  BY <1>3, SessionAssumption DEF StoreSession
<1>4. CASE UpdateHeartbeat(s)
  <2>1. sessions' = sessions /\ sessions = s
    BY <1>4 DEF UpdateHeartbeat, Serial
  <2> QED
    BY <2>1, SessionAssumption
<1>5. CASE RegisterDbError(s) \/ HeartbeatDbError(s) \/ OfflineDbError(s)
  BY <1>5 DEF RegisterDbError, HeartbeatDbError, OfflineDbError, DbError
<1>6. CASE SetOffline(s)
  BY <1>6 DEF SetOffline, Update
<1>7. CASE \/ Accept(s) \/ RecvRegister(s) \/ RecvRejected(s) \/ RecvHeartbeat(s)
           \/ LoopEnds(s) \/ SendAck(s) \/ ExitCheck(s)
           \/ RegisterAgentWithCertificate(s) /\ cert[s] = "other"
  <2>1. /\ UNCHANGED <<sessions, status, dbErrors, adminOps>>
        /\ pc[s] \notin {"reg_swap", "reg_store", "offline"}
    BY <1>7 DEF Accept, RecvRegister, RecvRejected, RecvHeartbeat, ReadFrame, LoopEnds, SendAck, ExitCheck, RegisterAgentWithCertificate
  <2> QED
    BY <2>1, OthersStay, StrayStays DEF Attended
<1>8. CASE PeerCloses(s)
  BY <1>8 DEF PeerCloses, Attended
<1> QED
  BY <1>1, <1>2, <1>3, <1>4, <1>5, <1>6, <1>7, <1>8 DEF Handler, Proceed

-----------------------------------------------------------------------------
(* Every step keeps the invariant.                                         *)
LEMMA IndKept ==
    ASSUME IndInv, [Next]_vars
    PROVE  IndInv'
<1> USE DEF IndInv
<1>1. TypeOK' /\ BoundInv' /\ AckInv'
  BY TypeKept, BoundKept, AckKept
<1>2. ASSUME NEW s \in Sessions, Handler(s), ~overlap' PROVE Serial' /\ Attended'
  <2>1. ~overlap
    BY <1>2, Alone
  <2> QED
    BY <1>2, <2>1, SerialKept, AttendedKept
<1>3. ASSUME Admin, ~overlap' PROVE Serial' /\ Attended'
  <2>1. ~overlap /\ UNCHANGED <<conn, pc, stray, AgentID, acked, sessions>>
    BY <1>3, AdminStays
  <2>2. adminOps' # 0
    BY <1>3 DEF Admin, DeleteAgent, UpdateStatus, AdminOp, TypeOK
  <2> QED
    BY <2>1, <2>2 DEF Serial, Attended, Busy, Live
<1>4. ASSUME UNCHANGED vars, ~overlap' PROVE Serial' /\ Attended'
  BY <1>4 DEF vars, Serial, Attended, Busy, Live
<1> QED
  BY <1>1, <1>2, <1>3, <1>4 DEF Next, Handler, Admin

(* Only sessions whose certificate was checked get to the map and the row, *)
(* and as long as handlers do not overlap the map holds the one usable     *)
(* session and an online row is attended to, whatever the number of        *)
(* sessions, failing statements and operator requests (agent_session.go).  *)
THEOREM Invariance == Spec => []IndInv
<1>1. Init => IndInv
  <2> SUFFICES ASSUME Init PROVE IndInv
    OBVIOUS
  <2>1. Flags
    BY DEF Init, Flags
  <2>2. TypeOK
    BY <2>1, SessionAssumption DEF Init, TypeOK, Labels
  <2>3. BoundInv /\ AckInv
    BY SessionAssumption DEF Init, BoundInv, AckInv, Registering
  <2>4. Serial /\ Attended
    BY SessionAssumption DEF Init, Serial, Attended, Busy, Live
  <2> QED
    BY <2>2, <2>3, <2>4 DEF IndInv
<1>2. IndInv /\ [Next]_vars => IndInv'
  BY IndKept
<1> QED
  BY <1>1, <1>2, PTL DEF Spec

(* Map, connections and status column agree as long as the sessions'       *)
(* handlers do not overlap (handleRegister, Run's cleanup).                *)
THEOREM SerialIsSound == Spec => []SerialSound
<1>1. ASSUME IndInv PROVE SerialSound
  <2>1. TypeOK
    BY <1>1 DEF IndInv
  <2>2. ASSUME \A s \in Sessions : pc[s] \in {"idle", "done"}, ~overlap, ~stray, dbErrors = 0, adminOps = 0
        PROVE  status # "online"
    <3>1. Serial /\ Attended
      BY <1>1, <2>2 DEF IndInv
    <3>2. sessions \notin Sessions
      BY <2>2, <3>1 DEF Serial
    <3> QED
      BY <2>1, <2>2, <3>1, <3>2 DEF Attended, TypeOK
  <2>3. ASSUME ~overlap, NEW s \in Sessions, NEW o \in Sessions, Live(s), Live(o)
        PROVE  s = o
    BY <1>1, <2>3 DEF IndInv, Serial
  <2> QED
    BY <2>1, <2>2, <2>3 DEF SerialSound
<1> QED
  BY <1>1, Invariance, PTL

(* Only the cleanup of the agent's last usable session writes offline, as  *)
(* long as handlers do not overlap (Run's cleanup, SetOffline).            *)
THEOREM OfflineIsLast == Spec => SerialOffline
<1>1. ASSUME IndInv, [Next]_vars PROVE OfflineStep \/ UNCHANGED vars
  <2> SUFFICES ASSUME ~overlap', NEW s \in Sessions, pc[s] = "offline",
                      NEW o \in Sessions \ {s}, Live(o), ~UNCHANGED vars
               PROVE  FALSE
    BY DEF OfflineStep
  <2>1. ~overlap
    BY <1>1, Alone, AdminStays DEF Next, Handler, Admin, IndInv
  <2>2. sessions = NoSession /\ sessions = o
    BY <1>1, <2>1 DEF IndInv, Serial
  <2> QED
    BY <2>2, SessionAssumption
<1> QED
  BY <1>1, Invariance, PTL DEF Spec, SerialOffline

(* A session whose certificate has not passed the check changes neither    *)
(* the map nor another connection, and the row by no other step than a     *)
(* heartbeat (handleRegister, RegisterAgentWithCertificate, the cleanup in *)
(* Run), overlapping handlers or not.                                      *)
THEOREM RefusedStaysInert == Spec => RefusedIsInert
<1>1. ASSUME IndInv, [Next]_vars PROVE InertStep \/ UNCHANGED vars
  <2> SUFFICES ASSUME NEW s \in Sessions, pc[s] # pc'[s], ~bound'[s]
               PROVE  /\ UNCHANGED sessions
                      /\ status' # status => pc[s] = "beat" /\ status' = "online"
                      /\ \A o \in Sessions \ {s} : conn'[o] = conn[o]
    BY DEF InertStep
  <2>1. TypeOK /\ BoundInv
    BY <1>1 DEF IndInv
  <2>2. ~UNCHANGED vars
    BY DEF vars
  <2>3. ~Admin
    BY AdminStays
  <2>4. Handler(s)
    BY <1>1, <2>1, <2>2, <2>3, OthersStay DEF Next, Handler, Admin
  <2> USE DEF TypeOK, Flags, Goto, Close
  <2>5. CASE RegisterAgentWithCertificate(s)
    BY <2>1, <2>5 DEF RegisterAgentWithCertificate
  <2>6. CASE SwapOldSession(s) \/ StoreSession(s) \/ ExitDelete(s)
             \/ SetOffline(s) \/ OfflineDbError(s)
    BY <2>1, <2>6 DEF SwapOldSession, StoreSession, ExitDelete, SetOffline, OfflineDbError, BoundInv
  <2>7. CASE \/ Accept(s) \/ PeerCloses(s) \/ RecvRegister(s) \/ RecvRejected(s) \/ RecvHeartbeat(s)
             \/ LoopEnds(s) \/ SendAck(s) \/ ExitCheck(s)
             \/ RegisterDbError(s)
    BY <2>1, <2>7 DEF Accept, PeerCloses, RecvRegister, RecvRejected, RecvHeartbeat, ReadFrame, LoopEnds,
                      SendAck, ExitCheck, RegisterDbError
  <2>8. CASE UpdateHeartbeat(s) \/ HeartbeatDbError(s)
    BY <2>1, <2>8 DEF UpdateHeartbeat, HeartbeatDbError, Update
  <2> QED
    BY <2>4, <2>5, <2>6, <2>7, <2>8 DEF Handler, Proceed
<1> QED
  BY <1>1, Invariance, PTL DEF Spec, RefusedIsInert


=============================================================================
