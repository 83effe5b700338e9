--------------------------- MODULE TransportProofs ---------------------------
(***************************************************************************)
(* Why two threads may reconnect one connection, for any number of         *)
(* retries, faults and silent registrations and any width of seq_num:      *)
(* whoever brings a connection up holds conn_lock until the collector has  *)
(* acknowledged REGISTER or the connection is down again, and nobody sends *)
(* before the heartbeat thread exists.                                     *)
(***************************************************************************)
EXTENDS Transport, TLAPS

HbLabels == {"off", "sleep", "beat", "reconnect", "try", "reg", "ack", "ended"}
MainLabels == Labels \ {"off", "sleep", "beat"}

(* Where the threads are: the first registration is over before there is a *)
(* heartbeat thread, and main sends only when there is one.                *)
Control ==
    /\ pc.main \in MainLabels /\ pc.hb \in HbLabels
    /\ pc.main \in {"start", "init_reg", "init_ack"} => pc.hb = "off"
    /\ g_transport_ok => pc.hb # "off"
    /\ pc.main \in {"check", "send", "recheck", "resend"} => pc.hb # "off"
    /\ \A t \in Threads : pc[t] \in {"reg", "ack"} => tries[t] < MaxRetries

(* What each end of the connection knows.                                  *)
Session ==
    /\ state = "DISCONNECTED" <=> link = "none"
    /\ \A t \in Threads : pc[t] = "try" => state = "DISCONNECTED"
    /\ peer.answer = "ack" => peer.registered
    /\ peer.registered => peer.first = "REGISTER"

IndInv == LockInv /\ Control /\ Session /\ RegisterFirst /\ SeqInStep

-----------------------------------------------------------------------------
(* The flags stay Boolean.                                                 *)
LEMMA FlagsKept == Flags /\ [Next]_vars => Flags'
<1> SUFFICES ASSUME Flags, [Next]_vars PROVE Flags'
  OBVIOUS
<1> USE DEF Flags, auxVars, threadVars
<1>1. ASSUME NEW t \in Threads, ReconnectStep(t) PROVE Flags'
  BY <1>1 DEF ReconnectStep, ReconnectBegin, TryConnect, GiveUp, RegisterSend, AckReceived,
              RegisterFails
<1>2. CASE MainStep
  BY <1>1, <1>2 DEF MainStep, MainConnect, MainRegisterSend, MainRegistered,
     MainRegisterFails, MainCheck, MainSend, MainResend, SendFrame, MainStop, MainJoin,
     MainClose, Threads
<1>3. CASE HbStep
  BY <1>1, <1>3 DEF HbStep, HbWake, HbSend, SendFrame, Threads
<1>4. CASE EventArrives \/ NetStep \/ SigTerm
  BY <1>4 DEF EventArrives, NetStep, PeerAcks, PeerRejects, PeerSilent, LinkFails,
              LinkTimesOut, SigTerm
<1>5. CASE UNCHANGED vars
  BY <1>5 DEF vars
<1> QED
  BY <1>2, <1>3, <1>4, <1>5 DEF Next

(* The next sequence number is a uint32_t.                                 *)
LEMMA NextSeqType ==
    ASSUME seq_num \in 0 .. SeqMod - 1
    PROVE  next_seq \in 0 .. SeqMod - 1
BY TransportAssumption DEF next_seq

(* A session nothing was sent in yet.                                      *)
LEMMA NoPeerFacts ==
    /\ NoPeer \in [first : {"none", "REGISTER", "HEARTBEAT", "FILE_EVENT"},
                   registered : BOOLEAN, answer : {"none", "ack", "silent"},
                   lastSeq : 0 .. SeqMod - 1]
    /\ NoPeer.first = "none" /\ ~NoPeer.registered
    /\ NoPeer.answer = "none" /\ NoPeer.lastSeq = 0
BY TransportAssumption DEF NoPeer

(* What a frame does to a session, whether it is written or not: both ends *)
(* stay in step, a broken connection stays broken, and nothing that comes  *)
(* before REGISTER gets through.                                           *)
FrameSent ==
    /\ seq_num' \in 0 .. SeqMod - 1 /\ send_failures' \in 0 .. MaxSendFailures - 1
    /\ link' \in {"none", "up", "lost", "broken"}
    /\ (link' = "none") <=> (link = "none")
    /\ link' = "up" => link = "up" /\ peer'.lastSeq = seq_num'
    /\ peer' \in [first : {"none", "REGISTER"}, registered : BOOLEAN,
                  answer : {"none", "ack", "silent"}, lastSeq : 0 .. SeqMod - 1]
    /\ peer'.registered = peer.registered /\ peer'.answer = peer.answer
    /\ peer.first = "REGISTER" => peer'.first = "REGISTER"

(* A write that succeeds, of REGISTER or on a registered connection.       *)
LEMMA WriteOKSends ==
    ASSUME IndInv, NEW type \in {"REGISTER", "HEARTBEAT", "FILE_EVENT"}, WriteOK(type),
           type = "REGISTER" \/ (link = "up" => peer.registered)
    PROVE  FrameSent
<1> USE TransportAssumption DEF WriteOK, FrameSent, IndInv, LockInv, TypeOK, Session,
                                RegisterFirst
<1>1. next_seq \in 0 .. SeqMod - 1
  BY NextSeqType
<1>2. CASE link = "up"
  <2>1. /\ peer' = [peer EXCEPT !.first = IF @ = "none" THEN type ELSE @,
                               !.lastSeq = next_seq]
        /\ link' \in {"up", "broken"}
    BY <1>2 DEF PeerTakes
  <2>2. peer.first = "none" => type = "REGISTER"
    BY <1>2
  <2> QED
    <3>1. peer' \in [first : {"none", "REGISTER"}, registered : BOOLEAN,
                    answer : {"none", "ack", "silent"}, lastSeq : 0 .. SeqMod - 1]
      BY <1>1, <1>2, <2>1, <2>2
    <3>2. peer'.registered = peer.registered /\ peer'.answer = peer.answer
      BY <2>1
    <3>3. peer.first = "REGISTER" => peer'.first = "REGISTER"
      BY <2>1
    <3>4. seq_num' = next_seq /\ peer'.lastSeq = next_seq
      BY <2>1
    <3> QED
      BY <1>1, <1>2, <2>1, <3>1, <3>2, <3>3, <3>4
<1>3. CASE link # "up"
  BY <1>1, <1>3 DEF netVars, SeqInStep
<1> QED
  BY <1>2, <1>3

(* A write that fails uses up a number.                                    *)
LEMMA WriteFailsSends ==
    ASSUME IndInv, WriteFails, CountFailure \/ FailureLimit
    PROVE  FrameSent
<1>1. next_seq \in 0 .. SeqMod - 1
  BY NextSeqType DEF IndInv, LockInv, TypeOK
<1> QED
  BY <1>1, TransportAssumption
     DEF WriteFails, CountFailure, FailureLimit, netVars, FrameSent, IndInv, LockInv, TypeOK,
         RegisterFirst

(* ig_tcp_send_frame, once the heartbeat thread exists.                    *)
LEMMA SendFrameSends ==
    ASSUME IndInv, NEW t \in Threads, NEW type \in {"HEARTBEAT", "FILE_EVENT"},
           NEW ok, NEW failed, NEW limit, NEW logs \in BOOLEAN,
           pc.hb # "off", SendFrame(t, type, ok, failed, limit, logs)
    PROVE  FrameSent
<1>1. link = "up" => peer.registered
  BY DEF SendFrame, IndInv, RegisterFirst, Session, LockInv, TypeOK
<1>2. CASE WriteOK(type)
  BY <1>1, <1>2, WriteOKSends
<1>3. CASE WriteFails /\ (CountFailure \/ FailureLimit)
  BY <1>3, WriteFailsSends
<1>4. CASE UNCHANGED <<seq_num, send_failures, netVars>>
  BY <1>4 DEF netVars, FrameSent, IndInv, LockInv, TypeOK, SeqInStep, RegisterFirst
<1> QED
  BY <1>2, <1>3, <1>4 DEF SendFrame

-----------------------------------------------------------------------------
(* The steps of ig_tcp_reconnect keep the invariant.                       *)
LEMMA ReconnectKeeps ==
    ASSUME IndInv, Flags', NEW t \in Threads, ReconnectStep(t)
    PROVE  IndInv'
<1> USE TransportAssumption
    DEF IndInv, LockInv, TypeOK, Control, Session, RegisterFirst, SeqInStep, Locked,
        Threads, Labels, MainLabels, HbLabels, Goto, auxVars, netVars, clientVars
<1>1. CASE ReconnectBegin(t)
  BY <1>1, NoPeerFacts DEF ReconnectBegin, Disconnect
<1>2. CASE TryConnect(t)
  <2>1. CASE Connected
    BY <1>2, <2>1, NoPeerFacts DEF TryConnect, Connected
  <2>2. CASE ~Connected
    BY <1>2, <2>2 DEF TryConnect, Fault
  <2> QED
    BY <2>1, <2>2
<1>3. CASE GiveUp(t)
  BY <1>3 DEF GiveUp
<1>4. CASE RegisterSend(t)
  <2>1. FrameSent
    BY <1>4, WriteOKSends DEF RegisterSend
  <2> QED
    BY <1>4, <2>1 DEF RegisterSend, FrameSent, WriteOK
<1>5. CASE AckReceived(t)
  BY <1>5 DEF AckReceived
<1>6. CASE RegisterFails(t)
  BY <1>6, NoPeerFacts DEF RegisterFails, Disconnect, Fault
<1> QED
  BY <1>1, <1>2, <1>3, <1>4, <1>5, <1>6 DEF ReconnectStep

(* The steps of the main thread outside ig_tcp_reconnect.                  *)
LEMMA MainKeeps ==
    ASSUME IndInv, Flags', MainStep \/ EventArrives
    PROVE  IndInv'
<1> USE TransportAssumption
    DEF IndInv, LockInv, TypeOK, Control, Session, RegisterFirst, SeqInStep, Locked,
        Threads, Labels, MainLabels, HbLabels, Goto, auxVars, netVars, clientVars
<1>1. CASE MainConnect
  <2>1. CASE Connected
    BY <1>1, <2>1, NoPeerFacts DEF MainConnect, Connected, Fault
  <2>2. CASE ~Connected
    BY <1>1, <2>2 DEF MainConnect, Fault
  <2> QED
    BY <2>1, <2>2
<1>2. CASE MainRegisterSend
  <2>1. FrameSent
    BY <1>2, WriteOKSends DEF MainRegisterSend
  <2> QED
    BY <1>2, <2>1 DEF MainRegisterSend, FrameSent, WriteOK
<1>3. CASE MainRegistered
  BY <1>3 DEF MainRegistered
<1>4. CASE MainRegisterFails
  <2>1. CASE pc.main = "init_reg"
    <3>1. FrameSent
      BY <1>4, <2>1, WriteFailsSends DEF MainRegisterFails
    <3> QED
      BY <1>4, <2>1, <3>1 DEF MainRegisterFails, FrameSent
  <2>2. CASE pc.main = "init_ack"
    BY <1>4, <2>2 DEF MainRegisterFails, Fault
  <2> QED
    BY <1>4, <2>1, <2>2 DEF MainRegisterFails
<1>5. CASE MainCheck
  BY <1>5 DEF MainCheck
<1>6. CASE MainSend
  <2>1. FrameSent
    BY <1>6, SendFrameSends DEF MainSend
  <2> QED
    BY <1>6, <2>1 DEF MainSend, SendFrame, FrameSent
<1>7. CASE MainResend
  <2>1. FrameSent
    BY <1>7, SendFrameSends DEF MainResend
  <2> QED
    BY <1>7, <2>1 DEF MainResend, SendFrame, FrameSent
<1>8. CASE MainStop
  BY <1>8 DEF MainStop
<1>9. CASE MainJoin
  BY <1>9 DEF MainJoin
<1>10. CASE MainClose
  BY <1>10, NoPeerFacts DEF MainClose, Disconnect
<1>11. CASE EventArrives
  BY <1>11 DEF EventArrives
<1>12. CASE ReconnectStep("main")
  BY <1>12, ReconnectKeeps
<1> QED
  BY <1>1, <1>2, <1>3, <1>4, <1>5, <1>6, <1>7, <1>8, <1>9, <1>10, <1>11, <1>12 DEF MainStep

(* The steps of the heartbeat thread, the collector and the network.       *)
LEMMA OthersKeep ==
    ASSUME IndInv, Flags', HbStep \/ NetStep \/ SigTerm
    PROVE  IndInv'
<1> USE TransportAssumption
    DEF IndInv, LockInv, TypeOK, Control, Session, RegisterFirst, SeqInStep, Locked,
        Threads, Labels, MainLabels, HbLabels, Goto, auxVars, netVars, clientVars,
        threadVars
<1>1. CASE HbWake
  BY <1>1 DEF HbWake
<1>2. CASE HbSend
  <2>1. FrameSent
    BY <1>2, SendFrameSends DEF HbSend
  <2> QED
    BY <1>2, <2>1 DEF HbSend, SendFrame, FrameSent
<1>3. CASE ReconnectStep("hb")
  BY <1>3, ReconnectKeeps
<1>4. CASE PeerAcks
  BY <1>4 DEF PeerAcks, Awaiting
<1>5. CASE PeerRejects
  BY <1>5 DEF PeerRejects, Awaiting, Fault
<1>6. CASE PeerSilent
  BY <1>6 DEF PeerSilent, Awaiting
<1>7. CASE LinkFails
  BY <1>7 DEF LinkFails, Fault
<1>8. CASE LinkTimesOut
  BY <1>8 DEF LinkTimesOut
<1>9. CASE SigTerm
  BY <1>9 DEF SigTerm
<1> QED
  BY <1>1, <1>2, <1>3, <1>4, <1>5, <1>6, <1>7, <1>8, <1>9 DEF HbStep, NetStep

-----------------------------------------------------------------------------
(* The invariant of the connection: who holds conn_lock, where the threads *)
(* are and what the two ends know of each other, in every state.           *)
THEOREM Invariance == Spec => []IndInv
<1>1. Init => IndInv
  <2> USE DEF Init, Threads, Labels
  <2>1. Init => TypeOK
    <3>1. Init => Flags
      BY DEF Flags
    <3>2. Init => pc \in [Threads -> Labels]
      OBVIOUS
    <3> QED
      BY <3>1, <3>2, TransportAssumption, NoPeerFacts DEF TypeOK
  <2>2. Init => \A t \in Threads : Locked(t) <=> conn_lock = t
    BY DEF Locked
  <2>3. Init => Control
    BY DEF Control, MainLabels, HbLabels
  <2>4. Init => Session /\ RegisterFirst /\ SeqInStep
    BY NoPeerFacts DEF Session, RegisterFirst, SeqInStep
  <2> QED
    BY <2>1, <2>2, <2>3, <2>4 DEF IndInv, LockInv
<1>2. IndInv /\ [Next]_vars => IndInv'
  <2> SUFFICES ASSUME IndInv, [Next]_vars PROVE IndInv'
    OBVIOUS
  <2>1. CASE UNCHANGED vars
    BY <2>1, FlagsKept
       DEF vars, IndInv, LockInv, TypeOK, Control, Session, RegisterFirst, SeqInStep, Locked
  <2> QED
    BY <2>1, FlagsKept, MainKeeps, OthersKeep DEF Next, IndInv, LockInv, TypeOK
<1> QED
  BY <1>1, <1>2, PTL DEF Spec

(* conn_lock is held exactly in the sections of ig_tcp_reconnect and of    *)
(* the first registration, and every way out of them gives it back.        *)
THEOREM LockDiscipline == Spec => []LockInv
BY Invariance, PTL DEF IndInv

(* No frame of the other thread precedes REGISTER in a session, and a      *)
(* connection the threads share is registered.                             *)
THEOREM RegisterIsFirst == Spec => []RegisterFirst
BY Invariance, PTL DEF IndInv

(* The client and the collector agree on the sequence number of a working  *)
(* connection, the wrap of the uint32_t included.                          *)
THEOREM SequenceInStep == Spec => []SeqInStep
BY Invariance, PTL DEF IndInv

(* So the collector takes the next frame of either thread: it never closes *)
(* a session for a gap in the numbers (agent_session.go, Run).             *)
THEOREM NoGapIsMet == Spec => [](link = "up" => SeqAccepted(next_seq))
<1>1. SeqInStep => (link = "up" => SeqAccepted(next_seq))
  BY DEF SeqInStep, SeqAccepted, next_seq
<1> QED
  BY SequenceInStep, <1>1, PTL

=============================================================================
