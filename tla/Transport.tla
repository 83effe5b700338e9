------------------------------ MODULE Transport ------------------------------
(***************************************************************************)
(* The agent's connection to the collector: the TCP/TLS client             *)
(* (Agent/src/transport/tcp_client.c), the heartbeat thread                *)
(* (transport/heartbeat.c) and the sending side of the main thread         *)
(* (main.c: transport start-up, send_event_with_reconnect, shutdown).      *)
(*                                                                         *)
(* Two threads share one client under conn_lock.  A send holds the lock    *)
(* from the first to the last line and is one step; ig_tcp_reconnect holds *)
(* it through every retry, every sleep and the wait for the REGISTER ACK,  *)
(* so those are steps of their own.  The collector is the peer: it checks  *)
(* the sequence number of each frame (collector/agent_session.go, Run).    *)
(***************************************************************************)
EXTENDS Integers

CONSTANTS
    MaxRetries,       \* IG_RECONNECT_MAX_RETRIES
    MaxSendFailures,  \* IG_SEND_MAX_RETRIES
    SeqMod,           \* 2^32: seq_num is a uint32_t
    MaxFaults,        \* bound of the model: refused connects, broken links,
                      \* rejected registrations, interrupted reads
    MaxSilent         \* bound of the model: REGISTERs the collector ignores

ASSUME TransportAssumption ==
    /\ MaxRetries \in Nat \ {0}
    /\ MaxSendFailures \in Nat \ {0}
    /\ SeqMod \in Nat /\ SeqMod > 1
    /\ MaxFaults \in Nat /\ MaxSilent \in Nat

Threads == {"main", "hb"}

VARIABLES
    \* ig_tcp_client_t
    conn_lock,       \* the thread that holds conn_lock, or "free"
    state,           \* IG_CONN_DISCONNECTED or IG_CONN_CONNECTED
    seq_num,
    send_failures,   \* consecutive write failures
    \* the threads
    pc,
    tries,           \* i of the retry loop in ig_tcp_reconnect
    g_transport_ok,
    hb_running,      \* hb_arg.running
    g_running,
    \* the connection and the collector's end of it
    link,            \* "none", "up", "lost" (writes vanish), "broken" (writes fail)
    peer,            \* [first, registered, answer, lastSeq] of the current session
    \* history and bounds
    retry_promised,  \* "will retry" was logged and nothing was tried since
    faults,
    silents

clientVars == <<conn_lock, state, seq_num, send_failures>>
threadVars == <<pc, tries, g_transport_ok, hb_running, g_running>>
netVars == <<link, peer>>
auxVars == <<retry_promised, faults, silents>>
vars == <<conn_lock, state, seq_num, send_failures, pc, tries, g_transport_ok,
          hb_running, g_running, link, peer, retry_promised, faults, silents>>

NoPeer == [first |-> "none", registered |-> FALSE, answer |-> "none", lastSeq |-> 0]

Init ==
    /\ conn_lock = "free" /\ state = "DISCONNECTED"
    /\ seq_num = 0 /\ send_failures = 0
    /\ pc = [main |-> "start", hb |-> "off"]
    /\ tries = [t \in Threads |-> 0]
    /\ g_transport_ok = FALSE /\ hb_running = FALSE /\ g_running = TRUE
    /\ link = "none" /\ peer = NoPeer
    /\ retry_promised = FALSE /\ faults = 0 /\ silents = 0

Goto(t, label) == pc' = [pc EXCEPT ![t] = label]
Fault == faults < MaxFaults /\ faults' = faults + 1

-----------------------------------------------------------------------------
(* The client's building blocks.                                           *)

(* ig_tcp_disconnect_locked.                                               *)
Disconnect ==
    /\ state' = "DISCONNECTED" /\ link' = "none"
    /\ seq_num' = 0 /\ send_failures' = 0
    /\ peer' = NoPeer

(* The success end of ig_tcp_connect_locked: a new session at the peer.    *)
Connected ==
    /\ state' = "CONNECTED" /\ link' = "up"
    /\ seq_num' = 0 /\ send_failures' = 0
    /\ peer' = NoPeer

next_seq == (seq_num + 1) % SeqMod

(* What the collector does with a frame: a gap in the sequence numbers     *)
(* closes the session, unless the last number was 0.                       *)
SeqAccepted(seq) == peer.lastSeq > 0 => seq = (peer.lastSeq + 1) % SeqMod

PeerTakes(type, seq) ==
    /\ peer' = [peer EXCEPT !.first = IF @ = "none" THEN type ELSE @,
                            !.lastSeq = seq]
    /\ link' = IF SeqAccepted(seq) THEN "up" ELSE "broken"

(* ig_tcp_send_frame_locked with a connection: the sequence number is used *)
(* whether or not the write succeeds.  After a failed SSL_write the        *)
(* connection stays unusable.                                              *)
WriteOK(type) ==
    /\ link \in {"up", "lost"}
    /\ seq_num' = next_seq
    /\ send_failures' = 0
    /\ IF link = "up" THEN PeerTakes(type, next_seq) ELSE UNCHANGED netVars

WriteFailsTransiently ==   \* mutated form: the connection survives a failed write
    /\ link \in {"up", "broken"}
    /\ seq_num' = next_seq
    /\ UNCHANGED netVars

WriteFails ==
    /\ link = "broken"
    /\ seq_num' = next_seq
    /\ UNCHANGED netVars

CountFailure ==      \* return -1
    /\ send_failures + 1 < MaxSendFailures
    /\ send_failures' = send_failures + 1

FailureLimit ==      \* return -2
    /\ send_failures + 1 >= MaxSendFailures
    /\ send_failures' = 0

(* ig_tcp_send_frame, with the label thread t goes to on 0, -1 and -2.  A  *)
(* -1 is logged as "will retry" by the callers that look at the result.    *)
SendFrame(t, type, ok, failed, limit, logs) ==
    /\ conn_lock = "free"
    /\ \/ /\ state = "CONNECTED"
          /\ WriteOK(type)
          /\ Goto(t, ok)
          /\ retry_promised' = FALSE
       \/ /\ state = "CONNECTED"
          /\ WriteFails
          /\ CountFailure
          /\ Goto(t, failed)
          /\ retry_promised' = logs
       \/ /\ state = "CONNECTED"
          /\ WriteFails
          /\ FailureLimit
          /\ Goto(t, limit)
          /\ retry_promised' = FALSE
       \/ /\ state = "DISCONNECTED"       \* nothing is tried or counted
          /\ Goto(t, failed)
          /\ retry_promised' = (retry_promised \/ logs)
          /\ UNCHANGED <<seq_num, send_failures, netVars>>
    /\ UNCHANGED <<conn_lock, state, tries, hb_running, g_running, faults, silents>>

-----------------------------------------------------------------------------
(* ig_tcp_reconnect, run by either thread.                                 *)

(* It drops whatever connection there is, even one the other thread has    *)
(* just brought up.                                                        *)
ReconnectBegin(t) ==
    /\ pc[t] = "reconnect"
    /\ conn_lock = "free"
    /\ conn_lock' = t
    /\ Disconnect
    /\ tries' = [tries EXCEPT ![t] = 0]
    /\ Goto(t, "try")
    /\ UNCHANGED <<g_transport_ok, hb_running, g_running, auxVars>>

TryConnectUnlocks(t) ==   \* mutated form: conn_lock released before REGISTER
    /\ pc[t] = "try"
    /\ tries[t] < MaxRetries
    /\ retry_promised' = FALSE
    /\ \/ Connected /\ Goto(t, "reg") /\ UNCHANGED <<tries, faults>>
       \/ /\ Fault
          /\ tries' = [tries EXCEPT ![t] = @ + 1]
          /\ UNCHANGED <<state, seq_num, send_failures, netVars, pc>>
    /\ conn_lock' = "free"
    /\ UNCHANGED <<g_transport_ok, hb_running, g_running, silents>>

TryConnect(t) ==
    /\ pc[t] = "try"
    /\ tries[t] < MaxRetries
    /\ retry_promised' = FALSE
    /\ \/ Connected /\ Goto(t, "reg") /\ UNCHANGED <<tries, faults>>
       \/ /\ Fault
          /\ tries' = [tries EXCEPT ![t] = @ + 1]
          /\ UNCHANGED <<state, seq_num, send_failures, netVars, pc>>
    /\ UNCHANGED <<conn_lock, g_transport_ok, hb_running, g_running, silents>>

(* The retries are used up: the heartbeat thread ends for good, the main   *)
(* thread leaves g_transport_ok at 0.                                      *)
GiveUpLocked(t) ==   \* mutated form: the error return keeps conn_lock
    /\ pc[t] = "try"
    /\ tries[t] = MaxRetries
    /\ Goto(t, IF t = "hb" THEN "ended" ELSE "loop")
    /\ hb_running' = (hb_running /\ t # "hb")
    /\ UNCHANGED <<clientVars, tries, g_transport_ok, g_running, netVars, auxVars>>

GiveUp(t) ==
    /\ pc[t] = "try"
    /\ tries[t] = MaxRetries
    /\ conn_lock' = "free"
    /\ Goto(t, IF t = "hb" THEN "ended" ELSE "loop")
    /\ hb_running' = (hb_running /\ t # "hb")
    /\ UNCHANGED <<state, seq_num, send_failures, tries, g_transport_ok, g_running,
                   netVars, auxVars>>

(* ig_tcp_register_internal_locked: REGISTER goes out ...                  *)
RegisterSend(t) ==
    /\ pc[t] = "reg"
    /\ WriteOK("REGISTER")
    /\ Goto(t, "ack")
    /\ UNCHANGED <<conn_lock, state, tries, g_transport_ok, hb_running, g_running, auxVars>>

(* ... and the ACK is read with no timeout, conn_lock held throughout.     *)
AckReceivedFlagLost(t) ==   \* mutated form: g_transport_ok is not set again
    /\ pc[t] = "ack"
    /\ peer.answer = "ack"
    /\ conn_lock' = "free"
    /\ IF t = "main" /\ pc.hb = "off"
       THEN pc' = [main |-> "loop", hb |-> "sleep"] /\ hb_running' = TRUE
       ELSE Goto(t, IF t = "main" THEN "recheck" ELSE "sleep") /\ UNCHANGED hb_running
    /\ UNCHANGED <<state, seq_num, send_failures, tries, g_transport_ok, g_running,
                   netVars, auxVars>>

AckReceived(t) ==
    /\ pc[t] = "ack"
    /\ peer.answer = "ack"
    /\ conn_lock' = "free"
    /\ g_transport_ok' = (g_transport_ok \/ t = "main")
    /\ \/ /\ t = "main" /\ pc.hb = "off"       \* start-up: the heartbeat starts
          /\ pc' = [main |-> "loop", hb |-> "sleep"]
          /\ hb_running' = TRUE
       \/ /\ t = "main" /\ pc.hb # "off"       \* the event is sent once more
          /\ Goto(t, "recheck")
          /\ UNCHANGED hb_running
       \/ /\ t = "hb"
          /\ Goto(t, "sleep")
          /\ UNCHANGED hb_running
    /\ UNCHANGED <<state, seq_num, send_failures, tries, g_running, netVars, auxVars>>

(* The connection died while REGISTER was written or its ACK was awaited,  *)
(* or a signal interrupted the read: the next try follows.                 *)
RegisterFails(t) ==
    /\ pc[t] \in {"reg", "ack"}
    /\ \/ link = "broken" /\ UNCHANGED faults
       \/ pc[t] = "ack" /\ Fault
    /\ Disconnect
    /\ tries' = [tries EXCEPT ![t] = @ + 1]
    /\ Goto(t, "try")
    /\ UNCHANGED <<conn_lock, g_transport_ok, hb_running, g_running, retry_promised, silents>>

-----------------------------------------------------------------------------
(* The main thread.                                                        *)

(* Start-up: ig_tcp_connect, and ig_tcp_reconnect when it fails.           *)
MainConnect ==
    /\ pc.main = "start"
    /\ \/ Connected /\ Goto("main", "init_reg") /\ UNCHANGED faults
       \/ /\ Fault
          /\ Goto("main", "reconnect")
          /\ UNCHANGED <<state, seq_num, send_failures, netVars>>
    /\ UNCHANGED <<conn_lock, tries, g_transport_ok, hb_running, g_running,
                   retry_promised, silents>>

(* Start-up: ig_tcp_register.  When it fails the connection stays open,    *)
(* g_transport_ok stays 0 and no heartbeat thread is created.              *)
MainRegisterSend ==
    /\ pc.main = "init_reg"
    /\ WriteOK("REGISTER")
    /\ conn_lock' = "main"
    /\ Goto("main", "init_ack")
    /\ UNCHANGED <<state, tries, g_transport_ok, hb_running, g_running, auxVars>>

MainRegistered ==
    /\ pc.main = "init_ack"
    /\ peer.answer = "ack"
    /\ conn_lock' = "free"
    /\ g_transport_ok' = TRUE
    /\ hb_running' = TRUE
    /\ pc' = [main |-> "loop", hb |-> "sleep"]
    /\ UNCHANGED <<state, seq_num, send_failures, tries, g_running, netVars, auxVars>>

MainRegisterFails ==
    /\ \/ /\ pc.main = "init_reg"
          /\ WriteFails /\ (CountFailure \/ FailureLimit)
          /\ UNCHANGED faults
       \/ /\ pc.main = "init_ack"
          /\ (link = "broken" /\ UNCHANGED faults) \/ Fault
          /\ UNCHANGED <<seq_num, send_failures, netVars>>
    /\ conn_lock' = "free"
    /\ Goto("main", "loop")
    /\ UNCHANGED <<state, tries, g_transport_ok, hb_running, g_running,
                   retry_promised, silents>>

(* process_event hands an event to send_event_with_reconnect, which drops  *)
(* it at once when g_transport_ok is 0.                                    *)
EventArrives ==
    /\ pc.main = "loop"
    /\ g_running
    /\ g_transport_ok
    /\ Goto("main", "check")
    /\ UNCHANGED <<clientVars, tries, g_transport_ok, hb_running, g_running, netVars, auxVars>>

(* ig_tcp_send_event reads cli->state without the lock before it sends.    *)
MainCheck ==
    /\ \/ /\ pc.main \in {"check", "recheck"}
          /\ state = "CONNECTED"
          /\ Goto("main", IF pc.main = "check" THEN "send" ELSE "resend")
          /\ UNCHANGED retry_promised
       \/ /\ pc.main \in {"check", "recheck"}
          /\ state = "DISCONNECTED"
          /\ Goto("main", "loop")
          /\ retry_promised' = (retry_promised \/ pc.main = "check")
    /\ UNCHANGED <<clientVars, tries, g_transport_ok, hb_running, g_running, netVars,
                   faults, silents>>

MainSend ==
    /\ pc.main = "send"
    /\ SendFrame("main", "FILE_EVENT", "loop", "loop", "reconnect", TRUE)
    /\ g_transport_ok' = (pc'.main # "reconnect")

MainResend ==
    /\ pc.main = "resend"
    /\ SendFrame("main", "FILE_EVENT", "loop", "loop", "loop", FALSE)
    /\ UNCHANGED g_transport_ok

(* Shutdown: stop the heartbeat, wait for its thread, close the connection.*)
MainStopForgets ==   \* mutated form: hb_arg.running is left at 1
    /\ pc.main = "loop"
    /\ ~g_running
    /\ Goto("main", "join")
    /\ UNCHANGED <<clientVars, tries, g_transport_ok, hb_running, g_running, netVars, auxVars>>

MainStop ==
    /\ pc.main = "loop"
    /\ ~g_running
    /\ hb_running' = FALSE
    /\ Goto("main", "join")
    /\ UNCHANGED <<clientVars, tries, g_transport_ok, g_running, netVars, auxVars>>

MainJoin ==
    /\ pc.main = "join"
    /\ pc.hb \in {"off", "ended"}
    /\ Goto("main", "close")
    /\ UNCHANGED <<clientVars, tries, g_transport_ok, hb_running, g_running, netVars, auxVars>>

MainClose ==
    /\ pc.main = "close"
    /\ conn_lock = "free"
    /\ Disconnect
    /\ Goto("main", "ended")
    /\ UNCHANGED <<conn_lock, tries, g_transport_ok, hb_running, g_running, auxVars>>

(* The heartbeat thread: sleep, look at hb->running, send.                 *)
HbWake ==
    /\ pc.hb = "sleep"
    /\ Goto("hb", IF hb_running THEN "beat" ELSE "ended")
    /\ UNCHANGED <<clientVars, tries, g_transport_ok, hb_running, g_running, netVars, auxVars>>

HbSend ==
    /\ pc.hb = "beat"
    /\ SendFrame("hb", "HEARTBEAT", "sleep", "sleep", "reconnect", TRUE)
    /\ UNCHANGED g_transport_ok

-----------------------------------------------------------------------------
(* The collector and the network.                                          *)

Awaiting == link = "up" /\ peer.first = "REGISTER" /\ peer.answer = "none"

PeerAcks ==
    /\ Awaiting
    /\ peer' = [peer EXCEPT !.registered = TRUE, !.answer = "ack"]
    /\ UNCHANGED <<clientVars, threadVars, link, auxVars>>

(* The certificate is refused: the collector closes the connection.        *)
PeerRejects ==
    /\ Awaiting
    /\ Fault
    /\ link' = "broken"
    /\ UNCHANGED <<clientVars, threadVars, peer, retry_promised, silents>>

(* REGISTER does not decode or the database fails: handleRegister returns  *)
(* without an answer and leaves the connection open.                       *)
PeerSilent ==
    /\ Awaiting
    /\ silents < MaxSilent
    /\ silents' = silents + 1
    /\ peer' = [peer EXCEPT !.answer = "silent"]
    /\ UNCHANGED <<clientVars, threadVars, link, retry_promised, faults>>

LinkFails ==
    /\ link = "up"
    /\ Fault
    /\ link' \in {"lost", "broken"}
    /\ UNCHANGED <<clientVars, threadVars, peer, retry_promised, silents>>

(* TCP notices that the other end is gone.                                 *)
LinkTimesOut ==
    /\ link = "lost"
    /\ link' = "broken"
    /\ UNCHANGED <<clientVars, threadVars, peer, auxVars>>

SigTerm ==
    /\ g_running
    /\ g_running' = FALSE
    /\ UNCHANGED <<clientVars, pc, tries, g_transport_ok, hb_running, netVars, auxVars>>

-----------------------------------------------------------------------------
ReconnectStep(t) ==
    \/ ReconnectBegin(t) \/ TryConnect(t) \/ GiveUp(t)
    \/ RegisterSend(t) \/ AckReceived(t) \/ RegisterFails(t)

MainStep ==
    \/ MainConnect \/ MainRegisterSend \/ MainRegistered \/ MainRegisterFails
    \/ MainCheck \/ MainSend \/ MainResend
    \/ MainStop \/ MainJoin \/ MainClose
    \/ ReconnectStep("main")

HbStep == HbWake \/ HbSend \/ ReconnectStep("hb")

NetStep == PeerAcks \/ PeerRejects \/ PeerSilent \/ LinkFails \/ LinkTimesOut

Next == MainStep \/ HbStep \/ EventArrives \/ NetStep \/ SigTerm

Spec == Init /\ [][Next]_vars

(* Both threads run, TCP notices a dead peer, and a collector that has a   *)
(* REGISTER to answer answers it (unless it is silent for good).  Events,  *)
(* faults and signals need not happen.                                     *)
Fairness ==
    /\ WF_vars(MainStep) /\ WF_vars(HbStep)
    /\ WF_vars(LinkTimesOut) /\ WF_vars(PeerAcks)

FairSpec == Spec /\ Fairness

-----------------------------------------------------------------------------
Labels == {"start", "init_reg", "init_ack", "loop", "check", "send", "recheck",
           "resend", "reconnect", "try", "reg", "ack", "join", "close", "ended",
           "off", "sleep", "beat"}

Flags ==
    /\ g_transport_ok \in BOOLEAN /\ hb_running \in BOOLEAN /\ g_running \in BOOLEAN
    /\ retry_promised \in BOOLEAN

(* Every variable has its type; send_failures stays below its limit.       *)
TypeOK ==
    /\ conn_lock \in Threads \cup {"free"}
    /\ state \in {"DISCONNECTED", "CONNECTED"}
    /\ seq_num \in 0 .. SeqMod - 1
    /\ send_failures \in 0 .. MaxSendFailures - 1
    /\ pc \in [Threads -> Labels]
    /\ tries \in [Threads -> 0 .. MaxRetries]
    /\ link \in {"none", "up", "lost", "broken"}
    /\ peer \in [first : {"none", "REGISTER", "HEARTBEAT", "FILE_EVENT"},
                 registered : BOOLEAN,
                 answer : {"none", "ack", "silent"},
                 lastSeq : 0 .. SeqMod - 1]
    /\ Flags
    /\ faults \in 0 .. MaxFaults /\ silents \in 0 .. MaxSilent

(* The sequence number of the client and the one the collector saw last    *)
(* agree on every working connection, across reconnects by two threads,    *)
(* failed writes that consume a number, and the wrap of the uint32_t: the  *)
(* collector never closes a session for a gap the agent made.              *)
SeqInStep == link = "up" => peer.lastSeq = seq_num

(* The first frame of every session is REGISTER: no heartbeat or event of  *)
(* the other thread gets between the connect and the REGISTER of a         *)
(* reconnect (the collector closes a session that starts otherwise).  And  *)
(* a connection that other threads may use (conn_lock free, heartbeat      *)
(* thread started) is registered with the collector, however many connects *)
(* and registrations failed before it: a try that fails half-way leaves    *)
(* nothing behind.                                                         *)
RegisterFirst ==
    /\ peer.first \in {"none", "REGISTER"}
    /\ (conn_lock = "free" /\ pc.hb # "off" /\ state = "CONNECTED" /\ link = "up")
           => peer.registered

(* The sections that hold conn_lock, over several steps.                   *)
Locked(t) == pc[t] \in {"try", "reg", "ack", "init_ack"}

(* A thread holds conn_lock exactly in those sections: every way out of a  *)
(* reconnect or of the first registration gives it back.                   *)
LockInv ==
    /\ TypeOK
    /\ \A t \in Threads : Locked(t) <=> conn_lock = t

Healthy == state = "CONNECTED" /\ link = "up" /\ peer.registered

(* What the code cannot get out of by itself: a thread that used up its    *)
(* retries, and a read of the REGISTER ACK that no answer ends.            *)
GaveUp ==
    \/ pc.hb = "ended" /\ tries.hb = MaxRetries
    \/ pc.main = "loop" /\ ~g_transport_ok /\ tries.main = MaxRetries
Blocked ==
    \E t \in Threads : pc[t] \in {"ack", "init_ack"} /\ link = "up" /\ peer.answer = "silent"

(* When the outages end before the retries of a reconnect do, an agent     *)
(* whose heartbeat thread was started ends up for good with a registered,  *)
(* working connection that the main thread uses, although two threads      *)
(* reconnect it, each tearing down what the other has built.               *)
Recovers ==
    <>hb_running =>
        <>[](~g_running \/ GaveUp \/ Blocked \/ (Healthy /\ g_transport_ok))

(* "will retry" is kept: when a failed send was logged so, a later write   *)
(* gets through or a reconnect is tried, or the agent stops.               *)
RetryHappens == retry_promised ~> (~retry_promised \/ ~g_running)

(* SIGTERM ends the agent: the join of the heartbeat thread and the close  *)
(* of the connection return, even from the middle of a reconnect that uses *)
(* up its retries, unless a REGISTER is never answered.                    *)
StopCompletes == ~g_running ~> (pc.main = "ended" \/ Blocked)

==============================================================================
