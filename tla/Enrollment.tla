------------------------------ MODULE Enrollment ------------------------------
(***************************************************************************)
(* How a machine gets its certificate: the agent's enroll mode             *)
(* (Agent/src/enroll/enroll.c, main.c run_enroll_mode), the enrollment     *)
(* server and service (Backend/internal/enrollment/server.go, service.go)  *)
(* and the rows they keep (store/enrollment_store.go, agent_store.go).     *)
(*                                                                         *)
(* Each connection has a client process and a server goroutine that talk   *)
(* in lock step, so one slot per connection holds the frame under way.     *)
(* Goroutines interleave between database calls; a call that is one        *)
(* statement or one transaction is one step.  A certificate is named by    *)
(* the connection it was issued on, an agent id by its machine: the id is  *)
(* a hash of host name and address (GenerateAgentID).                      *)
(***************************************************************************)
EXTENDS Integers

CONSTANTS
    Conns, Tokens, Machines,
    TokenOf,       \* the enrollment id a connection presents
    MachineOf,     \* the machine it comes from
    None,
    MaxMishaps     \* bound of the model: failed statements, failed key generation,
                   \* crashes of the backend, files cut short, agents deleted

ASSUME EnrollmentAssumption ==
    /\ TokenOf \in [Conns -> Tokens]
    /\ MachineOf \in [Conns -> Machines]
    /\ None \notin Conns /\ None \notin Machines
    /\ "cut" \notin Conns /\ None # "cut"
    /\ MaxMishaps \in Nat

VARIABLES
    \* agent_enrollments
    status,      \* status[t], "absent" before the row is created
    agent_id,    \* agent_id[t], None for NULL
    expired,     \* expired[t]: now is past expires_at
    \* agents and agent_certificates
    agents,      \* machines that have a row
    certs,       \* certs[c]: "none" (no row), "active" or "revoked"
    \* one connection
    wire,        \* wire[c]: the frame under way
    server,      \* server[c]: where the goroutine is
    expected,    \* expected[c]: row.AgentID as GetPendingEnrollment read it
    client,      \* client[c]: where ig_enroll_execute is
    \* the machine's files: None, "cut" (cut short) or the issuing connection
    agent_crt, agent_key,
    \* history and bounds
    issued,      \* issued[c]: FinalizeEnrollmentIssue committed
    abandoned,   \* tokens whose claim nobody is going to release
    mishaps

tokenVars == <<status, agent_id, expired>>
certVars == <<agents, certs, issued>>
connVars == <<wire, server, expected, client>>
fileVars == <<agent_crt, agent_key>>
histVars == <<abandoned, mishaps>>
vars == <<status, agent_id, expired, agents, certs, wire, server, expected, client,
          agent_crt, agent_key, issued, abandoned, mishaps>>

Init ==
    /\ status = [t \in Tokens |-> "absent"]
    /\ agent_id = [t \in Tokens |-> None]
    /\ expired = [t \in Tokens |-> FALSE]
    /\ agents = {}
    /\ certs = [c \in Conns |-> "none"]
    /\ wire = [c \in Conns |-> "none"]
    /\ server = [c \in Conns |-> "idle"]
    /\ expected = [c \in Conns |-> None]
    /\ client = [c \in Conns |-> "idle"]
    /\ agent_crt = [m \in Machines |-> None]
    /\ agent_key = [m \in Machines |-> None]
    /\ issued = [c \in Conns |-> FALSE]
    /\ abandoned = {} /\ mishaps = 0

Mishap == mishaps < MaxMishaps /\ mishaps' = mishaps + 1
Abandon(ts) == abandoned' = abandoned \cup ts

Server(c, label) == server' = [server EXCEPT ![c] = label]
Client(c, label) == client' = [client EXCEPT ![c] = label]
Frame(c, type) == wire' = [wire EXCEPT ![c] = type]

(* handleConn ends: writeError, or just a closed connection.               *)
Refuse(c) == Frame(c, "error") /\ Server(c, "ended")

-----------------------------------------------------------------------------
(* Tokens.                                                                 *)

(* enroll-token: with -agent-id or with -allow-unbound.                    *)
CreateEnrollment(t) ==
    /\ status[t] = "absent"
    /\ status' = [status EXCEPT ![t] = "pending"]
    /\ \E a \in Machines \cup {None} : agent_id' = [agent_id EXCEPT ![t] = a]
    /\ UNCHANGED <<expired, certVars, connVars, fileVars, histVars>>

Expire(t) ==
    /\ status[t] # "absent" /\ ~expired[t]
    /\ expired' = [expired EXCEPT ![t] = TRUE]
    /\ UNCHANGED <<status, agent_id, certVars, connVars, fileVars, histVars>>

-----------------------------------------------------------------------------
(* The client.                                                             *)

ig_enroll_needed(m) == agent_crt[m] = None \/ agent_key[m] = None

Running(c) == client[c] \notin {"idle", "ended"}

(* The operator starts enroll mode; it is interactive, one at a time on a  *)
(* machine.                                                                *)
SendHello(c) ==
    /\ client[c] = "idle"
    /\ \A d \in Conns : MachineOf[d] = MachineOf[c] => ~Running(d)
    /\ ig_enroll_needed(MachineOf[c])
    /\ Client(c, "run") /\ Server(c, "serving") /\ Frame(c, "hello")
    /\ UNCHANGED <<expected, tokenVars, certVars, fileVars, histVars>>

SendRequest(c) ==
    /\ client[c] = "run" /\ wire[c] = "challenge"
    /\ Frame(c, "request")
    /\ UNCHANGED <<server, expected, client, tokenVars, certVars, fileVars, histVars>>

RecvResponse(c) ==
    /\ client[c] = "run" /\ wire[c] = "response"
    /\ Client(c, "store_crt")
    /\ UNCHANGED <<wire, server, expected, tokenVars, certVars, fileVars, histVars>>

StoreCrt(c) ==
    /\ client[c] = "store_crt"
    /\ agent_crt' = [agent_crt EXCEPT ![MachineOf[c]] = c]
    /\ Client(c, "store_key")
    /\ UNCHANGED <<agent_key, wire, server, expected, tokenVars, certVars, histVars>>

StoreKey(c) ==
    /\ client[c] = "store_key"
    /\ agent_key' = [agent_key EXCEPT ![MachineOf[c]] = c]
    /\ Client(c, "send_ack")
    /\ UNCHANGED <<agent_crt, wire, server, expected, tokenVars, certVars, histVars>>

SendAck(c) ==
    /\ client[c] = "send_ack"
    /\ Frame(c, "ack") /\ Client(c, "ended")
    /\ UNCHANGED <<server, expected, tokenVars, certVars, fileVars, histVars>>

(* An error frame, a lost connection, a file that cannot be opened, ^C.    *)
ClientEnds(c) ==
    /\ Running(c)
    /\ Client(c, "ended")
    /\ UNCHANGED <<wire, server, expected, tokenVars, certVars, fileVars, histVars>>

(* write_text_file truncates the file before it writes.                    *)
StoreCutShort(c) ==
    /\ Mishap
    /\ \/ /\ client[c] = "store_crt"
          /\ agent_crt' = [agent_crt EXCEPT ![MachineOf[c]] = "cut"]
          /\ UNCHANGED agent_key
       \/ /\ client[c] = "store_key"
          /\ agent_key' = [agent_key EXCEPT ![MachineOf[c]] = "cut"]
          /\ UNCHANGED agent_crt
    /\ Client(c, "ended")
    /\ UNCHANGED <<wire, server, expected, tokenVars, certVars, abandoned>>

(* The operator removes both files, as enroll mode tells them to.          *)
RemoveFiles(m) ==
    /\ ~ig_enroll_needed(m)
    /\ agent_crt' = [agent_crt EXCEPT ![m] = None]
    /\ agent_key' = [agent_key EXCEPT ![m] = None]
    /\ UNCHANGED <<tokenVars, certVars, connVars, histVars>>

-----------------------------------------------------------------------------
(* The server: handleConn and Service.Enroll.                              *)

Usable(t) == status[t] = "pending" /\ ~expired[t]

GetPendingEnrollment(c) ==
    LET t == TokenOf[c] IN
    /\ server[c] = "serving" /\ wire[c] = "hello"
    /\ IF Usable(t)
         THEN /\ expected' = [expected EXCEPT ![c] = agent_id[t]]
              /\ Frame(c, "challenge")
              /\ UNCHANGED server
         ELSE Refuse(c) /\ UNCHANGED expected
    /\ UNCHANGED <<client, tokenVars, certVars, fileVars, histVars>>

(* Between the claim and its commit or release.                            *)
Holds(c) == server[c] \in {"claimed", "release"}

(* Enroll's check of the id the token is bound to, as it was read.         *)
Expected(c) == expected[c] \in {None, MachineOf[c]}

ClaimUnchecked(c) ==      \* mutated form: the UPDATE has no status = 'pending'
    LET t == TokenOf[c] IN
    /\ server[c] = "serving" /\ wire[c] = "request"
    /\ IF Expected(c) /\ ~expired[t]
         THEN /\ status' = [status EXCEPT ![t] = "issuing"]
              /\ agent_id' = [agent_id EXCEPT ![t] = MachineOf[c]]
              /\ Server(c, "claimed") /\ UNCHANGED wire
         ELSE Refuse(c) /\ UNCHANGED <<status, agent_id>>
    /\ UNCHANGED <<expired, expected, client, certVars, fileVars, histVars>>

ClaimEnrollment(c) ==
    LET t == TokenOf[c] IN
    /\ server[c] = "serving" /\ wire[c] = "request"
    /\ IF Expected(c) /\ Usable(t)
         THEN /\ status' = [status EXCEPT ![t] = "issuing"]
              /\ agent_id' = [agent_id EXCEPT ![t] = MachineOf[c]]
              /\ Server(c, "claimed") /\ UNCHANGED wire
         ELSE Refuse(c) /\ UNCHANGED <<status, agent_id>>
    /\ UNCHANGED <<expired, expected, client, certVars, fileVars, histVars>>

(* The statement reports an error: it did nothing, or it took effect and   *)
(* the answer was lost.  Nobody releases a claim that reported an error.   *)
ClaimFails(c) ==
    LET t == TokenOf[c] IN
    /\ server[c] = "serving" /\ wire[c] = "request" /\ Expected(c)
    /\ Mishap
    /\ \/ UNCHANGED <<status, agent_id, abandoned>>
       \/ /\ Usable(t)
          /\ status' = [status EXCEPT ![t] = "issuing"]
          /\ agent_id' = [agent_id EXCEPT ![t] = MachineOf[c]]
          /\ Abandon({t})
    /\ Refuse(c)
    /\ UNCHANGED <<expired, expected, client, certVars, fileVars>>

(* IssueAgentCertificate fails; the deferred function releases the claim.  *)
IssueFails(c) ==
    /\ server[c] = "claimed"
    /\ Mishap
    /\ Server(c, "release")
    /\ UNCHANGED <<wire, expected, client, tokenVars, certVars, fileVars, abandoned>>

RotateKeepsOld(c) ==      \* mutated form: the active certificate is not revoked
    certs' = [certs EXCEPT ![c] = "active"]

rotateActiveCertificateTx(c) ==
    certs' = [d \in Conns |->
                IF d = c THEN "active"
                ELSE IF MachineOf[d] = MachineOf[c] /\ certs[d] = "active"
                       THEN "revoked" ELSE certs[d]]

(* The WHERE of FinalizeEnrollmentIssue's last UPDATE.                     *)
Claimed(c) ==
    LET t == TokenOf[c] IN
    status[t] = "issuing" /\ agent_id[t] = MachineOf[c] /\ ~expired[t]

(* Its transaction takes effect.                                           *)
Commit(c) ==
    /\ Claimed(c)
    /\ status' = [status EXCEPT ![TokenOf[c]] = "issued"]
    /\ agents' = agents \cup {MachineOf[c]}
    /\ rotateActiveCertificateTx(c)
    /\ issued' = [issued EXCEPT ![c] = TRUE]

FinalizeEnrollmentIssue(c) ==
    /\ server[c] = "claimed"
    /\ Commit(c)
    /\ Server(c, "serving") /\ Frame(c, "response")
    /\ UNCHANGED <<agent_id, expired, expected, client, fileVars, histVars>>

(* No row matched: the token expired since it was claimed.                 *)
FinalizeTooLate(c) ==
    /\ server[c] = "claimed" /\ ~Claimed(c)
    /\ Server(c, "release")
    /\ UNCHANGED <<wire, expected, client, tokenVars, certVars, fileVars, histVars>>

FailRespondsAnyway(c) ==  \* mutated form: the error is not looked at
    /\ server[c] = "claimed"
    /\ Mishap
    /\ \/ UNCHANGED <<status, certVars>>
       \/ Commit(c)
    /\ Server(c, "serving") /\ Frame(c, "response")
    /\ UNCHANGED <<agent_id, expired, expected, client, fileVars, abandoned>>

(* The transaction reports an error, rolled back or committed.             *)
FinalizeFails(c) ==
    /\ server[c] = "claimed"
    /\ Mishap
    /\ \/ UNCHANGED <<status, certVars>>
       \/ Commit(c)
    /\ Server(c, "release")
    /\ UNCHANGED <<wire, agent_id, expired, expected, client, fileVars, abandoned>>

ReleaseUnchecked(c) ==    \* mutated form: the UPDATE has no status = 'issuing'
    LET t == TokenOf[c] IN
    /\ server[c] = "release"
    /\ IF agent_id[t] = MachineOf[c]
         THEN /\ status' = [status EXCEPT ![t] = "pending"]
              /\ UNCHANGED agent_id
         ELSE UNCHANGED <<status, agent_id>>
    /\ Refuse(c)
    /\ UNCHANGED <<expired, expected, client, certVars, fileVars, histVars>>

ReleaseForExpected(c) ==  \* mutated form: compares with the id read at the start
    LET t == TokenOf[c] IN
    /\ server[c] = "release"
    /\ IF status[t] = "issuing" /\ agent_id[t] = expected[c]
         THEN status' = [status EXCEPT ![t] = "pending"]
         ELSE UNCHANGED status
    /\ Refuse(c)
    /\ UNCHANGED <<agent_id, expired, expected, client, certVars, fileVars, histVars>>

ReleaseEnrollmentClaim(c) ==
    LET t == TokenOf[c] IN
    /\ server[c] = "release"
    /\ IF status[t] = "issuing" /\ agent_id[t] = MachineOf[c]
         THEN /\ status' = [status EXCEPT ![t] = "pending"]
              /\ agent_id' = [agent_id EXCEPT ![t] =
                                 IF expected[c] # None THEN @ ELSE None]
         ELSE UNCHANGED <<status, agent_id>>
    /\ Refuse(c)
    /\ UNCHANGED <<expired, expected, client, certVars, fileVars, histVars>>

(* Its error is discarded.                                                 *)
ReleaseFails(c) ==
    /\ server[c] = "release"
    /\ Mishap
    /\ Abandon({TokenOf[c]})
    /\ Refuse(c)
    /\ UNCHANGED <<expected, client, tokenVars, certVars, fileVars>>

MarkEnrollmentUsed(c) ==
    LET t == TokenOf[c] IN
    /\ server[c] = "serving" /\ wire[c] = "ack"
    /\ status' = IF status[t] = "issued" /\ agent_id[t] = MachineOf[c]
                   THEN [status EXCEPT ![t] = "used"] ELSE status
    /\ Server(c, "ended")
    /\ UNCHANGED <<agent_id, expired, wire, expected, client, certVars, fileVars, histVars>>

(* A read that fails, in the end by the 30-second deadline of the          *)
(* connection, and any other early return.                                 *)
ServerEnds(c) ==
    /\ server[c] = "serving"
    /\ Server(c, "ended")
    /\ UNCHANGED <<wire, expected, client, tokenVars, certVars, fileVars, histVars>>

Crash ==
    /\ Mishap
    /\ Abandon({TokenOf[c] : c \in {d \in Conns : Holds(d)}})
    /\ server' = [c \in Conns |-> IF server[c] = "idle" THEN "idle" ELSE "ended"]
    /\ UNCHANGED <<wire, expected, client, tokenVars, certVars, fileVars>>

-----------------------------------------------------------------------------
(* The certificate after enrollment.                                       *)

RegisterSwitches(m, c) == \* mutated form: the last certificate to register wins
    /\ certs[c] # "active"
    /\ rotateActiveCertificateTx(c)
    /\ agents' = agents \cup {m}

(* ensureMatchingCertificateTx for the pair of files of a machine, in the  *)
(* transaction of RegisterAgentWithCertificate: an unknown certificate is  *)
(* bound when the agent has no active one; an active one changes nothing,  *)
(* any other is refused.                                                   *)
RegisterUnknown(m, c) ==
    /\ certs[c] = "none"
    /\ \A d \in Conns : MachineOf[d] = m => certs[d] # "active"
    /\ certs' = [certs EXCEPT ![c] = "active"]
    /\ agents' = agents \cup {m}

RegisterAgentWithCertificate(m) ==
    LET c == agent_crt[m] IN
    /\ c \in Conns /\ c = agent_key[m]
    /\ RegisterUnknown(m, c)
    /\ UNCHANGED <<issued, tokenVars, connVars, fileVars, histVars>>

(* The rows of the agent's certificates go with its row (ON DELETE         *)
(* CASCADE).                                                               *)
DeleteAgent(m) ==
    /\ Mishap
    /\ m \in agents
    /\ agents' = agents \ {m}
    /\ certs' = [c \in Conns |-> IF MachineOf[c] = m THEN "none" ELSE certs[c]]
    /\ UNCHANGED <<issued, tokenVars, connVars, fileVars, abandoned>>

-----------------------------------------------------------------------------
ClientStep(c) ==
    \/ SendHello(c) \/ SendRequest(c) \/ RecvResponse(c) \/ StoreCrt(c) \/ StoreKey(c)
    \/ SendAck(c) \/ ClientEnds(c) \/ StoreCutShort(c)

ServerStep(c) ==
    \/ GetPendingEnrollment(c) \/ ClaimEnrollment(c) \/ ClaimFails(c) \/ IssueFails(c)
    \/ FinalizeEnrollmentIssue(c) \/ FinalizeTooLate(c) \/ FinalizeFails(c)
    \/ ReleaseEnrollmentClaim(c) \/ ReleaseFails(c) \/ MarkEnrollmentUsed(c) \/ ServerEnds(c)

Next ==
    \/ \E t \in Tokens : CreateEnrollment(t) \/ Expire(t)
    \/ \E c \in Conns : ClientStep(c) \/ ServerStep(c)
    \/ \E m \in Machines : RemoveFiles(m) \/ RegisterAgentWithCertificate(m) \/ DeleteAgent(m)
    \/ Crash

Spec == Init /\ [][Next]_vars

-----------------------------------------------------------------------------
(* Properties.                                                             *)

Origins == Conns \cup {None, "cut"}

(* Every variable has its type.                                            *)
TypeOK ==
    /\ status \in [Tokens -> {"absent", "pending", "issuing", "issued", "used"}]
    /\ agent_id \in [Tokens -> Machines \cup {None}]
    /\ expired \in [Tokens -> BOOLEAN]
    /\ agents \subseteq Machines
    /\ certs \in [Conns -> {"none", "active", "revoked"}]
    /\ wire \in [Conns -> {"none", "hello", "challenge", "request", "response", "ack", "error"}]
    /\ server \in [Conns -> {"idle", "serving", "claimed", "release", "ended"}]
    /\ expected \in [Conns -> Machines \cup {None}]
    /\ client \in [Conns -> {"idle", "run", "store_crt", "store_key", "send_ack", "ended"}]
    /\ agent_crt \in [Machines -> Origins] /\ agent_key \in [Machines -> Origins]
    /\ issued \in [Conns -> BOOLEAN]
    /\ abandoned \subseteq Tokens /\ mishaps \in 0..MaxMishaps

(* ClaimEnrollment prevents two issuings: a token yields at most one       *)
(* recorded certificate, whatever is retried, released, answered late or   *)
(* reported as failed although it took effect.                             *)
SingleIssue ==
    \A c, d \in Conns : issued[c] /\ issued[d] /\ TokenOf[c] = TokenOf[d] => c = d

(* An agent has at most one active certificate: rotation and first binding *)
(* both look at all of them.                                               *)
OneActive ==
    \A c, d \in Conns :
        certs[c] = "active" /\ certs[d] = "active" /\ MachineOf[c] = MachineOf[d] => c = d

(* A machine stores only what the backend has recorded: the response       *)
(* leaves after the commit.                                                *)
StoredIsRecorded ==
    \A m \in Machines :
        /\ agent_crt[m] \in Conns => issued[agent_crt[m]]
        /\ agent_key[m] \in Conns => issued[agent_key[m]]

(* Certificate and key on a machine belong together, although they are     *)
(* stored one after the other and either store can fail.                   *)
PairMatches ==
    \A m \in Machines :
        agent_crt[m] \in Conns /\ agent_key[m] \in Conns => agent_crt[m] = agent_key[m]

(* agent.crt and agent.key hold certificates that were recorded, and       *)
(* belong together whenever both are complete.                             *)
FilesSound == StoredIsRecorded /\ PairMatches

(* A stored pair is revoked only for a certificate of another token: no    *)
(* request of a client that gave up, or that ran into an error, is         *)
(* honoured later and revokes what a second attempt has obtained.          *)
StoredIsActive ==
    \A m \in Machines : \A c \in Conns :
        (agent_crt[m] = c /\ agent_key[m] = c /\ certs[c] = "revoked") =>
            \E d \in Conns : issued[d] /\ MachineOf[d] = m /\ TokenOf[d] # TokenOf[c]

(* A revoked certificate is never active again; only deleting the agent    *)
(* forgets it.                                                             *)
RevokedStays ==
    [][ \A c \in Conns :
          certs[c] = "revoked" /\ certs'[c] # "revoked" => MachineOf[c] \notin agents' ]_vars

(* ReleaseEnrollmentClaim's comment: when issuing fails the claim goes     *)
(* back, so that the token can be used again while it is valid.  A token   *)
(* stays in issuing only while a connection works on it, or for good when  *)
(* the backend crashed meanwhile or a claim or a release reported an error.*)
ClaimGoesBack ==
    \A t \in Tokens :
        status[t] = "issuing" /\ t \notin abandoned =>
            \E c \in Conns : TokenOf[c] = t /\ Holds(c)
=============================================================================
