--------------------------- MODULE EnrollmentProofs ---------------------------
(***************************************************************************)
(* What holds of enrollment for any number of connections, tokens,         *)
(* machines, failures, crashes and deletions.  Each invariant is inductive *)
(* relative to the type invariant; the claim argument is the heart: a      *)
(* token's claim has at most one holder, and once a certificate has been   *)
(* recorded the token can never become pending again.                      *)
(***************************************************************************)
EXTENDS Enrollment, TLAPS

(* A claim has one holder, whose token is not pending and carries the      *)
(* holder's id; a token that has yielded a certificate is issued or used.  *)
ClaimInv ==
    /\ \A c, d \in Conns :
          /\ server[c] \in {"claimed", "release"}
          /\ server[d] \in {"claimed", "release"}
          /\ TokenOf[c] = TokenOf[d]
          => c = d
    /\ \A c \in Conns : server[c] = "claimed" => status[TokenOf[c]] = "issuing"
    /\ \A c \in Conns :
          server[c] = "release" => status[TokenOf[c]] \in {"issuing", "issued", "used"}
    /\ \A c \in Conns : issued[c] => status[TokenOf[c]] \in {"issued", "used"}
    /\ \A c \in Conns : client[c] = "idle" => server[c] = "idle"
    /\ \A c \in Conns :
          server[c] \in {"claimed", "release"} => agent_id[TokenOf[c]] = MachineOf[c]
    /\ SingleIssue
    /\ ClaimGoesBack

(* What a machine stores was issued to it and is recorded, and the files   *)
(* are written certificate first by at most one client.                    *)
FileInv ==
    /\ \A c, d \in Conns : Running(c) /\ Running(d) /\ MachineOf[c] = MachineOf[d] => c = d
    /\ \A c \in Conns : wire[c] \in {"response", "ack"} => issued[c]
    /\ \A c \in Conns : client[c] \in {"store_crt", "store_key", "send_ack"} => issued[c]
    /\ \A c \in Conns :
          client[c] \in {"run", "store_crt", "store_key"} => agent_key[MachineOf[c]] = None
    /\ \A c \in Conns : client[c] = "store_key" => agent_crt[MachineOf[c]] = c
    /\ \A m \in Machines : agent_key[m] # None => agent_crt[m] # None
    /\ StoredIsRecorded
    /\ PairMatches

(* The certificate a machine stores carries the machine's own id.          *)
CertInv ==
    /\ \A m \in Machines : agent_crt[m] \in Conns => MachineOf[agent_crt[m]] = m
    /\ OneActive

(* A certificate with a row was recorded by FinalizeEnrollmentIssue, and a *)
(* revoked one had a successor on the same machine.                        *)
RecordInv ==
    /\ \A c \in Conns : certs[c] # "none" => issued[c]
    /\ \A c \in Conns :
          certs[c] = "revoked" =>
             \E d \in Conns : d # c /\ issued[d] /\ MachineOf[d] = MachineOf[c]

(* Type correctness.                                                       *)
THEOREM TypeCorrect == Spec => []TypeOK
<1>1. Init => TypeOK
  BY EnrollmentAssumption DEF Init, TypeOK, Origins
<1>2. TypeOK /\ [Next]_vars => TypeOK'
  <2> SUFFICES ASSUME TypeOK, [Next]_vars PROVE TypeOK'
    OBVIOUS
  <2> USE EnrollmentAssumption DEF TypeOK, Origins, tokenVars, certVars, connVars, fileVars, histVars
  <2>1. ASSUME NEW c \in Conns, SendHello(c) PROVE TypeOK'
    BY <2>1 DEF SendHello, Client, Server, Frame
  <2>2. ASSUME NEW c \in Conns, SendRequest(c) PROVE TypeOK'
    BY <2>2 DEF SendRequest, Frame
  <2>3. ASSUME NEW c \in Conns, RecvResponse(c) PROVE TypeOK'
    BY <2>3 DEF RecvResponse, Client
  <2>4. ASSUME NEW c \in Conns, StoreCrt(c) PROVE TypeOK'
    BY <2>4 DEF StoreCrt, Client
  <2>5. ASSUME NEW c \in Conns, StoreKey(c) PROVE TypeOK'
    BY <2>5 DEF StoreKey, Client
  <2>6. ASSUME NEW c \in Conns, SendAck(c) PROVE TypeOK'
    BY <2>6 DEF SendAck, Frame, Client
  <2>7. ASSUME NEW c \in Conns, ClientEnds(c) PROVE TypeOK'
    BY <2>7 DEF ClientEnds, Client
  <2>8. ASSUME NEW c \in Conns, StoreCutShort(c) PROVE TypeOK'
    BY <2>8 DEF StoreCutShort, Client, Mishap
  <2>9. ASSUME NEW c \in Conns, GetPendingEnrollment(c) PROVE TypeOK'
    BY <2>9 DEF GetPendingEnrollment, Frame, Refuse, Server
  <2>10. ASSUME NEW c \in Conns, ClaimEnrollment(c) PROVE TypeOK'
    BY <2>10 DEF ClaimEnrollment, Server, Refuse, Frame, Usable
  <2>11. ASSUME NEW c \in Conns, ClaimFails(c) PROVE TypeOK'
    BY <2>11 DEF ClaimFails, Mishap, Abandon, Refuse, Server, Frame, Usable
  <2>12. ASSUME NEW c \in Conns, IssueFails(c) PROVE TypeOK'
    BY <2>12 DEF IssueFails, Mishap, Abandon, Server
  <2>13. ASSUME NEW c \in Conns, FinalizeEnrollmentIssue(c) PROVE TypeOK'
    BY <2>13 DEF FinalizeEnrollmentIssue, Commit, Claimed, rotateActiveCertificateTx,
       Server, Frame
  <2>14. ASSUME NEW c \in Conns, FinalizeTooLate(c) PROVE TypeOK'
    BY <2>14 DEF FinalizeTooLate, Server
  <2>15. ASSUME NEW c \in Conns, FinalizeFails(c) PROVE TypeOK'
    <3>1. CASE UNCHANGED <<status, certVars>>
      BY <2>15, <3>1 DEF FinalizeFails, Mishap, Abandon, Server
    <3>2. CASE Commit(c)
      BY <2>15, <3>2 DEF FinalizeFails, Mishap, Abandon, Server, Commit, rotateActiveCertificateTx
    <3> QED
      BY <2>15, <3>1, <3>2 DEF FinalizeFails
  <2>16. ASSUME NEW c \in Conns, ReleaseEnrollmentClaim(c) PROVE TypeOK'
    BY <2>16 DEF ReleaseEnrollmentClaim, Refuse, Server, Frame
  <2>17. ASSUME NEW c \in Conns, ReleaseFails(c) PROVE TypeOK'
    BY <2>17 DEF ReleaseFails, Mishap, Abandon, Refuse, Server, Frame
  <2>18. ASSUME NEW c \in Conns, MarkEnrollmentUsed(c) PROVE TypeOK'
    BY <2>18 DEF MarkEnrollmentUsed, Server
  <2>19. ASSUME NEW c \in Conns, ServerEnds(c) PROVE TypeOK'
    BY <2>19 DEF ServerEnds, Server
  <2>20. ASSUME NEW m \in Machines, RemoveFiles(m) PROVE TypeOK'
    BY <2>20 DEF RemoveFiles
  <2>21. ASSUME NEW m \in Machines, RegisterAgentWithCertificate(m) PROVE TypeOK'
    BY <2>21 DEF RegisterAgentWithCertificate, RegisterUnknown
  <2>22. ASSUME NEW m \in Machines, DeleteAgent(m) PROVE TypeOK'
    BY <2>22 DEF DeleteAgent, Mishap
  <2>23. ASSUME NEW t \in Tokens, CreateEnrollment(t) PROVE TypeOK'
    BY <2>23 DEF CreateEnrollment
  <2>24. ASSUME NEW t \in Tokens, Expire(t) PROVE TypeOK'
    BY <2>24 DEF Expire
  <2>25. CASE Crash
    BY <2>25 DEF Crash, Mishap, Abandon, Holds
  <2>26. CASE UNCHANGED vars
    BY <2>26 DEF vars
  <2> QED
    BY <2>1, <2>2, <2>3, <2>4, <2>5, <2>6, <2>7, <2>8, <2>9, <2>10, <2>11, <2>12, <2>13,
       <2>14, <2>15, <2>16, <2>17, <2>18, <2>19, <2>20, <2>21, <2>22, <2>23, <2>24,
       <2>25, <2>26 DEF Next, ClientStep, ServerStep
<1> QED
  BY <1>1, <1>2, PTL DEF Spec

(* The claim protocol of ClaimEnrollment, FinalizeEnrollmentIssue and      *)
(* ReleaseEnrollmentClaim.                                                 *)
THEOREM ClaimsHeld == Spec => []ClaimInv
<1>1. Init => ClaimInv
  BY EnrollmentAssumption DEF Init, ClaimInv, SingleIssue, ClaimGoesBack, Holds
<1>2. TypeOK /\ ClaimInv /\ [Next]_vars => ClaimInv'
  <2> SUFFICES ASSUME TypeOK, ClaimInv, [Next]_vars PROVE ClaimInv'
    OBVIOUS
  <2> USE EnrollmentAssumption DEF TypeOK, ClaimInv, SingleIssue, ClaimGoesBack, Holds, tokenVars, certVars, connVars, fileVars, histVars
  <2>1. ASSUME NEW c \in Conns, SendHello(c) PROVE ClaimInv'
    BY <2>1 DEF SendHello, Client, Server, Frame
  <2>2. ASSUME NEW c \in Conns, SendRequest(c) PROVE ClaimInv'
    BY <2>2 DEF SendRequest, Frame
  <2>3. ASSUME NEW c \in Conns, RecvResponse(c) PROVE ClaimInv'
    BY <2>3 DEF RecvResponse, Client
  <2>4. ASSUME NEW c \in Conns, StoreCrt(c) PROVE ClaimInv'
    BY <2>4 DEF StoreCrt, Client
  <2>5. ASSUME NEW c \in Conns, StoreKey(c) PROVE ClaimInv'
    BY <2>5 DEF StoreKey, Client
  <2>6. ASSUME NEW c \in Conns, SendAck(c) PROVE ClaimInv'
    BY <2>6 DEF SendAck, Frame, Client
  <2>7. ASSUME NEW c \in Conns, ClientEnds(c) PROVE ClaimInv'
    BY <2>7 DEF ClientEnds, Client
  <2>8. ASSUME NEW c \in Conns, StoreCutShort(c) PROVE ClaimInv'
    BY <2>8 DEF StoreCutShort, Client, Mishap
  <2>9. ASSUME NEW c \in Conns, GetPendingEnrollment(c) PROVE ClaimInv'
    BY <2>9 DEF GetPendingEnrollment, Frame, Refuse, Server
  <2>10. ASSUME NEW c \in Conns, ClaimEnrollment(c) PROVE ClaimInv'
    BY <2>10 DEF ClaimEnrollment, Server, Refuse, Frame, Usable
  <2>11. ASSUME NEW c \in Conns, ClaimFails(c) PROVE ClaimInv'
    BY <2>11 DEF ClaimFails, Mishap, Abandon, Refuse, Server, Frame, Usable
  <2>12. ASSUME NEW c \in Conns, IssueFails(c) PROVE ClaimInv'
    BY <2>12 DEF IssueFails, Mishap, Abandon, Server
  <2>13. ASSUME NEW c \in Conns, FinalizeEnrollmentIssue(c) PROVE ClaimInv'
    BY <2>13 DEF FinalizeEnrollmentIssue, Commit, Claimed, rotateActiveCertificateTx,
       Server, Frame
  <2>14. ASSUME NEW c \in Conns, FinalizeTooLate(c) PROVE ClaimInv'
    BY <2>14 DEF FinalizeTooLate, Server
  <2>15. ASSUME NEW c \in Conns, FinalizeFails(c) PROVE ClaimInv'
    <3>1. CASE UNCHANGED <<status, certVars>>
      BY <2>15, <3>1 DEF FinalizeFails, Mishap, Server
    <3>2. CASE Commit(c)
      BY <2>15, <3>2 DEF FinalizeFails, Mishap, Server, Commit, rotateActiveCertificateTx
    <3> QED
      BY <2>15, <3>1, <3>2 DEF FinalizeFails
  <2>16. ASSUME NEW c \in Conns, ReleaseEnrollmentClaim(c) PROVE ClaimInv'
    BY <2>16 DEF ReleaseEnrollmentClaim, Refuse, Server, Frame
  <2>17. ASSUME NEW c \in Conns, ReleaseFails(c) PROVE ClaimInv'
    BY <2>17 DEF ReleaseFails, Mishap, Abandon, Refuse, Server, Frame
  <2>18. ASSUME NEW c \in Conns, MarkEnrollmentUsed(c) PROVE ClaimInv'
    BY <2>18 DEF MarkEnrollmentUsed, Server
  <2>19. ASSUME NEW c \in Conns, ServerEnds(c) PROVE ClaimInv'
    BY <2>19 DEF ServerEnds, Server
  <2>20. ASSUME NEW m \in Machines, RemoveFiles(m) PROVE ClaimInv'
    BY <2>20 DEF RemoveFiles
  <2>21. ASSUME NEW m \in Machines, RegisterAgentWithCertificate(m) PROVE ClaimInv'
    BY <2>21 DEF RegisterAgentWithCertificate, RegisterUnknown
  <2>22. ASSUME NEW m \in Machines, DeleteAgent(m) PROVE ClaimInv'
    BY <2>22 DEF DeleteAgent, Mishap
  <2>23. ASSUME NEW t \in Tokens, CreateEnrollment(t) PROVE ClaimInv'
    BY <2>23 DEF CreateEnrollment
  <2>24. ASSUME NEW t \in Tokens, Expire(t) PROVE ClaimInv'
    BY <2>24 DEF Expire
  <2>25. CASE Crash
    BY <2>25 DEF Crash, Abandon
  <2>26. CASE UNCHANGED vars
    BY <2>26 DEF vars
  <2> QED
    BY <2>1, <2>2, <2>3, <2>4, <2>5, <2>6, <2>7, <2>8, <2>9, <2>10, <2>11, <2>12, <2>13,
       <2>14, <2>15, <2>16, <2>17, <2>18, <2>19, <2>20, <2>21, <2>22, <2>23, <2>24,
       <2>25, <2>26 DEF Next, ClientStep, ServerStep
<1> QED
  BY <1>1, <1>2, TypeCorrect, PTL DEF Spec

(* A token yields at most one recorded certificate (the comment of         *)
(* ClaimEnrollment: it prevents concurrent issuing).                       *)
THEOREM AtMostOneIssue == Spec => []SingleIssue
<1>1. ClaimInv => SingleIssue
  BY DEF ClaimInv
<1> QED
  BY ClaimsHeld, <1>1, PTL

(* A claim whose issuing failed goes back, or is one of those that a crash *)
(* or a failed statement abandoned (ReleaseEnrollmentClaim's comment).     *)
THEOREM ClaimsReturn == Spec => []ClaimGoesBack
<1>1. ClaimInv => ClaimGoesBack
  BY DEF ClaimInv
<1> QED
  BY ClaimsHeld, <1>1, PTL

(* Certificates and their machines.                                        *)
THEOREM CertsBound == Spec => []CertInv
<1>1. Init => CertInv
  BY EnrollmentAssumption DEF Init, CertInv, OneActive
<1>2. TypeOK /\ CertInv /\ [Next]_vars => CertInv'
  <2> SUFFICES ASSUME TypeOK, CertInv, [Next]_vars PROVE CertInv'
    OBVIOUS
  <2> USE EnrollmentAssumption DEF TypeOK, CertInv, OneActive, Origins, tokenVars, certVars, connVars, fileVars, histVars
  <2>1. ASSUME NEW c \in Conns, SendHello(c) PROVE CertInv'
    BY <2>1 DEF SendHello, Client, Server, Frame
  <2>2. ASSUME NEW c \in Conns, SendRequest(c) PROVE CertInv'
    BY <2>2 DEF SendRequest, Frame
  <2>3. ASSUME NEW c \in Conns, RecvResponse(c) PROVE CertInv'
    BY <2>3 DEF RecvResponse, Client
  <2>4. ASSUME NEW c \in Conns, StoreCrt(c) PROVE CertInv'
    BY <2>4 DEF StoreCrt, Client
  <2>5. ASSUME NEW c \in Conns, StoreKey(c) PROVE CertInv'
    BY <2>5 DEF StoreKey, Client
  <2>6. ASSUME NEW c \in Conns, SendAck(c) PROVE CertInv'
    BY <2>6 DEF SendAck, Frame, Client
  <2>7. ASSUME NEW c \in Conns, ClientEnds(c) PROVE CertInv'
    BY <2>7 DEF ClientEnds, Client
  <2>8. ASSUME NEW c \in Conns, StoreCutShort(c) PROVE CertInv'
    BY <2>8 DEF StoreCutShort, Client, Mishap
  <2>9. ASSUME NEW c \in Conns, GetPendingEnrollment(c) PROVE CertInv'
    BY <2>9 DEF GetPendingEnrollment, Frame, Refuse, Server
  <2>10. ASSUME NEW c \in Conns, ClaimEnrollment(c) PROVE CertInv'
    BY <2>10 DEF ClaimEnrollment, Server, Refuse, Frame, Usable
  <2>11. ASSUME NEW c \in Conns, ClaimFails(c) PROVE CertInv'
    BY <2>11 DEF ClaimFails, Mishap, Abandon, Refuse, Server, Frame, Usable
  <2>12. ASSUME NEW c \in Conns, IssueFails(c) PROVE CertInv'
    BY <2>12 DEF IssueFails, Mishap, Abandon, Server
  <2>13. ASSUME NEW c \in Conns, FinalizeEnrollmentIssue(c) PROVE CertInv'
    BY <2>13 DEF FinalizeEnrollmentIssue, Commit, Claimed, rotateActiveCertificateTx,
       Server, Frame
  <2>14. ASSUME NEW c \in Conns, FinalizeTooLate(c) PROVE CertInv'
    BY <2>14 DEF FinalizeTooLate, Server
  <2>15. ASSUME NEW c \in Conns, FinalizeFails(c) PROVE CertInv'
    BY <2>15 DEF FinalizeFails, Mishap, Abandon, Commit, Claimed, rotateActiveCertificateTx,
       Server
  <2>16. ASSUME NEW c \in Conns, ReleaseEnrollmentClaim(c) PROVE CertInv'
    BY <2>16 DEF ReleaseEnrollmentClaim, Refuse, Server, Frame
  <2>17. ASSUME NEW c \in Conns, ReleaseFails(c) PROVE CertInv'
    BY <2>17 DEF ReleaseFails, Mishap, Abandon, Refuse, Server, Frame
  <2>18. ASSUME NEW c \in Conns, MarkEnrollmentUsed(c) PROVE CertInv'
    BY <2>18 DEF MarkEnrollmentUsed, Server
  <2>19. ASSUME NEW c \in Conns, ServerEnds(c) PROVE CertInv'
    BY <2>19 DEF ServerEnds, Server
  <2>20. ASSUME NEW m \in Machines, RemoveFiles(m) PROVE CertInv'
    BY <2>20 DEF RemoveFiles
  <2>21. ASSUME NEW m \in Machines, RegisterAgentWithCertificate(m) PROVE CertInv'
    BY <2>21 DEF RegisterAgentWithCertificate, RegisterUnknown
  <2>22. ASSUME NEW m \in Machines, DeleteAgent(m) PROVE CertInv'
    BY <2>22 DEF DeleteAgent, Mishap
  <2>23. ASSUME NEW t \in Tokens, CreateEnrollment(t) PROVE CertInv'
    BY <2>23 DEF CreateEnrollment
  <2>24. ASSUME NEW t \in Tokens, Expire(t) PROVE CertInv'
    BY <2>24 DEF Expire
  <2>25. CASE Crash
    BY <2>25 DEF Crash, Mishap, Abandon, Holds
  <2>26. CASE UNCHANGED vars
    BY <2>26 DEF vars
  <2> QED
    BY <2>1, <2>2, <2>3, <2>4, <2>5, <2>6, <2>7, <2>8, <2>9, <2>10, <2>11, <2>12, <2>13,
       <2>14, <2>15, <2>16, <2>17, <2>18, <2>19, <2>20, <2>21, <2>22, <2>23, <2>24,
       <2>25, <2>26 DEF Next, ClientStep, ServerStep
<1> QED
  BY <1>1, <1>2, TypeCorrect, PTL DEF Spec

(* An agent has at most one active certificate, however enrollments,       *)
(* registrations and deletions interleave.                                 *)
THEOREM AtMostOneActive == Spec => []OneActive
<1>1. CertInv => OneActive
  BY DEF CertInv
<1> QED
  BY CertsBound, <1>1, PTL

(* The client and the files of its machine.                                *)
THEOREM FilesKept == Spec => []FileInv
<1>1. Init => FileInv
  BY EnrollmentAssumption DEF Init, FileInv, StoredIsRecorded, PairMatches, Running
<1>2. TypeOK /\ FileInv /\ [Next]_vars => FileInv'
  <2> SUFFICES ASSUME TypeOK, FileInv, [Next]_vars PROVE FileInv'
    OBVIOUS
  <2> USE EnrollmentAssumption DEF TypeOK, FileInv, StoredIsRecorded, PairMatches, Origins, Running, tokenVars, certVars, connVars, fileVars, histVars
  <2>1. ASSUME NEW c \in Conns, SendHello(c) PROVE FileInv'
    BY <2>1 DEF SendHello, Client, Server, Frame, ig_enroll_needed
  <2>2. ASSUME NEW c \in Conns, SendRequest(c) PROVE FileInv'
    BY <2>2 DEF SendRequest, Frame
  <2>3. ASSUME NEW c \in Conns, RecvResponse(c) PROVE FileInv'
    BY <2>3 DEF RecvResponse, Client
  <2>4. ASSUME NEW c \in Conns, StoreCrt(c) PROVE FileInv'
    BY <2>4 DEF StoreCrt, Client
  <2>5. ASSUME NEW c \in Conns, StoreKey(c) PROVE FileInv'
    BY <2>5 DEF StoreKey, Client
  <2>6. ASSUME NEW c \in Conns, SendAck(c) PROVE FileInv'
    BY <2>6 DEF SendAck, Frame, Client
  <2>7. ASSUME NEW c \in Conns, ClientEnds(c) PROVE FileInv'
    BY <2>7 DEF ClientEnds, Client
  <2>8. ASSUME NEW c \in Conns, StoreCutShort(c) PROVE FileInv'
    BY <2>8 DEF StoreCutShort, Client, Mishap
  <2>9. ASSUME NEW c \in Conns, GetPendingEnrollment(c) PROVE FileInv'
    BY <2>9 DEF GetPendingEnrollment, Frame, Refuse, Server
  <2>10. ASSUME NEW c \in Conns, ClaimEnrollment(c) PROVE FileInv'
    BY <2>10 DEF ClaimEnrollment, Server, Refuse, Frame, Usable
  <2>11. ASSUME NEW c \in Conns, ClaimFails(c) PROVE FileInv'
    BY <2>11 DEF ClaimFails, Mishap, Abandon, Refuse, Server, Frame, Usable
  <2>12. ASSUME NEW c \in Conns, IssueFails(c) PROVE FileInv'
    BY <2>12 DEF IssueFails, Mishap, Abandon, Server
  <2>13. ASSUME NEW c \in Conns, FinalizeEnrollmentIssue(c) PROVE FileInv'
    BY <2>13 DEF FinalizeEnrollmentIssue, Commit, Claimed, rotateActiveCertificateTx,
       Server, Frame
  <2>14. ASSUME NEW c \in Conns, FinalizeTooLate(c) PROVE FileInv'
    BY <2>14 DEF FinalizeTooLate, Server
  <2>15. ASSUME NEW c \in Conns, FinalizeFails(c) PROVE FileInv'
    BY <2>15 DEF FinalizeFails, Mishap, Abandon, Commit, Claimed, rotateActiveCertificateTx,
       Server
  <2>16. ASSUME NEW c \in Conns, ReleaseEnrollmentClaim(c) PROVE FileInv'
    BY <2>16 DEF ReleaseEnrollmentClaim, Refuse, Server, Frame
  <2>17. ASSUME NEW c \in Conns, ReleaseFails(c) PROVE FileInv'
    BY <2>17 DEF ReleaseFails, Mishap, Abandon, Refuse, Server, Frame
  <2>18. ASSUME NEW c \in Conns, MarkEnrollmentUsed(c) PROVE FileInv'
    BY <2>18 DEF MarkEnrollmentUsed, Server
  <2>19. ASSUME NEW c \in Conns, ServerEnds(c) PROVE FileInv'
    BY <2>19 DEF ServerEnds, Server
  <2>20. ASSUME NEW m \in Machines, RemoveFiles(m) PROVE FileInv'
    BY <2>20 DEF RemoveFiles, ig_enroll_needed
  <2>21. ASSUME NEW m \in Machines, RegisterAgentWithCertificate(m) PROVE FileInv'
    BY <2>21 DEF RegisterAgentWithCertificate, RegisterUnknown
  <2>22. ASSUME NEW m \in Machines, DeleteAgent(m) PROVE FileInv'
    BY <2>22 DEF DeleteAgent, Mishap
  <2>23. ASSUME NEW t \in Tokens, CreateEnrollment(t) PROVE FileInv'
    BY <2>23 DEF CreateEnrollment
  <2>24. ASSUME NEW t \in Tokens, Expire(t) PROVE FileInv'
    BY <2>24 DEF Expire
  <2>25. CASE Crash
    BY <2>25 DEF Crash, Mishap, Abandon, Holds
  <2>26. CASE UNCHANGED vars
    BY <2>26 DEF vars
  <2> QED
    BY <2>1, <2>2, <2>3, <2>4, <2>5, <2>6, <2>7, <2>8, <2>9, <2>10, <2>11, <2>12, <2>13,
       <2>14, <2>15, <2>16, <2>17, <2>18, <2>19, <2>20, <2>21, <2>22, <2>23, <2>24,
       <2>25, <2>26 DEF Next, ClientStep, ServerStep
<1> QED
  BY <1>1, <1>2, TypeCorrect, PTL DEF Spec

(* A machine stores only recorded certificates, since handleConn sends the *)
(* response after FinalizeEnrollmentIssue has committed; and certificate   *)
(* and key belong together (ig_enroll_needed and the order of the writes   *)
(* in ig_enroll_execute).                                                  *)
THEOREM FilesAreSound == Spec => []FilesSound
<1>1. FileInv => FilesSound
  BY DEF FileInv, FilesSound
<1> QED
  BY FilesKept, <1>1, PTL

(* Certificate rows come from commits; a first binding re-creates only the *)
(* row of a certificate that some machine was given.                       *)
THEOREM RecordsIssued == Spec => []RecordInv
<1>1. Init => RecordInv
  BY EnrollmentAssumption DEF Init, RecordInv
<1>2. TypeOK /\ FileInv /\ RecordInv /\ [Next]_vars => RecordInv'
  <2> SUFFICES ASSUME TypeOK, FileInv, RecordInv, [Next]_vars PROVE RecordInv'
    OBVIOUS
  <2> USE EnrollmentAssumption DEF TypeOK, FileInv, StoredIsRecorded, RecordInv, tokenVars, certVars, connVars, fileVars, histVars
  <2>1. ASSUME NEW c \in Conns, SendHello(c) PROVE RecordInv'
    BY <2>1 DEF SendHello, Client, Server, Frame
  <2>2. ASSUME NEW c \in Conns, SendRequest(c) PROVE RecordInv'
    BY <2>2 DEF SendRequest, Frame
  <2>3. ASSUME NEW c \in Conns, RecvResponse(c) PROVE RecordInv'
    BY <2>3 DEF RecvResponse, Client
  <2>4. ASSUME NEW c \in Conns, StoreCrt(c) PROVE RecordInv'
    BY <2>4 DEF StoreCrt, Client
  <2>5. ASSUME NEW c \in Conns, StoreKey(c) PROVE RecordInv'
    BY <2>5 DEF StoreKey, Client
  <2>6. ASSUME NEW c \in Conns, SendAck(c) PROVE RecordInv'
    BY <2>6 DEF SendAck, Frame, Client
  <2>7. ASSUME NEW c \in Conns, ClientEnds(c) PROVE RecordInv'
    BY <2>7 DEF ClientEnds, Client
  <2>8. ASSUME NEW c \in Conns, StoreCutShort(c) PROVE RecordInv'
    BY <2>8 DEF StoreCutShort, Client, Mishap
  <2>9. ASSUME NEW c \in Conns, GetPendingEnrollment(c) PROVE RecordInv'
    BY <2>9 DEF GetPendingEnrollment, Frame, Refuse, Server
  <2>10. ASSUME NEW c \in Conns, ClaimEnrollment(c) PROVE RecordInv'
    BY <2>10 DEF ClaimEnrollment, Server, Refuse, Frame, Usable
  <2>11. ASSUME NEW c \in Conns, ClaimFails(c) PROVE RecordInv'
    BY <2>11 DEF ClaimFails, Mishap, Abandon, Refuse, Server, Frame, Usable
  <2>12. ASSUME NEW c \in Conns, IssueFails(c) PROVE RecordInv'
    BY <2>12 DEF IssueFails, Mishap, Abandon, Server
  <2>13. ASSUME NEW c \in Conns, FinalizeEnrollmentIssue(c) PROVE RecordInv'
    BY <2>13 DEF FinalizeEnrollmentIssue, Commit, Claimed, rotateActiveCertificateTx,
       Server, Frame
  <2>14. ASSUME NEW c \in Conns, FinalizeTooLate(c) PROVE RecordInv'
    BY <2>14 DEF FinalizeTooLate, Server
  <2>15. ASSUME NEW c \in Conns, FinalizeFails(c) PROVE RecordInv'
    <3>1. CASE UNCHANGED <<status, certVars>>
      BY <2>15, <3>1 DEF FinalizeFails, Mishap, Server
    <3>2. CASE Commit(c)
      BY <2>15, <3>2 DEF FinalizeFails, Mishap, Server, Commit, rotateActiveCertificateTx
    <3> QED
      BY <2>15, <3>1, <3>2 DEF FinalizeFails
  <2>16. ASSUME NEW c \in Conns, ReleaseEnrollmentClaim(c) PROVE RecordInv'
    BY <2>16 DEF ReleaseEnrollmentClaim, Refuse, Server, Frame
  <2>17. ASSUME NEW c \in Conns, ReleaseFails(c) PROVE RecordInv'
    BY <2>17 DEF ReleaseFails, Mishap, Abandon, Refuse, Server, Frame
  <2>18. ASSUME NEW c \in Conns, MarkEnrollmentUsed(c) PROVE RecordInv'
    BY <2>18 DEF MarkEnrollmentUsed, Server
  <2>19. ASSUME NEW c \in Conns, ServerEnds(c) PROVE RecordInv'
    BY <2>19 DEF ServerEnds, Server
  <2>20. ASSUME NEW m \in Machines, RemoveFiles(m) PROVE RecordInv'
    BY <2>20 DEF RemoveFiles
  <2>21. ASSUME NEW m \in Machines, RegisterAgentWithCertificate(m) PROVE RecordInv'
    BY <2>21 DEF RegisterAgentWithCertificate, RegisterUnknown
  <2>22. ASSUME NEW m \in Machines, DeleteAgent(m) PROVE RecordInv'
    BY <2>22 DEF DeleteAgent, Mishap
  <2>23. ASSUME NEW t \in Tokens, CreateEnrollment(t) PROVE RecordInv'
    BY <2>23 DEF CreateEnrollment
  <2>24. ASSUME NEW t \in Tokens, Expire(t) PROVE RecordInv'
    BY <2>24 DEF Expire
  <2>25. CASE Crash
    BY <2>25 DEF Crash, Mishap, Abandon, Holds
  <2>26. CASE UNCHANGED vars
    BY <2>26 DEF vars
  <2> QED
    BY <2>1, <2>2, <2>3, <2>4, <2>5, <2>6, <2>7, <2>8, <2>9, <2>10, <2>11, <2>12, <2>13,
       <2>14, <2>15, <2>16, <2>17, <2>18, <2>19, <2>20, <2>21, <2>22, <2>23, <2>24,
       <2>25, <2>26 DEF Next, ClientStep, ServerStep
<1> QED
  BY <1>1, <1>2, TypeCorrect, FilesKept, PTL DEF Spec

(* What a machine stores is revoked only for a certificate of another      *)
(* token: rotateActiveCertificateTx revokes for a recorded certificate     *)
(* only, and a token yields one.                                           *)
THEOREM StoredActive == Spec => []StoredIsActive
<1>1. ClaimInv /\ CertInv /\ RecordInv => StoredIsActive
  BY DEF ClaimInv, SingleIssue, CertInv, RecordInv, StoredIsActive
<1> QED
  BY ClaimsHeld, CertsBound, RecordsIssued, <1>1, PTL

(* A revoked certificate stays revoked until the agent's row is deleted,   *)
(* rotation (rotateActiveCertificateTx) and registration                   *)
(* (ensureMatchingCertificateTx) included: a certificate that has been     *)
(* recorded is never issued a second time.                                 *)
THEOREM RevokedForGood == Spec => RevokedStays
<1>1. ASSUME TypeOK, ClaimInv, RecordInv, [Next]_vars, NEW d \in Conns, 
             certs[d] = "revoked", certs'[d] # "revoked"
      PROVE MachineOf[d] \notin agents'
  <2>1. PICK m \in Machines : DeleteAgent(m)
    <3> SUFFICES ASSUME \A m \in Machines : ~DeleteAgent(m) PROVE FALSE
      OBVIOUS
    <3> USE <1>1 DEF TypeOK, certVars
    <3>1. ASSUME NEW c \in Conns, ClientStep(c) PROVE FALSE
      BY <3>1 DEF ClientStep, SendHello, SendRequest, RecvResponse, StoreCrt, StoreKey,
                  SendAck, ClientEnds, StoreCutShort
    <3>2. ASSUME NEW c \in Conns, Commit(c) PROVE FALSE
      BY <3>2 DEF Commit, Claimed, rotateActiveCertificateTx, ClaimInv, RecordInv
    <3>3. ASSUME NEW c \in Conns, ServerStep(c) PROVE FALSE
      BY <3>2, <3>3 DEF ServerStep, GetPendingEnrollment, ClaimEnrollment, ClaimFails,
                  IssueFails, FinalizeEnrollmentIssue, FinalizeTooLate, FinalizeFails,
                  ReleaseEnrollmentClaim, ReleaseFails, MarkEnrollmentUsed, ServerEnds
    <3>4. ASSUME NEW m \in Machines, RemoveFiles(m) \/ RegisterAgentWithCertificate(m)
          PROVE FALSE
      BY <3>4 DEF RemoveFiles, RegisterAgentWithCertificate, RegisterUnknown
    <3>5. ASSUME NEW t \in Tokens, CreateEnrollment(t) \/ Expire(t) PROVE FALSE
      BY <3>5 DEF CreateEnrollment, Expire
    <3>6. CASE Crash
      BY <3>6 DEF Crash
    <3>7. CASE UNCHANGED vars
      BY <3>7 DEF vars
    <3> QED
      BY <3>1, <3>3, <3>4, <3>5, <3>6, <3>7 DEF Next
  <2>2. certs'[d] = IF MachineOf[d] = m THEN "none" ELSE certs[d]
    BY <2>1 DEF DeleteAgent
  <2> QED
    BY <1>1, <2>1, <2>2 DEF DeleteAgent
<1>2. TypeOK /\ ClaimInv /\ RecordInv /\ [Next]_vars =>
        [\A c \in Conns :
           certs[c] = "revoked" /\ certs'[c] # "revoked" => MachineOf[c] \notin agents']_vars
  BY <1>1
<1> QED
  BY TypeCorrect, ClaimsHeld, RecordsIssued, <1>2, PTL DEF Spec, RevokedStays
=============================================================================
