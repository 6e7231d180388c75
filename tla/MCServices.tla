------------------------------ MODULE MCServices ------------------------------
(* Small instances of the services that share no row with each other: in   *)
(* each behaviour one of them moves and the others stay as they begin.     *)
EXTENDS StripeIntake, Notifications, Erasure, Credentials, Pairing, Access, TLC

CONSTANTS Parts, p1, r1, t1, s1, w1, w2, e1, e2, f1, v1, i1, i2, c1, c2, u1, q1, q2, k1, b1, b2

VARIABLES part, qRow, qCopies, qWorker, qActive, qEffects, qReports, qFaults, qReplays

(* One worker of the work queue. *)
Queue == INSTANCE WorkQueue WITH
  Worker <- {p1}, Work <- {w1, w2}, Exempt <- {w2}, MaxAttempts <- 2, MaxCopies <- 2,
  MaxFaults <- 1, MaxReplays <- 1, row <- qRow, copies <- qCopies, worker <- qWorker,
  active <- qActive, effects <- qEffects, reports <- qReports, faults <- qFaults,
  replays <- qReplays

queueVars == <<qRow, qCopies, qWorker, qActive, qEffects, qReports, qFaults, qReplays>>
peopleParts == <<pairingVars, accessVars>>
otherParts == <<erasureVars, credentialVars, peopleParts>>
servicesVars == <<part, queueVars, vars, mailVars, otherParts>>

ServicesInit ==
  /\ part \in Parts
  /\ Queue!Init /\ Init /\ MailInit /\ ErasureInit
  /\ CredentialInit /\ PairingInit /\ AccessInit

ServicesNext ==
  \/ part = "queue" /\ Queue!Next /\ UNCHANGED <<part, vars, mailVars, otherParts>>
  \/ part = "stripe" /\ Next /\ UNCHANGED <<part, queueVars, mailVars, otherParts>>
  \/ part = "mail" /\ MailNext /\ UNCHANGED <<part, queueVars, vars, otherParts>>
  \/ part = "erasure" /\ ErasureNext
       /\ UNCHANGED <<part, queueVars, vars, mailVars, credentialVars, peopleParts>>
  \/ part = "credentials" /\ CredentialNext
       /\ UNCHANGED <<part, queueVars, vars, mailVars, erasureVars, peopleParts>>
  \/ part = "pairing" /\ PairingNext
       /\ UNCHANGED <<part, queueVars, vars, mailVars, erasureVars, credentialVars, accessVars>>
  \/ part = "access" /\ AccessNext
       /\ UNCHANGED <<part, queueVars, vars, mailVars, erasureVars, credentialVars, pairingVars>>

(* The fairness of each component, while it is the one that moves. *)
StripeMoves ==
  /\ \A w \in Task : WF_vars(part = "stripe" /\ Attempt(w))
  /\ \A f \in Outbox!Failure : WF_vars(part = "stripe" /\ Report(f))
MailMoves ==
  /\ WF_mailVars(part = "mail" /\ MailTick)
  /\ \A e \in Event : WF_mailVars(part = "mail" /\ prepare(e))
  /\ \A h \in Hour : WF_mailVars(part = "mail" /\ digest(h))
  /\ \A d \in Delivery : WF_mailVars(part = "mail" /\ (CancelMail(d) \/ SendMail(d)))
  /\ \A d \in Delivery : WF_mailVars(part = "mail" /\ CommitMail(d))
ErasureMoves ==
  /\ WF_erasureVars(part = "erasure" /\ (erase_reports \/ Verify \/ PutLedger \/ CommitErasure))
  /\ SF_erasureVars(part = "erasure" /\ DeleteTable)
  /\ WF_erasureVars(part = "erasure" /\ replay_erasures)
  /\ \A x \in TenantRow : WF_erasureVars(part = "erasure" /\ (FinishTxn(x) \/ AbortTxn(x)))
CredentialsMove ==
  \A i \in Stripes :
    /\ WF_credentialVars(part = "credentials" /\ TokenExpires(i))
    /\ WF_credentialVars(part = "credentials" /\ TakeCredential(i))
    /\ WF_credentialVars(part = "credentials" /\ (\/ UseToken(i) \/ Refresh(i)
                                                  \/ RefreshFails(i) \/ FinishJob(i)))

ServicesSpec ==
  /\ ServicesInit /\ [][ServicesNext]_servicesVars
  /\ StripeMoves /\ MailMoves /\ ErasureMoves /\ CredentialsMove

ServicesTypeOK ==
  /\ part = "mail" => MailTypeOK
  /\ part = "erasure" => ErasureTypeOK
  /\ part = "credentials" => CredentialTypeOK
  /\ part = "pairing" => PairingTypeOK
  /\ part = "access" => AccessTypeOK

(* With one worker per queue class a row takes effect once and a dead row  *)
(* waits for an operator: see WorkQueue.                                   *)
OneEffect == Queue!OneEffect
DeadAwaitsReview == Queue!DeadAwaitsReview
=============================================================================
