----------------------------- MODULE Credentials -----------------------------
(***************************************************************************)
(* The OAuth credential of one Stripe account: the consent callback, the   *)
(* refresh of an expired token before a worker's handler runs, suspension, *)
(* disconnection and the request to delete the organization                *)
(* (connectors/stripe.py, workers/runtime.py, control_plane/api.py).       *)
(*                                                                         *)
(* A step is what happens between two waits: for Stripe, or for a row.  A  *)
(* worker holds the connector's row from TakeCredential to its commit; a   *)
(* callback holds the row of its consent, and no other, until it saves.    *)
(* A refresh token is a number, 0 if there is none; access tokens, webhook *)
(* secrets and lock versions are left out.                                 *)
(***************************************************************************)
EXTENDS Integers, FiniteSets

CONSTANTS
  Stripes,            \* Installation rows of the account
  Consent,            \* OAuthState rows
  MaxTokens,          \* bound on the tokens Stripe issues
  MaxTokenCrashes     \* bound on crashes of workers and requests

VARIABLES
  tenant,        \* Organization.active
  stripe,        \* the installations
  lost,          \* history: those whose new token died with a worker
  consent,       \* the states of OAuth
  callback,      \* the request that brings each consent back
  job,           \* the worker that holds each installation
  reporting,     \* installations whose failure awaits its second transaction
  honoured,      \* refresh tokens that Stripe accepts
  redeemed,      \* consents whose code Stripe has exchanged
  issued,        \* tokens issued so far
  tokenCrashes

atStripe == <<honoured, redeemed, issued>>
workerVars == <<job, reporting, lost>>
credentialVars == <<tenant, stripe, consent, callback, workerVars, atStripe, tokenCrashes>>

ASSUME CredentialAssumption == MaxTokens \in Nat /\ MaxTokenCrashes \in Nat

Token == 0 .. MaxTokens
Nobody == "nobody"
Away == [step |-> "away", token |-> 0, found |-> Nobody]
NoJob == [step |-> "idle", token |-> 0]

CredentialTypeOK ==
  /\ tenant \in {"active", "deleted"}
  /\ stripe \in [Stripes -> [status : {"none", "active", "disconnected", "suspended"},
                             token : Token, expired : BOOLEAN]]
  /\ lost \subseteq Stripes /\ reporting \subseteq Stripes
  /\ consent \in [Consent -> {"none", "open", "used"}]
  /\ callback \in [Consent -> [step : {"away", "exchanging", "answered", "saving"},
                               token : Token, found : Stripes \union {Nobody}]]
  /\ job \in [Stripes -> [step : {"idle", "locked", "exchanged"}, token : Token]]
  /\ honoured \subseteq Token \ {0} /\ redeemed \subseteq Consent /\ issued \in Token
  /\ tokenCrashes \in 0 .. MaxTokenCrashes

CredentialInit ==
  /\ tenant = "active"
  /\ stripe = [i \in Stripes |-> [status |-> "none", token |-> 0, expired |-> FALSE]]
  /\ lost = {} /\ reporting = {}
  /\ consent = [c \in Consent |-> "none"]
  /\ callback = [c \in Consent |-> Away]
  /\ job = [i \in Stripes |-> NoJob]
  /\ honoured = {} /\ redeemed = {} /\ issued = 0
  /\ tokenCrashes = 0

Active(i) == stripe[i].status = "active"
Held(i) == job[i].step # "idle"
Set(i, status, token) ==
  stripe' = [stripe EXCEPT ![i] = [status |-> status, token |-> token, expired |-> FALSE]]

----------------------------------------------------------------------------
(* Consent *)

oauth_start(c) ==
  /\ tenant = "active" /\ consent[c] = "none"
  /\ consent' = [consent EXCEPT ![c] = "open"]
  /\ UNCHANGED <<tenant, stripe, callback, workerVars, atStripe, tokenCrashes>>

(* tenant_view looks whether the organization is active here only.         *)
CallbackBegins(c) ==
  /\ tenant = "active" /\ consent[c] = "open" /\ callback[c] = Away
  /\ callback' = [callback EXCEPT ![c].step = "exchanging"]
  /\ UNCHANGED <<tenant, stripe, consent, workerVars, atStripe, tokenCrashes>>

ExchangeCode(c) ==
  /\ callback[c].step = "exchanging"
  /\ c \notin redeemed /\ issued < MaxTokens
  /\ issued' = issued + 1 /\ honoured' = honoured \union {issued'}
  /\ redeemed' = redeemed \union {c}
  /\ callback' = [callback EXCEPT ![c] = [@ EXCEPT !.step = "answered", !.token = issued']]
  /\ UNCHANGED <<tenant, stripe, consent, workerVars, tokenCrashes>>

(* Refused, or unanswered: the consent is used up and this is committed.   *)
(* A token in an answer that was lost is nobody's, and is not counted.     *)
ExchangeCodeFails(c) ==
  /\ callback[c].step = "exchanging"
  /\ redeemed' = redeemed \union {c}
  /\ consent' = [consent EXCEPT ![c] = "used"]
  /\ callback' = [callback EXCEPT ![c] = Away]
  /\ UNCHANGED <<tenant, stripe, workerVars, honoured, issued, tokenCrashes>>

(* The installation is read without a lock.                                *)
CallbackLooks(c) ==
  /\ callback[c].step = "answered"
  /\ \E i \in Stripes \union {Nobody} :
       /\ IF i = Nobody THEN \A j \in Stripes : ~Active(j) ELSE Active(i)
       /\ callback' = [callback EXCEPT ![c] = [@ EXCEPT !.step = "saving", !.found = i]]
  /\ UNCHANGED <<tenant, stripe, consent, workerVars, atStripe, tokenCrashes>>

(* stripe_active_account_mode_uniq *)
Unique(i) == \A j \in Stripes \ {i} : ~Active(j)

CallbackSaves(c) ==
  /\ callback[c].step = "saving"
  /\ \E i \in Stripes :
       /\ IF callback[c].found = Nobody THEN stripe[i].status = "none" ELSE i = callback[c].found
       /\ ~Held(i) /\ Unique(i)
       /\ Set(i, "active", callback[c].token)
       /\ lost' = lost \ {i}
  /\ consent' = [consent EXCEPT ![c] = "used"]
  /\ callback' = [callback EXCEPT ![c] = Away]
  /\ UNCHANGED <<tenant, job, reporting, atStripe, tokenCrashes>>

RollBack(c) ==
  /\ callback' = [callback EXCEPT ![c] = Away]
  /\ UNCHANGED <<tenant, stripe, consent, workerVars, atStripe>>

CallbackConflicts(c) ==     \* an IntegrityError is no Problem: the request fails
  /\ callback[c].step = "saving"
  /\ \E j \in Stripes : Active(j) /\ j # callback[c].found
  /\ RollBack(c)
  /\ UNCHANGED tokenCrashes

CallbackCrashes(c) ==
  /\ callback[c] # Away /\ tokenCrashes < MaxTokenCrashes
  /\ tokenCrashes' = tokenCrashes + 1
  /\ RollBack(c)

----------------------------------------------------------------------------
(* Work that needs the credential: a receipt, or a page of a scan *)

TokenExpires(i) ==
  /\ Active(i) /\ ~stripe[i].expired
  /\ stripe' = [stripe EXCEPT ![i].expired = TRUE]
  /\ UNCHANGED <<tenant, consent, callback, workerVars, atStripe, tokenCrashes>>

TakeCredential(i) ==
  /\ tenant = "active" /\ Active(i) /\ ~Held(i)
  /\ job' = [job EXCEPT ![i].step = "locked"]
  /\ UNCHANGED <<tenant, stripe, consent, callback, reporting, lost, atStripe, tokenCrashes>>

Suspend(i) ==
  /\ Set(i, "suspended", 0)
  /\ reporting' = reporting \union {i}
  /\ lost' = lost \ {i}

Release(i) ==
  /\ job' = [job EXCEPT ![i] = NoJob]
  /\ UNCHANGED <<tenant, consent, callback, atStripe, tokenCrashes>>

UseToken(i) ==
  /\ job[i].step = "locked" /\ ~stripe[i].expired
  /\ Release(i)
  /\ Suspend(i) \/ UNCHANGED <<stripe, reporting, lost>>

Refresh(i) ==
  /\ job[i].step = "locked" /\ stripe[i].expired
  /\ stripe[i].token \in honoured /\ issued < MaxTokens
  /\ issued' = issued + 1
  /\ honoured' = (honoured \ {stripe[i].token}) \union {issued'}
  /\ job' = [job EXCEPT ![i] = [step |-> "exchanged", token |-> issued']]
  /\ UNCHANGED <<tenant, stripe, consent, callback, reporting, lost, redeemed, tokenCrashes>>

(* Mutant: a refused refresh is taken for a passing failure.               *)
RefreshIsTransient(i) ==
  /\ job[i].step = "locked" /\ stripe[i].expired
  /\ Release(i)
  /\ UNCHANGED <<stripe, reporting, lost>>

(* Refused, unanswered or malformed, an exchange is not tried again.       *)
RefreshFails(i) ==
  /\ job[i].step = "locked" /\ stripe[i].expired
  /\ Release(i)
  /\ Suspend(i)

(* Mutant: a failing handler rolls the refresh back.                       *)
KeptOnSuccess(i, failed) == IF failed THEN stripe[i].token ELSE job[i].token

(* The handler fails inside a savepoint: the new token is kept.            *)
Kept(i, failed) == job[i].token

FinishJob(i) ==
  /\ job[i].step = "exchanged"
  /\ Release(i)
  /\ \/ Suspend(i)
     \/ \E failed \in BOOLEAN :
          Set(i, "active", Kept(i, failed)) /\ UNCHANGED <<reporting, lost>>

WorkerCrashes(i) ==
  /\ Held(i) /\ tokenCrashes < MaxTokenCrashes
  /\ tokenCrashes' = tokenCrashes + 1
  /\ job' = [job EXCEPT ![i] = NoJob]
  /\ lost' = IF job[i].step = "exchanged" THEN lost \union {i} ELSE lost
  /\ UNCHANGED <<tenant, stripe, consent, callback, reporting, atStripe>>

(* The second transaction suspends whatever it finds.                      *)
ReportSuspension(i) ==
  /\ i \in reporting /\ ~Held(i)
  /\ Set(i, "suspended", 0)
  /\ reporting' = reporting \ {i} /\ lost' = lost \ {i}
  /\ UNCHANGED <<tenant, consent, callback, job, atStripe, tokenCrashes>>

----------------------------------------------------------------------------
(* People *)

connector_disconnect(i) ==
  /\ tenant = "active" /\ stripe[i].status # "none" /\ ~Held(i)
  /\ Set(i, "disconnected", 0)
  /\ lost' = lost \ {i}
  /\ UNCHANGED <<tenant, consent, callback, job, reporting, atStripe, tokenCrashes>>

deletion_request ==      \* organization_delete
  /\ tenant = "active" /\ \A i \in Stripes : ~Held(i)
  /\ tenant' = "deleted"
  /\ stripe' = [i \in Stripes |-> IF stripe[i].status = "none" THEN stripe[i]
                                  ELSE [status |-> "disconnected", token |-> 0, expired |-> FALSE]]
  /\ lost' = {}
  /\ UNCHANGED <<consent, callback, job, reporting, atStripe, tokenCrashes>>

CredentialNext ==
  \/ deletion_request
  \/ \E c \in Consent :
       \/ oauth_start(c) \/ CallbackBegins(c) \/ ExchangeCode(c) \/ ExchangeCodeFails(c)
       \/ CallbackLooks(c) \/ CallbackSaves(c) \/ CallbackConflicts(c) \/ CallbackCrashes(c)
  \/ \E i \in Stripes :
       \/ TokenExpires(i) \/ TakeCredential(i) \/ UseToken(i) \/ Refresh(i) \/ RefreshFails(i)
       \/ FinishJob(i) \/ WorkerCrashes(i) \/ ReportSuspension(i) \/ connector_disconnect(i)

CredentialSpec == CredentialInit /\ [][CredentialNext]_credentialVars

(* schedule() polls every account again and again; tokens last 55 minutes. *)
CredentialFairness ==
  \A i \in Stripes :
    /\ WF_credentialVars(TokenExpires(i)) /\ WF_credentialVars(TakeCredential(i))
    /\ WF_credentialVars(UseToken(i) \/ Refresh(i) \/ RefreshFails(i) \/ FinishJob(i))

----------------------------------------------------------------------------
(* Properties *)

(* The token of a connector that shows as active is one that Stripe        *)
(* accepts, whatever exchanges and failing handlers came in between, or a  *)
(* worker died between an exchange and its commit (runtime.py:206-233).    *)
StoredTokenWorks ==
  \A i \in Stripes : Active(i) /\ ~Held(i) /\ i \notin lost => stripe[i].token \in honoured

(* A connector that lost its token does not stay active for ever: the next *)
(* refresh is refused and suspends it (stripe.py:61-74, runtime.py:228).   *)
LostTokenIsNoticed ==
  \A i \in Stripes :
    Active(i) /\ stripe[i].token \notin honoured
      ~> ~Active(i) \/ stripe[i].token \in honoured

(* docs/security-model.md:47, of connector credentials: "Forgotten         *)
(* immediately on disconnect or deletion request".  A callback that waits  *)
(* for Stripe meanwhile stores new ones (stripe.py:132-157).               *)
CredentialsForgotten == tenant = "deleted" => \A i \in Stripes : stripe[i].token = 0
=============================================================================
