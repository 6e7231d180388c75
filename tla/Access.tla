-------------------------------- MODULE Access --------------------------------
(***************************************************************************)
(* Who may change one organization, and what a repeated request does:      *)
(* tenant_view and idempotent around every endpoint (accounts/tenancy.py,  *)
(* control_plane/api.py), and the endpoints about members themselves.      *)
(*                                                                         *)
(* A request looks at the membership first and then waits for the          *)
(* Organization row, which it holds to its commit; the wait is what is     *)
(* between Arrives and Executes.  The change that the requests of members  *)
(* make (a store, an invitation, a report, ...) needs an administrator and *)
(* is otherwise left open: only how often it is made counts here.          *)
(***************************************************************************)
EXTENDS Integers

CONSTANTS
  User,             \* the users that may be invited; the owner is none of them
  Staff,            \* the users that may be granted support access
  Process,          \* requests served at the same time
  RequestKey,       \* values of the header Idempotency-Key
  Body,             \* bodies of requests
  MaxLapses         \* bound on records of one request that expire

VARIABLES
  orgActive,        \* Organization.active
  member,           \* Membership rows
  invitation,       \* Invitation rows
  grant,            \* staff with a support grant that is neither revoked nor expired
  call,             \* the request each process serves
  record,           \* IdempotencyRecord rows, by principal and key
  acted,            \* history: changes made under each principal and key
  lapses            \* history: records of them that expired

peopleVars == <<orgActive, member, invitation, grant>>
requestHistory == <<acted, lapses>>
accessVars == <<peopleVars, call, record, requestHistory>>

Role == {"admin", "viewer", "support"}
NotAMember == [role |-> "none", active |-> FALSE]
NoCall == [user |-> "none"]
Principal == User \X RequestKey       \* the owner's requests are as an admin's
Request == [user : User, key : RequestKey, body : Body, role : Role]
NoRecord == "none"

ASSUME AccessAssumption == Staff \subseteq User /\ MaxLapses \in Nat /\ NoRecord \notin Body

AccessTypeOK ==
  /\ orgActive \in BOOLEAN
  /\ member \in [User -> {NotAMember} \union [role : {"admin", "viewer"}, active : BOOLEAN]]
  /\ invitation \in [User -> {"none", "open", "accepted"}]
  /\ grant \subseteq Staff
  /\ call \in [Process -> Request \union {NoCall}]
  /\ record \in [Principal -> Body \union {NoRecord}]
  /\ acted \in [Principal -> 0 .. MaxLapses + 1]
  /\ lapses \in [Principal -> 0 .. MaxLapses]

AccessInit ==
  /\ orgActive = TRUE
  /\ member = [u \in User |-> NotAMember]
  /\ invitation = [u \in User |-> "none"]
  /\ grant = {}
  /\ call = [p \in Process |-> NoCall]
  /\ record = [r \in Principal |-> NoRecord]
  /\ acted = [r \in Principal |-> 0] /\ lapses = [r \in Principal |-> 0]

----------------------------------------------------------------------------
(* What the owner does: each of these holds the Organization row too, and  *)
(* its own repetition is like that of any request.                         *)

OwnerActs == orgActive

invite_member(u) ==
  /\ OwnerActs /\ invitation[u] = "none"      \* bound: one invitation each
  /\ invitation' = [invitation EXCEPT ![u] = "open"]
  /\ UNCHANGED <<orgActive, member, grant, call, record, requestHistory>>

(* Whoever was a member, removed or not, cannot join once more.  Whether   *)
(* the organization is active is not looked at.                            *)
accept_invitation(u, role) ==
  /\ invitation[u] = "open" /\ member[u] = NotAMember
  /\ invitation' = [invitation EXCEPT ![u] = "accepted"]
  /\ member' = [member EXCEPT ![u] = [role |-> role, active |-> TRUE]]
  /\ UNCHANGED <<orgActive, grant, call, record, requestHistory>>

membership_change(u, role, active) ==      \* of anyone but the owner
  /\ OwnerActs /\ member[u] # NotAMember
  /\ member' = [member EXCEPT ![u] = [role |-> role, active |-> active]]
  /\ UNCHANGED <<orgActive, invitation, grant, call, record, requestHistory>>

support_grant(s) ==
  /\ OwnerActs
  /\ grant' = grant \union {s}
  /\ UNCHANGED <<orgActive, member, invitation, call, record, requestHistory>>

GrantEnds(s) ==      \* revoked, or expired after at most two hours
  /\ grant' = grant \ {s}
  /\ UNCHANGED <<orgActive, member, invitation, call, record, requestHistory>>

DeactivateOrganization ==      \* organization_delete
  /\ OwnerActs
  /\ orgActive' = FALSE
  /\ UNCHANGED <<member, invitation, grant, call, record, requestHistory>>

----------------------------------------------------------------------------
(* Requests *)

RoleOf(u) == IF member[u].active THEN member[u].role
             ELSE IF u \in grant THEN "support" ELSE "none"

(* tenant_view *)
Arrives(p, u, key, body) ==
  /\ call[p] = NoCall
  /\ RoleOf(u) # "none" /\ orgActive
  /\ call' = [call EXCEPT ![p] = [user |-> u, key |-> key, body |-> body, role |-> RoleOf(u)]]
  /\ UNCHANGED <<peopleVars, record, requestHistory>>

Leaves(p) == call' = [call EXCEPT ![p] = NoCall]
RecordOf(c) == record[<<c.user, c.key>>]

(* Mutant: under a known key another body is a new request.                *)
NewBody(c) == RecordOf(c) # c.body

NewRequest(c) == RecordOf(c) = NoRecord
MayAct(c) == c.role = "admin"

Replays(p) ==        \* the same body is answered as before, another refused;
                     \* before the endpoint and its require_role are reached
  /\ call[p] # NoCall /\ RecordOf(call[p]) # NoRecord
  /\ Leaves(p)
  /\ UNCHANGED <<peopleVars, record, requestHistory>>

Acts(p) ==           \* require_role, the change, and its record
  LET c == call[p]
      r == <<c.user, c.key>> IN
  /\ c # NoCall /\ NewRequest(c) /\ MayAct(c)
  /\ acted' = [acted EXCEPT ![r] = @ + 1]
  /\ record' = [record EXCEPT ![r] = c.body]
  /\ Leaves(p)
  /\ UNCHANGED <<peopleVars, lapses>>

(* Refused by require_role or by the endpoint, or the process dies: in any *)
(* case the transaction is rolled back and leaves no record.               *)
Fails(p) ==
  /\ call[p] # NoCall
  /\ Leaves(p)
  /\ UNCHANGED <<peopleVars, record, requestHistory>>

RecordExpires(r) ==   \* 24 hours
  /\ record[r] # NoRecord /\ lapses[r] < MaxLapses
  /\ record' = [record EXCEPT ![r] = NoRecord]
  /\ lapses' = [lapses EXCEPT ![r] = @ + 1]
  /\ UNCHANGED <<peopleVars, call, acted>>

AccessNext ==
  \/ \E u \in User :
       \/ invite_member(u)
       \/ \E role \in {"admin", "viewer"} :
            \/ accept_invitation(u, role)
            \/ \E active \in BOOLEAN : membership_change(u, role, active)
  \/ \E s \in Staff : support_grant(s) \/ GrantEnds(s)
  \/ DeactivateOrganization
  \/ \E p \in Process :
       \/ \E u \in User, key \in RequestKey, body \in Body : Arrives(p, u, key, body)
       \/ Replays(p) \/ Acts(p) \/ Fails(p)
  \/ \E r \in Principal : RecordExpires(r)

AccessSpec == AccessInit /\ [][AccessNext]_accessVars

----------------------------------------------------------------------------
(* Properties *)

(* However often a client repeats a request, and on however many processes *)
(* at once, its change is made once in the life of a record (api.py:84).   *)
RepeatActsOnce == \A r \in Principal : acted[r] <= 1 + lapses[r]
=============================================================================
