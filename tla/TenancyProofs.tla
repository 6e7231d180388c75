--------------------------- MODULE TenancyProofs ----------------------------
(***************************************************************************)
(* What holds of Access for any number of users, keys, bodies, requests    *)
(* served at a time and expired records, and of Erasure for every set of   *)
(* reports and invitations and any number of failures.                     *)
(*                                                                         *)
(* Access: a change is counted against its record, or one that expired     *)
(* (Counted).                                                              *)
(*                                                                         *)
(* Erasure: the command may commit because what it verified cannot change  *)
(* until it does (NothingBehind): a transaction under way holds a row that *)
(* the command has not deleted (RowsAreLocked), so where every row is      *)
(* deleted none is under way.  A restored database is erased again because *)
(* the ledger was written before the commit (LedgerFirst).                 *)
(***************************************************************************)
EXTENDS Access, Erasure, TLAPS

(* Why a repeated request acts once: every change made under a key belongs *)
(* to its record, or to one that has expired.                              *)
Counted ==
  \A r \in Principal :
    acted[r] <= lapses[r] + (IF record[r] = NoRecord THEN 0 ELSE 1)

AccessInv == AccessTypeOK /\ Counted

(* The type invariant and the count hold at first.                         *)
LEMMA AccessInitInv == AccessInit => AccessInv
<1>. SUFFICES ASSUME AccessInit PROVE AccessInv
  OBVIOUS
<1>. USE AccessAssumption DEF AccessInit
<1>1. AccessTypeOK
  BY DEF AccessTypeOK, NoRecord, NoCall, NotAMember, Principal
<1>2. Counted
  BY DEF Counted
<1>. QED  BY <1>1, <1>2 DEF AccessInv

(* What concerns the members and grants leaves requests and records alone. *)
PeopleMove ==
  \/ \E u \in User :
       \/ invite_member(u)
       \/ \E role \in {"admin", "viewer"} :
            \/ accept_invitation(u, role)
            \/ \E active \in BOOLEAN : membership_change(u, role, active)
  \/ \E s \in Staff : support_grant(s) \/ GrantEnds(s)
  \/ DeactivateOrganization

LEMMA PeopleInv ==
  ASSUME AccessInv, PeopleMove
  PROVE AccessInv'
<1>. USE AccessAssumption DEF AccessInv
<1>1. /\ UNCHANGED <<call, record, acted, lapses>>
  BY DEF PeopleMove, invite_member, accept_invitation, membership_change, support_grant,
         GrantEnds, DeactivateOrganization, requestHistory
<1>2. orgActive' \in BOOLEAN /\ grant' \subseteq Staff
  BY DEF PeopleMove, invite_member, accept_invitation, membership_change, support_grant,
         GrantEnds, DeactivateOrganization, AccessTypeOK
<1>3. invitation' \in [User -> {"none", "open", "accepted"}]
  BY DEF PeopleMove, invite_member, accept_invitation, membership_change, support_grant,
         GrantEnds, DeactivateOrganization, AccessTypeOK
<1>. DEFINE Row == [role : {"admin", "viewer"}, active : BOOLEAN]
            Joined(u, role, active) ==
              member' = [member EXCEPT ![u] = [role |-> role, active |-> active]]
<1>4. member' \in [User -> {NotAMember} \union Row]
  <2>1. \/ member' = member
        \/ \E u \in User, role \in {"admin", "viewer"}, active \in BOOLEAN : Joined(u, role, active)
    BY DEF PeopleMove, invite_member, accept_invitation, membership_change, support_grant,
           GrantEnds, DeactivateOrganization
  <2>2. ASSUME NEW u \in User, NEW role \in {"admin", "viewer"}, NEW active \in BOOLEAN,
               Joined(u, role, active)
        PROVE member' \in [User -> {NotAMember} \union Row]
    <3>1. [role |-> role, active |-> active] \in Row
      OBVIOUS
    <3>2. member \in [User -> {NotAMember} \union Row]
      BY DEF AccessTypeOK
    <3>. HIDE DEF Row
    <3>. QED  BY <2>2, <3>1, <3>2
  <2>. QED  BY <2>1, <2>2 DEF AccessTypeOK
<1>5. AccessTypeOK'
  BY <1>1, <1>2, <1>3, <1>4 DEF AccessTypeOK
<1>6. Counted'
  BY <1>1 DEF Counted
<1>. QED  BY <1>5, <1>6

(* A request comes and goes, with or without a change.                     *)
LEMMA ArrivalInv ==
  ASSUME AccessInv, NEW p \in Process, NEW u \in User, NEW key \in RequestKey, NEW body \in Body,
         Arrives(p, u, key, body)
  PROVE AccessInv'
<1>. USE DEF AccessInv, Arrives, peopleVars, requestHistory
<1>1. RoleOf(u) \in Role
  BY AccessAssumption DEF AccessTypeOK, RoleOf, NotAMember, Role
<1>2. AccessTypeOK'
  BY <1>1 DEF AccessTypeOK, Request
<1>3. Counted'
  BY DEF Counted
<1>. QED  BY <1>2, <1>3

LEMMA DepartureInv ==
  ASSUME AccessInv, NEW p \in Process, Replays(p) \/ Fails(p)
  PROVE AccessInv'
<1>. USE DEF AccessInv, Replays, Fails, Leaves, peopleVars, requestHistory
<1>1. AccessTypeOK'
  BY DEF AccessTypeOK
<1>2. Counted'
  BY DEF Counted
<1>. QED  BY <1>1, <1>2

LEMMA ChangeInv ==
  ASSUME AccessInv, NEW p \in Process, Acts(p)
  PROVE AccessInv'
<1>. USE DEF AccessInv
<1>. DEFINE c == call[p]
            r == <<c.user, c.key>>
<1>1. c \in Request
  BY DEF Acts, AccessTypeOK
<1>2. r \in Principal /\ c.body \in Body /\ c.body # NoRecord
  BY <1>1, AccessAssumption DEF Request, Principal
<1>3. /\ record[r] = NoRecord
      /\ acted' = [acted EXCEPT ![r] = @ + 1]
      /\ record' = [record EXCEPT ![r] = c.body]
      /\ call' = [call EXCEPT ![p] = NoCall]
      /\ UNCHANGED <<orgActive, member, invitation, grant, lapses>>
  BY DEF Acts, NewRequest, RecordOf, Leaves, peopleVars
<1>4. acted[r] <= lapses[r] /\ acted[r] \in 0 .. MaxLapses + 1 /\ lapses[r] \in 0 .. MaxLapses
  BY <1>2, <1>3 DEF Counted, AccessTypeOK
<1>5. acted[r] + 1 \in 0 .. MaxLapses + 1
  BY <1>4, AccessAssumption
<1>6. AccessTypeOK'
  BY <1>2, <1>3, <1>5 DEF AccessTypeOK
<1>7. Counted'
  <2>. SUFFICES ASSUME NEW q \in Principal
                PROVE acted'[q] <= lapses'[q] + (IF record'[q] = NoRecord THEN 0 ELSE 1)
    BY DEF Counted
  <2>1. CASE q = r
    BY <1>2, <1>3, <1>4, <2>1 DEF AccessTypeOK
  <2>2. CASE q # r
    BY <1>2, <1>3, <2>2 DEF AccessTypeOK, Counted
  <2>. QED  BY <2>1, <2>2
<1>. QED  BY <1>6, <1>7

LEMMA ExpiryInv ==
  ASSUME AccessInv, NEW r \in Principal, RecordExpires(r)
  PROVE AccessInv'
<1>. USE DEF AccessInv, RecordExpires, peopleVars
<1>1. acted[r] <= lapses[r] + 1 /\ lapses[r] + 1 \in 0 .. MaxLapses
  BY AccessAssumption DEF AccessTypeOK, Counted
<1>2. AccessTypeOK'
  BY <1>1 DEF AccessTypeOK
<1>3. Counted'
  <2>. SUFFICES ASSUME NEW q \in Principal
                PROVE acted'[q] <= lapses'[q] + (IF record'[q] = NoRecord THEN 0 ELSE 1)
    BY DEF Counted
  <2>1. CASE q = r
    BY <1>1, <2>1 DEF AccessTypeOK
  <2>2. CASE q # r
    BY <2>2 DEF AccessTypeOK, Counted
  <2>. QED  BY <2>1, <2>2
<1>. QED  BY <1>2, <1>3

(* Every step keeps the invariant.                                         *)
LEMMA AccessStepInv == AccessInv /\ [AccessNext]_accessVars => AccessInv'
<1>. SUFFICES ASSUME AccessInv, [AccessNext]_accessVars PROVE AccessInv'
  OBVIOUS
<1>1. CASE PeopleMove
  BY <1>1, PeopleInv
<1>2. CASE \E p \in Process, u \in User, key \in RequestKey, body \in Body :
             Arrives(p, u, key, body)
  BY <1>2, ArrivalInv
<1>3. CASE \E p \in Process : Replays(p) \/ Fails(p)
  BY <1>3, DepartureInv
<1>4. CASE \E p \in Process : Acts(p)
  BY <1>4, ChangeInv
<1>5. CASE \E r \in Principal : RecordExpires(r)
  BY <1>5, ExpiryInv
<1>6. CASE UNCHANGED accessVars
  BY <1>6 DEF AccessInv, AccessTypeOK, Counted, accessVars, peopleVars, requestHistory
<1>. QED  BY <1>1, <1>2, <1>3, <1>4, <1>5, <1>6 DEF AccessNext, PeopleMove

(* Whatever the members do and however requests interleave, the invariant  *)
(* holds (tenancy.py:122-137, api.py:84-125).                              *)
THEOREM AccessInvariant == AccessSpec => []AccessInv
<1>. QED  BY AccessInitInv, AccessStepInv, PTL DEF AccessSpec

(* However often, and on however many processes at once, a client repeats  *)
(* a request, its change is made once in the life of a record              *)
(* (api.py:84-125).                                                        *)
THEOREM RepeatsActOnce == AccessSpec => []RepeatActsOnce
<1>1. AccessInv => RepeatActsOnce
  <2>. SUFFICES ASSUME AccessInv, NEW r \in Principal PROVE acted[r] <= 1 + lapses[r]
    BY DEF RepeatActsOnce
  <2>1. acted[r] \in 0 .. MaxLapses + 1 /\ lapses[r] \in 0 .. MaxLapses
    BY DEF AccessInv, AccessTypeOK
  <2>. QED  BY <2>1, AccessAssumption DEF AccessInv, Counted
<1>. QED  BY <1>1, AccessInvariant, PTL

----------------------------------------------------------------------------
(* Erasure *)


USE ErasureAssumption

Organization == {"active", "requested", "erased"}
Copy == [org : Organization, rows : SUBSET TenantRow, finished : SUBSET TenantRow]

(* A transaction holds a row, which the command then cannot delete.        *)
RowsAreLocked == running \subseteq rows \ doomed

OnlyRequestedIsErased ==
  /\ stage > 0 => org = "requested" /\ ~isolated /\ objects \subseteq late
  /\ stage = 0 => doomed = {}

NothingBehind == stage > Verifying => rows \subseteq doomed

LedgerFirst ==
  /\ stage = Committing \/ everErased => ledger
  /\ org = "erased" => everErased

(* A copy of an erased organization is empty.                              *)
CopiesAreTrue ==
  /\ backup \in {NoBackup, Restored} \union Copy
  /\ backup.org = "erased" => everErased /\ backup.rows = {}

(* Nothing but the replay runs in a restored database.                     *)
RestoredIsClosed == isolated => running = {} /\ backup = Restored

ErasureInv ==
  /\ ErasureTypeOK
  /\ RowsAreLocked
  /\ OnlyRequestedIsErased
  /\ NothingBehind
  /\ LedgerFirst
  /\ CopiesAreTrue
  /\ RestoredIsClosed
  /\ ErasedIsGone
  /\ RestoreKeepsErased

----------------------------------------------------------------------------
(* Lemmas *)

(* The stages of the command, as numbers (maintenance.py:73-127).          *)
LEMMA Stages ==
  /\ DOMAIN Tables = 1 .. 5
  /\ Verifying = 6 /\ Recording = 7 /\ Committing = 8
  BY DEF Tables, Verifying, Recording, Committing

LEMMA Copies ==
  /\ NoBackup \notin Copy /\ Restored \notin Copy
  /\ NoBackup.org # "erased" /\ Restored.org # "erased"
  /\ \A b \in Copy : b.org \in Organization /\ b.rows \subseteq TenantRow
                     /\ b.finished \subseteq TenantRow
  <1>1. \A b \in Copy : b.org \in Organization
    BY DEF Copy
  <1>2. NoBackup.org = "none" /\ Restored.org = "restored"
    BY DEF NoBackup, Restored
  <1>3. \A b \in Copy : b.rows \subseteq TenantRow /\ b.finished \subseteq TenantRow
    BY DEF Copy
  <1> QED BY <1>1, <1>2, <1>3 DEF Organization

LEMMA AddedRows == \A x \in TenantRow : Adds(x) \subseteq TenantRow
  <1> TAKE x \in TenantRow
  <1>1. CASE x[1] = "invitation"
    <2>1. x[2] \in Invite
      BY <1>1 DEF TenantRow
    <2> QED BY <1>1, <2>1 DEF Adds, TenantRow
  <1>2. CASE x[1] # "invitation"
    BY <1>2 DEF Adds, TenantRow
  <1> QED BY <1>1, <1>2

LEMMA InitErasure == ASSUME ErasureInit PROVE ErasureInv
  <1>1. rows \subseteq TenantRow
    BY DEF ErasureInit, TenantRow
  <1>2. /\ org = "active" /\ stage = 0 /\ ~everErased /\ ~isolated /\ backup = NoBackup
        /\ running = {} /\ doomed = {} /\ objects = {} /\ late = {} /\ finished = {}
        /\ ~ledger /\ ledger \in BOOLEAN /\ everErased \in BOOLEAN /\ isolated \in BOOLEAN
        /\ eraseCrashes = 0
    BY DEF ErasureInit
  <1>3. ErasureTypeOK
    BY <1>1, <1>2, Stages DEF ErasureTypeOK
  <1> QED
    BY <1>2, <1>3, Stages, Copies DEF ErasureInv, RowsAreLocked, OnlyRequestedIsErased,
       NothingBehind, LedgerFirst, CopiesAreTrue, RestoredIsClosed, ErasedIsGone,
       RestoreKeepsErased

(* The owner's request for deletion meets a running organization only      *)
(* (api.py:716-730).                                                       *)
LEMMA RequestInv == ASSUME ErasureInv, organization_delete PROVE ErasureInv'
  <1> USE DEF ErasureInv, OnlyRequestedIsErased
  <1>1. /\ stage = 0 /\ doomed = {} /\ ~isolated /\ org' = "requested"
        /\ rows' = rows \union {<<"outbox", "notice">>}
        /\ UNCHANGED <<running, finished, storageVars, eraserVars, restoreVars>>
    BY DEF organization_delete, ErasureTypeOK
  <1>2. <<"outbox", "notice">> \in TenantRow
    BY DEF TenantRow
  <1>3. ~everErased
    BY DEF organization_delete, RestoreKeepsErased
  <1> QED
    BY <1>1, <1>2, <1>3, Stages DEF storageVars, eraserVars, restoreVars, ErasureTypeOK,
       RowsAreLocked, NothingBehind, LedgerFirst, CopiesAreTrue, RestoredIsClosed,
       ErasedIsGone, RestoreKeepsErased

(* The transactions beside the command: they begin with a row that is      *)
(* there, and only their end adds rows (runtime.py:174-205,                *)
(* api.py:569-608).                                                        *)
LEMMA TransactionsInv ==
  ASSUME ErasureInv, NEW x \in TenantRow, StartTxn(x) \/ FinishTxn(x) \/ AbortTxn(x)
  PROVE  ErasureInv'
  <1> USE DEF ErasureInv
  <1>1. /\ UNCHANGED <<org, storageVars, eraserVars, restoreVars>>
        /\ rows \subseteq rows' /\ rows' \subseteq TenantRow
        /\ running' \subseteq rows \ doomed /\ finished' \subseteq TenantRow
        /\ isolated => running' = {}
        /\ rows' # rows => x \in running
    <2>1. CASE StartTxn(x)
      BY <2>1 DEF StartTxn, ErasureTypeOK, RowsAreLocked
    <2>2. CASE FinishTxn(x)
      BY <2>2, AddedRows DEF FinishTxn, ErasureTypeOK, RowsAreLocked, RestoredIsClosed
    <2>3. CASE AbortTxn(x)
      BY <2>3 DEF AbortTxn, ErasureTypeOK, RowsAreLocked, RestoredIsClosed
    <2> QED BY <2>1, <2>2, <2>3
  <1>2. ErasureTypeOK'
    BY <1>1 DEF ErasureTypeOK, storageVars, eraserVars, restoreVars
  <1>3. NothingBehind' /\ ErasedIsGone'
    BY <1>1 DEF RowsAreLocked, NothingBehind, ErasedIsGone, storageVars, eraserVars
  <1> QED
    BY <1>1, <1>2, <1>3 DEF storageVars, eraserVars, restoreVars, RowsAreLocked,
       OnlyRequestedIsErased, LedgerFirst, CopiesAreTrue, RestoredIsClosed,
       RestoreKeepsErased

(* A report that is written, and one that expires: neither adds a row, and *)
(* what is written while the command runs is late (reporting/service.py:   *)
(* 36-66, maintenance.py:130-164).                                         *)
LEMMA ReportsInv ==
  ASSUME ErasureInv, NEW f \in File, PutReport(f) \/ retain(f) PROVE ErasureInv'
  <1> USE DEF ErasureInv
  <1>1. CASE PutReport(f)
    <2>1. /\ UNCHANGED <<databaseVars, eraserVars, restoreVars>>
          /\ objects' = objects \union {f} /\ running # {}
          /\ late' = IF stage > 0 THEN late \union {f} ELSE late
      BY <1>1 DEF PutReport
    <2>2. ErasureTypeOK'
      BY <2>1 DEF ErasureTypeOK, databaseVars, eraserVars, restoreVars
    <2>3. org # "erased"
      BY <2>1 DEF ErasedIsGone, RowsAreLocked
    <2> QED
      BY <2>1, <2>2, <2>3 DEF databaseVars, eraserVars, restoreVars, RowsAreLocked,
         OnlyRequestedIsErased, NothingBehind, LedgerFirst, CopiesAreTrue, RestoredIsClosed,
         ErasedIsGone, RestoreKeepsErased
  <1>2. CASE retain(f)
    <2>1. /\ UNCHANGED <<org, running, finished, late, eraserVars, restoreVars>>
          /\ org = "active" /\ rows' \subseteq rows /\ objects' \subseteq objects
          /\ running \subseteq rows'
      BY <1>2 DEF retain, RowsAreLocked
    <2>2. stage = 0 /\ doomed = {}
      BY <2>1 DEF OnlyRequestedIsErased, ErasureTypeOK
    <2>3. ErasureTypeOK'
      BY <2>1, <2>2 DEF ErasureTypeOK, eraserVars, restoreVars
    <2> QED
      BY <2>1, <2>2, <2>3, Stages DEF eraserVars, restoreVars, RowsAreLocked,
         OnlyRequestedIsErased, NothingBehind, LedgerFirst, CopiesAreTrue, RestoredIsClosed,
         ErasedIsGone, RestoreKeepsErased
  <1> QED BY <1>1, <1>2

(* The command begins, and deletes table after table (maintenance.py:      *)
(* 30-46, 77-87).                                                          *)
LEMMA DeletingInv == ASSUME ErasureInv, erase_reports \/ DeleteTable PROVE ErasureInv'
  <1> USE DEF ErasureInv
  <1>1. CASE erase_reports
    <2>1. /\ UNCHANGED <<databaseVars, late, doomed, ledger, everErased, eraseCrashes, restoreVars>>
          /\ stage = 0 /\ org = "requested" /\ ~isolated /\ objects' = {} /\ stage' = 1
      BY <1>1 DEF erase_reports, ErasurePending
    <2>2. ErasureTypeOK'
      BY <2>1, Stages DEF ErasureTypeOK, databaseVars, restoreVars
    <2> QED
      BY <2>1, <2>2, Stages DEF databaseVars, restoreVars, RowsAreLocked,
         OnlyRequestedIsErased, NothingBehind, LedgerFirst, CopiesAreTrue, RestoredIsClosed,
         ErasedIsGone, RestoreKeepsErased
  <1>2. CASE DeleteTable
    <2>1. /\ UNCHANGED <<databaseVars, storageVars, ledger, everErased, eraseCrashes, restoreVars>>
          /\ stage \in 1 .. 5 /\ stage' = stage + 1
          /\ doomed' = doomed \union {x \in rows : InTable(x, stage)}
          /\ \A x \in running : ~InTable(x, stage)
      BY <1>2, Stages DEF DeleteTable
    <2>2. ErasureTypeOK'
      BY <2>1, Stages DEF ErasureTypeOK, databaseVars, storageVars, restoreVars
    <2>3. RowsAreLocked'
      BY <2>1 DEF RowsAreLocked, databaseVars
    <2>4. stage > 0 /\ stage' > 0 /\ stage' <= 6
      BY <2>1
    <2> QED
      BY <2>1, <2>2, <2>3, <2>4, Stages DEF databaseVars, storageVars, restoreVars,
         OnlyRequestedIsErased, NothingBehind, LedgerFirst, CopiesAreTrue, RestoredIsClosed,
         ErasedIsGone, RestoreKeepsErased
  <1> QED BY <1>1, <1>2

(* It verifies and writes the ledger, or rolls everything back             *)
(* (maintenance.py:88-125).                                                *)
LEMMA RecordingInv ==
  ASSUME ErasureInv, Verify \/ PutLedger \/ EraseFails PROVE ErasureInv'
  <1> USE DEF ErasureInv
  <1>1. /\ UNCHANGED <<databaseVars, storageVars, everErased, restoreVars>>
        /\ stage > 0 /\ stage' \in 0 .. Committing /\ ledger' \in BOOLEAN
        /\ eraseCrashes' \in 0 .. MaxEraseCrashes
        /\ \/ stage' = 0 /\ doomed' = {}
           \/ stage' > 0 /\ doomed' = doomed
        /\ ledger => ledger'
        /\ stage' = Committing => ledger'
        /\ stage' > Verifying => rows \subseteq doomed
    <2>1. CASE Verify
      BY <2>1, Stages DEF Verify, NothingRemains, ErasureTypeOK
    <2>2. CASE PutLedger
      BY <2>2, Stages DEF PutLedger, ErasureTypeOK, NothingBehind
    <2>3. CASE EraseFails
      BY <2>3, Stages DEF EraseFails, ErasureTypeOK
    <2> QED BY <2>1, <2>2, <2>3
  <1>2. ErasureTypeOK'
    BY <1>1 DEF ErasureTypeOK, databaseVars, storageVars, restoreVars
  <1>3. RowsAreLocked' /\ NothingBehind' /\ OnlyRequestedIsErased'
    BY <1>1, Stages DEF RowsAreLocked, NothingBehind, OnlyRequestedIsErased, databaseVars,
       storageVars, restoreVars
  <1> QED
    BY <1>1, <1>2, <1>3 DEF databaseVars, storageVars, restoreVars,
       LedgerFirst, CopiesAreTrue, RestoredIsClosed, ErasedIsGone, RestoreKeepsErased

(* The commit leaves nothing: no transaction is under way then, and no     *)
(* object is left but the late ones (maintenance.py:97-127).               *)
LEMMA CommitInv == ASSUME ErasureInv, CommitErasure PROVE ErasureInv'
  <1> USE DEF ErasureInv
  <1>1. /\ UNCHANGED <<running, finished, storageVars, ledger, eraseCrashes, restoreVars>>
        /\ stage = Committing /\ stage' = 0 /\ doomed' = {} /\ org' = "erased"
        /\ rows' = rows \ doomed /\ everErased' = TRUE
    BY DEF CommitErasure, MayCommit, restoreVars
  <1>2. rows' = {} /\ running = {} /\ ledger /\ ~isolated /\ objects \subseteq late
    BY <1>1, Stages DEF NothingBehind, RowsAreLocked, LedgerFirst, OnlyRequestedIsErased
  <1>3. ErasureTypeOK'
    BY <1>1, <1>2, Stages DEF ErasureTypeOK, storageVars, restoreVars
  <1> QED
    BY <1>1, <1>2, <1>3, Stages DEF storageVars, restoreVars, RowsAreLocked,
       OnlyRequestedIsErased, NothingBehind, LedgerFirst, CopiesAreTrue, RestoredIsClosed,
       ErasedIsGone, RestoreKeepsErased

(* The database is copied, and a copy put back into an isolated platform   *)
(* (replay_erasures.py:26-66).                                             *)
LEMMA RestoreInv == ASSUME ErasureInv, Backup \/ Restore PROVE ErasureInv'
  <1> USE DEF ErasureInv
  <1>1. CASE Backup
    <2>1. /\ UNCHANGED <<databaseVars, storageVars, eraserVars, isolated>>
          /\ backup = NoBackup
          /\ backup' = [org |-> org, rows |-> rows, finished |-> finished]
      BY <1>1 DEF Backup
    <2>2. /\ backup' \in Copy /\ backup'.org = org /\ backup'.rows = rows
          /\ ~isolated
      BY <2>1 DEF Copy, Organization, ErasureTypeOK, RestoredIsClosed, NoBackup, Restored
    <2>3. ErasureTypeOK'
      BY <2>1 DEF ErasureTypeOK, databaseVars, storageVars, eraserVars
    <2> QED
      BY <2>1, <2>2, <2>3 DEF databaseVars, storageVars, eraserVars, RowsAreLocked,
         OnlyRequestedIsErased, NothingBehind, LedgerFirst, CopiesAreTrue, RestoredIsClosed,
         ErasedIsGone, RestoreKeepsErased
  <1>2. CASE Restore
    <2>1. /\ UNCHANGED <<storageVars, eraserVars>>
          /\ backup \in Copy /\ ~isolated /\ stage = 0 /\ org' = backup.org
          /\ rows' = backup.rows /\ finished' = backup.finished
          /\ running' = {} /\ isolated' = TRUE /\ backup' = Restored
      BY <1>2 DEF Restore, CopiesAreTrue
    <2>2. org' = "erased" => everErased /\ rows' = {} /\ objects \subseteq late
      BY <2>1 DEF CopiesAreTrue, RestoreKeepsErased, ErasedIsGone
    <2>3. doomed = {}
      BY <2>1 DEF OnlyRequestedIsErased
    <2>4. ErasureTypeOK'
      BY <2>1, <2>3, Copies DEF ErasureTypeOK, Organization, storageVars, eraserVars
    <2> QED
      BY <2>1, <2>2, <2>3, <2>4, Copies, Stages DEF storageVars, eraserVars, RowsAreLocked,
         OnlyRequestedIsErased, NothingBehind, LedgerFirst, CopiesAreTrue, RestoredIsClosed,
         ErasedIsGone, RestoreKeepsErased
  <1> QED BY <1>1, <1>2

(* The replay erases what the ledger names before the platform opens       *)
(* (replay_erasures.py:26-66).                                             *)
LEMMA ReplayInv == ASSUME ErasureInv, replay_erasures PROVE ErasureInv'
  <1> USE DEF ErasureInv
  <1>1. /\ UNCHANGED <<running, finished, late, stage, doomed, ledger, eraseCrashes, backup>>
        /\ isolated /\ isolated' = FALSE
        /\ IF ledger /\ org # "erased"
           THEN org' = "erased" /\ rows' = {} /\ objects' = {} /\ everErased' = TRUE
           ELSE UNCHANGED <<org, rows, objects, everErased>>
    BY DEF replay_erasures, Exists
  <1>2. stage = 0 /\ doomed = {} /\ running = {} /\ backup = Restored
    BY <1>1 DEF OnlyRequestedIsErased, RestoredIsClosed, ErasureTypeOK
  <1>3. ErasureTypeOK'
    BY <1>1, <1>2 DEF ErasureTypeOK
  <1>4. everErased' => ledger /\ org' = "erased"
    BY <1>1 DEF LedgerFirst
  <1>5. org' = "erased" => everErased' /\ rows' = {} /\ objects' \subseteq late
    BY <1>1 DEF LedgerFirst, ErasedIsGone
  <1> QED
    BY <1>1, <1>2, <1>3, <1>4, <1>5, Stages, Copies DEF RowsAreLocked,
       OnlyRequestedIsErased, NothingBehind, LedgerFirst, CopiesAreTrue, RestoredIsClosed,
       ErasedIsGone, RestoreKeepsErased

----------------------------------------------------------------------------
(* Theorems *)

(* The invariant of the erasure holds in every state.                      *)
THEOREM ErasureInvariant == ErasureSpec => []ErasureInv
  <1>1. ErasureInv /\ [ErasureNext]_erasureVars => ErasureInv'
    <2> SUFFICES ASSUME ErasureInv, [ErasureNext]_erasureVars PROVE ErasureInv'
      OBVIOUS
    <2>1. CASE UNCHANGED erasureVars
      BY <2>1 DEF erasureVars, databaseVars, storageVars, eraserVars, restoreVars, ErasureInv,
         ErasureTypeOK, RowsAreLocked, OnlyRequestedIsErased, NothingBehind, LedgerFirst,
         CopiesAreTrue, RestoredIsClosed, ErasedIsGone, RestoreKeepsErased
    <2> QED
      BY <2>1, RequestInv, TransactionsInv, ReportsInv, DeletingInv, RecordingInv, CommitInv,
         RestoreInv, ReplayInv DEF ErasureNext
  <1> QED BY <1>1, InitErasure, PTL DEF ErasureSpec

(* Nothing of an erased organization is left, whatever ran beside the      *)
(* command and whenever it failed (maintenance.py:30-46, 81-96).           *)
THEOREM ErasureIsComplete == ErasureSpec => []ErasedIsGone
  <1>1. ErasureInv => ErasedIsGone
    BY DEF ErasureInv
  <1> QED BY <1>1, ErasureInvariant, PTL

(* No restored backup brings an erased organization back                   *)
(* (maintenance.py:113-123, replay_erasures.py:39-64).                     *)
THEOREM ErasureIsFinal == ErasureSpec => []RestoreKeepsErased
  <1>1. ErasureInv => RestoreKeepsErased
    BY DEF ErasureInv
  <1> QED BY <1>1, ErasureInvariant, PTL
=============================================================================
