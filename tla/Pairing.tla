------------------------------- MODULE Pairing -------------------------------
(***************************************************************************)
(* The keys of the WooCommerce plugin: pairing, key rotation and           *)
(* disconnection between one shop's plugin (class-ledgerguard-plugin.php)  *)
(* and the server (connectors/views.py, control_plane/api.py).  One        *)
(* administrator's request is at work at a time; what it sent may still    *)
(* arrive after it gave up.  Signatures are taken to be sound: a request   *)
(* is signed by the key it names.                                          *)
(***************************************************************************)
EXTENDS Integers

CONSTANTS
  Code,              \* pairing codes of the store
  MaxKeys,           \* bound on the keys the plugin generates
  MaxLate            \* bound on requests that arrive late

VARIABLES
  code,              \* pairing codes: unissued, fresh, expired
  usedBy,            \* the key that used each code, or 0
  live,              \* active Woo installations, each named by its code
  registered,        \* PublicKey rows
  identity,          \* the option ledgerguard_identity
  claimOption,       \* the option ledgerguard_claim
  rotation,          \* the option ledgerguard_rotation: a key, or 0
  generated,         \* keys the plugin has generated
  waiting,           \* the request whose answer a process waits for
  underWay,          \* requests nobody waits for
  lateOnes,
  torn               \* history: a process died between two options

issueVars == <<code, usedBy>>
serverVars == <<issueVars, live, registered>>
optionVars == <<identity, claimOption, rotation, generated>>
requestVars == <<waiting, underWay, lateOnes>>
pairingVars == <<serverVars, optionVars, requestVars, torn>>

ASSUME PairingAssumption == MaxKeys \in Nat /\ MaxLate \in Nat /\ "none" \notin Code

PluginKey == 1 .. MaxKeys
NoOption == [key |-> 0]
NoRequest == [kind |-> "none"]
Unregistered == [inst |-> "none", expiry |-> "never"]
Claim(c, k) == [kind |-> "claim", code |-> c, key |-> k]
Rotation(c, k, n) == [kind |-> "rotate", code |-> c, key |-> k, new |-> n]
PluginRequest == {Claim(c, k) : c \in Code, k \in PluginKey}
                 \union {Rotation(c, k, n) : c \in Code, k \in PluginKey, n \in PluginKey}

PairingTypeOK ==
  /\ code \in [Code -> {"unissued", "fresh", "expired"}]
  /\ usedBy \in [Code -> {0} \union PluginKey]
  /\ live \subseteq Code
  /\ registered \in [PluginKey -> [inst : Code \union {"none"},
                                   expiry : {"never", "overlap", "over"}]]
  /\ identity \in {NoOption} \union [key : PluginKey, inst : Code]
  /\ claimOption \in {NoOption} \union [key : PluginKey, code : Code]
  /\ rotation \in {0} \union PluginKey /\ generated \in {0} \union PluginKey
  /\ waiting \in PluginRequest \union {NoRequest} /\ underWay \subseteq PluginRequest
  /\ lateOnes \in 0 .. MaxLate /\ torn \in BOOLEAN

PairingInit ==
  /\ code = [c \in Code |-> "unissued"] /\ usedBy = [c \in Code |-> 0]
  /\ live = {} /\ registered = [k \in PluginKey |-> Unregistered]
  /\ identity = NoOption /\ claimOption = NoOption /\ rotation = 0 /\ generated = 0
  /\ waiting = NoRequest /\ underWay = {} /\ lateOnes = 0 /\ torn = FALSE

----------------------------------------------------------------------------
(* The server *)

pairing_code(c) ==
  /\ code[c] = "unissued"
  /\ code' = [code EXCEPT ![c] = "fresh"]
  /\ UNCHANGED <<usedBy, live, registered, optionVars, requestVars, torn>>

CodeExpires(c) ==      \* ten minutes
  /\ code[c] = "fresh"
  /\ code' = [code EXCEPT ![c] = "expired"]
  /\ UNCHANGED <<usedBy, live, registered, optionVars, requestVars, torn>>

KeyExpires(k) ==       \* 24 hours after the first rotation it signed
  /\ registered[k].expiry = "overlap"
  /\ registered' = [registered EXCEPT ![k].expiry = "over"]
  /\ UNCHANGED <<issueVars, live, optionVars, requestVars, torn>>

DisconnectAtServer(c) ==     \* connector_disconnect of a Woo installation
  /\ c \in live
  /\ live' = live \ {c}
  /\ UNCHANGED <<issueVars, registered, optionVars, requestVars, torn>>

(* A claim is answered again to the key that made it, as long as the code  *)
(* has not expired and the installation is active.                         *)
ClaimRepeated(q) == usedBy[q.code] = q.key /\ q.code \in live
KeyWorks(k, c) == registered[k].inst = c /\ registered[k].expiry # "over" /\ c \in live

Accepted(q) ==
  IF q.kind = "claim"
  THEN code[q.code] = "fresh" /\ (usedBy[q.code] = 0 \/ ClaimRepeated(q))
  ELSE KeyWorks(q.key, q.code) /\ registered[q.new].inst \in {"none", q.code}

FirstClaim(q) ==       \* closes the store's other installations
  /\ live' = {q.code}
  /\ registered' = [registered EXCEPT ![q.key] = [inst |-> q.code, expiry |-> "never"]]
  /\ usedBy' = [usedBy EXCEPT ![q.code] = q.key]

(* The old key gets its expiry once: a retry does not move it.             *)
RotateKey(q) ==
  LET new == [registered EXCEPT ![q.new].inst = q.code] IN
  registered' = [new EXCEPT ![q.key].expiry = IF @ = "never" THEN "overlap" ELSE @]

Serve(q) ==
  /\ IF ~Accepted(q) \/ (q.kind = "claim" /\ usedBy[q.code] # 0)
     THEN UNCHANGED <<usedBy, live, registered>>
     ELSE \/ q.kind = "claim" /\ FirstClaim(q)
          \/ q.kind = "rotate" /\ RotateKey(q) /\ UNCHANGED <<usedBy, live>>
  /\ UNCHANGED code

----------------------------------------------------------------------------
(* The plugin *)

Ready == waiting = NoRequest

pair(c) ==             \* a retry with the same code keeps its key
  /\ Ready /\ code[c] # "unissued"
  /\ IF claimOption # NoOption /\ claimOption.code = c
     THEN UNCHANGED <<claimOption, generated>>
     ELSE /\ generated < MaxKeys
          /\ generated' = generated + 1
          /\ claimOption' = [key |-> generated', code |-> c]
  /\ waiting' = Claim(c, claimOption'.key)
  /\ UNCHANGED <<serverVars, identity, rotation, underWay, lateOnes, torn>>

rotate ==              \* a retry offers the same new key
  /\ Ready /\ identity # NoOption
  /\ IF rotation # 0
     THEN UNCHANGED <<rotation, generated>>
     ELSE generated < MaxKeys /\ generated' = generated + 1 /\ rotation' = generated'
  /\ waiting' = Rotation(identity.inst, identity.key, rotation')
  /\ UNCHANGED <<serverVars, identity, claimOption, underWay, lateOnes, torn>>

disconnect ==          \* at the plugin only: the server is not told
  /\ Ready
  /\ identity' = NoOption /\ claimOption' = NoOption /\ rotation' = 0
  /\ UNCHANGED <<serverVars, generated, requestVars, torn>>

(* An accepted answer: the identity is written, then the pending option    *)
(* deleted, unless the process dies in between.                            *)
Answered ==
  /\ waiting # NoRequest /\ Accepted(waiting)
  /\ Serve(waiting)
  /\ identity' = [key |-> IF waiting.kind = "claim" THEN waiting.key ELSE waiting.new,
                  inst |-> waiting.code]
  /\ \/ /\ claimOption' = IF waiting.kind = "claim" THEN NoOption ELSE claimOption
        /\ rotation' = IF waiting.kind = "rotate" THEN 0 ELSE rotation
        /\ UNCHANGED torn
     \/ torn' = TRUE /\ UNCHANGED <<claimOption, rotation>>
  /\ waiting' = NoRequest
  /\ UNCHANGED <<generated, underWay, lateOnes>>

(* Mutant: an uncertain answer gives the new key up.                       *)
RotationGivenUp == IF waiting.kind = "rotate" THEN 0 ELSE rotation

RotationAfterFailure == rotation

(* Refused, or served without an answer: what is pending stays pending.    *)
Failed ==
  /\ waiting # NoRequest
  /\ Serve(waiting)
  /\ waiting' = NoRequest /\ rotation' = RotationAfterFailure
  /\ UNCHANGED <<identity, claimOption, generated, underWay, lateOnes, torn>>

GaveUp ==              \* never sent, lost, or on its way
  /\ waiting # NoRequest
  /\ \/ UNCHANGED <<underWay, lateOnes>>
     \/ lateOnes < MaxLate /\ lateOnes' = lateOnes + 1 /\ underWay' = underWay \union {waiting}
  /\ waiting' = NoRequest /\ rotation' = RotationAfterFailure
  /\ UNCHANGED <<serverVars, identity, claimOption, generated, torn>>

ArrivesLate(q) ==
  /\ q \in underWay
  /\ Serve(q)
  /\ underWay' = underWay \ {q}
  /\ UNCHANGED <<optionVars, waiting, lateOnes, torn>>

PairingNext ==
  \/ \E c \in Code : pairing_code(c) \/ CodeExpires(c) \/ DisconnectAtServer(c) \/ pair(c)
  \/ \E k \in PluginKey : KeyExpires(k)
  \/ rotate \/ disconnect \/ Answered \/ Failed \/ GaveUp
  \/ \E q \in underWay : ArrivesLate(q)

PairingSpec == PairingInit /\ [][PairingNext]_pairingVars

----------------------------------------------------------------------------
(* Properties *)

(* While its installation is active, a paired plugin holds a key of it     *)
(* that will not run out, in use or offered: no answer that is lost, no    *)
(* retry and no late request leaves it with expiring keys only.  A process *)
(* that dies between its two writes does: the next rotation then offers    *)
(* the key in use (plugin.php:184-198, views.py:180-196).                  *)
HoldsLiveKey ==
  identity # NoOption /\ identity.inst \in live /\ ~torn =>
    \E k \in {identity.key, rotation} \ {0} :
      registered[k] = [inst |-> identity.inst, expiry |-> "never"]
=============================================================================
