-------------------------------- MODULE Keyset --------------------------------
(***************************************************************************)
(* The state a GenericKeyczar object holds and what its mutators do to it, *)
(* as operators on one record, so that the object's own state machine      *)
(* (GenericKeyczar) and the key set tool (Keyczart) share them.            *)
(*                                                                         *)
(*   czar.listed   the numbers in KeyMetadata.__versions                   *)
(*   czar.status   the status of every KeyVersion object in _keys          *)
(*   czar.key      the key _keys holds for a version (NoKey: none)         *)
(*   czar.primary  primary_version's number (NoVersion: None)              *)
(*                                                                         *)
(* Revoke takes a version out of KeyMetadata only, so that listed may be   *)
(* smaller than the set of loaded versions.  A primary_version that _keys  *)
(* does not hold (AddVersion on a public type) has no entry in status.     *)
(***************************************************************************)
EXTENDS KeyInfo

CONSTANTS
  MaxVersion,   \* bound: the largest version number a key set can reach
  Key,          \* key objects
  NoKey,        \* "_keys has no such entry"
  HashId,       \* 4-byte key identifiers
  Hash          \* Key.hash_id, not injective

ASSUME KeysetAssumption ==
  /\ MaxVersion \in Nat
  /\ NoKey \notin Key
  /\ Hash \in [Key -> HashId]

Version == 1 .. MaxVersion
NoVersion == 0
Absent == "ABSENT"

Czar ==
  [listed  : SUBSET Version,
   status  : [Version -> Status \cup {Absent}],
   key     : [Version -> Key \cup {NoKey}],
   primary : Version \cup {NoVersion}]

EmptyCzar ==
  [listed  |-> {},
   status  |-> [v \in Version |-> Absent],
   key     |-> [v \in Version |-> NoKey],
   primary |-> NoVersion]

\* Keyczar.versions: every KeyVersion that _keys maps to a key.
Loaded(cz) == {v \in Version : cz.key[v] # NoKey}

\* _keys.get(hash_id) is not None.
HasHash(cz, h) == \E v \in Loaded(cz) : Hash[cz.key[v]] = h

\* AddVersion numbers the new version one above the largest loaded one.
IsNextVersion(cz, n) ==
  /\ n - 1 \in Loaded(cz) \cup {0}
  /\ \A v \in Loaded(cz) : v < n
-------------------------------------------------------------------------------
(***************************************************************************)
(* GenericKeyczar.AddVersion: the old primary is demoted before the key is *)
(* generated, and GenKey refuses public key types after that.              *)
(***************************************************************************)
DemotePrimary(cz) ==
  IF cz.primary \in Loaded(cz)
    THEN [cz EXCEPT !.status[cz.primary] = "ACTIVE"]
    ELSE cz

\* The part of AddVersion that runs before GenKey.
Reserved(cz, n, s) ==
  IF s = "PRIMARY" THEN [DemotePrimary(cz) EXCEPT !.primary = n] ELSE cz

Added(cz, n, s, k) ==
  LET r == Reserved(cz, n, s)
  IN  [r EXCEPT !.listed = @ \cup {n}, !.status[n] = s, !.key[n] = k]

\* GenKey's loop stops at a key whose identifier _keys does not hold yet.
IsFreshKeyByValue(cz, k) == \A v \in Loaded(cz) : cz.key[v] # k   \* mutant

IsFreshKey(cz, k) == ~HasHash(cz, Hash[k])

\* Promote: INACTIVE becomes ACTIVE, ACTIVE becomes the only PRIMARY.
CanPromote(cz, v) == v \in cz.listed /\ cz.status[v] # "PRIMARY"

PromotedBesideOld(cz, v) == [cz EXCEPT !.status[v] = "PRIMARY", !.primary = v]   \* mutant

PromotedToPrimary(cz, v) ==
  LET raised == [cz EXCEPT !.status[v] = "PRIMARY"]
  IN  [DemotePrimary(raised) EXCEPT !.primary = v]

Promoted(cz, v) ==
  IF cz.status[v] = "ACTIVE"
    THEN PromotedToPrimary(cz, v)
    ELSE [cz EXCEPT !.status[v] = "ACTIVE"]

\* Demote: PRIMARY becomes ACTIVE and leaves no primary, ACTIVE INACTIVE.
CanDemote(cz, v) == v \in cz.listed /\ cz.status[v] # "INACTIVE"

DemotedTwice(cz, v) ==                                           \* mutant
  [cz EXCEPT !.status[v] = "INACTIVE",
             !.primary = IF @ = v THEN NoVersion ELSE @]

Demoted(cz, v) ==
  IF cz.status[v] = "PRIMARY"
    THEN [cz EXCEPT !.status[v] = "ACTIVE", !.primary = NoVersion]
    ELSE [cz EXCEPT !.status[v] = "INACTIVE"]

\* Revoke: only KeyMetadata forgets the version, _keys keeps it.
CanRevokeUnlessPrimary(cz, v) == v \in cz.listed /\ cz.status[v] # "PRIMARY"   \* mutant

CanRevoke(cz, v) == v \in cz.listed /\ cz.status[v] = "INACTIVE"

RevokedByStatus(cz, v) == [cz EXCEPT !.status[v] = "REVOKED"]   \* mutant

Revoked(cz, v) == [cz EXCEPT !.listed = @ \ {v}]

(***************************************************************************)
(* Keyczar.__init__: the object rebuilt from what another one wrote.  It   *)
(* holds the listed versions only and takes its primary from the statuses. *)
(***************************************************************************)
HasOnePrimary(listed, status) ==
  \A v, w \in listed : status[v] = "PRIMARY" /\ status[w] = "PRIMARY" => v = w

PrimaryOf(listed, status) ==
  IF \E v \in listed : status[v] = "PRIMARY"
    THEN CHOOSE v \in listed : status[v] = "PRIMARY"
    ELSE NoVersion

Rebuilt(listed, status, key) ==
  [listed  |-> listed,
   status  |-> [v \in Version |-> IF v \in listed THEN status[v] ELSE Absent],
   key     |-> [v \in Version |-> IF v \in listed THEN key[v] ELSE NoKey],
   primary |-> PrimaryOf(listed, status)]
===============================================================================
