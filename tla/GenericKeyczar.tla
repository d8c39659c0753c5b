---------------------------- MODULE GenericKeyczar ----------------------------
(***************************************************************************)
(* A GenericKeyczar object in the hands of one caller: any sequence of     *)
(* AddVersion, Promote, Demote, Revoke, PublicKeyExport and Write followed *)
(* by a new load, each with the errors it raises.  A caller may catch an   *)
(* error and go on with the object.                                        *)
(*                                                                         *)
(* A public key is identified with the private key it belongs to: both     *)
(* have the same hash_id.                                                  *)
(***************************************************************************)
EXTENDS Keyset

CONSTANT Sizes    \* the --size values callers ask for

VARIABLES
  kind,      \* the type and purpose of KeyMetadata
  czar,      \* the object
  exported,  \* what the last PublicKeyExport wrote
  raised     \* did the last call raise a KeyczarError?

vars == <<kind, czar, exported, raised>>

IsPublic == kind.type \in PublicTypes

NoExport == EmptyCzar

Init ==
  /\ kind \in CreatedKinds
  /\ czar = EmptyCzar
  /\ exported = NoExport
  /\ raised = FALSE
-------------------------------------------------------------------------------
Raise ==
  /\ raised' = TRUE
  /\ UNCHANGED <<kind, czar, exported>>

Return(cz) ==
  /\ czar' = cz
  /\ raised' = FALSE
  /\ UNCHANGED <<kind, exported>>

\* Mutant: the primary is switched before IsValidSize is tested.
AddVersionBadSizeLate(size) ==
  /\ size \notin SizesOf(kind.type)
  /\ \E n \in Version, s \in Status :
       IsNextVersion(czar, n) /\ czar' = Reserved(czar, n, s)
  /\ raised' = TRUE
  /\ UNCHANGED <<kind, exported>>

\* IsValidSize is tested first.
AddVersionBadSize(size) == size \notin SizesOf(kind.type) /\ Raise

\* GenKey refuses public types when the primary has already been switched.
AddVersionOfPublicType(size, s) ==
  /\ size \in SizesOf(kind.type)
  /\ IsPublic
  /\ \E n \in Version : IsNextVersion(czar, n) /\ czar' = Reserved(czar, n, s)
  /\ raised' = TRUE
  /\ UNCHANGED <<kind, exported>>

AddVersion(size, s) ==
  /\ size \in SizesOf(kind.type)
  /\ ~IsPublic
  /\ \E n \in Version, k \in Key :
       /\ IsNextVersion(czar, n)
       /\ IsFreshKey(czar, k)
       /\ Return(Added(czar, n, s, k))

Promote(v) ==
  IF CanPromote(czar, v)
    THEN Return(Promoted(czar, v))
    ELSE Raise

Demote(v) ==
  IF CanDemote(czar, v)
    THEN Return(Demoted(czar, v))
    ELSE Raise

Revoke(v) ==
  IF CanRevoke(czar, v)
    THEN Return(Revoked(czar, v))
    ELSE Raise

\* What the public key set's files hold: every loaded version, listed or not.
ExportedSet ==
  Rebuilt(Loaded(czar), czar.status, czar.key)

PublicKeyExport ==
  IF IsExportable(kind)
    THEN /\ exported' = ExportedSet
         /\ raised' = FALSE
         /\ UNCHANGED <<kind, czar>>
    ELSE Raise

\* Write, and a new object read from what was written.
WriteAndRead ==
  /\ HasOnePrimary(czar.listed, czar.status)
  /\ Return(Rebuilt(czar.listed, czar.status, czar.key))

\* The exported key set is read by a GenericKeyczar of its own.
ReadExported ==
  /\ exported # NoExport
  /\ HasOnePrimary(exported.listed, exported.status)
  /\ kind' = PublicKind(kind)
  /\ czar' = exported
  /\ exported' = NoExport
  /\ raised' = FALSE

Next ==
  \/ \E size \in Sizes :
       \/ AddVersionBadSize(size)
       \/ \E s \in Status : AddVersion(size, s) \/ AddVersionOfPublicType(size, s)
  \/ \E v \in Version : Promote(v) \/ Demote(v) \/ Revoke(v)
  \/ PublicKeyExport
  \/ WriteAndRead
  \/ ReadExported

Spec == Init /\ [][Next]_vars
-------------------------------------------------------------------------------
TypeOK ==
  /\ kind \in Kinds
  /\ czar \in Czar
  /\ exported \in Czar
  /\ raised \in BOOLEAN

(***************************************************************************)
(* primary_version and the statuses tell the same story: a loaded version  *)
(* is PRIMARY exactly when primary_version is that version, so Encrypt and *)
(* Sign use the key the metadata calls primary, and there is one at most.  *)
(* On a public key set, where a refused AddVersion has run half way, only  *)
(* one direction holds: no version is PRIMARY behind primary_version's     *)
(* back.                                                                   *)
(***************************************************************************)
PrimaryTracksStatus ==
  /\ \A v \in Loaded(czar) : czar.status[v] = "PRIMARY" => czar.primary = v
  /\ ~IsPublic /\ czar.primary # NoVersion =>
       /\ czar.primary \in czar.listed
       /\ czar.status[czar.primary] = "PRIMARY"

(***************************************************************************)
(* The hash identifier in a ciphertext's or signature's header leads to    *)
(* one key: no two loaded versions share it, not even a revoked one and    *)
(* its successor, although Key.hash_id is not injective.                   *)
(***************************************************************************)
HashIdsDistinct ==
  \A v, w \in Loaded(czar) : Hash[czar.key[v]] = Hash[czar.key[w]] => v = w

(***************************************************************************)
(* A version that Revoke took out of the metadata but that _keys still     *)
(* holds can not come back to use: whatever is called afterwards, it stays *)
(* INACTIVE and is not the primary.                                        *)
(***************************************************************************)
RevokedStaysInactive ==
  \A v \in Loaded(czar) \ czar.listed :
    czar.status[v] = "INACTIVE" /\ czar.primary # v

Rung(s) == CASE s = "PRIMARY" -> 3 [] s = "ACTIVE" -> 2 [] s = "INACTIVE" -> 1

(***************************************************************************)
(* Whatever the call, and even when it raises, a version goes down by one  *)
(* rung of PRIMARY, ACTIVE, INACTIVE at most, and leaves the key set only  *)
(* from INACTIVE (Demote, Revoke, and Promote and AddVersion for the old   *)
(* primary): no two calls take a key that encrypts or signs new data out   *)
(* of the key set.  How far Promote takes a version up is not the subject. *)
(* (ReadExported turns to another key set.)                                *)
(***************************************************************************)
DownOneRungAtATime ==
  [][kind' = kind => \A v \in czar.listed :
       IF v \in czar'.listed
         THEN Rung(czar.status[v]) - Rung(czar'.status[v]) <= 1
         ELSE czar.status[v] = "INACTIVE"]_vars

(***************************************************************************)
(* What a caller who catches an error is left with: the same versions and  *)
(* keys, and the same statuses too if the keys are private.  On a public   *)
(* key set the refused AddVersion may have demoted the primary, and has    *)
(* done nothing worse than that.                                           *)
(***************************************************************************)
FailedCallKeepsKeys ==
  [][raised' =>
       /\ czar'.listed = czar.listed
       /\ czar'.key = czar.key
       /\ \A v \in Version :
            \/ czar'.status[v] = czar.status[v]
            \/ IsPublic /\ czar.primary = v /\ czar'.status[v] = "ACTIVE"]_vars
===============================================================================
