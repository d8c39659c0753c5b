------------------------- MODULE GenericKeyczarProofs -------------------------
(***************************************************************************)
(* The invariants of GenericKeyczar for every set of keys, every hash      *)
(* function and every bound on version numbers.                            *)
(***************************************************************************)
EXTENDS GenericKeyczar, KeysetProofs

(***************************************************************************)
(* The inductive invariant.  PrimaryTracksStatus is not inductive by       *)
(* itself: that a second primary can not appear rests on the fact that     *)
(* listed versions are loaded, that revoked ones are INACTIVE, and on what *)
(* PublicKeyExport left for a later ReadExported.                          *)
(***************************************************************************)
IInv ==
  /\ TypeOK
  /\ Sound(czar) /\ HashesDiffer(czar)
  /\ ~IsPublic => Anchored(czar)
  /\ Sound(exported) /\ HashesDiffer(exported)
  /\ exported # NoExport => IsExportable(kind)

(***************************************************************************)
(* The type and purpose of an exported key set are ones that exist.        *)
(***************************************************************************)
LEMMA PublicKindIsKind ==
  ASSUME NEW k \in Kinds, IsExportable(k)
  PROVE  PublicKind(k) \in Kinds /\ PublicKind(k).type \in PublicTypes
<1>1. k \in CreatedKinds
  BY DEF Kinds, CreatedKinds, IsExportable, PublicKind
<1> QED
  BY <1>1 DEF Kinds, PublicKind, PublicTypes

(***************************************************************************)
(* A call that raises before it changes anything keeps the invariant.      *)
(***************************************************************************)
LEMMA RaiseKeepsIInv == ASSUME IInv, Raise PROVE IInv'
  BY DEF IInv, Raise, TypeOK, IsPublic, Sound, HashesDiffer, Anchored, Loaded, NoExport

(***************************************************************************)
(* So does a call that returns with a sound key set.                       *)
(***************************************************************************)
LEMMA ReturnKeepsIInv ==
  ASSUME IInv, NEW cz \in Czar, Sound(cz), HashesDiffer(cz),
         ~IsPublic => Anchored(cz), Return(cz)
  PROVE  IInv'
<1>1. czar' = cz /\ kind' = kind /\ exported' = exported /\ raised' = FALSE
  BY DEF Return
<1>2. TypeOK'
  BY <1>1 DEF IInv, TypeOK
<1>3. Sound(czar)' /\ HashesDiffer(czar)' /\ (~IsPublic => Anchored(czar))'
  BY <1>1 DEF Sound, HashesDiffer, Anchored, Loaded, IsPublic
<1>4. /\ Sound(exported)' /\ HashesDiffer(exported)'
      /\ (exported # NoExport => IsExportable(kind))'
  BY <1>1 DEF IInv, Sound, HashesDiffer, Loaded, NoExport
<1> QED
  BY <1>2, <1>3, <1>4 DEF IInv

(***************************************************************************)
(* Every call keeps the invariant: one step per operation.                 *)
(***************************************************************************)
LEMMA NextKeepsIInv == ASSUME IInv, [Next]_vars PROVE IInv'
<1> USE DEF IInv
<1>1. ASSUME NEW size \in Sizes, AddVersionBadSize(size) PROVE IInv'
  BY <1>1, RaiseKeepsIInv DEF AddVersionBadSize
<1>2. ASSUME NEW size \in Sizes, NEW s \in Status, AddVersion(size, s) PROVE IInv'
  <2>1. PICK n \in Version, k \in Key :
          /\ IsNextVersion(czar, n)
          /\ IsFreshKey(czar, k)
          /\ Return(Added(czar, n, s, k))
    BY <1>2 DEF AddVersion
  <2>2. czar \in Czar /\ Anchored(czar)
    BY <1>2 DEF AddVersion, TypeOK
  <2>3. /\ Added(czar, n, s, k) \in Czar
        /\ Sound(Added(czar, n, s, k))
        /\ Anchored(Added(czar, n, s, k))
        /\ HashesDiffer(Added(czar, n, s, k))
    BY <2>1, <2>2, AddedIsSound
  <2> QED
    BY <2>1, <2>3, ReturnKeepsIInv
<1>3. ASSUME NEW size \in Sizes, NEW s \in Status, AddVersionOfPublicType(size, s)
      PROVE  IInv'
  <2>1. PICK n \in Version : IsNextVersion(czar, n) /\ czar' = Reserved(czar, n, s)
    BY <1>3 DEF AddVersionOfPublicType
  <2>2. czar' \in Czar /\ Sound(czar') /\ czar'.key = czar.key
    BY <2>1, ReservedIsSound DEF TypeOK
  <2>3. IsPublic /\ kind' = kind /\ exported' = exported /\ raised' = TRUE
    BY <1>3 DEF AddVersionOfPublicType
  <2> QED
    BY <2>2, <2>3 DEF TypeOK, IsPublic, Sound, HashesDiffer, Loaded, NoExport
<1>4. ASSUME NEW v \in Version, Promote(v) PROVE IInv'
  <2>1. CASE CanPromote(czar, v)
    <3> DEFINE cz == Promoted(czar, v)
    <3>1. /\ cz \in Czar /\ Sound(cz) /\ cz.key = czar.key
          /\ ~IsPublic => Anchored(cz)
      BY <2>1, PromotedIsSound DEF TypeOK
    <3>2. HashesDiffer(cz)
      BY <3>1 DEF HashesDiffer, Loaded
    <3>3. Return(cz)
      BY <1>4, <2>1 DEF Promote
    <3> QED
      BY <3>1, <3>2, <3>3, ReturnKeepsIInv
  <2>2. CASE ~CanPromote(czar, v)
    BY <1>4, <2>2, RaiseKeepsIInv DEF Promote
  <2> QED
    BY <2>1, <2>2
<1>5. ASSUME NEW v \in Version, Demote(v) PROVE IInv'
  <2>1. CASE CanDemote(czar, v)
    <3> DEFINE cz == Demoted(czar, v)
    <3>1. /\ cz \in Czar /\ Sound(cz) /\ cz.key = czar.key
          /\ ~IsPublic => Anchored(cz)
      BY <2>1, DemotedIsSound DEF TypeOK
    <3>2. HashesDiffer(cz)
      BY <3>1 DEF HashesDiffer, Loaded
    <3>3. Return(cz)
      BY <1>5, <2>1 DEF Demote
    <3> QED
      BY <3>1, <3>2, <3>3, ReturnKeepsIInv
  <2>2. CASE ~CanDemote(czar, v)
    BY <1>5, <2>2, RaiseKeepsIInv DEF Demote
  <2> QED
    BY <2>1, <2>2
<1>6. ASSUME NEW v \in Version, Revoke(v) PROVE IInv'
  <2>1. CASE CanRevoke(czar, v)
    <3> DEFINE cz == Revoked(czar, v)
    <3>1. /\ cz \in Czar /\ Sound(cz) /\ cz.key = czar.key
          /\ ~IsPublic => Anchored(cz)
      BY <2>1, RevokedIsSound DEF TypeOK
    <3>2. HashesDiffer(cz)
      BY <3>1 DEF HashesDiffer, Loaded
    <3>3. Return(cz)
      BY <1>6, <2>1 DEF Revoke
    <3> QED
      BY <3>1, <3>2, <3>3, ReturnKeepsIInv
  <2>2. CASE ~CanRevoke(czar, v)
    BY <1>6, <2>2, RaiseKeepsIInv DEF Revoke
  <2> QED
    BY <2>1, <2>2
<1>7. ASSUME PublicKeyExport PROVE IInv'
  <2>1. CASE IsExportable(kind)
    <3>1. /\ exported' = Rebuilt(Loaded(czar), czar.status, czar.key)
          /\ raised' = FALSE
          /\ kind' = kind /\ czar' = czar
      BY <1>7, <2>1 DEF PublicKeyExport, ExportedSet
    <3>2. exported' \in Czar /\ Sound(exported') /\ HashesDiffer(exported')
      BY <3>1, PartIsSound DEF TypeOK
    <3>3. Sound(czar)' /\ HashesDiffer(czar)' /\ (~IsPublic => Anchored(czar))'
      BY <3>1 DEF IsPublic, Sound, HashesDiffer, Anchored, Loaded
    <3>4. TypeOK' /\ IsExportable(kind)'
      BY <2>1, <3>1, <3>2 DEF TypeOK
    <3>5. Sound(exported)' /\ HashesDiffer(exported)'
      BY <3>2
    <3> QED
      BY <3>3, <3>4, <3>5
  <2>2. CASE ~IsExportable(kind)
    BY <1>7, <2>2, RaiseKeepsIInv DEF PublicKeyExport
  <2> QED
    BY <2>1, <2>2
<1>8. ASSUME WriteAndRead PROVE IInv'
  <2> DEFINE cz == Rebuilt(czar.listed, czar.status, czar.key)
  <2>1. cz \in Czar /\ Sound(cz) /\ Anchored(cz) /\ HashesDiffer(cz)
    BY PartIsSound DEF TypeOK, Sound
  <2>2. Return(cz)
    BY <1>8 DEF WriteAndRead
  <2> QED
    BY <2>1, <2>2, ReturnKeepsIInv
<1>9. ASSUME ReadExported PROVE IInv'
  <2>1. /\ kind' = PublicKind(kind) /\ czar' = exported /\ exported' = NoExport
        /\ raised' = FALSE
        /\ IsExportable(kind)
    BY <1>9 DEF ReadExported
  <2>2. kind' \in Kinds /\ IsPublic'
    BY <2>1, PublicKindIsKind DEF TypeOK, IsPublic
  <2>3. exported' \in Czar /\ Sound(exported') /\ HashesDiffer(exported')
    BY <2>1, EmptyIsSound DEF NoExport
  <2>4. czar' \in Czar /\ Sound(czar') /\ HashesDiffer(czar')
    BY <2>1 DEF TypeOK
  <2>5. TypeOK'
    BY <2>1, <2>2, <2>3, <2>4 DEF TypeOK
  <2>6. (exported # NoExport => IsExportable(kind))'
    BY <2>1 DEF NoExport
  <2> QED
    BY <2>2, <2>3, <2>4, <2>5, <2>6
<1>10. CASE UNCHANGED vars
  BY <1>10 DEF vars, TypeOK, IsPublic, Sound, HashesDiffer, Anchored, Loaded, NoExport
<1> QED
  BY <1>1, <1>2, <1>3, <1>4, <1>5, <1>6, <1>7, <1>8, <1>9, <1>10 DEF Next
-------------------------------------------------------------------------------
(***************************************************************************)
(* Every reachable state satisfies the inductive invariant.                *)
(***************************************************************************)
THEOREM InvariantHolds == Spec => []IInv
<1>1. Init => IInv
  <2> SUFFICES ASSUME Init PROVE IInv
    OBVIOUS
  <2>1. czar = EmptyCzar /\ exported = EmptyCzar
    BY DEF Init, NoExport
  <2>2. TypeOK
    <3>1. kind \in Kinds
      BY DEF Init, Kinds
    <3>2. raised \in BOOLEAN
      BY DEF Init
    <3> QED
      BY <2>1, <3>1, <3>2, EmptyIsSound DEF TypeOK
  <2> QED
    BY <2>1, <2>2, EmptyIsSound DEF IInv, NoExport
<1>2. IInv /\ [Next]_vars => IInv'
  BY NextKeepsIInv
<1> QED
  BY <1>1, <1>2, PTL DEF Spec

(***************************************************************************)
(* The fields of a GenericKeyczar have their types after any calls.        *)
(***************************************************************************)
THEOREM TypesHold == Spec => []TypeOK
<1>1. IInv => TypeOK
  BY DEF IInv
<1> QED
  BY <1>1, InvariantHolds, PTL

(***************************************************************************)
(* primary_version and the statuses agree after any sequence of calls, for *)
(* any number of versions.                                                 *)
(***************************************************************************)
THEOREM PrimaryTracksStatusHolds == Spec => []PrimaryTracksStatus
<1>1. IInv => PrimaryTracksStatus
  BY DEF IInv, PrimaryTracksStatus, Sound, Anchored
<1> QED
  BY <1>1, InvariantHolds, PTL

(***************************************************************************)
(* No two loaded versions share a hash_id, whatever the hash function.     *)
(***************************************************************************)
THEOREM HashIdsDistinctHolds == Spec => []HashIdsDistinct
<1>1. IInv => HashIdsDistinct
  BY DEF IInv, HashIdsDistinct, HashesDiffer
<1> QED
  BY <1>1, InvariantHolds, PTL

(***************************************************************************)
(* A revoked version that is still loaded never comes back to use.         *)
(***************************************************************************)
THEOREM RevokedStaysInactiveHolds == Spec => []RevokedStaysInactive
<1>1. IInv => RevokedStaysInactive
  BY DEF IInv, RevokedStaysInactive, Sound
<1> QED
  BY <1>1, InvariantHolds, PTL
-------------------------------------------------------------------------------
(***************************************************************************)
(* Two statuses are at most one rung apart if they are equal or one of     *)
(* them is ACTIVE.                                                         *)
(***************************************************************************)
LEMMA ActiveIsNear ==
  ASSUME NEW s \in Status, NEW t \in Status, s = t \/ s = "ACTIVE" \/ t = "ACTIVE"
  PROVE  Rung(s) - Rung(t) <= 1
BY DEF Status, Rung

\* What DownOneRungAtATime says of a step from one key set to another.
FallsOneRung(a, b) ==
  \A v \in a.listed :
    IF v \in b.listed
      THEN /\ a.status[v] \in Status /\ b.status[v] \in Status
           /\ \/ a.status[v] = b.status[v]
              \/ a.status[v] = "ACTIVE" \/ b.status[v] = "ACTIVE"
      ELSE a.status[v] = "INACTIVE"

(***************************************************************************)
(* Every call moves every status by one rung at most: AddVersion and       *)
(* Promote touch the old primary and one other version, Demote one, and    *)
(* Revoke drops an INACTIVE one.                                           *)
(***************************************************************************)
LEMMA NextFallsOneRung ==
  ASSUME IInv, Next, kind' = kind
  PROVE  FallsOneRung(czar, czar')
<1>1. /\ czar \in Czar /\ czar.listed \subseteq Version
      /\ \A v \in czar.listed : v \in Loaded(czar) /\ czar.status[v] \in Status
  BY DEF IInv, TypeOK, Sound, Czar
<1>2. ASSUME czar' = czar PROVE FallsOneRung(czar, czar')
  BY <1>1, <1>2 DEF FallsOneRung
<1>3. ASSUME NEW n \in Version, NEW s \in Status
      PROVE  /\ Reserved(czar, n, s).listed = czar.listed
             /\ Reserved(czar, n, s).status \in [Version -> Status \cup {Absent}]
             /\ \A v \in Version :
                  \/ Reserved(czar, n, s).status[v] = czar.status[v]
                  \/ Reserved(czar, n, s).status[v] = "ACTIVE"
  BY <1>1, <1>3 DEF Reserved, DemotePrimary, Czar, Status
<1>4. ASSUME NEW size \in Sizes, NEW s \in Status, AddVersion(size, s)
      PROVE  FallsOneRung(czar, czar')
  <2>1. PICK n \in Version, k \in Key :
          IsNextVersion(czar, n) /\ czar' = Added(czar, n, s, k)
    BY <1>4 DEF AddVersion, Return
  <2>2. n \notin czar.listed
    BY <1>1, <2>1 DEF IsNextVersion, Version
  <2>3. \A v \in czar.listed :
          v \in czar'.listed /\ czar'.status[v] = Reserved(czar, n, s).status[v]
    <3>1. Reserved(czar, n, s) \in Czar
      BY <1>1 DEF Reserved, DemotePrimary, Czar, Status
    <3> QED
      BY <1>1, <1>3, <2>1, <2>2, <3>1 DEF Added, Czar
  <2> QED
    BY <1>1, <1>3, <2>3 DEF FallsOneRung, Status
<1>5. ASSUME NEW size \in Sizes, NEW s \in Status, AddVersionOfPublicType(size, s)
      PROVE  FallsOneRung(czar, czar')
  <2>1. PICK n \in Version : czar' = Reserved(czar, n, s)
    BY <1>5 DEF AddVersionOfPublicType
  <2> QED
    BY <1>1, <1>3, <2>1 DEF FallsOneRung, Status
<1>6. ASSUME NEW v \in Version, Promote(v) PROVE FallsOneRung(czar, czar')
  <2>1. CASE CanPromote(czar, v) /\ czar.status[v] = "ACTIVE"
    <3>1. czar' = PromotedToPrimary(czar, v)
      BY <1>6, <2>1 DEF Promote, Return, Promoted
    <3>2. /\ czar'.listed = czar.listed
          /\ \A w \in Version \ {v} :
               czar'.status[w] = czar.status[w] \/ czar'.status[w] = "ACTIVE"
          /\ czar'.status[v] \in Status
      BY <1>1, <3>1 DEF PromotedToPrimary, DemotePrimary, Czar, Status
    <3> QED
      BY <1>1, <2>1, <3>2 DEF FallsOneRung, Status
  <2>2. CASE CanPromote(czar, v) /\ czar.status[v] # "ACTIVE"
    <3>1. czar' = [czar EXCEPT !.status[v] = "ACTIVE"]
      BY <1>6, <2>2 DEF Promote, Return, Promoted
    <3> QED
      BY <1>1, <3>1 DEF FallsOneRung, Czar, Status
  <2>3. CASE ~CanPromote(czar, v)
    BY <1>2, <1>6, <2>3 DEF Promote, Raise
  <2> QED
    BY <2>1, <2>2, <2>3
<1>7. ASSUME NEW v \in Version, Demote(v) PROVE FallsOneRung(czar, czar')
  <2>1. CASE CanDemote(czar, v)
    <3>1. /\ czar'.listed = czar.listed
          /\ \A w \in Version \ {v} : czar'.status[w] = czar.status[w]
          /\ czar'.status[v] = IF czar.status[v] = "PRIMARY" THEN "ACTIVE" ELSE "INACTIVE"
      BY <1>1, <1>7, <2>1 DEF Demote, Return, Demoted, Czar
    <3>2. czar.status[v] \in {"PRIMARY", "ACTIVE"}
      BY <1>1, <2>1 DEF CanDemote, Status
    <3> QED
      BY <1>1, <3>1, <3>2 DEF FallsOneRung, Status
  <2>2. CASE ~CanDemote(czar, v)
    BY <1>2, <1>7, <2>2 DEF Demote, Raise
  <2> QED
    BY <2>1, <2>2
<1>8. ASSUME NEW v \in Version, Revoke(v) PROVE FallsOneRung(czar, czar')
  <2>1. CASE CanRevoke(czar, v)
    <3>1. czar'.listed = czar.listed \ {v} /\ czar'.status = czar.status
      BY <1>1, <1>8, <2>1 DEF Revoke, Return, Revoked, Czar
    <3> QED
      BY <1>1, <2>1, <3>1 DEF FallsOneRung, CanRevoke
  <2>2. CASE ~CanRevoke(czar, v)
    BY <1>2, <1>8, <2>2 DEF Revoke, Raise
  <2> QED
    BY <2>1, <2>2
<1>9. ASSUME WriteAndRead PROVE FallsOneRung(czar, czar')
  <2>1. czar' = Rebuilt(czar.listed, czar.status, czar.key)
    BY <1>9 DEF WriteAndRead, Return
  <2>2. czar'.listed = czar.listed /\ \A v \in czar.listed : czar'.status[v] = czar.status[v]
    BY <1>1, <2>1 DEF Rebuilt
  <2> QED
    BY <1>1, <2>2 DEF FallsOneRung
<1>10. ~ReadExported
  <2>1. SUFFICES ASSUME ReadExported PROVE FALSE
    OBVIOUS
  <2>2. IsExportable(kind) /\ kind' = PublicKind(kind)
    BY <2>1 DEF IInv, ReadExported
  <2>3. PublicKind(kind).type \in PublicTypes /\ kind.type \notin PublicTypes
    BY <2>2 DEF PublicKind, IsExportable, PublicTypes
  <2> QED
    BY <2>2, <2>3
<1>11. ASSUME NEW size \in Sizes, AddVersionBadSize(size) PROVE FallsOneRung(czar, czar')
  BY <1>2, <1>11 DEF AddVersionBadSize, Raise
<1>12. ASSUME PublicKeyExport PROVE FallsOneRung(czar, czar')
  BY <1>2, <1>12 DEF PublicKeyExport, Raise
<1> QED
  BY <1>4, <1>5, <1>6, <1>7, <1>8, <1>9, <1>10, <1>11, <1>12 DEF Next

(***************************************************************************)
(* No call takes a version down by two rungs, and none takes one out of    *)
(* the key set that is not INACTIVE.                                       *)
(***************************************************************************)
THEOREM DownOneRungAtATimeHolds == Spec => DownOneRungAtATime
<1> DEFINE Step ==
      kind' = kind => \A v \in czar.listed :
        IF v \in czar'.listed
          THEN Rung(czar.status[v]) - Rung(czar'.status[v]) <= 1
          ELSE czar.status[v] = "INACTIVE"
<1>1. IInv /\ [Next]_vars => [Step]_vars
  <2> SUFFICES ASSUME IInv, Next, kind' = kind PROVE Step
    BY DEF vars
  <2>1. FallsOneRung(czar, czar')
    BY NextFallsOneRung
  <2> QED
    BY <2>1, ActiveIsNear DEF FallsOneRung
<1> QED
  BY <1>1, InvariantHolds, PTL DEF Spec, DownOneRungAtATime

(***************************************************************************)
(* A call that raises leaves versions and keys alone, and statuses too     *)
(* unless AddVersion was refused on a public key set.                      *)
(***************************************************************************)
THEOREM FailedCallKeepsKeysHolds == Spec => FailedCallKeepsKeys
<1> DEFINE Kept ==
      /\ czar'.listed = czar.listed
      /\ czar'.key = czar.key
      /\ \A v \in Version :
           \/ czar'.status[v] = czar.status[v]
           \/ IsPublic /\ czar.primary = v /\ czar'.status[v] = "ACTIVE"
<1>1. IInv /\ [Next]_vars => [raised' => Kept]_vars
  <2> SUFFICES ASSUME IInv, Next, raised' PROVE Kept
    BY DEF vars
  <2>1. ASSUME NEW size \in Sizes, NEW s \in Status, AddVersionOfPublicType(size, s)
        PROVE  Kept
    <3>1. PICK n \in Version : czar' = Reserved(czar, n, s)
      BY <2>1 DEF AddVersionOfPublicType
    <3>2. IsPublic /\ czar \in Czar
      BY <2>1 DEF AddVersionOfPublicType, IInv, TypeOK
    <3> QED
      BY <3>1, <3>2 DEF Reserved, DemotePrimary, Czar
  <2>2. ASSUME czar' = czar PROVE Kept
    BY <2>2
  <2>3. \/ \E size \in Sizes, s \in Status : AddVersionOfPublicType(size, s)
        \/ czar' = czar
    BY DEF Next, AddVersionBadSize, AddVersion, Promote, Demote, Revoke,
           PublicKeyExport, WriteAndRead, ReadExported, Raise, Return
  <2> QED
    BY <2>1, <2>2, <2>3
<1> QED
  BY <1>1, InvariantHolds, PTL DEF Spec, FailedCallKeepsKeys
===============================================================================
