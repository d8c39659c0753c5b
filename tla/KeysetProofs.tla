----------------------------- MODULE KeysetProofs -----------------------------
(***************************************************************************)
(* What the mutators of Keyset preserve.  Sound is the part of the         *)
(* inductive invariants that all key sets keep, Anchored the part that     *)
(* only key sets with private keys keep, HashesDiffer the part that does   *)
(* not survive when several processes write one directory.                 *)
(***************************************************************************)
EXTENDS Keyset, TLAPS

Sound(cz) ==
  /\ cz.listed \subseteq Loaded(cz)
  /\ \A v \in Loaded(cz) : cz.status[v] \in Status
  /\ \A v \in Loaded(cz) : cz.status[v] = "PRIMARY" <=> cz.primary = v
  /\ \A v \in Loaded(cz) \ cz.listed : cz.status[v] = "INACTIVE"

HashesDiffer(cz) ==
  \A v, w \in Loaded(cz) : Hash[cz.key[v]] = Hash[cz.key[w]] => v = w

Anchored(cz) ==
  cz.primary # NoVersion =>
    cz.primary \in cz.listed /\ cz.status[cz.primary] = "PRIMARY"
-------------------------------------------------------------------------------
(***************************************************************************)
(* The key set that keyczart create leaves satisfies all three.            *)
(***************************************************************************)
LEMMA EmptyIsSound ==
  /\ EmptyCzar \in Czar
  /\ Sound(EmptyCzar) /\ HashesDiffer(EmptyCzar) /\ Anchored(EmptyCzar)
<1>1. EmptyCzar \in Czar
  BY DEF EmptyCzar, Czar, NoVersion
<1>2. Loaded(EmptyCzar) = {} /\ EmptyCzar.listed = {} /\ EmptyCzar.primary = NoVersion
  BY DEF Loaded, EmptyCzar
<1> QED
  BY <1>1, <1>2 DEF Sound, HashesDiffer, Anchored

(***************************************************************************)
(* DemotePrimary changes the status of one loaded version, to ACTIVE.      *)
(***************************************************************************)
LEMMA DemotePrimaryFacts ==
  ASSUME NEW cz \in Czar
  PROVE  LET d == DemotePrimary(cz) IN
         /\ d \in Czar
         /\ d.listed = cz.listed /\ d.key = cz.key /\ d.primary = cz.primary
         /\ \A v \in Version :
              d.status[v] = IF v = cz.primary /\ v \in Loaded(cz)
                              THEN "ACTIVE" ELSE cz.status[v]
<1> DEFINE d == DemotePrimary(cz)
<1>1. CASE cz.primary \in Loaded(cz)
  <2>1. d = [cz EXCEPT !.status[cz.primary] = "ACTIVE"]
    BY <1>1 DEF DemotePrimary
  <2>2. cz.primary \in Version
    BY <1>1 DEF Loaded
  <2> QED
    BY <1>1, <2>1, <2>2 DEF Czar, Status
<1>2. CASE cz.primary \notin Loaded(cz)
  <2>1. d = cz
    BY <1>2 DEF DemotePrimary
  <2> QED
    BY <1>2, <2>1
<1> QED
  BY <1>1, <1>2

(***************************************************************************)
(* The first half of AddVersion, which is all that runs when GenKey        *)
(* refuses the type, keeps a key set sound: the number it reserves is not  *)
(* the number of a loaded version.                                         *)
(***************************************************************************)
LEMMA ReservedIsSound ==
  ASSUME NEW cz \in Czar, Sound(cz), NEW n \in Version, IsNextVersion(cz, n),
         NEW s \in Status
  PROVE  LET r == Reserved(cz, n, s) IN
         /\ r \in Czar
         /\ Sound(r)
         /\ r.listed = cz.listed /\ r.key = cz.key
         /\ s = "PRIMARY" => r.primary = n
         /\ s # "PRIMARY" => r = cz
         /\ s = "PRIMARY" => \A v \in Loaded(cz) : r.status[v] # "PRIMARY"
<1> DEFINE d == DemotePrimary(cz)
           r == Reserved(cz, n, s)
<1>1. n \notin Loaded(cz)
  BY DEF IsNextVersion, Version, Loaded
<1>2. CASE s = "PRIMARY"
  <2>1. r = [d EXCEPT !.primary = n]
    BY <1>2 DEF Reserved
  <2>2. /\ r \in Czar
        /\ r.listed = cz.listed /\ r.key = cz.key /\ r.primary = n
        /\ \A v \in Version :
             r.status[v] = IF v = cz.primary /\ v \in Loaded(cz)
                             THEN "ACTIVE" ELSE cz.status[v]
    BY <2>1, DemotePrimaryFacts DEF Czar
  <2>3. Loaded(r) = Loaded(cz)
    BY <2>2 DEF Loaded
  <2>4. \A v \in Loaded(cz) : r.status[v] \in Status /\ r.status[v] # "PRIMARY"
    BY <2>2 DEF Sound, Status, Loaded
  <2>5. \A v \in Loaded(r) \ r.listed : r.status[v] = "INACTIVE"
    BY <2>2, <2>3 DEF Sound, Loaded
  <2>6. Sound(r)
    BY <1>1, <2>2, <2>3, <2>4, <2>5 DEF Sound
  <2> QED
    BY <1>2, <2>2, <2>4, <2>6
<1>3. CASE s # "PRIMARY"
  BY <1>3 DEF Reserved
<1> QED
  BY <1>2, <1>3

(***************************************************************************)
(* AddVersion keeps a key set sound and anchored: the new key's hash_id is *)
(* new, and a new primary replaces the old one.                            *)
(***************************************************************************)
LEMMA AddedIsSound ==
  ASSUME NEW cz \in Czar, Sound(cz), Anchored(cz),
         NEW n \in Version, IsNextVersion(cz, n), NEW s \in Status, NEW k \in Key, IsFreshKey(cz, k)
  PROVE  LET a == Added(cz, n, s, k) IN
         /\ a \in Czar /\ Sound(a) /\ Anchored(a)
         /\ HashesDiffer(cz) => HashesDiffer(a)
<1> DEFINE r == Reserved(cz, n, s)
           a == Added(cz, n, s, k)
<1>1. n \notin Loaded(cz) /\ k # NoKey
  BY KeysetAssumption DEF IsNextVersion, Version, Loaded, KeysetAssumption
<1>2. /\ r \in Czar
      /\ Sound(r)
      /\ r.listed = cz.listed /\ r.key = cz.key
      /\ s = "PRIMARY" => r.primary = n
      /\ s # "PRIMARY" => r = cz
      /\ s = "PRIMARY" => \A v \in Loaded(cz) : r.status[v] # "PRIMARY"
  BY ReservedIsSound
<1>3. /\ a \in Czar
      /\ a.listed = cz.listed \cup {n}
      /\ a.key = [cz.key EXCEPT ![n] = k]
      /\ a.status = [r.status EXCEPT ![n] = s]
      /\ a.primary = r.primary
  BY <1>2 DEF Added, Czar
<1>4. Loaded(r) = Loaded(cz) /\ Loaded(a) = Loaded(cz) \cup {n}
  BY <1>1, <1>2, <1>3 DEF Loaded, Czar
<1>5. \A v \in Loaded(cz) : a.status[v] = r.status[v] /\ a.key[v] = cz.key[v] /\ v # n
  BY <1>1, <1>2, <1>3 DEF Loaded, Czar
<1>6. a.status[n] = s /\ a.key[n] = k
  BY <1>2, <1>3 DEF Czar
<1>7. Sound(a)
  <2>1. a.listed \subseteq Loaded(a)
    BY <1>3, <1>4 DEF Sound
  <2>2. \A v \in Loaded(a) : a.status[v] \in Status
    BY <1>2, <1>4, <1>5, <1>6 DEF Sound
  <2>3. \A v \in Loaded(a) : a.status[v] = "PRIMARY" <=> a.primary = v
    <3>1. s # "PRIMARY" => r.primary # n
      BY <1>1, <1>2 DEF Anchored, Sound, NoVersion, Version
    <3> QED
      BY <1>2, <1>3, <1>4, <1>5, <1>6, <3>1 DEF Sound
  <2>4. \A v \in Loaded(a) \ a.listed : a.status[v] = "INACTIVE"
    BY <1>2, <1>3, <1>4, <1>5 DEF Sound
  <2> QED
    BY <2>1, <2>2, <2>3, <2>4 DEF Sound
<1>8. Anchored(a)
  <2>1. CASE s = "PRIMARY"
    BY <1>2, <1>3, <1>6, <2>1 DEF Anchored
  <2>2. CASE s # "PRIMARY"
    BY <1>2, <1>3, <1>5, <2>2 DEF Anchored, Sound
  <2> QED
    BY <2>1, <2>2
<1>9. HashesDiffer(cz) => HashesDiffer(a)
  <2>1. \A v \in Loaded(cz) : Hash[a.key[v]] # Hash[k]
    BY <1>5 DEF IsFreshKey, HasHash
  <2> QED
    BY <1>4, <1>5, <1>6, <2>1 DEF HashesDiffer
<1> QED
  BY <1>3, <1>7, <1>8, <1>9

(***************************************************************************)
(* Promote keeps a key set sound and anchored: of a second primary nothing *)
(* is ever left, because the old one is always the one primary_version     *)
(* names.                                                                  *)
(***************************************************************************)
LEMMA PromotedIsSound ==
  ASSUME NEW cz \in Czar, Sound(cz), NEW v \in Version, CanPromote(cz, v)
  PROVE  LET q == Promoted(cz, v) IN
         /\ q \in Czar
         /\ Sound(q)
         /\ Anchored(cz) => Anchored(q)
         /\ q.listed = cz.listed /\ q.key = cz.key
<1> DEFINE q == Promoted(cz, v)
           raised == [cz EXCEPT !.status[v] = "PRIMARY"]
           d == DemotePrimary(raised)
<1>1. v \in cz.listed /\ v \in Loaded(cz) /\ cz.status[v] \in {"ACTIVE", "INACTIVE"}
  BY DEF CanPromote, Sound, Status
<1>2. CASE cz.status[v] = "ACTIVE"
  <2>1. /\ raised \in Czar
        /\ raised.listed = cz.listed /\ raised.key = cz.key
        /\ raised.primary = cz.primary
        /\ \A w \in Version :
             raised.status[w] = IF w = v THEN "PRIMARY" ELSE cz.status[w]
    BY DEF Czar, Status
  <2>2. Loaded(raised) = Loaded(cz)
    BY <2>1 DEF Loaded
  <2>3. /\ d \in Czar
        /\ d.listed = cz.listed /\ d.key = cz.key /\ d.primary = cz.primary
        /\ \A w \in Version :
             d.status[w] = IF w = cz.primary /\ w \in Loaded(cz)
                             THEN "ACTIVE" ELSE raised.status[w]
    BY <2>1, <2>2, DemotePrimaryFacts
  <2>4. q = [d EXCEPT !.primary = v]
    BY <1>2 DEF Promoted, PromotedToPrimary
  <2>5. /\ q \in Czar
        /\ q.listed = cz.listed /\ q.key = cz.key /\ q.primary = v
        /\ q.status = d.status
    BY <2>3, <2>4 DEF Czar
  <2>6. Loaded(q) = Loaded(cz)
    BY <2>5 DEF Loaded
  <2>7. \A w \in Loaded(cz) : w # v =>
          q.status[w] \in Status /\ q.status[w] # "PRIMARY"
    BY <2>1, <2>3, <2>5 DEF Sound, Loaded, Status
  <2>8. q.status[v] \in Status
    BY <2>1, <2>3, <2>5 DEF Status
  <2>9. \A w \in Loaded(cz) \ cz.listed : q.status[w] = "INACTIVE"
    BY <1>1, <2>1, <2>3, <2>5 DEF Sound, Loaded
  <2>10. q.status[v] = "PRIMARY"
    <3>1. cz.primary # v
      BY <1>1, <1>2 DEF Sound
    <3> QED
      BY <2>1, <2>3, <2>5, <3>1
  <2>11. Sound(q)
    BY <2>5, <2>6, <2>7, <2>8, <2>9, <2>10 DEF Sound
  <2>12. Anchored(q)
    BY <1>1, <2>5, <2>10 DEF Anchored
  <2> QED
    BY <2>5, <2>11, <2>12
<1>3. CASE cz.status[v] # "ACTIVE"
  <2>1. q = [cz EXCEPT !.status[v] = "ACTIVE"]
    BY <1>3 DEF Promoted
  <2>2. /\ q \in Czar
        /\ q.listed = cz.listed /\ q.key = cz.key /\ q.primary = cz.primary
        /\ \A w \in Version :
             q.status[w] = IF w = v THEN "ACTIVE" ELSE cz.status[w]
    BY <2>1 DEF Czar, Status
  <2>3. Loaded(q) = Loaded(cz)
    BY <2>2 DEF Loaded
  <2>4. Sound(q)
    BY <1>1, <2>2, <2>3 DEF Sound, Status, Loaded
  <2>5. Anchored(cz) => Anchored(q)
    BY <1>1, <2>2 DEF Anchored, Czar
  <2> QED
    BY <2>2, <2>4, <2>5
<1> QED
  BY <1>2, <1>3

(***************************************************************************)
(* Demote keeps a key set sound and anchored: the demoted primary takes    *)
(* primary_version with it.                                                *)
(***************************************************************************)
LEMMA DemotedIsSound ==
  ASSUME NEW cz \in Czar, Sound(cz), NEW v \in Version, CanDemote(cz, v)
  PROVE  LET q == Demoted(cz, v) IN
         /\ q \in Czar
         /\ Sound(q)
         /\ Anchored(cz) => Anchored(q)
         /\ q.listed = cz.listed /\ q.key = cz.key
<1> DEFINE q == Demoted(cz, v)
<1>1. v \in cz.listed /\ v \in Loaded(cz) /\ cz.status[v] \in {"PRIMARY", "ACTIVE"}
  BY DEF CanDemote, Sound, Status
<1>2. CASE cz.status[v] = "PRIMARY"
  <2>1. q = [cz EXCEPT !.status[v] = "ACTIVE", !.primary = NoVersion]
    BY <1>2 DEF Demoted
  <2>2. /\ q \in Czar
        /\ q.listed = cz.listed /\ q.key = cz.key /\ q.primary = NoVersion
        /\ \A w \in Version :
             q.status[w] = IF w = v THEN "ACTIVE" ELSE cz.status[w]
    <3> DEFINE m == [cz EXCEPT !.status[v] = "ACTIVE"]
    <3>1. /\ m \in Czar
          /\ m.listed = cz.listed /\ m.key = cz.key
          /\ \A w \in Version :
               m.status[w] = IF w = v THEN "ACTIVE" ELSE cz.status[w]
      BY DEF Czar, Status
    <3>2. q = [m EXCEPT !.primary = NoVersion]
      BY <2>1
    <3> HIDE DEF m
    <3> QED
      BY <3>1, <3>2 DEF Czar
  <2>3. Loaded(q) = Loaded(cz)
    BY <2>2 DEF Loaded
  <2>4. \A w \in Loaded(cz) : w # NoVersion
    BY DEF Loaded, Version, NoVersion
  <2>5. \A w \in Loaded(cz) : q.status[w] # "PRIMARY"
    BY <1>1, <1>2, <2>2 DEF Sound, Loaded
  <2>6. Sound(q)
    BY <1>1, <2>2, <2>3, <2>4, <2>5 DEF Sound, Status, Loaded
  <2> QED
    BY <2>2, <2>6 DEF Anchored
<1>3. CASE cz.status[v] # "PRIMARY"
  <2>1. q = [cz EXCEPT !.status[v] = "INACTIVE"]
    BY <1>3 DEF Demoted
  <2>2. /\ q \in Czar
        /\ q.listed = cz.listed /\ q.key = cz.key /\ q.primary = cz.primary
        /\ \A w \in Version :
             q.status[w] = IF w = v THEN "INACTIVE" ELSE cz.status[w]
    BY <2>1 DEF Czar, Status
  <2>3. Loaded(q) = Loaded(cz)
    BY <2>2 DEF Loaded
  <2>4. Sound(q)
    BY <1>1, <1>3, <2>2, <2>3 DEF Sound, Status, Loaded
  <2>5. Anchored(cz) => Anchored(q)
    <3>1. cz.primary # v
      BY <1>1, <1>3 DEF Sound
    <3>2. Anchored(cz) /\ cz.primary # NoVersion => q.status[cz.primary] = "PRIMARY"
      BY <2>2, <3>1 DEF Anchored, Czar
    <3> QED
      BY <2>2, <3>2 DEF Anchored
  <2> QED
    BY <2>2, <2>4, <2>5
<1> QED
  BY <1>2, <1>3

(***************************************************************************)
(* Revoke keeps a key set sound and anchored: the version it drops is      *)
(* INACTIVE, and so not the one primary_version names.                     *)
(***************************************************************************)
LEMMA RevokedIsSound ==
  ASSUME NEW cz \in Czar, Sound(cz), NEW v \in Version, CanRevoke(cz, v)
  PROVE  LET q == Revoked(cz, v) IN
         /\ q \in Czar
         /\ Sound(q)
         /\ Anchored(cz) => Anchored(q)
         /\ q.key = cz.key
<1> DEFINE q == Revoked(cz, v)
<1>1. /\ q \in Czar
      /\ q.listed = cz.listed \ {v} /\ q.key = cz.key
      /\ q.status = cz.status /\ q.primary = cz.primary
  BY DEF Revoked, Czar
<1>2. Loaded(q) = Loaded(cz)
  BY <1>1 DEF Loaded
<1>3. Sound(q)
  BY <1>1, <1>2 DEF Sound, CanRevoke
<1>4. Anchored(cz) => Anchored(q)
  BY <1>1 DEF Anchored, CanRevoke
<1> QED
  BY <1>1, <1>3, <1>4

(***************************************************************************)
(* Keyczar.__init__ takes the one PRIMARY version as primary_version.      *)
(***************************************************************************)
LEMMA PrimaryOfFacts ==
  ASSUME NEW listed, NEW status, listed \subseteq Version,
         HasOnePrimary(listed, status)
  PROVE  /\ PrimaryOf(listed, status) \in listed \cup {NoVersion}
         /\ \A v \in listed : status[v] = "PRIMARY" <=> PrimaryOf(listed, status) = v
<1>1. CASE \E v \in listed : status[v] = "PRIMARY"
  <2>1. /\ PrimaryOf(listed, status) \in listed
        /\ status[PrimaryOf(listed, status)] = "PRIMARY"
    BY <1>1 DEF PrimaryOf
  <2> QED
    BY <2>1 DEF HasOnePrimary
<1>2. CASE ~ \E v \in listed : status[v] = "PRIMARY"
  <2>1. PrimaryOf(listed, status) = NoVersion
    BY <1>2 DEF PrimaryOf
  <2>2. \A v \in listed : v # NoVersion
    BY DEF NoVersion, Version
  <2> QED
    BY <1>2, <2>1, <2>2
<1> QED
  BY <1>1, <1>2

(***************************************************************************)
(* The object it builds.                                                   *)
(***************************************************************************)
LEMMA RebuiltFacts ==
  ASSUME NEW listed, NEW status, NEW key,
         listed \subseteq Version,
         status \in [Version -> Status \cup {Absent}],
         key \in [Version -> Key \cup {NoKey}],
         HasOnePrimary(listed, status)
  PROVE  LET q == Rebuilt(listed, status, key) IN
         /\ q \in Czar
         /\ q.listed = listed
         /\ \A v \in Version : q.status[v] = IF v \in listed THEN status[v] ELSE Absent
         /\ \A v \in Version : q.key[v] = IF v \in listed THEN key[v] ELSE NoKey
         /\ \A v \in listed : q.status[v] = "PRIMARY" <=> q.primary = v
         /\ Anchored(q)
<1> DEFINE q == Rebuilt(listed, status, key)
<1>1. /\ q.listed = listed
      /\ q.primary = PrimaryOf(listed, status)
      /\ \A v \in Version : q.status[v] = IF v \in listed THEN status[v] ELSE Absent
      /\ \A v \in Version : q.key[v] = IF v \in listed THEN key[v] ELSE NoKey
  BY DEF Rebuilt
<1>2. q \in Czar
  BY PrimaryOfFacts DEF Rebuilt, Czar
<1>3. \A v \in listed : q.status[v] = "PRIMARY" <=> q.primary = v
  BY <1>1, PrimaryOfFacts
<1>4. q.primary # NoVersion => q.primary \in listed
  BY <1>1, PrimaryOfFacts
<1>5. Anchored(q)
  BY <1>1, <1>3, <1>4 DEF Anchored
<1> QED
  BY <1>1, <1>2, <1>3, <1>5

(***************************************************************************)
(* Once every listed version has its key, the key set is sound.            *)
(***************************************************************************)
LEMMA LoadedIsSound ==
  ASSUME NEW cz \in Czar,
         cz.listed = Loaded(cz),
         \A v \in cz.listed : cz.status[v] \in Status,
         \A v \in cz.listed : cz.status[v] = "PRIMARY" <=> cz.primary = v
  PROVE  Sound(cz)
  BY DEF Sound

(***************************************************************************)
(* Writing some versions of a sound key set and reading them back gives a  *)
(* sound key set.                                                          *)
(***************************************************************************)
LEMMA PartIsSound ==
  ASSUME NEW cz \in Czar, Sound(cz), HashesDiffer(cz),
         NEW L \in SUBSET Loaded(cz)
  PROVE  LET q == Rebuilt(L, cz.status, cz.key) IN
         q \in Czar /\ Sound(q) /\ Anchored(q) /\ HashesDiffer(q)
<1> DEFINE st == cz.status
           ky == cz.key
           q == Rebuilt(L, st, ky)
<1>1. /\ L \subseteq Version
      /\ st \in [Version -> Status \cup {Absent}]
      /\ ky \in [Version -> Key \cup {NoKey}]
  BY DEF Czar, Loaded
<1>2. HasOnePrimary(L, st)
  BY DEF HasOnePrimary, Sound
<1>3. \A v \in L : st[v] \in Status /\ ky[v] # NoKey
  BY DEF Sound, Loaded
<1>4. /\ q \in Czar /\ Anchored(q) /\ q.listed = L
      /\ \A v \in Version : q.status[v] = IF v \in L THEN st[v] ELSE Absent
      /\ \A v \in Version : q.key[v] = IF v \in L THEN ky[v] ELSE NoKey
      /\ \A v \in L : q.status[v] = "PRIMARY" <=> q.primary = v
  <2> HIDE DEF st, ky
  <2> QED
    BY <1>1, <1>2, RebuiltFacts
<1> HIDE DEF q
<1>5. Loaded(q) = L
  BY <1>1, <1>3, <1>4 DEF Loaded
<1>6. Sound(q)
  BY <1>1, <1>3, <1>4, <1>5, LoadedIsSound
<1>7. HashesDiffer(q)
  <2> SUFFICES ASSUME NEW v \in L, NEW w \in L, Hash[q.key[v]] = Hash[q.key[w]]
               PROVE  v = w
    BY <1>5 DEF HashesDiffer
  <2>1. Hash[cz.key[v]] = Hash[cz.key[w]]
    BY <1>1, <1>4
  <2> QED
    BY <2>1 DEF HashesDiffer
<1> QED
  BY <1>4, <1>6, <1>7 DEF q
===============================================================================
