-------------------------- MODULE KeyRotationProofs --------------------------
(***************************************************************************)
(* The ladder of statuses keeps old objects useful, for any number of      *)
(* keys, versions, parties and messages.                                   *)
(*                                                                         *)
(* The inductive invariant compares key sets of different ages.  Within    *)
(* relates one to another that is d commands younger: a version that stood *)
(* higher than d is still there and has fallen by d at most, and a version *)
(* that was not there has not climbed higher than the administrator's      *)
(* pace allows.  It holds between every object and the key set on disk,    *)
(* and between every two objects.                                          *)
(***************************************************************************)
EXTENDS KeyRotation, KeysetProofs

\* What a key set read from a directory is.
Healthy(cz) ==
  /\ cz \in Czar
  /\ Sound(cz) /\ HashesDiffer(cz) /\ Anchored(cz)
  /\ cz.listed = Loaded(cz)

\* n is d commands younger than o, at pace j.
Within(j, o, n, d) ==
  /\ \A v \in Loaded(o) : Height(o.status[v]) > d =>
       n.key[v] = o.key[v] /\ Height(o.status[v]) <= Height(n.status[v]) + d
  /\ \A v \in Loaded(n) : n.key[v] # o.key[v] => Height(n.status[v]) + j <= 2 + d

\* What one command does.
OneCommand(j, o, n) ==
  /\ \A v \in Loaded(o) : Height(o.status[v]) > 1 =>
       n.key[v] = o.key[v] /\ Height(o.status[v]) <= Height(n.status[v]) + 1
  /\ \A v \in Loaded(n) :
       IF n.key[v] = o.key[v] THEN Height(n.status[v]) <= Height(o.status[v]) + 1
       ELSE Height(n.status[v]) + j <= 3

\* The same keys, with the same statuses.
Alike(o, n) ==
  /\ \A v \in Version : o.key[v] = n.key[v]
  /\ \A v \in Loaded(n) : o.status[v] = n.status[v]

\* Every key that is held or used anywhere was generated.
MintedInv ==
  /\ \A v \in Loaded(set) : set.key[v] \in minted
  /\ \A p \in Party : \A v \in Loaded(snap[p]) : snap[p].key[v] \in minted
  /\ \A m \in wire : m.key \in minted

\* An object and the key set on disk are at most lag commands apart.
AgeInv ==
  \A p \in alive :
    /\ lag[p] <= pace
    /\ Within(pace, snap[p], set, lag[p])
    /\ lag[p] = 0 => Alike(snap[p], set)

\* So are two objects, by the difference of their lags.
PairInv ==
  \A p, q \in alive : lag[q] <= lag[p] => Within(pace, snap[p], snap[q], lag[p] - lag[q])

\* A key that made a message and is not revoked is in every object.
WireInv ==
  \A m \in wire, q \in alive : m.key \in Keys(set) => m.key \in Keys(snap[q])

HealthInv == Healthy(set) /\ \A p \in Party : Healthy(snap[p])

Inv == TypeOK /\ HealthInv /\ MintedInv /\ AgeInv /\ PairInv /\ WireInv
-------------------------------------------------------------------------------
(***************************************************************************)
(* The rungs of the ladder.                                                *)
(***************************************************************************)
LEMMA HeightFacts ==
  /\ Height("PRIMARY") = 3 /\ Height("ACTIVE") = 2 /\ Height("INACTIVE") = 1
  /\ \A s \in Status : Height(s) \in 1 .. 3
  BY DEF Height, Status

(***************************************************************************)
(* The statuses that Added, Promoted and Demoted leave.                    *)
(***************************************************************************)
LEMMA AddedSteps ==
  ASSUME NEW cz \in Czar, Sound(cz), NEW n \in Version, IsNextVersion(cz, n),
         NEW s \in Status, NEW k \in Key
  PROVE  LET a == Added(cz, n, s, k) IN
         /\ n \notin Loaded(cz)
         /\ a.listed = cz.listed \cup {n}
         /\ Loaded(a) = Loaded(cz) \cup {n}
         /\ a.key[n] = k /\ a.status[n] = s
         /\ \A v \in Loaded(cz) :
              /\ a.key[v] = cz.key[v]
              /\ \/ a.status[v] = cz.status[v]
                 \/ cz.status[v] = "PRIMARY" /\ a.status[v] = "ACTIVE"
<1> DEFINE r == Reserved(cz, n, s)
           a == Added(cz, n, s, k)
           d == DemotePrimary(cz)
<1>1. n \notin Loaded(cz)
  BY DEF IsNextVersion, Loaded, Version
<1>2. /\ r \in Czar /\ r.listed = cz.listed /\ r.key = cz.key
      /\ \A v \in Loaded(cz) : \/ r.status[v] = cz.status[v]
                               \/ cz.status[v] = "PRIMARY" /\ r.status[v] = "ACTIVE"
  <2>1. r \in Czar /\ r.listed = cz.listed /\ r.key = cz.key
    BY ReservedIsSound
  <2>2. ASSUME NEW v \in Loaded(cz)
        PROVE  r.status[v] = cz.status[v] \/ (cz.status[v] = "PRIMARY" /\ r.status[v] = "ACTIVE")
    <3>1. v \in Version
      BY DEF Loaded
    <3>2. /\ d \in Czar
          /\ d.status[v] = IF v = cz.primary /\ v \in Loaded(cz) THEN "ACTIVE" ELSE cz.status[v]
      BY <3>1, DemotePrimaryFacts
    <3>3. v = cz.primary => cz.status[v] = "PRIMARY"
      BY DEF Sound
    <3>4. CASE s = "PRIMARY"
      <4>1. r = [d EXCEPT !.primary = n]
        BY <3>4 DEF Reserved
      <4>2. r.status = d.status
        BY <4>1, <3>2 DEF Czar
      <4> QED BY <4>2, <3>2, <3>3
    <3>5. CASE s # "PRIMARY"
      BY <3>5 DEF Reserved
    <3> QED BY <3>4, <3>5
  <2> QED BY <2>1, <2>2
<1>3. a = [r EXCEPT !.listed = @ \cup {n}, !.status[n] = s, !.key[n] = k]
  BY DEF Added
<1>4. /\ a.listed = cz.listed \cup {n}
      /\ a.key[n] = k /\ a.status[n] = s
      /\ \A v \in Version : v # n => a.key[v] = cz.key[v] /\ a.status[v] = r.status[v]
  BY <1>2, <1>3 DEF Czar
<1>5. k # NoKey
  BY KeysetAssumption
<1>6. Loaded(a) = Loaded(cz) \cup {n}
  BY <1>4, <1>5 DEF Loaded
<1>7. \A v \in Loaded(cz) : v \in Version /\ v # n
  BY <1>1 DEF Loaded
<1> QED
  BY <1>1, <1>2, <1>4, <1>6, <1>7

(***************************************************************************)
(* Promote lifts one version by one rung and may push the old primary down *)
(* one.                                                                    *)
(***************************************************************************)
LEMMA PromotedSteps ==
  ASSUME NEW cz \in Czar, Sound(cz), NEW v \in Version, CanPromote(cz, v)
  PROVE  LET a == Promoted(cz, v) IN
         /\ cz.status[v] = "INACTIVE" => a.status[v] = "ACTIVE"
         /\ cz.status[v] = "ACTIVE" => a.status[v] = "PRIMARY"
         /\ \A w \in Version : w # v =>
              \/ a.status[w] = cz.status[w]
              \/ cz.status[w] = "PRIMARY" /\ a.status[w] = "ACTIVE"
<1> DEFINE a == Promoted(cz, v)
<1>1. CASE cz.status[v] = "ACTIVE"
  <2> DEFINE u == [cz EXCEPT !.status[v] = "PRIMARY"]
             d == DemotePrimary(u)
  <2>1. /\ u \in Czar /\ u.primary = cz.primary /\ Loaded(u) = Loaded(cz)
        /\ \A w \in Version : u.status[w] = IF w = v THEN "PRIMARY" ELSE cz.status[w]
    BY DEF Czar, Status, Loaded
  <2>2. a = [d EXCEPT !.primary = v]
    BY <1>1 DEF Promoted, PromotedToPrimary
  <2> HIDE DEF u
  <2>3. /\ d \in Czar
        /\ \A w \in Version :
             d.status[w] = IF w = u.primary /\ w \in Loaded(u) THEN "ACTIVE" ELSE u.status[w]
    BY <2>1, DemotePrimaryFacts
  <2> HIDE DEF d
  <2>4. a.status = d.status
    BY <2>2, <2>3 DEF Czar
  <2>5. v \in Loaded(cz) /\ v # cz.primary
    BY <1>1 DEF CanPromote, Sound
  <2>6. \A w \in Loaded(cz) : w = cz.primary => cz.status[w] = "PRIMARY"
    BY DEF Sound
  <2> QED BY <1>1, <2>1, <2>3, <2>4, <2>5, <2>6
<1>2. CASE cz.status[v] # "ACTIVE"
  <2>1. a = [cz EXCEPT !.status[v] = "ACTIVE"]
    BY <1>2 DEF Promoted
  <2> QED BY <1>2, <2>1 DEF Czar
<1> QED BY <1>1, <1>2

(***************************************************************************)
(* Demote moves one version down one rung and no other.                    *)
(***************************************************************************)
LEMMA DemotedSteps ==
  ASSUME NEW cz \in Czar, NEW v \in Version
  PROVE  LET a == Demoted(cz, v) IN
         /\ cz.status[v] = "PRIMARY" => a.status[v] = "ACTIVE"
         /\ cz.status[v] # "PRIMARY" => a.status[v] = "INACTIVE"
         /\ \A w \in Version : w # v => a.status[w] = cz.status[w]
<1>1. CASE cz.status[v] = "PRIMARY"
  BY <1>1 DEF Demoted, Czar
<1>2. CASE cz.status[v] # "PRIMARY"
  BY <1>2 DEF Demoted, Czar
<1> QED BY <1>1, <1>2
-------------------------------------------------------------------------------
(***************************************************************************)
(* Every command keeps the key set healthy and is one command by the       *)
(* standard of OneCommand: no version jumps, and none disappears but from  *)
(* the lowest rung.                                                        *)
(***************************************************************************)
LEMMA AddKeyIsOneCommand ==
  ASSUME Healthy(set), pace \in Nat, NEW n \in Version, IsNextVersion(set, n),
         NEW s \in NewStatus(pace), NEW k \in Key, IsFreshKey(set, k)
  PROVE  LET a == Added(set, n, s, k) IN
         /\ Healthy(a) /\ OneCommand(pace, set, a)
         /\ \A v \in Loaded(a) : a.key[v] = k \/ (v \in Loaded(set) /\ a.key[v] = set.key[v])
<1> DEFINE a == Added(set, n, s, k)
<1>1. s \in Status /\ Height(s) + pace <= 3
  BY DEF NewStatus
<1>2. a \in Czar /\ Sound(a) /\ Anchored(a) /\ HashesDiffer(a)
  BY <1>1, AddedIsSound DEF Healthy
<1>3. /\ n \notin Loaded(set)
      /\ a.listed = set.listed \cup {n}
      /\ Loaded(a) = Loaded(set) \cup {n}
      /\ a.key[n] = k /\ a.status[n] = s
      /\ \A v \in Loaded(set) :
           /\ a.key[v] = set.key[v]
           /\ \/ a.status[v] = set.status[v]
              \/ set.status[v] = "PRIMARY" /\ a.status[v] = "ACTIVE"
  BY <1>1, AddedSteps DEF Healthy
<1> HIDE DEF a
<1>4. \A v \in Loaded(set) : set.status[v] \in Status
  BY DEF Healthy, Sound
<1>5. ASSUME NEW v \in Loaded(set)
      PROVE  /\ Height(set.status[v]) <= Height(a.status[v]) + 1
             /\ Height(a.status[v]) <= Height(set.status[v]) + 1
  <2>1. CASE a.status[v] = set.status[v]
    BY <1>4, <2>1, HeightFacts
  <2>2. CASE set.status[v] = "PRIMARY" /\ a.status[v] = "ACTIVE"
    BY <2>2, HeightFacts
  <2> QED BY <1>3, <2>1, <2>2
<1>6. set.key[n] # k
  <2>1. set.key[n] = NoKey
    BY <1>3 DEF Loaded
  <2> QED BY <2>1, KeysetAssumption
<1>7. OneCommand(pace, set, a)
  BY <1>1, <1>3, <1>5, <1>6 DEF OneCommand
<1>8. /\ Healthy(a)
      /\ \A v \in Loaded(a) : a.key[v] = k \/ (v \in Loaded(set) /\ a.key[v] = set.key[v])
  BY <1>2, <1>3 DEF Healthy
<1> QED BY <1>7, <1>8 DEF a

(***************************************************************************)
(* promote and demote are within OneCommand, whatever they do to the       *)
(* statuses as long as it is one rung.                                     *)
(***************************************************************************)
LEMMA ChangeIsOneCommand ==
  ASSUME Healthy(set), NEW v \in Version, NEW a,
         \/ a = Promoted(set, v) /\ CanPromote(set, v)
         \/ a = Demoted(set, v) /\ CanDemote(set, v)
  PROVE  Healthy(a) /\ OneCommand(pace, set, a) /\ a.key = set.key
<1>1. /\ a \in Czar /\ Sound(a) /\ Anchored(a)
      /\ a.listed = set.listed /\ a.key = set.key
  BY PromotedIsSound, DemotedIsSound DEF Healthy
<1>2. Loaded(a) = Loaded(set)
  BY <1>1 DEF Loaded
<1>3. Healthy(a)
  BY <1>1, <1>2 DEF Healthy, HashesDiffer
<1>4. \A w \in Loaded(set) : set.status[w] \in Status /\ w \in Version
  BY DEF Healthy, Sound, Loaded
<1>5. v \in Loaded(set)
  BY DEF Healthy, CanPromote, CanDemote
<1>6. ASSUME NEW w \in Loaded(set)
      PROVE  /\ Height(set.status[w]) <= Height(a.status[w]) + 1
             /\ Height(a.status[w]) <= Height(set.status[w]) + 1
  <2>1. CASE a.status[w] = set.status[w]
    BY <1>4, <2>1, HeightFacts
  <2>2. CASE set.status[w] = "PRIMARY" /\ a.status[w] = "ACTIVE"
    BY <2>2, HeightFacts
  <2>3. CASE set.status[w] = "ACTIVE" /\ a.status[w] \in {"PRIMARY", "INACTIVE"}
    BY <2>3, HeightFacts
  <2>4. CASE set.status[w] = "INACTIVE" /\ a.status[w] = "ACTIVE"
    BY <2>4, HeightFacts
  <2>5. CASE a = Promoted(set, v) /\ CanPromote(set, v)
    <3>1. /\ set.status[v] = "INACTIVE" => a.status[v] = "ACTIVE"
          /\ set.status[v] = "ACTIVE" => a.status[v] = "PRIMARY"
          /\ w # v => \/ a.status[w] = set.status[w]
                      \/ set.status[w] = "PRIMARY" /\ a.status[w] = "ACTIVE"
      BY <1>4, <2>5, PromotedSteps DEF Healthy
    <3>2. set.status[v] \in {"ACTIVE", "INACTIVE"}
      BY <1>4, <1>5, <2>5 DEF CanPromote, Status
    <3> QED BY <2>1, <2>2, <2>3, <2>4, <3>1, <3>2
  <2>6. CASE a = Demoted(set, v) /\ CanDemote(set, v)
    <3>1. /\ set.status[v] = "PRIMARY" => a.status[v] = "ACTIVE"
          /\ set.status[v] # "PRIMARY" => a.status[v] = "INACTIVE"
          /\ w # v => a.status[w] = set.status[w]
      BY <1>4, <2>6, DemotedSteps DEF Healthy
    <3>2. set.status[v] \in {"PRIMARY", "ACTIVE"}
      BY <1>4, <1>5, <2>6 DEF CanDemote, Status
    <3> QED BY <2>1, <2>2, <2>3, <3>1, <3>2
  <2> QED BY <2>5, <2>6
<1>7. OneCommand(pace, set, a)
  BY <1>1, <1>2, <1>6 DEF OneCommand
<1> QED BY <1>1, <1>3, <1>7

(***************************************************************************)
(* revoke takes away a version of the lowest rung and nothing else.        *)
(***************************************************************************)
LEMMA RevokeIsOneCommand ==
  ASSUME Healthy(set), NEW v \in Version, CanRevoke(set, v)
  PROVE  LET a == Rebuilt(set.listed \ {v}, set.status, set.key) IN
         /\ Healthy(a) /\ OneCommand(pace, set, a)
         /\ \A w \in Loaded(a) : w \in Loaded(set) /\ a.key[w] = set.key[w]
<1> DEFINE L == set.listed \ {v}
           a == Rebuilt(L, set.status, set.key)
<1>1. L \in SUBSET Loaded(set)
  BY DEF Healthy
<1>2. a \in Czar /\ Sound(a) /\ Anchored(a) /\ HashesDiffer(a)
  BY <1>1, PartIsSound DEF Healthy
<1>3. /\ a.listed = L
      /\ \A w \in Version : a.status[w] = IF w \in L THEN set.status[w] ELSE Absent
      /\ \A w \in Version : a.key[w] = IF w \in L THEN set.key[w] ELSE NoKey
  BY DEF Rebuilt
<1> HIDE DEF a
<1>4. \A w \in Loaded(set) : set.status[w] \in Status /\ w \in Version /\ set.key[w] # NoKey
  BY DEF Healthy, Sound, Loaded
<1>5. Loaded(a) = L
  BY <1>1, <1>3, <1>4 DEF Loaded
<1>6. Healthy(a)
  BY <1>2, <1>3, <1>5 DEF Healthy
<1>7. \A w \in Loaded(set) : Height(set.status[w]) > 1 => w \in L
  <2>1. set.status[v] = "INACTIVE"
    BY DEF CanRevoke
  <2>2. set.listed = Loaded(set)
    BY DEF Healthy
  <2> QED BY <2>1, <2>2, HeightFacts
<1>8. \A w \in L : /\ a.key[w] = set.key[w] /\ a.status[w] = set.status[w]
                   /\ Height(set.status[w]) \in 1 .. 3
  BY <1>1, <1>3, <1>4, HeightFacts
<1>9. OneCommand(pace, set, a)
  BY <1>1, <1>5, <1>7, <1>8 DEF OneCommand
<1>10. \A w \in Loaded(a) : w \in Loaded(set) /\ a.key[w] = set.key[w]
  BY <1>1, <1>5, <1>8
<1> QED BY <1>6, <1>9, <1>10 DEF a

(***************************************************************************)
(* One command more makes a key set one command older.                     *)
(***************************************************************************)
LEMMA OneCommandOlder ==
  ASSUME NEW a, NEW o, NEW n, NEW d \in Nat, pace \in Nat,
         Healthy(a), Healthy(o), Healthy(n), Within(pace, a, o, d), OneCommand(pace, o, n)
  PROVE  Within(pace, a, n, d + 1)
<1>1. /\ \A v \in Loaded(a) : v \in Version /\ a.key[v] # NoKey /\ Height(a.status[v]) \in 1 .. 3
      /\ \A v \in Loaded(o) : v \in Version /\ o.key[v] # NoKey /\ Height(o.status[v]) \in 1 .. 3
      /\ \A v \in Loaded(n) : v \in Version /\ n.key[v] # NoKey /\ Height(n.status[v]) \in 1 .. 3
  BY HeightFacts DEF Healthy, Sound, Loaded
<1>2. \A v \in Version : /\ o.key[v] # NoKey => v \in Loaded(o)
                         /\ n.key[v] # NoKey => v \in Loaded(n)
  BY DEF Loaded
<1>3. ASSUME NEW v \in Loaded(a), Height(a.status[v]) > d + 1
      PROVE  n.key[v] = a.key[v] /\ Height(a.status[v]) <= Height(n.status[v]) + (d + 1)
  <2>1. o.key[v] = a.key[v] /\ Height(a.status[v]) <= Height(o.status[v]) + d
    BY <1>1, <1>3 DEF Within
  <2>2. v \in Loaded(o)
    BY <1>1, <1>2, <2>1
  <2>3. Height(o.status[v]) > 1
    BY <1>1, <1>3, <2>1, <2>2
  <2>4. n.key[v] = o.key[v] /\ Height(o.status[v]) <= Height(n.status[v]) + 1
    BY <2>2, <2>3 DEF OneCommand
  <2>5. v \in Loaded(n)
    BY <1>1, <1>2, <2>2, <2>4
  <2> QED BY <1>1, <2>1, <2>2, <2>4, <2>5
<1>4. ASSUME NEW v \in Loaded(n), n.key[v] # a.key[v]
      PROVE  Height(n.status[v]) + pace <= 2 + (d + 1)
  <2>1. CASE n.key[v] = o.key[v]
    <3>1. v \in Loaded(o)
      BY <1>1, <1>2, <2>1
    <3>2. Height(o.status[v]) + pace <= 2 + d
      BY <1>4, <2>1, <3>1 DEF Within
    <3>3. Height(n.status[v]) <= Height(o.status[v]) + 1
      BY <2>1 DEF OneCommand
    <3> QED BY <1>1, <3>1, <3>2, <3>3
  <2>2. CASE n.key[v] # o.key[v]
    <3>1. Height(n.status[v]) + pace <= 3
      BY <2>2 DEF OneCommand
    <3> QED BY <1>1, <3>1
  <2> QED BY <2>1, <2>2
<1> QED BY <1>3, <1>4 DEF Within
-------------------------------------------------------------------------------
(***************************************************************************)
(* An empty key set and no object.                                         *)
(***************************************************************************)
LEMMA InvInit == Init => Inv
<1> SUFFICES ASSUME Init PROVE Inv
  OBVIOUS
<1>1. Healthy(EmptyCzar) /\ Loaded(EmptyCzar) = {}
  <2>1. Loaded(EmptyCzar) = {} /\ EmptyCzar.listed = {}
    BY DEF Loaded, EmptyCzar
  <2> QED BY <2>1, EmptyIsSound DEF Healthy
<1>2. TypeOK
  BY EmptyIsSound DEF Init, TypeOK
<1>3. HealthInv
  BY <1>1 DEF Init, HealthInv
<1>4. MintedInv /\ AgeInv /\ PairInv /\ WireInv
  BY <1>1 DEF Init, MintedInv, AgeInv, PairInv, WireInv
<1> QED BY <1>2, <1>3, <1>4 DEF Inv

(***************************************************************************)
(* A command makes every object one command older, and brings back no key. *)
(***************************************************************************)
LEMMA CommandKeepsInv ==
  ASSUME Inv, NEW cz, Command(cz), Healthy(cz), OneCommand(pace, set, cz),
         minted \subseteq minted', minted' \subseteq Key,
         \A v \in Loaded(cz) : cz.key[v] \in minted',
         \A v \in Loaded(cz) : cz.key[v] \in minted => cz.key[v] \in Keys(set)
  PROVE  Inv'
<1> USE DEF Inv
<1>1. /\ set' = cz /\ alive' = alive /\ snap' = snap /\ wire' = wire /\ pace' = pace
      /\ lag' = [p \in Party |-> IF p \in alive THEN lag[p] + 1 ELSE 0]
      /\ \A p \in alive : lag[p] < pace
  BY DEF Command
<1>2. /\ pace \in 0 .. 2 /\ alive \subseteq Party
      /\ \A p \in alive : lag[p] \in 0 .. 2 /\ lag'[p] = lag[p] + 1 /\ lag[p] + 1 <= pace
  BY <1>1, RotationAssumption DEF TypeOK
<1>3. TypeOK'
  BY <1>1, <1>2 DEF TypeOK, Healthy
<1>4. HealthInv'
  BY <1>1 DEF HealthInv, Healthy, Sound, HashesDiffer, Anchored, Loaded
<1>5. MintedInv'
  BY <1>1 DEF MintedInv
<1>6. AgeInv'
  <2>1. ASSUME NEW p \in alive
        PROVE  lag'[p] <= pace /\ lag'[p] # 0 /\ Within(pace, snap[p], cz, lag'[p])
    <3>1. Within(pace, snap[p], set, lag[p]) /\ Healthy(snap[p]) /\ Healthy(set)
      BY <1>2 DEF AgeInv, HealthInv
    <3>2. Within(pace, snap[p], cz, lag[p] + 1)
      BY <1>2, <3>1, OneCommandOlder
    <3> QED BY <1>2, <3>2
  <2> QED BY <1>1, <2>1 DEF AgeInv
<1>7. PairInv'
  <2> SUFFICES ASSUME NEW p \in alive', NEW q \in alive', (lag[q] <= lag[p])'
               PROVE  Within(pace', snap'[p], snap'[q], lag'[p] - lag'[q])
    BY DEF PairInv
  <2>1. p \in alive /\ q \in alive /\ lag'[q] <= lag'[p]
    BY <1>1
  <2>2. lag[q] <= lag[p] /\ lag'[p] - lag'[q] = lag[p] - lag[q]
    BY <1>2, <2>1
  <2>3. Within(pace, snap[p], snap[q], lag'[p] - lag'[q])
    BY <2>1, <2>2 DEF PairInv
  <2> QED BY <1>1, <2>3
<1>8. WireInv'
  <2>1. ASSUME NEW m \in wire, NEW q \in alive, NEW v \in Loaded(cz), m.key = cz.key[v]
        PROVE  m.key \in Keys(snap[q])
    <3>1. m.key \in minted
      BY DEF MintedInv
    <3>2. m.key \in Keys(set)
      BY <2>1, <3>1
    <3> QED BY <3>2 DEF WireInv
  <2>2. Keys(set)' = {cz.key[v] : v \in Loaded(cz)} /\ \A q \in alive : Keys(snap[q])' = Keys(snap[q])
    BY <1>1 DEF Keys, Loaded
  <2> QED BY <1>1, <2>1, <2>2 DEF WireInv
<1> QED BY <1>3, <1>4, <1>5, <1>6, <1>7, <1>8

(***************************************************************************)
(* The heart of the matter: the primary of any living object is known to   *)
(* every other, younger or older.                                          *)
(***************************************************************************)
LEMMA PrimaryIsKnown ==
  ASSUME Inv, NEW p \in alive, NEW q \in alive, snap[p].primary # NoVersion
  PROVE  /\ snap[p].primary \in Loaded(snap[p])
         /\ snap[p].primary \in Loaded(snap[q])
         /\ snap[q].key[snap[p].primary] = PrimaryKey(snap[p])
<1> USE DEF Inv
<1> DEFINE v == snap[p].primary
<1>1. /\ pace \in 0 .. 2 /\ p \in Party /\ q \in Party
      /\ lag[p] \in 0 .. 2 /\ lag[q] \in 0 .. 2 /\ lag[p] <= pace /\ lag[q] <= pace
  BY RotationAssumption DEF TypeOK, AgeInv
<1>2. v \in Loaded(snap[p]) /\ Height(snap[p].status[v]) = 3
  BY <1>1, HeightFacts DEF HealthInv, Healthy, Anchored
<1>3. snap[q].key[v] = snap[p].key[v]
  <2>1. CASE lag[q] <= lag[p]
    <3>1. Within(pace, snap[p], snap[q], lag[p] - lag[q])
      BY <2>1 DEF PairInv
    <3>2. Height(snap[p].status[v]) > lag[p] - lag[q]
      BY <1>1, <1>2, <2>1
    <3> QED BY <1>2, <3>1, <3>2 DEF Within
  <2>2. CASE ~(lag[q] <= lag[p])
    <3>1. Within(pace, snap[q], snap[p], lag[q] - lag[p])
      BY <1>1, <2>2 DEF PairInv
    <3>2. ~(Height(snap[p].status[v]) + pace <= 2 + (lag[q] - lag[p]))
      BY <1>1, <1>2, <2>2
    <3> QED BY <1>2, <3>1, <3>2 DEF Within
  <2> QED BY <2>1, <2>2
<1>4. v \in Version /\ snap[p].key[v] # NoKey
  BY <1>2 DEF Loaded
<1> QED BY <1>2, <1>3, <1>4 DEF Loaded, PrimaryKey
-------------------------------------------------------------------------------
(***************************************************************************)
(* The steps of the parties.                                               *)
(***************************************************************************)
LEMMA ReadKeepsInv ==
  ASSUME Inv, NEW r \in Party, Read(r)
  PROVE  Inv'
<1> DEFINE s == Rebuilt(set.listed, set.status, set.key)
<1>0. /\ TypeOK /\ HealthInv /\ MintedInv /\ AgeInv /\ PairInv /\ WireInv
      /\ Healthy(set)
  BY DEF Inv, HealthInv
<1>1. /\ alive' = alive \cup {r} /\ snap' = [snap EXCEPT ![r] = s] /\ lag' = [lag EXCEPT ![r] = 0]
      /\ pace' = pace /\ set' = set /\ minted' = minted /\ wire' = wire
  BY DEF Read
<1>2. /\ Healthy(s) /\ Loaded(s) = Loaded(set)
      /\ \A v \in Version : s.key[v] = set.key[v]
      /\ \A v \in Loaded(set) : s.status[v] = set.status[v]
  <2>1. set.listed = Loaded(set) /\ Loaded(set) \in SUBSET Loaded(set)
    BY <1>0 DEF Healthy
  <2>2. s \in Czar /\ Sound(s) /\ Anchored(s) /\ HashesDiffer(s)
    BY <1>0, <2>1, PartIsSound DEF Healthy
  <2>3. /\ s.listed = set.listed
        /\ \A v \in Version : s.status[v] = IF v \in set.listed THEN set.status[v] ELSE Absent
        /\ \A v \in Version : s.key[v] = IF v \in set.listed THEN set.key[v] ELSE NoKey
    BY DEF Rebuilt
  <2> HIDE DEF s
  <2>4. \A v \in Version : v \in Loaded(set) <=> set.key[v] # NoKey
    BY DEF Loaded
  <2>5. \A v \in Version : s.key[v] = set.key[v]
    BY <2>1, <2>3, <2>4
  <2>6. Loaded(s) = Loaded(set)
    BY <2>5 DEF Loaded
  <2>7. \A v \in Loaded(set) : v \in Version
    BY DEF Loaded
  <2> QED BY <2>1, <2>2, <2>3, <2>5, <2>6, <2>7 DEF Healthy
<1> HIDE DEF s
<1>3. /\ pace \in 0 .. 2 /\ alive \subseteq Party /\ lag \in [Party -> 0 .. 2]
      /\ snap \in [Party -> Czar]
  BY <1>0, RotationAssumption DEF TypeOK
<1>4. /\ lag'[r] = 0 /\ snap'[r] = s
      /\ \A p \in Party : p # r => lag'[p] = lag[p] /\ snap'[p] = snap[p]
  BY <1>1, <1>3
<1>5. TypeOK'
  BY <1>0, <1>1, <1>2, <1>3 DEF TypeOK, Healthy
<1>6. HealthInv'
  <2>1. Healthy(set)'
    BY <1>0, <1>1 DEF Healthy, Sound, HashesDiffer, Anchored, Loaded
  <2>2. ASSUME NEW p \in Party PROVE Healthy(snap[p])'
    <3>1. Healthy(snap'[p])
      BY <1>0, <1>2, <1>4 DEF HealthInv
    <3> QED BY <3>1 DEF Healthy, Sound, HashesDiffer, Anchored, Loaded
  <2> QED BY <2>1, <2>2 DEF HealthInv
<1>7. MintedInv'
  <2>1. \A v \in Loaded(s) : v \in Version /\ s.key[v] \in minted
    BY <1>0, <1>2 DEF MintedInv, Loaded
  <2> QED BY <1>0, <1>1, <1>4, <2>1 DEF MintedInv
<1>8. \A v \in Loaded(set) : Height(set.status[v]) \in 1 .. 3
  BY <1>0, HeightFacts DEF Healthy, Sound
<1>9. \A p \in alive : lag[p] \in 0 .. 2 /\ lag[p] <= pace /\ Within(pace, snap[p], set, lag[p])
                     /\ (lag[p] = 0 => Alike(snap[p], set))
  BY <1>0, <1>3 DEF AgeInv
<1>10. \A v \in Loaded(set) : v \in Version
  BY DEF Loaded
<1>11. Within(pace, s, s, 0) /\ Within(pace, s, set, 0) /\ Alike(s, set)
  BY <1>2, <1>8, <1>10 DEF Within, Alike
<1>12. ASSUME NEW p \in alive
       PROVE  /\ Within(pace, snap[p], s, lag[p])
              /\ lag[p] = 0 => Within(pace, s, snap[p], 0)
  <2>1. Within(pace, snap[p], s, lag[p])
    <3>1. \A v \in Loaded(snap[p]) : v \in Version /\ snap[p].key[v] # NoKey
      BY DEF Loaded
    <3>2. ASSUME NEW v \in Loaded(snap[p]), Height(snap[p].status[v]) > lag[p]
          PROVE  /\ s.key[v] = snap[p].key[v]
                 /\ Height(snap[p].status[v]) <= Height(s.status[v]) + lag[p]
      <4>1. set.key[v] = snap[p].key[v] /\ Height(snap[p].status[v]) <= Height(set.status[v]) + lag[p]
        BY <1>9, <3>2 DEF Within
      <4>2. v \in Loaded(set)
        BY <3>1, <4>1 DEF Loaded
      <4> QED BY <1>2, <1>10, <4>1, <4>2
    <3>3. ASSUME NEW v \in Loaded(s), s.key[v] # snap[p].key[v]
          PROVE  Height(s.status[v]) + pace <= 2 + lag[p]
      BY <1>2, <1>9, <1>10, <3>3 DEF Within
    <3> QED BY <3>2, <3>3 DEF Within
  <2>2. ASSUME lag[p] = 0 PROVE Within(pace, s, snap[p], 0)
    <3>1. /\ \A v \in Version : snap[p].key[v] = set.key[v]
          /\ \A v \in Loaded(set) : snap[p].status[v] = set.status[v]
      BY <1>9, <2>2 DEF Alike
    <3>2. Loaded(snap[p]) = Loaded(set)
      BY <3>1 DEF Loaded
    <3> QED BY <1>2, <1>8, <1>10, <3>1, <3>2 DEF Within
  <2> QED BY <2>1, <2>2
<1>13. AgeInv'
  <2> SUFFICES ASSUME NEW p \in alive'
               PROVE  /\ lag'[p] <= pace' /\ Within(pace', snap'[p], set', lag'[p])
                      /\ lag'[p] = 0 => Alike(snap'[p], set')
    BY DEF AgeInv
  <2>1. CASE p = r
    BY <1>1, <1>3, <1>4, <1>11, <2>1
  <2>2. CASE p # r
    <3>1. p \in alive /\ p \in Party
      BY <1>1, <1>3, <2>2
    <3> QED BY <1>1, <1>4, <1>9, <2>2, <3>1
  <2> QED BY <2>1, <2>2
<1>14. PairInv'
  <2> SUFFICES ASSUME NEW p \in alive', NEW q \in alive', lag'[q] <= lag'[p]
               PROVE  Within(pace', snap'[p], snap'[q], lag'[p] - lag'[q])
    BY DEF PairInv
  <2>0. p \in alive \cup {r} /\ q \in alive \cup {r} /\ p \in Party /\ q \in Party
    BY <1>1, <1>3
  <2>1. CASE p = r /\ q = r
    BY <1>1, <1>4, <1>11, <2>1
  <2>2. CASE p = r /\ q # r
    <3>1. q \in alive /\ lag[q] = 0 /\ lag'[q] = 0
      BY <1>3, <1>4, <2>0, <2>2
    <3> QED BY <1>1, <1>4, <1>12, <2>0, <2>2, <3>1
  <2>3. CASE p # r /\ q = r
    <3>1. p \in alive /\ lag'[p] - lag'[q] = lag[p]
      BY <1>3, <1>4, <2>0, <2>3
    <3> QED BY <1>1, <1>4, <1>12, <2>0, <2>3, <3>1
  <2>4. CASE p # r /\ q # r
    BY <1>0, <1>1, <1>4, <2>0, <2>4 DEF PairInv
  <2> QED BY <2>1, <2>2, <2>3, <2>4
<1>15. WireInv'
  <2> SUFFICES ASSUME NEW m \in wire, NEW q \in alive', m.key \in Keys(set')
               PROVE  m.key \in Keys(snap'[q])
    BY <1>1 DEF WireInv
  <2>1. m.key \in Keys(set) /\ q \in Party
    BY <1>1, <1>3
  <2>2. CASE q = r
    BY <1>2, <1>4, <1>10, <2>1, <2>2 DEF Keys
  <2>3. CASE q # r
    BY <1>0, <1>1, <1>4, <2>1, <2>3 DEF WireInv
  <2> QED BY <2>2, <2>3
<1> QED BY <1>5, <1>6, <1>7, <1>13, <1>14, <1>15 DEF Inv

(***************************************************************************)
(* A message is made with a key that the other objects have, as            *)
(* PrimaryIsKnown says.                                                    *)
(***************************************************************************)
LEMMA EmitKeepsInv ==
  ASSUME Inv, NEW p \in Party, NEW form \in Form, Emit(p, form)
  PROVE  Inv'
<1> DEFINE k == PrimaryKey(snap[p])
<1>0. /\ TypeOK /\ HealthInv /\ MintedInv /\ AgeInv /\ PairInv /\ WireInv
  BY DEF Inv
<1>1. /\ p \in alive /\ snap[p].primary # NoVersion
      /\ wire' = wire \cup {[form |-> form, key |-> k]}
      /\ pace' = pace /\ set' = set /\ minted' = minted /\ alive' = alive /\ snap' = snap
      /\ lag' = lag
  BY DEF Emit
<1>2. k \in Key
  <2>1. snap[p] \in Czar /\ snap[p].primary \in Loaded(snap[p])
    BY <1>0, <1>1, PrimaryIsKnown DEF TypeOK
  <2> QED BY <2>1 DEF Czar, Loaded, PrimaryKey
<1>3. \A q \in alive : k \in Keys(snap[q])
  BY <1>1, PrimaryIsKnown DEF Keys
<1>4. k \in minted
  BY <1>0, <1>1, PrimaryIsKnown DEF MintedInv, PrimaryKey
<1>5. TypeOK'
  BY <1>0, <1>1, <1>2 DEF TypeOK, Message
<1>6. HealthInv'
  BY <1>0, <1>1 DEF HealthInv
<1>7. MintedInv' /\ WireInv'
  BY <1>0, <1>1, <1>3, <1>4 DEF MintedInv, WireInv
<1>8. AgeInv' /\ PairInv'
  BY <1>0, <1>1 DEF AgeInv, PairInv
<1> QED BY <1>5, <1>6, <1>7, <1>8 DEF Inv

(***************************************************************************)
(* Every action keeps the invariant.                                       *)
(***************************************************************************)
LEMMA InvNext == Inv /\ [Next]_vars => Inv'
<1> SUFFICES ASSUME Inv, [Next]_vars PROVE Inv'
  OBVIOUS
<1>0. /\ TypeOK /\ Healthy(set) /\ MintedInv /\ pace \in Nat /\ minted \subseteq Key
  BY RotationAssumption DEF Inv, HealthInv, TypeOK
<1>1. ASSUME NEW n \in Version, NEW s \in NewStatus(pace), NEW k \in Key, AddKey(n, s, k)
      PROVE  Inv'
  <2> DEFINE a == Added(set, n, s, k)
  <2>1. /\ IsNextVersion(set, n) /\ k \notin minted /\ IsFreshKey(set, k)
        /\ minted' = minted \cup {k} /\ Command(a)
    BY <1>1 DEF AddKey
  <2>2. /\ Healthy(a) /\ OneCommand(pace, set, a)
        /\ \A v \in Loaded(a) : a.key[v] = k \/ (v \in Loaded(set) /\ a.key[v] = set.key[v])
    BY <1>0, <2>1, AddKeyIsOneCommand
  <2> HIDE DEF a
  <2>3. \A v \in Loaded(a) : a.key[v] \in minted'
    BY <1>0, <2>1, <2>2 DEF MintedInv
  <2>4. \A v \in Loaded(a) : a.key[v] \in minted => a.key[v] \in Keys(set)
    BY <2>1, <2>2 DEF Keys
  <2> QED BY <1>0, <2>1, <2>2, <2>3, <2>4, CommandKeepsInv
<1>2. ASSUME NEW v \in Version, Promote(v) \/ Demote(v)
      PROVE  Inv'
  <2>1. PICK a : /\ \/ a = Promoted(set, v) /\ CanPromote(set, v)
                    \/ a = Demoted(set, v) /\ CanDemote(set, v)
                 /\ Command(a) /\ minted' = minted
    BY <1>2 DEF Promote, Demote
  <2>2. Healthy(a) /\ OneCommand(pace, set, a) /\ a.key = set.key
    <3>1. CASE a = Promoted(set, v) /\ CanPromote(set, v)
      BY <1>0, <3>1, ChangeIsOneCommand
    <3>2. CASE a = Demoted(set, v) /\ CanDemote(set, v)
      BY <1>0, <3>2, ChangeIsOneCommand
    <3> QED BY <2>1, <3>1, <3>2
  <2>3. Loaded(a) = Loaded(set)
    BY <2>2 DEF Loaded
  <2>4. \A w \in Loaded(a) : a.key[w] \in minted' /\ a.key[w] \in Keys(set)
    BY <1>0, <2>1, <2>2, <2>3 DEF MintedInv, Keys
  <2> QED BY <1>0, <2>1, <2>2, <2>4, CommandKeepsInv
<1>3. ASSUME NEW v \in Version, Revoke(v)
      PROVE  Inv'
  <2> DEFINE a == Rebuilt(set.listed \ {v}, set.status, set.key)
  <2>1. CanRevoke(set, v) /\ Command(a) /\ minted' = minted
    BY <1>3 DEF Revoke
  <2>2. /\ Healthy(a) /\ OneCommand(pace, set, a)
        /\ \A w \in Loaded(a) : w \in Loaded(set) /\ a.key[w] = set.key[w]
    BY <1>0, <2>1, RevokeIsOneCommand
  <2> HIDE DEF a
  <2>3. \A w \in Loaded(a) : a.key[w] \in minted' /\ a.key[w] \in Keys(set)
    BY <1>0, <2>1, <2>2 DEF MintedInv, Keys
  <2> QED BY <1>0, <2>1, <2>2, <2>3, CommandKeepsInv
<1>4. ASSUME NEW p \in Party, Read(p)
      PROVE  Inv'
  BY <1>4, ReadKeepsInv
<1>5. ASSUME NEW p \in Party, Encrypt(p) \/ Sign(p) \/ AttachedSign(p) \/ UnversionedSign(p)
      PROVE  Inv'
  <2>1. PICK f \in Form : Emit(p, f)
    BY <1>5 DEF Encrypt, Sign, AttachedSign, UnversionedSign, Form
  <2> QED BY <2>1, EmitKeepsInv
<1>6. CASE UNCHANGED vars
  <2>1. /\ pace' = pace /\ set' = set /\ minted' = minted /\ alive' = alive /\ snap' = snap
        /\ lag' = lag /\ wire' = wire
    BY <1>6 DEF vars
  <2> QED BY <2>1 DEF Inv, TypeOK, HealthInv, MintedInv, AgeInv, PairInv, WireInv
<1> QED BY <1>1, <1>2, <1>3, <1>4, <1>5, <1>6 DEF Next

(***************************************************************************)
(* In a key set whose identifiers differ, GetKey and the loop over the     *)
(* versions find a key that is there.                                      *)
(***************************************************************************)
LEMMA KnownIsRead ==
  ASSUME NEW cz, Healthy(cz), NEW v \in Loaded(cz), NEW m, m.key = cz.key[v]
  PROVE  Reads(cz, m)
<1>1. HasHash(cz, Hash[m.key])
  BY DEF HasHash
<1> DEFINE w == CHOOSE u \in Loaded(cz) : Hash[cz.key[u]] = Hash[m.key]
<1>2. w \in Loaded(cz) /\ Hash[cz.key[w]] = Hash[m.key]
  OBVIOUS
<1>3. w = v
  BY <1>2 DEF Healthy, HashesDiffer
<1>4. GetKey(cz, Hash[m.key]) = cz.key[w]
  BY <1>1 DEF GetKey
<1>5. ParsesHeader(cz, m)
  BY <1>3, <1>4 DEF ParsesHeader
<1>6. TriesEach(cz, m)
  BY DEF TriesEach
<1> QED BY <1>5, <1>6 DEF Reads

(***************************************************************************)
(* The invariant gives both properties: a key that an object holds is the  *)
(* one it finds for the message.                                           *)
(***************************************************************************)
LEMMA InvSuffices == Inv => PeersCanRead /\ ReadableUntilRevoked
<1> SUFFICES ASSUME Inv PROVE PeersCanRead /\ ReadableUntilRevoked
  OBVIOUS
<1>0. \A p \in alive : p \in Party /\ Healthy(snap[p])
  BY DEF Inv, TypeOK, HealthInv
<1>1. PeersCanRead
  <2> SUFFICES ASSUME NEW p \in alive, NEW q \in alive, snap[p].primary # NoVersion,
                      NEW f \in Form
               PROVE  Reads(snap[q], [form |-> f, key |-> PrimaryKey(snap[p])])
    BY DEF PeersCanRead
  <2>1. /\ snap[p].primary \in Loaded(snap[q])
        /\ snap[q].key[snap[p].primary] = PrimaryKey(snap[p])
    BY PrimaryIsKnown
  <2> QED BY <1>0, <2>1, KnownIsRead
<1>2. ReadableUntilRevoked
  <2> SUFFICES ASSUME NEW m \in wire, NEW q \in alive, m.key \in Keys(set)
               PROVE  Reads(snap[q], m)
    BY DEF ReadableUntilRevoked
  <2>1. PICK v \in Loaded(snap[q]) : m.key = snap[q].key[v]
    BY DEF Inv, WireInv, Keys
  <2> QED BY <1>0, <2>1, KnownIsRead
<1> QED BY <1>1, <1>2
-------------------------------------------------------------------------------
(***************************************************************************)
(* What objects hold, make and remember is of the declared kinds           *)
(* (Keyczar.__init__, Encrypter.Encrypt, Signer.Sign).                     *)
(***************************************************************************)
THEOREM TypesHold == Spec => []TypeOK
<1>1. Inv => TypeOK
  BY DEF Inv
<1> QED BY <1>1, InvInit, InvNext, PTL DEF Spec

(***************************************************************************)
(* Every object can read what any other would make now, for any number of  *)
(* keys, colliding identifiers, versions and parties (Encrypter.Encrypt,   *)
(* Crypter.Decrypt, Signer.Sign, Verifier.Verify).                         *)
(***************************************************************************)
THEOREM PeersCanReadHolds == Spec => []PeersCanRead
  BY InvInit, InvNext, InvSuffices, PTL DEF Spec

(***************************************************************************)
(* Every message stays readable to every living object until its key is    *)
(* revoked (Crypter.Decrypt, Verifier.Verify, UnversionedVerifier.Verify). *)
(***************************************************************************)
THEOREM ReadableUntilRevokedHolds == Spec => []ReadableUntilRevoked
  BY InvInit, InvNext, InvSuffices, PTL DEF Spec
===============================================================================
