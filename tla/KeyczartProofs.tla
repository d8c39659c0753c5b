---------------------------- MODULE KeyczartProofs ----------------------------
(***************************************************************************)
(* For any number of tool processes, any number of crashes and either      *)
(* order of the files, a readable meta file never names two primaries.     *)
(* The argument is local to a process: whatever another one does to the    *)
(* directory, the key set a process holds is sound when it starts to write.*)
(***************************************************************************)
EXTENDS Keyczart, KeysetProofs

\* A process that has read the metadata has the keys of some versions.
LoadingWell(pr) ==
  /\ pr.todo \subseteq pr.czar.listed
  /\ Loaded(pr.czar) = pr.czar.listed \ pr.todo
  /\ \A v \in pr.czar.listed : pr.czar.status[v] \in Status
  /\ \A v \in pr.czar.listed : pr.czar.status[v] = "PRIMARY" <=> pr.czar.primary = v
  /\ Anchored(pr.czar)

\* A process that writes holds a sound key set and names its versions only.
WritingWell(pr) ==
  /\ Sound(pr.czar) /\ Anchored(pr.czar)
  /\ pr.todo \subseteq {Meta} \cup Loaded(pr.czar)
  /\ pr.open \in Loaded(pr.czar) \cup {Meta, NoneOpen, Unlinked}
  /\ pr.remove \in Loaded(pr.czar) \cup {NoVersion}

RunsWell(pr) ==
  /\ pr.pc = "idle" => pr.crypter = FALSE
  /\ pr.pc = "load" => LoadingWell(pr)
  /\ pr.pc \in {"write", "remove"} => WritingWell(pr)
  /\ pr.open # NoneOpen => pr.pc = "write"
  /\ pr.pc = "remove" => pr.remove \in Version

IInv ==
  /\ TypeOK
  /\ SinglePrimary
  /\ \A p \in Proc : RunsWell(proc[p])
-------------------------------------------------------------------------------
LEMMA NumbersApart ==
  /\ Version \subseteq File /\ Meta \in File
  /\ Meta \notin Version /\ NoVersion \notin Version
  /\ NoneOpen \notin File /\ Unlinked \notin File /\ NoneOpen # Unlinked
BY KeysetAssumption DEF KeysetAssumption, Version, File, Meta, NoVersion, NoneOpen, Unlinked

LEMMA IdleRunsWell == Idle \in ProcState /\ RunsWell(Idle)
<1>1. EmptyCzar \in Czar
  BY EmptyIsSound
<1>2. EmptyCzar.key \in [Version -> Key \cup {NoKey}]
  BY <1>1 DEF Czar
<1>3. Idle \in ProcState
  BY <1>1, <1>2 DEF Idle, ProcState
<1>4. RunsWell(Idle)
  BY DEF Idle, RunsWell
<1> QED
  BY <1>3, <1>4

(***************************************************************************)
(* StartWrite: the change a command makes in memory is sound, so what the  *)
(* process writes from then on is.                                         *)
(***************************************************************************)
LEMMA StartWriteRunsWell ==
  ASSUME NEW cz \in Czar, Sound(cz), Anchored(cz),
         NEW crypter \in BOOLEAN, NEW removed \in Loaded(cz) \cup {NoVersion}
  PROVE  LET w == Writing(cz, crypter, removed) IN w \in ProcState /\ RunsWell(w)
<1> DEFINE w == Writing(cz, crypter, removed)
<1>1. EmptyCzar.key \in [Version -> Key \cup {NoKey}]
  BY EmptyIsSound DEF Czar
<1>2. Loaded(cz) \subseteq Version
  BY DEF Loaded
<1>3. {Meta} \cup Loaded(cz) \in SUBSET File
  BY <1>2, NumbersApart
<1>4. removed \in Version \cup {NoVersion}
  BY <1>2
<1>5. w \in ProcState
  BY <1>1, <1>3, <1>4 DEF Writing, ProcState
<1>6. WritingWell(w)
  BY DEF Writing, WritingWell
<1>7. RunsWell(w)
  BY <1>6 DEF Writing, RunsWell
<1> QED
  BY <1>5, <1>7

(***************************************************************************)
(* AfterFile: closing a file leaves the key set as it is.                  *)
(***************************************************************************)
LEMMA AfterFileRunsWell ==
  ASSUME NEW pr \in ProcState, RunsWell(pr), pr.pc = "write"
  PROVE  AfterFile(pr) \in ProcState /\ RunsWell(AfterFile(pr))
<1>1. WritingWell(pr)
  BY DEF RunsWell
<1>2. CASE pr.todo # {}
  <2> DEFINE n == [pr EXCEPT !.open = NoneOpen]
  <2>1. /\ n \in ProcState
        /\ n.pc = "write" /\ n.czar = pr.czar /\ n.todo = pr.todo
        /\ n.open = NoneOpen /\ n.remove = pr.remove
    BY DEF ProcState
  <2>2. AfterFile(pr) = n
    BY <1>2 DEF AfterFile
  <2> HIDE DEF n
  <2>3. WritingWell(n)
    BY <1>1, <2>1 DEF WritingWell
  <2>4. RunsWell(n)
    BY <2>1, <2>3 DEF RunsWell
  <2> QED
    BY <2>1, <2>2, <2>4
<1>3. CASE pr.todo = {} /\ pr.remove # NoVersion
  <2> DEFINE n == [pr EXCEPT !.open = NoneOpen, !.pc = "remove"]
  <2>1. /\ n \in ProcState
        /\ n.pc = "remove" /\ n.czar = pr.czar /\ n.todo = pr.todo
        /\ n.open = NoneOpen /\ n.remove = pr.remove
    BY DEF ProcState
  <2>2. AfterFile(pr) = n
    BY <1>3 DEF AfterFile
  <2>3. pr.remove \in Version
    BY <1>3 DEF ProcState
  <2> HIDE DEF n
  <2>4. WritingWell(n)
    BY <1>1, <2>1 DEF WritingWell
  <2>5. RunsWell(n)
    BY <2>1, <2>3, <2>4 DEF RunsWell
  <2> QED
    BY <2>1, <2>2, <2>5
<1>4. CASE pr.todo = {} /\ pr.remove = NoVersion
  BY <1>4, IdleRunsWell DEF AfterFile
<1> QED
  BY <1>2, <1>3, <1>4

(***************************************************************************)
(* Keyczar.__init__ starts from the metadata with no key bound yet.        *)
(***************************************************************************)
LEMMA LoadingRunsWell ==
  ASSUME NEW m \in MetaContent, HasOnePrimary(ListedIn(m), m.status),
         NEW crypter \in BOOLEAN
  PROVE  Loading(m, crypter) \in ProcState /\ RunsWell(Loading(m, crypter))
<1> DEFINE l == Loading(m, crypter)
           listed == ListedIn(m)
           cz == Rebuilt(listed, m.status, EmptyCzar.key)
<1>1. /\ m.status \in [Version -> Status \cup {Absent}]
      /\ m.holds \in [Version -> Key \cup {NoKey}]
  BY DEF MetaContent
<1>2. /\ EmptyCzar.key \in [Version -> Key \cup {NoKey}]
      /\ \A v \in Version : EmptyCzar.key[v] = NoKey
  BY DEF EmptyCzar
<1>3. listed \subseteq Version /\ \A v \in listed : m.status[v] \in Status
  BY <1>1 DEF ListedIn
<1> HIDE DEF listed
<1>4. /\ cz \in Czar /\ cz.listed = listed
      /\ \A v \in Version : cz.status[v] = IF v \in listed THEN m.status[v] ELSE Absent
      /\ \A v \in Version : cz.key[v] = IF v \in listed THEN EmptyCzar.key[v] ELSE NoKey
      /\ \A v \in listed : cz.status[v] = "PRIMARY" <=> cz.primary = v
      /\ Anchored(cz)
  <2>1. HasOnePrimary(listed, m.status)
    BY DEF listed
  <2> QED
    BY <1>1, <1>2, <1>3, <2>1, RebuiltFacts
<1> HIDE DEF cz
<1>5. Loaded(cz) = {}
  BY <1>2, <1>4 DEF Loaded
<1>6. /\ l.pc = "load" /\ l.czar = cz /\ l.todo = listed /\ l.open = NoneOpen
      /\ l = [pc |-> "load", czar |-> cz, crypter |-> crypter, todo |-> listed,
              open |-> NoneOpen, remove |-> NoVersion, expects |-> m.holds]
  BY DEF Loading, listed, cz
<1> HIDE DEF l
<1>7. l \in ProcState
  <2>1. listed \in SUBSET File
    BY <1>3, NumbersApart
  <2> QED
    BY <1>1, <1>4, <1>6, <2>1 DEF ProcState
<1>8. LoadingWell(l)
  BY <1>3, <1>4, <1>5, <1>6 DEF LoadingWell
<1>9. RunsWell(l)
  BY <1>6, <1>8 DEF RunsWell
<1> QED
  BY <1>7, <1>9 DEF l

(***************************************************************************)
(* ReadKey: one more version is bound to a key.                            *)
(***************************************************************************)
LEMMA BoundRunsWell ==
  ASSUME NEW pr \in ProcState, RunsWell(pr), pr.pc = "load",
         NEW v \in Version, v \in pr.todo, NEW k \in Key
  PROVE  Bound(pr, v, k) \in ProcState /\ RunsWell(Bound(pr, v, k))
<1> DEFINE b == [pr.czar EXCEPT !.key[v] = k]
           n == Bound(pr, v, k)
<1>1. LoadingWell(pr) /\ pr.open = NoneOpen /\ pr.czar \in Czar
  BY DEF RunsWell, ProcState
<1>2. /\ b \in Czar
      /\ b.listed = pr.czar.listed /\ b.status = pr.czar.status
      /\ b.primary = pr.czar.primary
      /\ \A w \in Version : b.key[w] = IF w = v THEN k ELSE pr.czar.key[w]
  BY <1>1 DEF Czar
<1>3. Loaded(b) = Loaded(pr.czar) \cup {v}
  BY <1>2, KeysetAssumption DEF Loaded, KeysetAssumption
<1>4. /\ n \in ProcState
      /\ n.pc = "load" /\ n.open = NoneOpen
      /\ n.czar = b /\ n.todo = pr.todo \ {v}
  <2> HIDE DEF b
  <2>1. n = [[pr EXCEPT !.todo = pr.todo \ {v}] EXCEPT !.czar = b]
    BY DEF Bound, b, ProcState
  <2> DEFINE t == [pr EXCEPT !.todo = pr.todo \ {v}]
  <2>2. /\ t \in ProcState
        /\ t.pc = "load" /\ t.open = NoneOpen /\ t.todo = pr.todo \ {v}
    BY <1>1 DEF ProcState
  <2> HIDE DEF t
  <2>3. n = [t EXCEPT !.czar = b]
    BY <2>1 DEF t
  <2> HIDE DEF n
  <2> QED
    BY <1>2, <2>2, <2>3 DEF ProcState
<1> HIDE DEF b, n
<1>5. LoadingWell(n)
  <2>1. Loaded(n.czar) = n.czar.listed \ n.todo
    BY <1>1, <1>2, <1>3, <1>4 DEF LoadingWell
  <2>2. Anchored(n.czar)
    BY <1>1, <1>2, <1>4 DEF LoadingWell, Anchored
  <2> QED
    BY <1>1, <1>2, <1>4, <2>1, <2>2 DEF LoadingWell
<1>6. RunsWell(n)
  BY <1>4, <1>5 DEF RunsWell
<1> QED
  BY <1>4, <1>6 DEF n

(***************************************************************************)
(* A load that is complete has given the process a sound key set.          *)
(***************************************************************************)
LEMMA CompleteLoadIsSound ==
  ASSUME NEW pr \in ProcState, RunsWell(pr), pr.pc = "load", pr.todo = {}
  PROVE  pr.czar \in Czar /\ Sound(pr.czar) /\ Anchored(pr.czar)
<1>1. LoadingWell(pr) /\ pr.czar \in Czar
  BY DEF RunsWell, ProcState
<1>2. pr.czar.listed = Loaded(pr.czar)
  BY <1>1 DEF LoadingWell
<1> QED
  BY <1>1, <1>2, LoadedIsSound DEF LoadingWell

(***************************************************************************)
(* OpenFile: the file is the next one of those still to write.             *)
(***************************************************************************)
LEMMA OpenRunsWell ==
  ASSUME NEW pr \in ProcState, RunsWell(pr), pr.pc = "write",
         NEW f \in File, f \in pr.todo
  PROVE  Opened(pr, f) \in ProcState /\ RunsWell(Opened(pr, f))
<1> DEFINE n == Opened(pr, f)
<1>1. WritingWell(pr)
  BY DEF RunsWell
<1>2. /\ n \in ProcState
      /\ n.pc = "write" /\ n.czar = pr.czar /\ n.remove = pr.remove
      /\ n.open = f /\ n.todo = pr.todo \ {f}
  BY DEF Opened, ProcState
<1> HIDE DEF n
<1>3. WritingWell(n)
  BY <1>1, <1>2 DEF WritingWell
<1>4. RunsWell(n)
  BY <1>2, <1>3 DEF RunsWell
<1> QED
  BY <1>2, <1>4 DEF n

(***************************************************************************)
(* RemoveFile of one process turns another's open file into an unlinked    *)
(* one.                                                                    *)
(***************************************************************************)
LEMMA UnlinkedRunsWell ==
  ASSUME NEW pr \in ProcState, RunsWell(pr), pr.open \in File
  PROVE  LET n == [pr EXCEPT !.open = Unlinked] IN n \in ProcState /\ RunsWell(n)
<1> DEFINE n == [pr EXCEPT !.open = Unlinked]
<1>1. pr.pc = "write" /\ WritingWell(pr)
  BY NumbersApart DEF RunsWell
<1>2. /\ n \in ProcState
      /\ n.pc = "write" /\ n.czar = pr.czar /\ n.remove = pr.remove
      /\ n.open = Unlinked /\ n.todo = pr.todo
  BY <1>1 DEF ProcState
<1> HIDE DEF n
<1>3. WritingWell(n)
  BY <1>1, <1>2 DEF WritingWell
<1>4. RunsWell(n)
  BY <1>2, <1>3 DEF RunsWell
<1> QED
  BY <1>2, <1>4 DEF n

(***************************************************************************)
(* MetaOf: what a sound key set is written as names one primary at most.   *)
(***************************************************************************)
LEMMA WrittenMetaHasOnePrimary ==
  ASSUME NEW pr \in ProcState, WritingWell(pr)
  PROVE  /\ MetaOf(pr) \in MetaContent
         /\ HasOnePrimary(ListedIn(MetaOf(pr)), MetaOf(pr).status)
<1> DEFINE m == MetaOf(pr)
<1>1. pr.czar \in Czar /\ pr.crypter \in BOOLEAN
  BY DEF ProcState
<1>2. pr.czar.status \in [Version -> Status \cup {Absent}]
      /\ pr.czar.key \in [Version -> Key \cup {NoKey}]
  BY <1>1 DEF Czar
<1>3. m \in MetaContent
  BY <1>1, <1>2 DEF MetaOf, MetaContent
<1>4. \A v \in Version :
        m.status[v] = IF v \in pr.czar.listed THEN pr.czar.status[v] ELSE Absent
  BY DEF MetaOf
<1> HIDE DEF m
<1>5. \A v \in ListedIn(m) : v \in Loaded(pr.czar) /\ m.status[v] = pr.czar.status[v]
  BY <1>4 DEF ListedIn, WritingWell, Sound
<1>6. HasOnePrimary(ListedIn(m), m.status)
  BY <1>5 DEF HasOnePrimary, WritingWell, Sound
<1> QED
  BY <1>3, <1>6 DEF m

\* A step that changes one process only leaves the others running well.
LEMMA OneProcessMoves ==
  ASSUME NEW f \in [Proc -> ProcState], \A q \in Proc : RunsWell(f[q]),
         NEW p \in Proc, NEW x \in ProcState, RunsWell(x)
  PROVE  /\ [f EXCEPT ![p] = x] \in [Proc -> ProcState]
         /\ \A q \in Proc : RunsWell([f EXCEPT ![p] = x][q])
OBVIOUS

LEMMA InitRunsWell == ASSUME Init PROVE IInv
<1>1. proc \in [Proc -> ProcState] /\ \A p \in Proc : RunsWell(proc[p])
  BY IdleRunsWell DEF Init
<1>2. keyfile \in [Version -> KeyContent \cup {NoFile, Torn}]
  BY DEF Init
<1>3. crashes \in 0 .. MaxCrashes
  BY KeyczartAssumption DEF Init, KeyczartAssumption
<1>4. meta = NoFile /\ used = {} /\ dead = {}
  BY DEF Init
<1>5. TypeOK
  BY <1>1, <1>2, <1>3, <1>4 DEF TypeOK
<1>6. SinglePrimary
  BY <1>4 DEF SinglePrimary, IsReadable
<1> QED
  BY <1>1, <1>5, <1>6 DEF IInv

(***************************************************************************)
(* The steps that leave the directory alone: reading, and the commands'    *)
(* changes in memory.                                                      *)
(***************************************************************************)
LEMMA QuietStep ==
  ASSUME IInv, NEW p \in Proc, NEW x \in ProcState, RunsWell(x),
         proc' = [proc EXCEPT ![p] = x],
         UNCHANGED <<meta, keyfile, dead>>, used' \subseteq Key, crashes' \in 0 .. MaxCrashes
  PROVE  IInv'
<1>1. proc' \in [Proc -> ProcState] /\ \A q \in Proc : RunsWell(proc'[q])
  BY OneProcessMoves DEF IInv, TypeOK
<1>2. TypeOK'
  BY <1>1 DEF IInv, TypeOK
<1>3. SinglePrimary'
  BY DEF IInv, SinglePrimary
<1> QED
  BY <1>1, <1>2, <1>3 DEF IInv

LEMMA LoadStep ==
  ASSUME IInv, NEW p \in Proc,
         \/ \E crypter \in CrypterFlags : ReadMeta(p, crypter)
         \/ Load(p)
  PROVE  IInv'
<1> USE DEF IInv, TypeOK
<1>1. ASSUME NEW crypter \in CrypterFlags, ReadMeta(p, crypter) PROVE IInv'
  <2>1. crypter \in BOOLEAN
    BY KeyczartAssumption DEF KeyczartAssumption
  <2>2. meta \in MetaContent /\ HasOnePrimary(ListedIn(meta), meta.status)
    BY <1>1 DEF ReadMeta, IsReadable
  <2>3. Loading(meta, crypter) \in ProcState /\ RunsWell(Loading(meta, crypter))
    BY <2>1, <2>2, LoadingRunsWell
  <2> QED
    BY <1>1, <2>3, QuietStep DEF ReadMeta
<1>2. ASSUME NEW v \in Version, ReadKey(p, v) PROVE IInv'
  <2>1. CASE Opens(keyfile[v], proc[p].crypter)
    <3>1. keyfile[v].key \in Key
      BY <2>1 DEF Opens, IsReadable, KeyContent
    <3>2. LET n == Bound(proc[p], v, keyfile[v].key) IN n \in ProcState /\ RunsWell(n)
      BY <1>2, <3>1, BoundRunsWell DEF ReadKey
    <3> QED
      BY <1>2, <2>1, <3>2, QuietStep DEF ReadKey
  <2>2. CASE ~Opens(keyfile[v], proc[p].crypter)
    BY <1>2, <2>2, IdleRunsWell, QuietStep DEF ReadKey, Exit
  <2> QED
    BY <2>1, <2>2
<1> QED
  BY <1>1, <1>2 DEF Load

(***************************************************************************)
(* The commands change a key set that was loaded completely.               *)
(***************************************************************************)
LEMMA CommandStep ==
  ASSUME IInv, NEW p \in Proc, Create(p) \/ Command(p)
  PROVE  IInv'
<1> USE DEF IInv, TypeOK
<1> DEFINE cz == proc[p].czar
<1>1. proc[p] \in ProcState /\ RunsWell(proc[p]) /\ proc[p].crypter \in BOOLEAN
  BY DEF ProcState
<1>2. IsLoaded(p) => cz \in Czar /\ Sound(cz) /\ Anchored(cz)
  BY <1>1, CompleteLoadIsSound DEF IsLoaded
<1> HIDE DEF cz
<1>3. ASSUME NEW q \in Czar, Sound(q), Anchored(q),
             NEW removed \in Loaded(q) \cup {NoVersion},
             StartWrite(p, q, removed), UNCHANGED <<meta, keyfile, dead, crashes>>,
             used' \subseteq Key
      PROVE  IInv'
  <2>1. LET w == Writing(q, proc[p].crypter, removed) IN w \in ProcState /\ RunsWell(w)
    BY <1>1, <1>3, StartWriteRunsWell
  <2> QED
    BY <1>3, <2>1, QuietStep DEF StartWrite
<1>4. ASSUME Exit(p), UNCHANGED <<meta, keyfile, used, dead, crashes>> PROVE IInv'
  BY <1>4, IdleRunsWell, QuietStep DEF Exit
<1>5. ASSUME Create(p) PROVE IInv'
  BY <1>3, <1>5, EmptyIsSound DEF Create
<1>6. ASSUME AddKey(p) PROVE IInv'
  <2>1. PICK n \in Version, s \in Status, k \in Key \ used :
          /\ IsNextVersion(cz, n)
          /\ IsFreshKey(cz, k)
          /\ StartWrite(p, Added(cz, n, s, k), NoVersion)
          /\ used' = used \cup {k}
    BY <1>6 DEF AddKey, cz
  <2>2. LET a == Added(cz, n, s, k) IN a \in Czar /\ Sound(a) /\ Anchored(a)
    BY <1>2, <1>6, <2>1, AddedIsSound DEF AddKey
  <2>3. used' \subseteq Key
    BY <2>1
  <2> QED
    BY <1>3, <1>6, <2>1, <2>2, <2>3 DEF AddKey
<1>7. ASSUME NEW v \in Version, Promote(p, v) PROVE IInv'
  <2>1. CASE CanPromote(cz, v)
    <3>1. LET q == Promoted(cz, v) IN q \in Czar /\ Sound(q) /\ Anchored(q)
      BY <1>2, <1>7, <2>1, PromotedIsSound DEF Promote
    <3> QED
      BY <1>3, <1>7, <2>1, <3>1 DEF Promote, cz
  <2> QED
    BY <1>4, <1>7, <2>1 DEF Promote, cz
<1>8. ASSUME NEW v \in Version, Demote(p, v) PROVE IInv'
  <2>1. CASE CanDemote(cz, v)
    <3>1. LET q == Demoted(cz, v) IN q \in Czar /\ Sound(q) /\ Anchored(q)
      BY <1>2, <1>8, <2>1, DemotedIsSound DEF Demote
    <3> QED
      BY <1>3, <1>8, <2>1, <3>1 DEF Demote, cz
  <2> QED
    BY <1>4, <1>8, <2>1 DEF Demote, cz
<1>9. ASSUME NEW v \in Version, Revoke(p, v) PROVE IInv'
  <2>1. CASE CanRevoke(cz, v)
    <3>1. LET q == Revoked(cz, v) IN
          q \in Czar /\ Sound(q) /\ Anchored(q) /\ q.key = cz.key
      BY <1>2, <1>9, <2>1, RevokedIsSound DEF Revoke
    <3>2. v \in Loaded(Revoked(cz, v))
      <4>1. v \in Loaded(cz)
        BY <1>2, <1>9, <2>1 DEF Revoke, CanRevoke, Sound
      <4> QED
        BY <3>1, <4>1 DEF Loaded
    <3> QED
      BY <1>3, <1>9, <2>1, <3>1, <3>2 DEF Revoke, cz
  <2> QED
    BY <1>4, <1>9, <2>1 DEF Revoke, cz
<1>10. ASSUME Use(p) PROVE IInv'
  BY <1>4, <1>10 DEF Use
<1> QED
  BY <1>5, <1>6, <1>7, <1>8, <1>9, <1>10 DEF Command

(***************************************************************************)
(* The steps that write.  Only FillMeta gives the meta file a content.     *)
(***************************************************************************)
LEMMA WriteStep ==
  ASSUME IInv, NEW p \in Proc, Write(p)
  PROVE  IInv'
<1> USE DEF IInv, TypeOK
<1>1. proc[p] \in ProcState /\ RunsWell(proc[p])
  OBVIOUS
<1>2. proc[p].open # NoneOpen => proc[p].pc = "write" /\ WritingWell(proc[p])
  BY <1>1 DEF RunsWell
<1>3. proc[p].open # NoneOpen =>
        AfterFile(proc[p]) \in ProcState /\ RunsWell(AfterFile(proc[p]))
  BY <1>1, <1>2, AfterFileRunsWell
<1>4. ASSUME NEW f \in File, OpenFile(p, f) PROVE IInv'
  <2>1. Opened(proc[p], f) \in ProcState /\ RunsWell(Opened(proc[p], f))
    BY <1>1, <1>4, OpenRunsWell DEF OpenFile, IsNextFile
  <2>2. proc' \in [Proc -> ProcState] /\ \A q \in Proc : RunsWell(proc'[q])
    BY <1>4, <2>1, OneProcessMoves DEF OpenFile
  <2>3. /\ meta' = meta \/ meta' = Torn
        /\ keyfile' \in [Version -> KeyContent \cup {NoFile, Torn}]
    BY <1>4 DEF OpenFile
  <2>4. SinglePrimary'
    BY <2>3 DEF SinglePrimary, IsReadable
  <2>5. UNCHANGED <<used, dead, crashes>>
    BY <1>4 DEF OpenFile
  <2>6. TypeOK'
    BY <2>2, <2>3, <2>5
  <2> QED
    BY <2>2, <2>4, <2>6
<1>5. ASSUME FillMeta(p) PROVE IInv'
  <2>1. proc[p].open # NoneOpen
    BY <1>5, NumbersApart DEF FillMeta
  <2>2. proc' \in [Proc -> ProcState] /\ \A q \in Proc : RunsWell(proc'[q])
    BY <1>3, <1>5, <2>1, OneProcessMoves DEF FillMeta
  <2>3. /\ MetaOf(proc[p]) \in MetaContent
        /\ HasOnePrimary(ListedIn(MetaOf(proc[p])), MetaOf(proc[p]).status)
    BY <1>1, <1>2, <2>1, WrittenMetaHasOnePrimary
  <2>4. meta' = MetaOf(proc[p]) \/ meta' = Torn
    BY <1>5 DEF FillMeta, Outcomes
  <2>5. SinglePrimary'
    BY <2>3, <2>4 DEF SinglePrimary, IsReadable
  <2>6. dead' \subseteq Key
    <3>1. proc[p].czar.key \in [Version -> Key \cup {NoKey}]
      BY <1>1 DEF ProcState, Czar
    <3>2. proc[p].remove # NoVersion => proc[p].czar.key[proc[p].remove] \in Key
      BY <1>2, <2>1, <3>1 DEF WritingWell, Loaded
    <3> QED
      BY <1>5, <3>2 DEF FillMeta, Died
  <2>7. UNCHANGED <<keyfile, used, crashes>>
    BY <1>5 DEF FillMeta
  <2>8. TypeOK'
    BY <2>2, <2>3, <2>4, <2>6, <2>7
  <2> QED
    BY <2>2, <2>5, <2>8
<1>6. ASSUME FillKey(p) PROVE IInv'
  <2> DEFINE f == proc[p].open
             c == [key |-> proc[p].czar.key[f], encrypted |-> proc[p].crypter]
  <2>1. f \in Version /\ f # NoneOpen
    BY <1>6, NumbersApart DEF FillKey
  <2>2. proc' \in [Proc -> ProcState] /\ \A q \in Proc : RunsWell(proc'[q])
    BY <1>3, <1>6, <2>1, OneProcessMoves DEF FillKey
  <2>3. c \in KeyContent
    <3>1. /\ proc[p].czar.key \in [Version -> Key \cup {NoKey}]
          /\ proc[p].crypter \in BOOLEAN
      BY <1>1 DEF ProcState, Czar
    <3>2. f \in Loaded(proc[p].czar)
      BY <1>2, <2>1, NumbersApart DEF WritingWell
    <3> QED
      BY <3>1, <3>2 DEF Loaded, KeyContent
  <2>4. \E content \in {c, Torn} : keyfile' = [keyfile EXCEPT ![f] = content]
    BY <1>6 DEF FillKey, Outcomes
  <2>5. keyfile' \in [Version -> KeyContent \cup {NoFile, Torn}]
    <3> HIDE DEF c, f
    <3> QED
      BY <2>1, <2>3, <2>4
  <2>6. UNCHANGED <<meta, used, dead, crashes>>
    BY <1>6 DEF FillKey
  <2>7. TypeOK' /\ SinglePrimary'
    BY <2>2, <2>5, <2>6 DEF SinglePrimary
  <2> QED
    BY <2>2, <2>7
<1>7. ASSUME FillUnlinked(p) PROVE IInv'
  <2>1. proc[p].open # NoneOpen
    BY <1>7, NumbersApart DEF FillUnlinked
  <2> QED
    BY <1>3, <1>7, <2>1, QuietStep DEF FillUnlinked
<1>8. ASSUME RemoveFile(p) PROVE IInv'
  <2> DEFINE f == proc[p].remove
  <2>1. f \in Version /\ f \in File
    BY <1>1, <1>8, NumbersApart DEF RemoveFile, RunsWell
  <2>2. ASSUME NEW q \in Proc PROVE proc'[q] \in ProcState /\ RunsWell(proc'[q])
    <3>1. proc[q] \in ProcState /\ RunsWell(proc[q])
      OBVIOUS
    <3>2. proc[q].open = f =>
            LET n == [proc[q] EXCEPT !.open = Unlinked] IN n \in ProcState /\ RunsWell(n)
      BY <2>1, <3>1, UnlinkedRunsWell
    <3> QED
      BY <1>8, <3>1, <3>2, IdleRunsWell DEF RemoveFile
  <2>3. proc' \in [Proc -> ProcState]
    <3>1. proc' = [q \in Proc |-> proc'[q]]
      BY <1>8 DEF RemoveFile
    <3> QED
      BY <2>2, <3>1
  <2>4. keyfile' \in [Version -> KeyContent \cup {NoFile, Torn}]
    BY <1>8, <2>1 DEF RemoveFile
  <2>5. UNCHANGED <<meta, used, dead, crashes>>
    BY <1>8 DEF RemoveFile
  <2>6. TypeOK' /\ SinglePrimary'
    BY <2>3, <2>4, <2>5 DEF SinglePrimary
  <2> QED
    BY <2>2, <2>6
<1> QED
  BY <1>4, <1>5, <1>6, <1>7, <1>8 DEF Write
-------------------------------------------------------------------------------
(***************************************************************************)
(* IInv is an invariant: each process's own key set stays sound, whatever  *)
(* the others write into the directory or wherever one dies.               *)
(***************************************************************************)
THEOREM InvariantHolds == Spec => []IInv
<1>1. Init => IInv
  BY InitRunsWell
<1>2. IInv /\ [Next]_vars => IInv'
  <2> SUFFICES ASSUME IInv, [Next]_vars PROVE IInv'
    OBVIOUS
  <2>1. CASE UNCHANGED vars
    BY <2>1 DEF vars, IInv, TypeOK, SinglePrimary
  <2>2. CASE Next
    <3>1. PICK p \in Proc : \/ Create(p) \/ Command(p)
                            \/ \E crypter \in CrypterFlags : ReadMeta(p, crypter)
                            \/ Load(p) \/ Write(p) \/ Crash(p)
      BY <2>2 DEF Next
    <3>2. CASE Crash(p)
      <4>1. crashes' \in 0 .. MaxCrashes
        BY <3>2, KeyczartAssumption DEF Crash, IInv, TypeOK, KeyczartAssumption
      <4> QED
        BY <3>2, <4>1, IdleRunsWell, QuietStep DEF Crash, Exit, IInv, TypeOK
    <3> QED
      BY <3>1, <3>2, LoadStep, CommandStep, WriteStep
  <2> QED
    BY <2>1, <2>2
<1> QED
  BY <1>1, <1>2, PTL DEF Spec

\* The variables keep their types: files hold keys, never a missing one.
THEOREM TypesHold == Spec => []TypeOK
<1>1. IInv => TypeOK
  BY DEF IInv
<1> QED
  BY <1>1, InvariantHolds, PTL

(***************************************************************************)
(* The metadata on disk never makes Keyczar.__init__ raise for a second    *)
(* primary, for any number of unsynchronised keyczart processes.           *)
(***************************************************************************)
THEOREM SinglePrimaryHolds == Spec => []SinglePrimary
<1>1. IInv => SinglePrimary
  BY DEF IInv
<1> QED
  BY <1>1, InvariantHolds, PTL

-------------------------------------------------------------------------------
(***************************************************************************)
(* What the tool guarantees when one administrator changes the key set, if *)
(* either no process dies, in any order of the files, or the key files are *)
(* written before the meta file, as in Java.  Any number of applications   *)
(* loads the key set meanwhile.                                            *)
(*                                                                         *)
(* So far each process was looked at alone.  Here the files, the           *)
(* administrator a and the applications are tied together.  While a        *)
(* writes, each file is as it was, torn, or as a holds it (WritesAlong);   *)
(* what an application expects of a version is what the files and a say of *)
(* it, or it was revoked (LoadsAlong).  SoloInv is inductive beside IInv.  *)
(***************************************************************************)

\* What process pr writes, or has read, under version v.
ContentOf(pr, v) == [key |-> pr.czar.key[v], encrypted |-> pr.crypter]

\* Each listed version has its key, or none, and no two versions share one.
DiskRight ==
  IsReadable(meta) =>
    /\ \A v \in ListedIn(meta) :
         /\ Right(v) \/ ~IsReadable(keyfile[v])
         /\ meta.holds[v] \in used \ dead
    /\ \A v, w \in ListedIn(meta) : meta.holds[v] = meta.holds[w] => v = w

\* The key e that version v had stays with it: on disk and in a's memory.
StandsFor(a, v, e) ==
  /\ IsReadable(keyfile[v]) => keyfile[v].key = e
  /\ IsReadable(meta) => v \in ListedIn(meta) /\ meta.holds[v] = e
  /\ IsWriting(a) => v \in Loaded(proc[a].czar) /\ proc[a].czar.key[v] = e

LoadsAlong(a, pr) ==
  pr.pc = "load" =>
    /\ meta # NoFile
    /\ \A v \in pr.czar.listed :
         /\ v \in pr.todo \/ pr.czar.key[v] = pr.expects[v] \/ pr.expects[v] \in dead
         /\ pr.expects[v] \in dead \/ StandsFor(a, v, pr.expects[v])

\* Nobody but a writes, so that what a has read is what the files hold.
ReadsDisk(pr) ==
  pr.pc = "load" =>
    /\ IsReadable(meta) /\ (meta.encrypted => pr.crypter)
    /\ pr.czar.listed = ListedIn(meta)
    /\ pr.czar.status = Rebuilt(ListedIn(meta), meta.status, EmptyCzar.key).status
    /\ pr.czar.primary = PrimaryOf(ListedIn(meta), meta.status)
    /\ \A v \in ListedIn(meta) \ pr.todo : keyfile[v] = ContentOf(pr, v)

\* A version that was added and whose file has not been written yet.
Pending(v) ==
  IF MetaFirst THEN keyfile[v] = NoFile
  ELSE IsReadable(meta) => v \notin ListedIn(meta)

\* The key files beside a's key set.
KeysAlong(pr) ==
  \A v \in Loaded(pr.czar) :
    IF pr.open = v THEN keyfile[v] = Torn
    ELSE keyfile[v] = ContentOf(pr, v) \/ (v \in pr.todo /\ Pending(v))

\* The meta file beside a's key set: the old one, torn, the new one.
OldMeta(pr) ==
  /\ meta # Torn
  /\ meta = NoFile => Loaded(pr.czar) = {}
  /\ IsReadable(meta) =>
       \A v \in ListedIn(meta) :
         /\ v \in Loaded(pr.czar)
         /\ meta.holds[v] = pr.czar.key[v]
         /\ meta.encrypted = pr.crypter

MetaAlong(pr) ==
  IF Meta \in pr.todo THEN OldMeta(pr)
  ELSE IF pr.open = Meta THEN meta = Torn
  ELSE meta = MetaOf(pr)

\* The files that are left, in the order of Write.
OrderAlong(pr) ==
  /\ pr.open \notin pr.todo
  /\ pr.open # Unlinked
  /\ ~MetaFirst /\ Meta \notin pr.todo => pr.todo = {}
  /\ pr.pc = "remove" => pr.todo = {} /\ pr.open = NoneOpen

\* The keys a holds: all its own, none revoked but the one it is revoking.
HoldsAlong(pr) ==
  /\ \A v \in Loaded(pr.czar) : pr.czar.key[v] \in used
  /\ \A v, w \in Loaded(pr.czar) : pr.czar.key[v] = pr.czar.key[w] => v = w
  /\ \A v \in pr.czar.listed : pr.czar.key[v] \notin dead
  /\ Loaded(pr.czar) \subseteq pr.czar.listed \cup {pr.remove}
  /\ pr.remove \notin pr.czar.listed

WritesAlong(pr) ==
  pr.pc \in {"write", "remove"} =>
    KeysAlong(pr) /\ MetaAlong(pr) /\ OrderAlong(pr) /\ HoldsAlong(pr)

\* Without crashes no file is left behind.
NoLitter(a) ==
  MaxCrashes = 0 =>
    IF IsWriting(a)
      THEN \A v \in Version \ Loaded(proc[a].czar) : keyfile[v] = NoFile
      ELSE \/ meta = NoFile /\ \A v \in Version : keyfile[v] = NoFile
           \/ /\ IsReadable(meta)
              /\ \A v \in Version :
                   IF v \in ListedIn(meta) THEN Right(v) ELSE keyfile[v] = NoFile

SoloInv(a) ==
  /\ \A p \in Proc : p # a => proc[p].pc \in {"idle", "load"}
  /\ dead \subseteq used
  /\ DiskRight
  /\ \A p \in Proc : LoadsAlong(a, proc[p])
  /\ ReadsDisk(proc[a])
  /\ WritesAlong(proc[a])
  /\ NoLitter(a)
  /\ ~MetaFirst => CrashCostsOneFile
-------------------------------------------------------------------------------
(***************************************************************************)
(* What a sound key set is written as.                                     *)
(***************************************************************************)
LEMMA MetaOfFacts ==
  ASSUME NEW pr \in ProcState, WritingWell(pr)
  PROVE  LET m == MetaOf(pr) IN
         /\ m \in MetaContent /\ IsReadable(m)
         /\ ListedIn(m) = pr.czar.listed
         /\ \A v \in pr.czar.listed : m.holds[v] = pr.czar.key[v]
         /\ m.encrypted = pr.crypter
<1> DEFINE m == MetaOf(pr)
<1>1. m \in MetaContent
  BY WrittenMetaHasOnePrimary
<1>2. pr.czar.listed \subseteq Version /\ \A v \in pr.czar.listed : pr.czar.status[v] \in Status
  BY DEF WritingWell, Sound, ProcState, Czar, Loaded
<1>3. /\ \A v \in Version :
           m.status[v] = IF v \in pr.czar.listed THEN pr.czar.status[v] ELSE Absent
      /\ \A v \in Version : m.holds[v] = IF v \in pr.czar.listed THEN pr.czar.key[v] ELSE NoKey
      /\ m.encrypted = pr.crypter
  BY DEF MetaOf
<1> HIDE DEF m
<1>4. IsReadable(m)
  BY <1>1, FileAssumption DEF FileAssumption, IsReadable
<1>5. ListedIn(m) = pr.czar.listed
  BY <1>2, <1>3 DEF ListedIn, Status, Absent
<1> QED
  BY <1>1, <1>2, <1>3, <1>4, <1>5 DEF m

\* Closing a file: the next one, the removal, or the end of the command.
LEMMA AfterFileFacts ==
  ASSUME NEW pr \in ProcState, pr.pc = "write"
  PROVE  LET x == AfterFile(pr) IN
         \/ x = Idle /\ x.pc = "idle" /\ pr.todo = {} /\ pr.remove = NoVersion
         \/ /\ x.pc \in {"write", "remove"} /\ (x.pc = "remove" => pr.todo = {})
            /\ x.czar = pr.czar /\ x.crypter = pr.crypter /\ x.todo = pr.todo
            /\ x.open = NoneOpen /\ x.remove = pr.remove
<1>1. CASE pr.todo # {}
  BY <1>1 DEF AfterFile, ProcState
<1>2. CASE pr.todo = {} /\ pr.remove # NoVersion
  BY <1>2 DEF AfterFile, ProcState
<1>3. CASE pr.todo = {} /\ pr.remove = NoVersion
  BY <1>3 DEF AfterFile, Idle
<1> QED
  BY <1>1, <1>2, <1>3

\* The administrator while it writes.
LEMMA WriterFacts ==
  ASSUME NEW a \in Proc, IInv, SoloInv(a), IsWriting(a)
  PROVE  LET pr == proc[a] IN
         /\ pr \in ProcState /\ WritingWell(pr)
         /\ Loaded(pr.czar) \subseteq Version /\ pr.czar.listed \subseteq Loaded(pr.czar)
         /\ KeysAlong(pr) /\ MetaAlong(pr) /\ OrderAlong(pr) /\ HoldsAlong(pr)
<1>1. proc[a] \in ProcState /\ RunsWell(proc[a]) /\ proc[a].pc \in {"write", "remove"}
  BY DEF IInv, TypeOK, IsWriting
<1>2. WritingWell(proc[a])
  BY <1>1 DEF RunsWell
<1> QED
  BY <1>1, <1>2 DEF SoloInv, WritesAlong, WritingWell, Sound, Loaded

\* What the meta file says of a version is what the administrator says of it.
LEMMA MetaMatchesWriter ==
  ASSUME NEW a \in Proc, IInv, SoloInv(a), IsWriting(a),
         IsReadable(meta), NEW v \in ListedIn(meta)
  PROVE  LET pr == proc[a] IN
         /\ v \in Loaded(pr.czar)
         /\ meta.holds[v] = pr.czar.key[v] /\ meta.encrypted = pr.crypter
<1> DEFINE pr == proc[a]
<1>1. pr \in ProcState /\ WritingWell(pr) /\ pr.czar.listed \subseteq Loaded(pr.czar) /\ MetaAlong(pr)
  BY WriterFacts
<1> HIDE DEF pr
<1>2. CASE Meta \in pr.todo
  BY <1>1, <1>2 DEF MetaAlong, OldMeta, pr
<1>3. CASE Meta \notin pr.todo
  <2>1. meta = MetaOf(pr)
    BY <1>1, <1>3 DEF MetaAlong, IsReadable
  <2> QED
    BY <1>1, <2>1, MetaOfFacts DEF pr
<1> QED
  BY <1>2, <1>3

(***************************************************************************)
(* A step of the administrator that ends in writing, or in rest.           *)
(***************************************************************************)
LEMMA AdminMoves ==
  ASSUME NEW a \in Proc, IInv, SoloInv(a), NEW x, x.pc # "load",
         proc' = [proc EXCEPT ![a] = x],
         dead' \subseteq used', DiskRight',
         \A p \in Proc : p # a => LoadsAlong(a, proc[p])',
         WritesAlong(x)', NoLitter(a)', (~MetaFirst => CrashCostsOneFile)'
  PROVE  SoloInv(a)'
<1>1. proc'[a] = x /\ \A p \in Proc : p # a => proc'[p] = proc[p]
  BY DEF IInv, TypeOK
<1>2. \A p \in Proc : p # a => proc'[p].pc \in {"idle", "load"}
  BY <1>1 DEF SoloInv
<1>3. \A p \in Proc : LoadsAlong(a, proc[p])'
  <2>1. LoadsAlong(a, proc[a])'
    BY <1>1 DEF LoadsAlong
  <2> QED
    BY <2>1
<1>4. ReadsDisk(proc[a])'
  BY <1>1 DEF ReadsDisk
<1>5. WritesAlong(proc[a])'
  BY <1>1 DEF WritesAlong, KeysAlong, MetaAlong, OldMeta, OrderAlong, HoldsAlong, Pending
<1> QED
  BY <1>2, <1>3, <1>4, <1>5 DEF SoloInv

(***************************************************************************)
(* The steps that read, and the ends of processes that only read.          *)
(***************************************************************************)
LEMMA ReaderMoves ==
  ASSUME NEW a \in Proc, IInv, SoloInv(a), NEW p \in Proc, NEW x \in ProcState,
         proc[p].pc \in {"idle", "load"}, x.pc \in {"idle", "load"},
         proc' = [proc EXCEPT ![p] = x], UNCHANGED <<meta, keyfile, used, dead>>,
         LoadsAlong(a, x), p = a => ReadsDisk(x)
  PROVE  SoloInv(a)'
<1>1. proc'[p] = x /\ \A q \in Proc : q # p => proc'[q] = proc[q]
  BY DEF IInv, TypeOK
<1>2. \A q \in Proc : q # a => proc'[q].pc \in {"idle", "load"}
  BY <1>1 DEF SoloInv
<1>3. /\ IsWriting(a)' <=> IsWriting(a)
      /\ IsWriting(a) => proc'[a] = proc[a]
  BY <1>1 DEF IsWriting
<1>4. \A v, e : StandsFor(a, v, e) => StandsFor(a, v, e)'
  BY <1>3 DEF StandsFor
<1>5. \A q \in Proc : LoadsAlong(a, proc[q])'
  <2>1. ASSUME NEW q \in Proc, q # p PROVE LoadsAlong(a, proc[q])'
    BY <1>1, <1>4, <2>1 DEF LoadsAlong, SoloInv
  <2>2. LoadsAlong(a, proc[p])'
    BY <1>1, <1>4 DEF LoadsAlong
  <2> QED
    BY <2>1, <2>2
<1>6. ReadsDisk(proc[a])'
  BY <1>1 DEF ReadsDisk, SoloInv
<1>7. WritesAlong(proc[a])'
  <2>1. CASE IsWriting(a)
    BY <1>3, <2>1 DEF SoloInv, WritesAlong, KeysAlong, MetaAlong, OldMeta, OrderAlong,
         HoldsAlong, Pending
  <2>2. CASE ~IsWriting(a)
    BY <1>3, <2>2 DEF WritesAlong, IsWriting
  <2> QED
    BY <2>1, <2>2
<1>8. DiskRight' /\ (~MetaFirst => CrashCostsOneFile)' /\ dead' \subseteq used'
  BY DEF SoloInv, DiskRight, CrashCostsOneFile, Right
<1>9. NoLitter(a)'
  BY <1>3 DEF SoloInv, NoLitter, Right
<1> QED
  BY <1>2, <1>5, <1>6, <1>7, <1>8, <1>9 DEF SoloInv

\* A process that has ended, or died, has nothing to answer for.
LEMMA IdleAlong ==
  ASSUME NEW a
  PROVE  Idle.pc = "idle" /\ LoadsAlong(a, Idle) /\ ReadsDisk(Idle) /\ WritesAlong(Idle)
BY DEF Idle, LoadsAlong, ReadsDisk, WritesAlong

\* A process that reads ends, or dies.
LEMMA ReaderEnds ==
  ASSUME NEW a \in Proc, IInv, SoloInv(a), NEW p \in Proc, proc[p].pc \in {"idle", "load"},
         Exit(p), UNCHANGED <<meta, keyfile, used, dead>>
  PROVE  SoloInv(a)'
<1>1. Idle \in ProcState /\ Idle.pc \in {"idle", "load"}
  BY IdleRunsWell, IdleAlong
<1>2. proc' = [proc EXCEPT ![p] = Idle]
  BY DEF Exit
<1>3. LoadsAlong(a, Idle) /\ ReadsDisk(Idle)
  BY IdleAlong
<1> QED
  BY <1>1, <1>2, <1>3, ReaderMoves

LEMMA ReadMetaSolo ==
  ASSUME NEW a \in Proc, IInv, SoloInv(a), NEW p \in Proc, NEW crypter \in CrypterFlags,
         ReadMeta(p, crypter)
  PROVE  SoloInv(a)'
<1> DEFINE x == Loading(meta, crypter)
           listed == ListedIn(meta)
<1>1. /\ x.pc = "load" /\ x.todo = listed /\ x.crypter = crypter /\ x.expects = meta.holds
      /\ x.czar.listed = listed
      /\ x.czar.status = Rebuilt(listed, meta.status, EmptyCzar.key).status
      /\ x.czar.primary = PrimaryOf(listed, meta.status)
  BY DEF Loading, Rebuilt
<1>2. /\ proc[p].pc = "idle" /\ IsReadable(meta) /\ (meta.encrypted => crypter)
      /\ proc' = [proc EXCEPT ![p] = x] /\ UNCHANGED <<meta, keyfile, used, dead>>
  BY DEF ReadMeta
<1> HIDE DEF x, listed
<1>3. \A v \in listed : StandsFor(a, v, meta.holds[v])
  <2> SUFFICES ASSUME NEW v \in listed PROVE StandsFor(a, v, meta.holds[v])
    OBVIOUS
  <2>1. IsReadable(keyfile[v]) => keyfile[v].key = meta.holds[v]
    <3>1. Right(v) \/ ~IsReadable(keyfile[v])
      BY <1>2 DEF SoloInv, DiskRight, listed
    <3> QED
      BY <3>1 DEF Right
  <2>2. IsWriting(a) => v \in Loaded(proc[a].czar) /\ proc[a].czar.key[v] = meta.holds[v]
    BY <1>2, MetaMatchesWriter DEF listed
  <2> QED
    BY <2>1, <2>2 DEF StandsFor, listed
<1>4. LoadsAlong(a, x)
  BY <1>1, <1>2, <1>3 DEF LoadsAlong, IsReadable
<1>5. ReadsDisk(x)
  BY <1>1, <1>2 DEF ReadsDisk, listed
<1>6. x \in ProcState
  <2>1. meta \in MetaContent /\ HasOnePrimary(ListedIn(meta), meta.status) /\ crypter \in BOOLEAN
    BY <1>2, KeyczartAssumption DEF KeyczartAssumption, IInv, TypeOK, IsReadable, ReadMeta
  <2> QED
    BY <2>1, LoadingRunsWell DEF x
<1>7. x.pc \in {"idle", "load"} /\ proc[p].pc \in {"idle", "load"}
  BY <1>1, <1>2
<1> QED
  BY <1>2, <1>4, <1>5, <1>6, <1>7, ReaderMoves

\* ReadKey binds one version and leaves the rest of the process alone.
LEMMA BoundFacts ==
  ASSUME NEW pr \in ProcState, NEW v \in Version, NEW k \in Key
  PROVE  LET x == Bound(pr, v, k) IN
         /\ x.pc = pr.pc /\ x.todo = pr.todo \ {v}
         /\ x.crypter = pr.crypter /\ x.expects = pr.expects
         /\ x.czar.listed = pr.czar.listed /\ x.czar.status = pr.czar.status
         /\ x.czar.primary = pr.czar.primary
         /\ \A w \in Version : x.czar.key[w] = IF w = v THEN k ELSE pr.czar.key[w]
<1> DEFINE b == [pr.czar EXCEPT !.key[v] = k]
           x == Bound(pr, v, k)
<1>1. /\ b.listed = pr.czar.listed /\ b.status = pr.czar.status
      /\ b.primary = pr.czar.primary
      /\ \A w \in Version : b.key[w] = IF w = v THEN k ELSE pr.czar.key[w]
  BY DEF ProcState, Czar
<1>2. x = [pr EXCEPT !.todo = @ \ {v}, !.czar = b]
  BY DEF Bound
<1> HIDE DEF b, x
<1>3. /\ x.pc = pr.pc /\ x.todo = pr.todo \ {v} /\ x.czar = b
      /\ x.crypter = pr.crypter /\ x.expects = pr.expects
  BY <1>2 DEF ProcState
<1> QED
  BY <1>1, <1>3 DEF x

LEMMA ReadKeySolo ==
  ASSUME NEW a \in Proc, IInv, SoloInv(a), NEW p \in Proc, NEW v \in Version, ReadKey(p, v)
  PROVE  SoloInv(a)'
<1> DEFINE pr == proc[p]
           x == Bound(pr, v, keyfile[v].key)
<1>1. /\ pr \in ProcState /\ pr.pc = "load" /\ v \in pr.todo
      /\ LoadsAlong(a, pr) /\ (p = a => ReadsDisk(pr))
      /\ UNCHANGED <<meta, keyfile, used, dead>>
  BY DEF ReadKey, IInv, TypeOK, SoloInv
<1>2. pr.czar.listed \subseteq Version
  BY <1>1 DEF ProcState, Czar
<1>3. CASE ~Opens(keyfile[v], pr.crypter)
  <2>1. Exit(p)
    BY <1>3 DEF ReadKey
  <2>2. proc[p].pc \in {"idle", "load"}
    BY <1>1
  <2> QED
    BY <1>1, <2>1, <2>2, ReaderEnds
<1>4. CASE Opens(keyfile[v], pr.crypter)
  <2>1. proc' = [proc EXCEPT ![p] = x]
    BY <1>4 DEF ReadKey, IInv, TypeOK
  <2>2. keyfile[v] \in KeyContent /\ IsReadable(keyfile[v]) /\ keyfile[v].encrypted = pr.crypter
    BY <1>4 DEF Opens, IsReadable, IInv, TypeOK
  <2>3. keyfile[v].key \in Key
    BY <2>2 DEF KeyContent
  <2>4. /\ x.pc = pr.pc /\ x.todo = pr.todo \ {v}
        /\ x.crypter = pr.crypter /\ x.expects = pr.expects
        /\ x.czar.listed = pr.czar.listed /\ x.czar.status = pr.czar.status
        /\ x.czar.primary = pr.czar.primary
        /\ \A w \in Version : x.czar.key[w] = IF w = v THEN keyfile[v].key ELSE pr.czar.key[w]
    BY <1>1, <2>3, BoundFacts
  <2>5. x \in ProcState
    BY <1>1, <2>3, BoundRunsWell DEF IInv
  <2> HIDE DEF x, pr
  <2>6. LoadsAlong(a, x)
    <3>1. v \in pr.czar.listed => pr.expects[v] \in dead \/ keyfile[v].key = pr.expects[v]
      BY <1>1, <2>2 DEF LoadsAlong, StandsFor
    <3> QED
      BY <1>1, <1>2, <2>4, <3>1 DEF LoadsAlong
  <2>7. p = a => ReadsDisk(x)
    <3>1. keyfile[v] = [key |-> keyfile[v].key, encrypted |-> pr.crypter]
      BY <2>2 DEF KeyContent
    <3>2. \A w \in Version : w # v => ContentOf(x, w) = ContentOf(pr, w)
      BY <2>4 DEF ContentOf
    <3>3. keyfile[v] = ContentOf(x, v)
      BY <2>4, <3>1 DEF ContentOf
    <3>4. ListedIn(meta) \subseteq Version
      BY DEF ListedIn
    <3> QED
      BY <1>1, <2>4, <3>2, <3>3, <3>4 DEF ReadsDisk
  <2>8. x.pc \in {"idle", "load"} /\ proc[p].pc \in {"idle", "load"}
    BY <1>1, <2>4 DEF pr
  <2> QED
    BY <1>1, <2>1, <2>6, <2>7, <2>5, <2>8, ReaderMoves
<1> QED
  BY <1>3, <1>4

(***************************************************************************)
(* The administrator dies while it writes, key files first: the file it    *)
(* had open is lost, and nothing else.                                     *)
(***************************************************************************)
LEMMA WriterDies ==
  ASSUME NEW a \in Proc, IInv, SoloInv(a), ~MetaFirst \/ MaxCrashes = 0, IsWriting(a), Crash(a)
  PROVE  SoloInv(a)'
<1>1. ~MetaFirst /\ MaxCrashes # 0
  BY KeyczartAssumption DEF KeyczartAssumption, Crash, IInv, TypeOK
<1>2. proc' = [proc EXCEPT ![a] = Idle] /\ UNCHANGED <<meta, keyfile, used, dead>>
  BY DEF Crash, Exit
<1>3. \A p \in Proc : p # a => proc'[p] = proc[p]
  BY <1>2 DEF IInv, TypeOK
<1>4. proc'[a].pc = "idle"
  BY <1>2, IdleAlong DEF IInv, TypeOK
<1>5. \A v, e : StandsFor(a, v, e) => StandsFor(a, v, e)'
  BY <1>2, <1>4 DEF StandsFor, IsWriting
<1>6. \A p \in Proc : p # a => LoadsAlong(a, proc[p])'
  <2> SUFFICES ASSUME NEW p \in Proc, p # a PROVE LoadsAlong(a, proc[p])'
    OBVIOUS
  <2> QED
    BY <1>2, <1>3, <1>5 DEF LoadsAlong, SoloInv
<1>7. WritesAlong(Idle)' /\ NoLitter(a)'
  BY <1>1, IdleAlong DEF WritesAlong, NoLitter
<1>8. dead' \subseteq used' /\ DiskRight' /\ (~MetaFirst => CrashCostsOneFile)'
  BY <1>2 DEF SoloInv, DiskRight, CrashCostsOneFile, Right
<1> QED
  BY <1>2, <1>6, <1>7, <1>8, IdleAlong, AdminMoves

-------------------------------------------------------------------------------
(***************************************************************************)
(* The commands.  The key set that the administrator has loaded is the one *)
(* on disk.                                                                *)
(***************************************************************************)
LEMMA LoadedFacts ==
  ASSUME NEW a \in Proc, IInv, SoloInv(a), IsLoaded(a)
  PROVE  LET pr == proc[a]
             cz == proc[a].czar
         IN  /\ pr \in ProcState /\ cz \in Czar /\ Sound(cz) /\ Anchored(cz)
             /\ IsReadable(meta)
             /\ cz.listed = ListedIn(meta) /\ Loaded(cz) = ListedIn(meta)
             /\ \A v \in ListedIn(meta) :
                  /\ keyfile[v] = ContentOf(pr, v) /\ Right(v)
                  /\ meta.holds[v] = cz.key[v] /\ meta.encrypted = pr.crypter
             /\ MaxCrashes = 0 =>
                  \A v \in Version : v \notin ListedIn(meta) => keyfile[v] = NoFile
<1> DEFINE pr == proc[a]
           cz == proc[a].czar
<1>1. pr \in ProcState /\ RunsWell(pr) /\ pr.pc = "load" /\ pr.todo = {} /\ ReadsDisk(pr)
  BY DEF IInv, TypeOK, IsLoaded, SoloInv
<1>2. cz \in Czar /\ Sound(cz) /\ Anchored(cz)
  BY <1>1, CompleteLoadIsSound
<1>3. IsReadable(meta) /\ cz.listed = ListedIn(meta) /\ \A v \in ListedIn(meta) : keyfile[v] = ContentOf(pr, v)
  BY <1>1 DEF ReadsDisk
<1>4. Loaded(cz) = cz.listed
  BY <1>1 DEF RunsWell, LoadingWell
<1> HIDE DEF pr
<1>5. \A v \in ListedIn(meta) : IsReadable(keyfile[v])
  <2> SUFFICES ASSUME NEW v \in ListedIn(meta) PROVE keyfile[v] \in KeyContent
    BY FileAssumption DEF FileAssumption, IsReadable
  <2>1. v \in Version /\ cz.key[v] # NoKey /\ cz.key[v] \in Key \cup {NoKey}
    BY <1>2, <1>3, <1>4 DEF Loaded, Czar
  <2>2. pr.crypter \in BOOLEAN
    BY <1>1 DEF ProcState
  <2>3. keyfile[v] = [key |-> cz.key[v], encrypted |-> pr.crypter]
    BY <1>3 DEF ContentOf, pr
  <2> QED
    BY <2>1, <2>2, <2>3 DEF KeyContent
<1>6. \A v \in ListedIn(meta) : Right(v)
  BY <1>3, <1>5 DEF SoloInv, DiskRight
<1>7. \A v \in ListedIn(meta) : meta.holds[v] = cz.key[v] /\ meta.encrypted = pr.crypter
  <2> SUFFICES ASSUME NEW v \in ListedIn(meta)
               PROVE  meta.holds[v] = cz.key[v] /\ meta.encrypted = pr.crypter
    OBVIOUS
  <2>1. keyfile[v] = [key |-> cz.key[v], encrypted |-> pr.crypter]
    BY <1>3 DEF ContentOf, pr
  <2>2. keyfile[v] = [key |-> meta.holds[v], encrypted |-> meta.encrypted]
    BY <1>6 DEF Right
  <2> QED
    BY <2>1, <2>2
<1>8. MaxCrashes = 0 => \A v \in Version : v \notin ListedIn(meta) => keyfile[v] = NoFile
  <2>1. ~IsWriting(a)
    BY <1>1 DEF IsWriting, pr
  <2> QED
    BY <1>3, <2>1 DEF SoloInv, NoLitter, IsReadable
<1> QED
  BY <1>1, <1>2, <1>3, <1>4, <1>6, <1>7, <1>8 DEF pr

\* The state in which a command starts to write.
LEMMA WritingFacts ==
  ASSUME NEW cz, NEW crypter, NEW removed
  PROVE  LET x == Writing(cz, crypter, removed) IN
         /\ x.pc = "write" /\ x.czar = cz /\ x.crypter = crypter
         /\ x.todo = {Meta} \cup Loaded(cz) /\ x.open = NoneOpen /\ x.remove = removed
BY DEF Writing

(***************************************************************************)
(* The start of a command: no file has been touched, and what the process  *)
(* is about to write agrees with the files.                                *)
(***************************************************************************)
LEMMA StartSolo ==
  ASSUME NEW a \in Proc, IInv, SoloInv(a), NEW x,
         NEW cz, NEW crypter, NEW removed, x = Writing(cz, crypter, removed),
         proc' = [proc EXCEPT ![a] = x], UNCHANGED <<meta, keyfile, dead>>, used \subseteq used',
         proc[a].pc \in {"idle", "load"}, Loaded(cz) \subseteq Version,
         \A v \in Loaded(cz) : keyfile[v] = ContentOf(x, v) \/ Pending(v),
         OldMeta(x), HoldsAlong(x)',
         MaxCrashes = 0 => \A v \in Version \ Loaded(cz) : keyfile[v] = NoFile
  PROVE  SoloInv(a)'
<1>1. /\ x.pc = "write" /\ x.czar = cz /\ x.crypter = crypter
      /\ x.todo = {Meta} \cup Loaded(cz) /\ x.open = NoneOpen /\ x.remove = removed
  BY WritingFacts
<1>2. proc'[a] = x /\ \A p \in Proc : p # a => proc'[p] = proc[p]
  BY DEF IInv, TypeOK
<1>3. NoneOpen \notin Version /\ NoneOpen # Meta /\ NoneOpen # Unlinked
  BY NumbersApart
<1>4. KeysAlong(x)'
  <2>1. \A v \in Loaded(cz) : v # NoneOpen /\ v \in x.todo
    BY <1>1, <1>3
  <2>2. \A v : Pending(v) => Pending(v)'
    BY DEF Pending
  <2> QED
    BY <1>1, <2>1, <2>2 DEF KeysAlong
<1>5. MetaAlong(x)'
  BY <1>1 DEF MetaAlong, OldMeta
<1>6. OrderAlong(x)'
  BY <1>1, <1>3 DEF OrderAlong
<1>7. WritesAlong(x)'
  BY <1>4, <1>5, <1>6 DEF WritesAlong
<1>8. NoLitter(a)'
  <2>1. IsWriting(a)'
    BY <1>1, <1>2 DEF IsWriting
  <2> QED
    BY <1>1, <1>2, <2>1 DEF NoLitter
<1>9. dead' \subseteq used' /\ DiskRight' /\ (~MetaFirst => CrashCostsOneFile)'
  BY DEF SoloInv, DiskRight, CrashCostsOneFile, Right
<1>10. \A p \in Proc : p # a => LoadsAlong(a, proc[p])'
  <2> SUFFICES ASSUME NEW p \in Proc, p # a, proc[p].pc = "load" PROVE LoadsAlong(a, proc[p])'
    BY <1>2 DEF LoadsAlong
  <2>1. LoadsAlong(a, proc[p]) /\ meta # NoFile
    BY DEF SoloInv, LoadsAlong
  <2>2. IsReadable(meta)
    BY <2>1 DEF OldMeta, IsReadable
  <2>3. \A v, e : StandsFor(a, v, e) => StandsFor(a, v, e)'
    BY <1>1, <1>2, <2>2 DEF StandsFor, OldMeta
  <2> QED
    BY <1>2, <2>1, <2>3 DEF LoadsAlong
<1> QED
  BY <1>1, <1>7, <1>8, <1>9, <1>10, AdminMoves

LEMMA CreateSolo ==
  ASSUME NEW a \in Proc, IInv, SoloInv(a), Create(a)
  PROVE  SoloInv(a)'
<1> PICK x : x = Writing(EmptyCzar, proc[a].crypter, NoVersion)
  OBVIOUS
<1>1. Loaded(EmptyCzar) = {} /\ EmptyCzar.listed = {}
  BY DEF Loaded, EmptyCzar
<1>2. /\ x.pc = "write" /\ x.czar = EmptyCzar /\ x.crypter = proc[a].crypter
      /\ x.remove = NoVersion
  BY WritingFacts
<1>3. /\ proc[a].pc = "idle" /\ meta = NoFile /\ proc' = [proc EXCEPT ![a] = x]
      /\ UNCHANGED <<meta, keyfile, used, dead>>
  BY DEF Create, StartWrite, IInv, TypeOK
<1>4. OldMeta(x)
  BY <1>1, <1>2, <1>3, KeyczartAssumption DEF KeyczartAssumption, OldMeta, IsReadable
<1>5. HoldsAlong(x)'
  BY <1>1, <1>2 DEF HoldsAlong
<1>6. MaxCrashes = 0 => \A v \in Version : keyfile[v] = NoFile
  BY <1>3 DEF SoloInv, NoLitter, IsWriting, IsReadable
<1>7. proc[a].pc \in {"idle", "load"} /\ used \subseteq used'
  BY <1>3
<1> QED
  BY <1>1, <1>3, <1>4, <1>5, <1>6, <1>7, StartSolo

\* promote, demote and revoke: the keys stay, one version may be dropped.
LEMMA ChangeSolo ==
  ASSUME NEW a \in Proc, IInv, SoloInv(a), IsLoaded(a), NEW q \in Czar, NEW removed,
         q.key = proc[a].czar.key, q.listed \subseteq proc[a].czar.listed,
         proc[a].czar.listed \subseteq q.listed \cup {removed}, removed \notin q.listed,
         StartWrite(a, q, removed), UNCHANGED <<meta, keyfile, used, dead>>
  PROVE  SoloInv(a)'
<1> PICK pr : pr = proc[a]
  OBVIOUS
<1> PICK x : x = Writing(q, pr.crypter, removed)
  OBVIOUS
<1>1. /\ IsReadable(meta)
      /\ pr.czar.listed = ListedIn(meta) /\ Loaded(pr.czar) = ListedIn(meta)
      /\ \A v \in ListedIn(meta) :
           /\ keyfile[v] = ContentOf(pr, v)
           /\ meta.holds[v] = pr.czar.key[v] /\ meta.encrypted = pr.crypter
      /\ MaxCrashes = 0 => \A v \in Version : v \notin ListedIn(meta) => keyfile[v] = NoFile
  BY LoadedFacts
<1>2. x.pc = "write" /\ x.czar = q /\ x.crypter = pr.crypter /\ x.remove = removed
  BY WritingFacts
<1>3. proc' = [proc EXCEPT ![a] = x] /\ pr.pc \in {"idle", "load"}
  BY DEF StartWrite, IInv, TypeOK, IsLoaded
<1>4. Loaded(q) = ListedIn(meta) /\ Loaded(q) \subseteq Version
  BY <1>1 DEF Loaded
<1>5. \A v \in Loaded(q) : keyfile[v] = ContentOf(x, v)
  BY <1>1, <1>2, <1>4 DEF ContentOf
<1>6. OldMeta(x)
  BY <1>1, <1>2, <1>4 DEF OldMeta, IsReadable
<1>7. HoldsAlong(x)'
  <2>1. \A v \in ListedIn(meta) : pr.czar.key[v] \in used' /\ pr.czar.key[v] \notin dead'
    BY <1>1 DEF SoloInv, DiskRight
  <2>2. \A v, w \in ListedIn(meta) : pr.czar.key[v] = pr.czar.key[w] => v = w
    BY <1>1 DEF SoloInv, DiskRight
  <2> QED
    BY <1>1, <1>2, <1>4, <2>1, <2>2 DEF HoldsAlong
<1>8. used \subseteq used'
  OBVIOUS
<1>9. MaxCrashes = 0 => \A v \in Version \ Loaded(q) : keyfile[v] = NoFile
  BY <1>1, <1>4
<1> QED
  BY <1>3, <1>4, <1>5, <1>6, <1>7, <1>8, <1>9, StartSolo

\* addkey: a key that nobody has used, under a number that is not listed.
LEMMA AddKeySolo ==
  ASSUME NEW a \in Proc, IInv, SoloInv(a), ~MetaFirst \/ MaxCrashes = 0, AddKey(a)
  PROVE  SoloInv(a)'
<1> PICK pr : pr = proc[a]
  OBVIOUS
<1> PICK cz : cz = pr.czar
  OBVIOUS
<1>1. PICK n \in Version, s \in Status, k \in Key \ used :
        /\ IsNextVersion(cz, n)
        /\ IsFreshKey(cz, k)
        /\ StartWrite(a, Added(cz, n, s, k), NoVersion)
        /\ used' = used \cup {k}
  BY DEF AddKey
<1> PICK q : q = Added(cz, n, s, k)
  OBVIOUS
<1> PICK x : x = Writing(q, pr.crypter, NoVersion)
  OBVIOUS
<1>2. IsLoaded(a) /\ UNCHANGED <<meta, keyfile, dead>>
  BY DEF AddKey
<1>3. /\ cz \in Czar /\ Sound(cz) /\ Anchored(cz) /\ IsReadable(meta)
      /\ cz.listed = ListedIn(meta) /\ Loaded(cz) = ListedIn(meta)
      /\ \A v \in ListedIn(meta) :
           /\ keyfile[v] = ContentOf(pr, v)
           /\ meta.holds[v] = cz.key[v] /\ meta.encrypted = pr.crypter
      /\ MaxCrashes = 0 => \A v \in Version : v \notin ListedIn(meta) => keyfile[v] = NoFile
  BY <1>2, LoadedFacts
<1>4. n \notin ListedIn(meta)
  BY <1>1, <1>3 DEF IsNextVersion, Version
<1>5. /\ q.listed = cz.listed \cup {n}
      /\ \A v \in Version : q.key[v] = IF v = n THEN k ELSE cz.key[v]
  <2> DEFINE r == Reserved(cz, n, s)
  <2>1. r \in Czar /\ r.listed = cz.listed /\ r.key = cz.key
    BY <1>1, <1>3, ReservedIsSound
  <2>2. q = [r EXCEPT !.listed = @ \cup {n}, !.status[n] = s, !.key[n] = k]
    BY DEF Added
  <2> HIDE DEF r
  <2> QED
    BY <2>1, <2>2 DEF Czar
<1>6. x.pc = "write" /\ x.czar = q /\ x.crypter = pr.crypter /\ x.remove = NoVersion
  BY WritingFacts
<1>7. proc' = [proc EXCEPT ![a] = x] /\ pr.pc \in {"idle", "load"}
  BY <1>1, <1>2 DEF StartWrite, IInv, TypeOK, IsLoaded
<1>8. ListedIn(meta) \subseteq Version
  BY DEF ListedIn
<1>9. Loaded(q) = ListedIn(meta) \cup {n} /\ Loaded(q) \subseteq Version
  <2>1. k # NoKey
    BY KeysetAssumption DEF KeysetAssumption
  <2>2. \A v \in Version : v \in Loaded(q) <=> v = n \/ v \in Loaded(cz)
    BY <1>5, <2>1 DEF Loaded
  <2>3. Loaded(q) \subseteq Version
    BY DEF Loaded
  <2> QED
    BY <1>3, <1>8, <2>2, <2>3
<1>10. \A v \in ListedIn(meta) : q.key[v] = cz.key[v] /\ v # n
  BY <1>4, <1>5, <1>8
<1>11. \A v \in Loaded(q) : keyfile[v] = ContentOf(x, v) \/ Pending(v)
  <2>1. Pending(n)
    BY <1>3, <1>4 DEF Pending
  <2>2. \A v \in ListedIn(meta) : keyfile[v] = ContentOf(x, v)
    BY <1>3, <1>6, <1>10 DEF ContentOf
  <2> QED
    BY <1>9, <2>1, <2>2
<1>12. OldMeta(x)
  BY <1>3, <1>6, <1>9, <1>10 DEF OldMeta, IsReadable
<1>13. HoldsAlong(x)'
  <2>1. \A v \in ListedIn(meta) : q.key[v] \in used /\ q.key[v] \notin dead
    BY <1>3, <1>10 DEF SoloInv, DiskRight
  <2>2. q.key[n] = k /\ k \notin used /\ k \notin dead
    BY <1>1, <1>5 DEF SoloInv
  <2>3. \A v, w \in ListedIn(meta) : q.key[v] = q.key[w] => v = w
    BY <1>3, <1>10 DEF SoloInv, DiskRight
  <2>4. \A v, w \in Loaded(q) : q.key[v] = q.key[w] => v = w
    BY <1>9, <2>1, <2>2, <2>3
  <2>5. q.listed = Loaded(q) /\ NoVersion \notin q.listed
    BY <1>3, <1>5, <1>9, NumbersApart
  <2>6. \A v \in Loaded(q) : q.key[v] \in used' /\ q.key[v] \notin dead'
    BY <1>1, <1>2, <1>9, <2>1, <2>2
  <2> QED
    BY <1>6, <2>4, <2>5, <2>6 DEF HoldsAlong
<1>14. used \subseteq used'
  BY <1>1
<1>15. MaxCrashes = 0 => \A v \in Version \ Loaded(q) : keyfile[v] = NoFile
  BY <1>3, <1>9
<1> QED
  BY <1>2, <1>7, <1>9, <1>11, <1>12, <1>13, <1>14, <1>15, StartSolo

LEMMA CommandSolo ==
  ASSUME NEW a \in Proc, IInv, SoloInv(a), ~MetaFirst \/ MaxCrashes = 0,
         NEW p \in Proc, Admin = {a}, Command(p)
  PROVE  SoloInv(a)'
<1> DEFINE cz == proc[a].czar
<1>1. ASSUME IsLoaded(p), Exit(p), UNCHANGED <<meta, keyfile, used, dead, crashes>>
      PROVE  SoloInv(a)'
  <2>1. proc[p].pc \in {"idle", "load"}
    BY <1>1 DEF IsLoaded
  <2> QED
    BY <1>1, <2>1, ReaderEnds
<1>2. CASE Use(p)
  BY <1>1, <1>2 DEF Use
<1>3. CASE p = a /\ AddKey(a)
  BY <1>3, AddKeySolo
<1>4. IsLoaded(a) => cz \in Czar /\ Sound(cz)
  BY LoadedFacts
<1>5. \A q \in Czar : NoVersion \notin q.listed
  BY NumbersApart DEF Czar
<1>6. ASSUME p = a, NEW v \in Version, Promote(a, v) PROVE SoloInv(a)'
  <2>1. CASE CanPromote(cz, v)
    <3> DEFINE q == Promoted(cz, v)
    <3>1. q \in Czar /\ q.listed = cz.listed /\ q.key = cz.key
      BY <1>4, <1>6, <2>1, PromotedIsSound DEF Promote
    <3>2. IsLoaded(a) /\ StartWrite(a, q, NoVersion) /\ UNCHANGED <<meta, keyfile, used, dead>>
      BY <1>6, <2>1 DEF Promote
    <3> HIDE DEF q
    <3> QED
      BY <1>5, <3>1, <3>2, ChangeSolo
  <2> QED
    BY <1>1, <1>6, <2>1 DEF Promote
<1>7. ASSUME p = a, NEW v \in Version, Demote(a, v) PROVE SoloInv(a)'
  <2>1. CASE CanDemote(cz, v)
    <3> DEFINE q == Demoted(cz, v)
    <3>1. q \in Czar /\ q.listed = cz.listed /\ q.key = cz.key
      BY <1>4, <1>7, <2>1, DemotedIsSound DEF Demote
    <3>2. IsLoaded(a) /\ StartWrite(a, q, NoVersion) /\ UNCHANGED <<meta, keyfile, used, dead>>
      BY <1>7, <2>1 DEF Demote
    <3> HIDE DEF q
    <3> QED
      BY <1>5, <3>1, <3>2, ChangeSolo
  <2> QED
    BY <1>1, <1>7, <2>1 DEF Demote
<1>8. ASSUME p = a, NEW v \in Version, Revoke(a, v) PROVE SoloInv(a)'
  <2>1. CASE CanRevoke(cz, v)
    <3> DEFINE q == Revoked(cz, v)
    <3>1. q \in Czar /\ q.listed = cz.listed \ {v} /\ q.key = cz.key
      BY <1>4, <1>8 DEF Revoke, Revoked, Czar
    <3>2. IsLoaded(a) /\ StartWrite(a, q, v) /\ UNCHANGED <<meta, keyfile, used, dead>>
      BY <1>8, <2>1 DEF Revoke
    <3> HIDE DEF q
    <3> QED
      BY <3>1, <3>2, ChangeSolo
  <2> QED
    BY <1>1, <1>8, <2>1 DEF Revoke
<1> QED
  BY <1>2, <1>3, <1>6, <1>7, <1>8 DEF Command
-------------------------------------------------------------------------------
(***************************************************************************)
(* Write.  Opening the meta file leaves every key file as it is.           *)
(***************************************************************************)
LEMMA OpenedFacts ==
  ASSUME NEW a \in Proc, IInv, SoloInv(a), NEW f \in File, OpenFile(a, f)
  PROVE  LET pr == proc[a]
             x == Opened(proc[a], f)
         IN  /\ pr.pc = "write" /\ pr.open = NoneOpen /\ f \in pr.todo
             /\ (~MetaFirst /\ f = Meta => pr.todo = {Meta})
             /\ x.pc = "write" /\ x.open = f /\ x.todo = pr.todo \ {f}
             /\ x.czar = pr.czar /\ x.crypter = pr.crypter /\ x.remove = pr.remove
             /\ proc' = [proc EXCEPT ![a] = x]
             /\ proc'[a] = x /\ \A p \in Proc : p # a => proc'[p] = proc[p]
             /\ UNCHANGED <<used, dead>>
<1> DEFINE pr == proc[a]
           x == Opened(proc[a], f)
<1>1. pr \in ProcState /\ proc \in [Proc -> ProcState]
  BY DEF IInv, TypeOK
<1>2. /\ pr.pc = "write" /\ pr.open = NoneOpen /\ f \in pr.todo
      /\ (~MetaFirst /\ f = Meta => pr.todo = {Meta})
      /\ proc' = [proc EXCEPT ![a] = x] /\ UNCHANGED <<used, dead>>
  BY <1>1 DEF OpenFile, IsNextFile, JavaOrder
<1>3. /\ x.pc = pr.pc /\ x.open = f /\ x.todo = pr.todo \ {f}
      /\ x.czar = pr.czar /\ x.crypter = pr.crypter /\ x.remove = pr.remove
  BY <1>1 DEF Opened, ProcState
<1>4. proc'[a] = x /\ \A p \in Proc : p # a => proc'[p] = proc[p]
  BY <1>1, <1>2
<1> QED
  BY <1>2, <1>3, <1>4

LEMMA OpenMetaSolo ==
  ASSUME NEW a \in Proc, IInv, SoloInv(a), OpenFile(a, Meta)
  PROVE  SoloInv(a)'
<1> PICK pr : pr = proc[a]
  OBVIOUS
<1> PICK x : x = Opened(pr, Meta)
  OBVIOUS
<1>1. /\ pr.pc = "write" /\ pr.open = NoneOpen /\ Meta \in pr.todo
      /\ (~MetaFirst => pr.todo = {Meta})
      /\ x.pc = "write" /\ x.open = Meta /\ x.todo = pr.todo \ {Meta}
      /\ x.czar = pr.czar /\ x.crypter = pr.crypter /\ x.remove = pr.remove
      /\ proc' = [proc EXCEPT ![a] = x]
      /\ proc'[a] = x /\ \A p \in Proc : p # a => proc'[p] = proc[p]
      /\ UNCHANGED <<used, dead>>
  BY OpenedFacts, NumbersApart
<1>2. meta' = Torn /\ keyfile' = keyfile
  BY DEF OpenFile
<1>3. IsWriting(a) /\ IsWriting(a)'
  BY <1>1 DEF IsWriting
<1>4. /\ Loaded(pr.czar) \subseteq Version /\ pr.czar.listed \subseteq Loaded(pr.czar)
      /\ KeysAlong(pr) /\ MetaAlong(pr) /\ OrderAlong(pr) /\ HoldsAlong(pr)
  BY <1>3, WriterFacts
<1>5. ~IsReadable(meta') /\ meta' # NoFile
  BY <1>2, KeyczartAssumption DEF KeyczartAssumption, IsReadable
<1>6. KeysAlong(x)'
  <2> SUFFICES ASSUME NEW v \in Loaded(pr.czar)
               PROVE  x.open # v /\ (keyfile[v] = ContentOf(x, v) \/ (v \in x.todo /\ Pending(v)'))
    BY <1>1, <1>2 DEF KeysAlong
  <2>1. v # Meta /\ v # NoneOpen
    BY <1>4, NumbersApart
  <2>2. keyfile[v] = ContentOf(pr, v) \/ (v \in pr.todo /\ Pending(v))
    BY <1>1, <1>4, <2>1 DEF KeysAlong
  <2>3. ContentOf(x, v) = ContentOf(pr, v)
    BY <1>1 DEF ContentOf
  <2>4. Pending(v) => Pending(v)'
    BY <1>2, <1>5 DEF Pending
  <2> QED
    BY <1>1, <2>1, <2>2, <2>3, <2>4
<1>7. MetaAlong(x)'
  BY <1>1, <1>2 DEF MetaAlong
<1>8. OrderAlong(x)'
  BY <1>1, NumbersApart DEF OrderAlong
<1>9. HoldsAlong(x)'
  BY <1>1, <1>4 DEF HoldsAlong
<1>10. WritesAlong(x)'
  BY <1>6, <1>7, <1>8, <1>9 DEF WritesAlong
<1>11. NoLitter(a)'
  BY <1>1, <1>2, <1>3 DEF NoLitter, SoloInv
<1>12. dead' \subseteq used' /\ DiskRight' /\ (~MetaFirst => CrashCostsOneFile)'
  BY <1>1, <1>5 DEF SoloInv, DiskRight, CrashCostsOneFile
<1>13. \A p \in Proc : p # a => LoadsAlong(a, proc[p])'
  <2>1. \A v, e : StandsFor(a, v, e) => StandsFor(a, v, e)'
    BY <1>1, <1>2, <1>3, <1>5 DEF StandsFor
  <2> SUFFICES ASSUME NEW p \in Proc, p # a PROVE LoadsAlong(a, proc[p])'
    OBVIOUS
  <2> QED
    BY <1>1, <1>5, <2>1 DEF LoadsAlong, SoloInv
<1>14. x.pc # "load"
  BY <1>1
<1> QED
  BY <1>1, <1>10, <1>11, <1>12, <1>13, <1>14, AdminMoves

(***************************************************************************)
(* Opening a key file: in Java the old metadata still stands, and all the  *)
(* other files are as it says.                                             *)
(***************************************************************************)
LEMMA OpenKeySolo ==
  ASSUME NEW a \in Proc, IInv, SoloInv(a), NEW f \in Version, OpenFile(a, f)
  PROVE  SoloInv(a)'
<1> PICK pr : pr = proc[a]
  OBVIOUS
<1> PICK x : x = Opened(pr, f)
  OBVIOUS
<1>0. f \in File /\ f # Meta /\ f # Unlinked
  BY NumbersApart
<1>1. /\ pr.pc = "write" /\ pr.open = NoneOpen /\ f \in pr.todo
      /\ x.pc = "write" /\ x.open = f /\ x.todo = pr.todo \ {f}
      /\ x.czar = pr.czar /\ x.crypter = pr.crypter /\ x.remove = pr.remove
      /\ proc' = [proc EXCEPT ![a] = x]
      /\ proc'[a] = x /\ \A p \in Proc : p # a => proc'[p] = proc[p]
      /\ UNCHANGED <<used, dead>>
  BY <1>0, OpenedFacts
<1>2. /\ UNCHANGED meta
      /\ keyfile'[f] = Torn /\ \A v \in Version : v # f => keyfile'[v] = keyfile[v]
  BY <1>0 DEF OpenFile, IInv, TypeOK
<1>3. IsWriting(a) /\ IsWriting(a)'
  BY <1>1 DEF IsWriting
<1>4. /\ Loaded(pr.czar) \subseteq Version /\ pr.czar.listed \subseteq Loaded(pr.czar)
      /\ KeysAlong(pr) /\ MetaAlong(pr) /\ OrderAlong(pr) /\ HoldsAlong(pr)
      /\ f \in Loaded(pr.czar)
  BY <1>0, <1>1, <1>3, WriterFacts DEF WritingWell
<1>5. ~IsReadable(keyfile'[f])
  BY <1>2 DEF IsReadable
<1>6. KeysAlong(x)'
  <2> SUFFICES ASSUME NEW v \in Loaded(pr.czar), v # f
               PROVE  keyfile[v] = ContentOf(x, v) \/ (v \in x.todo /\ Pending(v)')
    BY <1>1, <1>2, <1>4 DEF KeysAlong, ContentOf
  <2>1. v \in Version /\ v # NoneOpen
    BY <1>4, NumbersApart
  <2>2. keyfile[v] = ContentOf(pr, v) \/ (v \in pr.todo /\ Pending(v))
    BY <1>1, <1>4, <2>1 DEF KeysAlong
  <2>3. ContentOf(x, v) = ContentOf(pr, v)
    BY <1>1 DEF ContentOf
  <2>4. Pending(v) => Pending(v)'
    BY <1>2, <2>1 DEF Pending
  <2> QED
    BY <1>1, <2>1, <2>2, <2>3, <2>4
<1>7. MetaAlong(x)'
  <2>1. CASE Meta \in pr.todo
    BY <1>0, <1>1, <1>2, <1>4, <2>1 DEF MetaAlong, OldMeta
  <2>2. CASE Meta \notin pr.todo
    <3>1. meta = MetaOf(pr)
      BY <1>1, <1>4, <2>2, NumbersApart DEF MetaAlong
    <3>2. MetaOf(x) = MetaOf(pr)
      BY <1>1 DEF MetaOf
    <3> QED
      BY <1>0, <1>1, <1>2, <2>2, <3>1, <3>2 DEF MetaAlong
  <2> QED
    BY <2>1, <2>2
<1>8. ~MetaFirst => Meta \in pr.todo
  BY <1>1, <1>4 DEF OrderAlong
<1>9. OrderAlong(x)'
  BY <1>0, <1>1, <1>8 DEF OrderAlong
<1>10. HoldsAlong(x)'
  BY <1>1, <1>4 DEF HoldsAlong
<1>11. WritesAlong(x)'
  BY <1>6, <1>7, <1>9, <1>10 DEF WritesAlong
<1>12. NoLitter(a)'
  BY <1>1, <1>2, <1>3, <1>4 DEF NoLitter, SoloInv
<1>13. \A v \in Version : v # f => (Right(v)' <=> Right(v))
  BY <1>2 DEF Right
<1>14. dead' \subseteq used' /\ DiskRight'
  <2>1. ListedIn(meta) \subseteq Version
    BY DEF ListedIn
  <2> QED
    BY <1>1, <1>2, <1>5, <1>13, <2>1 DEF SoloInv, DiskRight
<1>15. (~MetaFirst => CrashCostsOneFile)'
  <2> SUFFICES ASSUME ~MetaFirst, IsReadable(meta), NEW v \in ListedIn(meta), v # f
               PROVE  Right(v)'
    BY <1>2 DEF CrashCostsOneFile
  <2>1. v \in Version
    BY DEF ListedIn
  <2>2. v \in Loaded(pr.czar) /\ meta.holds[v] = pr.czar.key[v] /\ meta.encrypted = pr.crypter
    BY <1>4, <1>8 DEF MetaAlong, OldMeta
  <2>3. keyfile[v] = ContentOf(pr, v)
    BY <1>1, <1>4, <2>1, <2>2, NumbersApart DEF KeysAlong, Pending
  <2> QED
    BY <1>13, <2>1, <2>2, <2>3 DEF Right, ContentOf
<1>16. \A p \in Proc : p # a => LoadsAlong(a, proc[p])'
  <2>1. \A v \in Version : \A e : StandsFor(a, v, e) => StandsFor(a, v, e)'
    BY <1>1, <1>2, <1>3, <1>5 DEF StandsFor
  <2> SUFFICES ASSUME NEW p \in Proc, p # a PROVE LoadsAlong(a, proc[p])'
    OBVIOUS
  <2>2. proc[p].czar.listed \subseteq Version
    BY DEF IInv, TypeOK, ProcState, Czar
  <2> QED
    BY <1>1, <1>2, <2>1, <2>2 DEF LoadsAlong, SoloInv
<1>17. x.pc # "load"
  BY <1>1
<1> QED
  BY <1>1, <1>11, <1>12, <1>14, <1>15, <1>16, <1>17, AdminMoves

(***************************************************************************)
(* Closing a file.  The command goes on with the key set it had, or it has *)
(* written everything and there is nothing to remove.                      *)
(***************************************************************************)
LEMMA FilledFacts ==
  ASSUME NEW a \in Proc, IInv, SoloInv(a), NEW f \in File, proc[a].open = f,
         proc' = [proc EXCEPT ![a] = AfterFile(@)]
  PROVE  LET pr == proc[a]
             x == AfterFile(proc[a])
         IN  /\ pr.pc = "write" /\ IsWriting(a) /\ f \notin pr.todo
             /\ proc' = [proc EXCEPT ![a] = x]
             /\ proc'[a] = x /\ \A p \in Proc : p # a => proc'[p] = proc[p]
             /\ \/ x.pc = "idle" /\ pr.todo = {} /\ pr.remove = NoVersion
                \/ /\ x.pc \in {"write", "remove"} /\ (x.pc = "remove" => pr.todo = {})
                   /\ x.czar = pr.czar /\ x.crypter = pr.crypter /\ x.todo = pr.todo
                   /\ x.open = NoneOpen /\ x.remove = pr.remove
<1>1. proc \in [Proc -> ProcState] /\ RunsWell(proc[a]) /\ f # NoneOpen
  BY NumbersApart DEF IInv, TypeOK
<1>2. proc[a].pc = "write" /\ IsWriting(a)
  BY <1>1 DEF RunsWell, IsWriting
<1>3. f \notin proc[a].todo
  BY <1>2, WriterFacts DEF OrderAlong
<1> DEFINE x == AfterFile(proc[a])
<1>4. proc' = [proc EXCEPT ![a] = x]
  BY <1>1
<1>5. \/ x.pc = "idle" /\ proc[a].todo = {} /\ proc[a].remove = NoVersion
      \/ /\ x.pc \in {"write", "remove"} /\ (x.pc = "remove" => proc[a].todo = {})
         /\ x.czar = proc[a].czar /\ x.crypter = proc[a].crypter /\ x.todo = proc[a].todo
         /\ x.open = NoneOpen /\ x.remove = proc[a].remove
  BY <1>1, <1>2, AfterFileFacts
<1> HIDE DEF x
<1>6. proc'[a] = x /\ \A p \in Proc : p # a => proc'[p] = proc[p]
  BY <1>1, <1>4
<1> QED
  BY <1>2, <1>3, <1>4, <1>5, <1>6 DEF x

(***************************************************************************)
(* The meta file gets its content.  From here on the key that is being     *)
(* revoked is dead: no listed version has it, and whoever still expects it *)
(* may find anything under its number.                                     *)
(***************************************************************************)
LEMMA FillMetaSolo ==
  ASSUME NEW a \in Proc, IInv, SoloInv(a), FillMeta(a)
  PROVE  SoloInv(a)'
<1> PICK pr : pr = proc[a]
  OBVIOUS
<1> PICK x : x = AfterFile(pr)
  OBVIOUS
<1> PICK m : m = MetaOf(pr)
  OBVIOUS
<1>1. /\ pr.open = Meta /\ meta' \in Outcomes(meta, m) /\ UNCHANGED <<keyfile, used>>
      /\ proc' = [proc EXCEPT ![a] = AfterFile(@)]
      /\ dead' = dead \cup Died(pr.czar, pr.remove)
  BY DEF FillMeta
<1>2. /\ pr.pc = "write" /\ IsWriting(a) /\ Meta \notin pr.todo
      /\ proc' = [proc EXCEPT ![a] = x]
      /\ proc'[a] = x /\ \A p \in Proc : p # a => proc'[p] = proc[p]
  BY <1>1, FilledFacts, NumbersApart
<1>3. \/ x.pc = "idle" /\ pr.todo = {} /\ pr.remove = NoVersion
      \/ /\ x.pc \in {"write", "remove"} /\ (x.pc = "remove" => pr.todo = {})
         /\ x.czar = pr.czar /\ x.crypter = pr.crypter /\ x.todo = pr.todo
         /\ x.open = NoneOpen /\ x.remove = pr.remove
  BY <1>1, FilledFacts, NumbersApart
<1>4. /\ pr \in ProcState /\ WritingWell(pr)
      /\ Loaded(pr.czar) \subseteq Version /\ pr.czar.listed \subseteq Loaded(pr.czar)
      /\ KeysAlong(pr) /\ MetaAlong(pr) /\ OrderAlong(pr) /\ HoldsAlong(pr)
  BY <1>2, WriterFacts
<1>5. meta' = m
  <2>1. meta = Torn
    BY <1>1, <1>2, <1>4 DEF MetaAlong
  <2> QED
    BY <1>1, <2>1 DEF Outcomes
<1>6. /\ IsReadable(m) /\ ListedIn(m) = pr.czar.listed /\ m.encrypted = pr.crypter
      /\ \A v \in pr.czar.listed : m.holds[v] = pr.czar.key[v]
  BY <1>4, MetaOfFacts
<1>7. ~MetaFirst => pr.todo = {}
  BY <1>2, <1>4 DEF OrderAlong
<1>8. \A v \in Loaded(pr.czar) : keyfile[v] = ContentOf(pr, v) \/ (v \in pr.todo /\ Pending(v))
  <2>1. Meta \notin Loaded(pr.czar)
    BY <1>4, NumbersApart
  <2> QED
    BY <1>1, <1>4, <2>1 DEF KeysAlong
<1>9. \A v \in Loaded(pr.czar) :
        keyfile'[v] = ContentOf(pr, v) \/ (v \in pr.todo /\ MetaFirst /\ keyfile'[v] = NoFile)
  BY <1>1, <1>7, <1>8 DEF Pending
<1>10. \A v \in pr.czar.listed :
         keyfile'[v] = ContentOf(pr, v) => Right(v)'
  BY <1>5, <1>6 DEF Right, ContentOf
<1>11. /\ dead' \subseteq used'
       /\ \A v \in pr.czar.listed : pr.czar.key[v] \in used' \ dead'
  <2>1. pr.remove # NoVersion => pr.remove \in Loaded(pr.czar)
    BY <1>4 DEF WritingWell
  <2>2. dead \subseteq used
    BY DEF SoloInv
  <2>3. Died(pr.czar, pr.remove) \subseteq used
    BY <1>4, <2>1 DEF Died, HoldsAlong
  <2>4. \A v \in pr.czar.listed : pr.czar.key[v] \in used /\ pr.czar.key[v] \notin dead
    BY <1>4 DEF HoldsAlong
  <2>5. \A v \in pr.czar.listed : pr.czar.key[v] \notin Died(pr.czar, pr.remove)
    BY <1>4, <2>1 DEF Died, HoldsAlong
  <2> QED
    BY <1>1, <2>2, <2>3, <2>4, <2>5
<1>12. DiskRight'
  <2>1. \A v \in pr.czar.listed : Right(v)' \/ ~IsReadable(keyfile'[v])
    BY <1>4, <1>9, <1>10 DEF IsReadable
  <2>2. \A v, w \in pr.czar.listed : m.holds[v] = m.holds[w] => v = w
    BY <1>4, <1>6 DEF HoldsAlong
  <2> QED
    BY <1>5, <1>6, <1>11, <2>1, <2>2 DEF DiskRight
<1>13. WritesAlong(x)'
  <2>1. CASE x.pc = "idle"
    BY <2>1 DEF WritesAlong
  <2>2. CASE x.pc \in {"write", "remove"}
    <3>1. /\ x.czar = pr.czar /\ x.crypter = pr.crypter /\ x.todo = pr.todo
          /\ x.open = NoneOpen /\ x.remove = pr.remove /\ (x.pc = "remove" => pr.todo = {})
      BY <1>3, <2>2
    <3>2. KeysAlong(x)'
      <4>1. \A v \in Loaded(pr.czar) : x.open # v /\ ContentOf(x, v) = ContentOf(pr, v)
        BY <1>4, <3>1, NumbersApart DEF ContentOf
      <4> QED
        BY <1>9, <3>1, <4>1 DEF KeysAlong, Pending
    <3>3. MetaAlong(x)'
      <4>1. MetaOf(x) = m
        BY <3>1 DEF MetaOf
      <4> QED
        BY <1>2, <1>5, <3>1, <4>1, NumbersApart DEF MetaAlong
    <3>4. OrderAlong(x)'
      <4>1. NoneOpen \notin pr.todo /\ NoneOpen # Unlinked
        BY <1>4, NumbersApart DEF ProcState
      <4> QED
        BY <1>7, <3>1, <4>1 DEF OrderAlong
    <3>5. HoldsAlong(x)'
      BY <1>1, <1>4, <1>11, <3>1 DEF HoldsAlong
    <3> QED
      BY <3>2, <3>3, <3>4, <3>5 DEF WritesAlong
  <2> QED
    BY <1>3, <2>1, <2>2
<1>14. NoLitter(a)'
  <2>1. MaxCrashes = 0 => \A v \in Version \ Loaded(pr.czar) : keyfile'[v] = NoFile
    BY <1>1, <1>2 DEF SoloInv, NoLitter
  <2>2. CASE x.pc = "idle"
    <3>1. pr.todo = {} /\ Loaded(pr.czar) \subseteq pr.czar.listed
      BY <1>3, <1>4, <2>2, NumbersApart DEF HoldsAlong
    <3>2. \A v \in pr.czar.listed : Right(v)'
      BY <1>4, <1>9, <1>10, <3>1
    <3>3. ~IsWriting(a)'
      BY <1>2, <2>2 DEF IsWriting
    <3> QED
      BY <1>5, <1>6, <2>1, <3>1, <3>2, <3>3 DEF NoLitter
  <2>3. CASE x.pc \in {"write", "remove"}
    <3>1. x.czar = pr.czar /\ IsWriting(a)'
      BY <1>2, <1>3, <2>3 DEF IsWriting
    <3> QED
      BY <1>2, <2>1, <3>1 DEF NoLitter
  <2> QED
    BY <1>3, <2>2, <2>3
<1>15. (~MetaFirst => CrashCostsOneFile)'
  <2>1. ~MetaFirst => \A v \in pr.czar.listed : Right(v)'
    BY <1>4, <1>7, <1>9, <1>10
  <2> QED
    BY <1>5, <1>6, <2>1 DEF CrashCostsOneFile
<1>16. \A p \in Proc : p # a => LoadsAlong(a, proc[p])'
  <2>1. ASSUME NEW v \in Version, NEW e, StandsFor(a, v, e)
        PROVE  e \in dead' \/ StandsFor(a, v, e)'
    <3>1. /\ v \in Loaded(pr.czar) /\ pr.czar.key[v] = e
          /\ (IsReadable(keyfile[v]) => keyfile[v].key = e)
      BY <1>2, <2>1 DEF StandsFor
    <3>2. CASE v \in pr.czar.listed
      <4>1. m.holds[v] = e /\ v \in ListedIn(m)
        BY <1>6, <3>1, <3>2
      <4>2. IsWriting(a)' => proc'[a].czar = pr.czar
        BY <1>2, <1>3 DEF IsWriting
      <4> QED
        BY <1>1, <1>5, <3>1, <4>1, <4>2 DEF StandsFor
    <3>3. CASE v \notin pr.czar.listed
      <4>1. v = pr.remove /\ v # NoVersion
        BY <1>4, <3>1, <3>3, NumbersApart DEF HoldsAlong
      <4> QED
        BY <1>1, <3>1, <4>1 DEF Died
    <3> QED
      BY <3>2, <3>3
  <2> SUFFICES ASSUME NEW p \in Proc, p # a PROVE LoadsAlong(a, proc[p])'
    OBVIOUS
  <2>2. proc[p].czar.listed \subseteq Version
    BY DEF IInv, TypeOK, ProcState, Czar
  <2>3. dead \subseteq dead' /\ meta' # NoFile
    BY <1>1, <1>5, <1>6 DEF IsReadable
  <2> QED
    BY <1>2, <2>1, <2>2, <2>3 DEF LoadsAlong, SoloInv
<1>17. x.pc # "load"
  BY <1>3
<1> QED
  BY <1>2, <1>11, <1>12, <1>13, <1>14, <1>15, <1>16, <1>17, AdminMoves

\* A key file gets its content: the key that everybody expects there.
LEMMA FillKeySolo ==
  ASSUME NEW a \in Proc, IInv, SoloInv(a), FillKey(a)
  PROVE  SoloInv(a)'
<1> PICK pr : pr = proc[a]
  OBVIOUS
<1> PICK x : x = AfterFile(pr)
  OBVIOUS
<1> PICK f : f = pr.open
  OBVIOUS
<1>1. f \in Version /\ UNCHANGED <<meta, used, dead>> /\ proc' = [proc EXCEPT ![a] = AfterFile(@)]
  BY DEF FillKey
<1>2. f \in File /\ f # Meta
  BY <1>1, NumbersApart
<1>3. /\ pr.pc = "write" /\ IsWriting(a) /\ f \notin pr.todo
      /\ proc' = [proc EXCEPT ![a] = x]
      /\ proc'[a] = x /\ \A p \in Proc : p # a => proc'[p] = proc[p]
  BY <1>1, <1>2, FilledFacts
<1>4. \/ x.pc = "idle" /\ pr.todo = {} /\ pr.remove = NoVersion
      \/ /\ x.pc \in {"write", "remove"} /\ (x.pc = "remove" => pr.todo = {})
         /\ x.czar = pr.czar /\ x.crypter = pr.crypter /\ x.todo = pr.todo
         /\ x.open = NoneOpen /\ x.remove = pr.remove
  BY <1>1, <1>2, FilledFacts
<1>5. /\ pr \in ProcState /\ WritingWell(pr)
      /\ Loaded(pr.czar) \subseteq Version /\ pr.czar.listed \subseteq Loaded(pr.czar)
      /\ KeysAlong(pr) /\ MetaAlong(pr) /\ OrderAlong(pr) /\ HoldsAlong(pr)
  BY <1>3, WriterFacts
<1>6. f \in Loaded(pr.czar)
  BY <1>1, <1>2, <1>5, NumbersApart DEF WritingWell
<1>7. /\ keyfile'[f] = ContentOf(pr, f)
      /\ \A v \in Version : v # f => keyfile'[v] = keyfile[v]
  <2>1. keyfile[f] = Torn /\ keyfile \in [Version -> KeyContent \cup {NoFile, Torn}]
    BY <1>5, <1>6 DEF KeysAlong, IInv, TypeOK
  <2>2. keyfile' = [keyfile EXCEPT ![f] = ContentOf(pr, f)]
    BY <2>1 DEF FillKey, Outcomes, ContentOf
  <2> QED
    BY <1>1, <2>1, <2>2
<1>8. keyfile'[f].key = pr.czar.key[f]
  BY <1>7 DEF ContentOf
<1>9. \A v \in Loaded(pr.czar) : keyfile'[v] = ContentOf(pr, v) \/ (v \in pr.todo /\ Pending(v)')
  <2> SUFFICES ASSUME NEW v \in Loaded(pr.czar), v # f
               PROVE  keyfile'[v] = ContentOf(pr, v) \/ (v \in pr.todo /\ Pending(v)')
    BY <1>7
  <2>1. keyfile[v] = ContentOf(pr, v) \/ (v \in pr.todo /\ Pending(v))
    BY <1>5 DEF KeysAlong
  <2>2. keyfile'[v] = keyfile[v]
    BY <1>5, <1>7
  <2> QED
    BY <1>1, <2>1, <2>2 DEF Pending
<1>10. ListedIn(meta) \subseteq Version
  BY DEF ListedIn
<1>11. IsReadable(meta) => \A v \in ListedIn(meta) : Right(v) \/ v = f => Right(v)'
  <2> SUFFICES ASSUME IsReadable(meta), NEW v \in ListedIn(meta), Right(v) \/ v = f
               PROVE  Right(v)'
    OBVIOUS
  <2>1. CASE v = f
    <3>1. meta.holds[f] = pr.czar.key[f] /\ meta.encrypted = pr.crypter
      BY <1>3, <2>1, MetaMatchesWriter
    <3> QED
      BY <1>1, <1>7, <2>1, <3>1 DEF Right, ContentOf
  <2>2. CASE v # f
    BY <1>1, <1>7, <1>10, <2>2 DEF Right
  <2> QED
    BY <2>1, <2>2
<1>12. DiskRight' /\ dead' \subseteq used'
  <2>1. IsReadable(meta) => \A v \in ListedIn(meta) : Right(v)' \/ ~IsReadable(keyfile'[v])
    BY <1>7, <1>10, <1>11 DEF SoloInv, DiskRight
  <2> QED
    BY <1>1, <2>1 DEF SoloInv, DiskRight
<1>13. (~MetaFirst => CrashCostsOneFile)'
  BY <1>1, <1>11 DEF SoloInv, CrashCostsOneFile
<1>14. Meta \notin pr.todo => meta = MetaOf(pr)
  BY <1>2, <1>5 DEF MetaAlong
<1>15. WritesAlong(x)'
  <2>1. CASE x.pc = "idle"
    BY <2>1 DEF WritesAlong
  <2>2. CASE x.pc \in {"write", "remove"}
    <3>1. /\ x.czar = pr.czar /\ x.crypter = pr.crypter /\ x.todo = pr.todo
          /\ x.open = NoneOpen /\ x.remove = pr.remove /\ (x.pc = "remove" => pr.todo = {})
      BY <1>4, <2>2
    <3>2. KeysAlong(x)'
      <4>1. \A v \in Loaded(pr.czar) : x.open # v /\ ContentOf(x, v) = ContentOf(pr, v)
        BY <1>5, <3>1, NumbersApart DEF ContentOf
      <4> QED
        BY <1>9, <3>1, <4>1 DEF KeysAlong
    <3>3. MetaAlong(x)'
      <4>1. MetaOf(x) = MetaOf(pr)
        BY <3>1 DEF MetaOf
      <4>2. CASE Meta \in pr.todo
        BY <1>1, <1>5, <3>1, <4>2 DEF MetaAlong, OldMeta
      <4>3. CASE Meta \notin pr.todo
        BY <1>1, <1>14, <3>1, <4>1, <4>3, NumbersApart DEF MetaAlong
      <4> QED
        BY <4>2, <4>3
    <3>4. OrderAlong(x)'
      <4>1. NoneOpen \notin pr.todo /\ NoneOpen # Unlinked
        BY <1>5, NumbersApart DEF ProcState
      <4> QED
        BY <1>5, <3>1, <4>1 DEF OrderAlong
    <3>5. HoldsAlong(x)'
      BY <1>1, <1>5, <3>1 DEF HoldsAlong
    <3> QED
      BY <3>2, <3>3, <3>4, <3>5 DEF WritesAlong
  <2> QED
    BY <1>4, <2>1, <2>2
<1>16. NoLitter(a)'
  <2>1. MaxCrashes = 0 => \A v \in Version \ Loaded(pr.czar) : keyfile'[v] = NoFile
    BY <1>3, <1>6, <1>7 DEF SoloInv, NoLitter
  <2>2. CASE x.pc = "idle"
    <3>1. pr.todo = {} /\ Loaded(pr.czar) \subseteq pr.czar.listed
      BY <1>4, <1>5, <2>2, NumbersApart DEF HoldsAlong
    <3>2. meta = MetaOf(pr)
      BY <1>14, <3>1
    <3>3. /\ IsReadable(meta) /\ ListedIn(meta) = pr.czar.listed /\ meta.encrypted = pr.crypter
          /\ \A v \in pr.czar.listed : meta.holds[v] = pr.czar.key[v]
      BY <1>5, <3>2, MetaOfFacts
    <3>4. \A v \in pr.czar.listed : keyfile'[v] = ContentOf(pr, v)
      BY <1>5, <1>9, <3>1
    <3>5. \A v \in pr.czar.listed : Right(v)'
      BY <1>1, <3>3, <3>4 DEF Right, ContentOf
    <3>6. ~IsWriting(a)'
      BY <1>3, <2>2 DEF IsWriting
    <3> QED
      BY <1>1, <2>1, <3>1, <3>3, <3>5, <3>6 DEF NoLitter
  <2>3. CASE x.pc \in {"write", "remove"}
    <3>1. x.czar = pr.czar /\ IsWriting(a)'
      BY <1>3, <1>4, <2>3 DEF IsWriting
    <3> QED
      BY <1>3, <2>1, <3>1 DEF NoLitter
  <2> QED
    BY <1>4, <2>2, <2>3
<1>17. \A p \in Proc : p # a => LoadsAlong(a, proc[p])'
  <2>1. IsWriting(a)' => proc'[a].czar = pr.czar
    BY <1>3, <1>4 DEF IsWriting
  <2>2. \A v \in Version : \A e : StandsFor(a, v, e) => StandsFor(a, v, e)'
    BY <1>1, <1>3, <1>7, <1>8, <2>1 DEF StandsFor
  <2> SUFFICES ASSUME NEW p \in Proc, p # a PROVE LoadsAlong(a, proc[p])'
    OBVIOUS
  <2>3. proc[p].czar.listed \subseteq Version
    BY DEF IInv, TypeOK, ProcState, Czar
  <2> QED
    BY <1>1, <1>3, <2>2, <2>3 DEF LoadsAlong, SoloInv
<1>18. x.pc # "load"
  BY <1>4
<1> QED
  BY <1>3, <1>12, <1>13, <1>15, <1>16, <1>17, <1>18, AdminMoves

\* The end of revoke: the file of a version that is not listed goes.
LEMMA RemoveFileSolo ==
  ASSUME NEW a \in Proc, IInv, SoloInv(a), RemoveFile(a)
  PROVE  SoloInv(a)'
<1> PICK pr : pr = proc[a]
  OBVIOUS
<1> PICK f : f = pr.remove
  OBVIOUS
<1>1. pr.pc = "remove" /\ UNCHANGED <<meta, used, dead>> /\ IsWriting(a)
  BY DEF RemoveFile, IsWriting
<1>2. /\ pr \in ProcState /\ WritingWell(pr)
      /\ Loaded(pr.czar) \subseteq Version /\ pr.czar.listed \subseteq Loaded(pr.czar)
      /\ KeysAlong(pr) /\ MetaAlong(pr) /\ OrderAlong(pr) /\ HoldsAlong(pr)
  BY <1>1, WriterFacts
<1>3. f \in Version /\ pr.todo = {} /\ pr.open = NoneOpen
  BY <1>1, <1>2 DEF OrderAlong, IInv, RunsWell
<1>4. /\ keyfile'[f] = NoFile /\ \A v \in Version : v # f => keyfile'[v] = keyfile[v]
  BY <1>3 DEF RemoveFile, IInv, TypeOK
<1>5. proc' = [proc EXCEPT ![a] = Idle]
  <2>1. \A q \in Proc : q # a => proc[q].open # f
    <3> SUFFICES ASSUME NEW q \in Proc, q # a PROVE proc[q].open # f
      OBVIOUS
    <3>1. proc[q].pc # "write"
      BY DEF SoloInv
    <3> QED
      BY <1>3, <3>1, NumbersApart DEF IInv, RunsWell
  <2>2. proc' = [q \in Proc |-> IF q = a THEN Idle ELSE proc[q]]
    BY <2>1 DEF RemoveFile
  <2> QED
    BY <2>2 DEF IInv, TypeOK
<1>6. proc'[a].pc = "idle" /\ \A p \in Proc : p # a => proc'[p] = proc[p]
  BY <1>5, IdleAlong DEF IInv, TypeOK
<1>7. meta = MetaOf(pr)
  BY <1>2, <1>3, NumbersApart DEF MetaAlong
<1>8. /\ IsReadable(meta) /\ ListedIn(meta) = pr.czar.listed /\ meta.encrypted = pr.crypter
      /\ \A v \in pr.czar.listed : meta.holds[v] = pr.czar.key[v]
  BY <1>2, <1>7, MetaOfFacts
<1>9. f \notin pr.czar.listed /\ pr.czar.listed \subseteq Version
  BY <1>2 DEF HoldsAlong
<1>10. \A v \in pr.czar.listed : keyfile'[v] = keyfile[v] /\ (Right(v)' <=> Right(v))
  BY <1>1, <1>4, <1>9 DEF Right
<1>11. DiskRight' /\ dead' \subseteq used' /\ (~MetaFirst => CrashCostsOneFile)'
  BY <1>1, <1>8, <1>10 DEF SoloInv, DiskRight, CrashCostsOneFile
<1>12. WritesAlong(Idle)'
  BY IdleAlong DEF WritesAlong
<1>13. NoLitter(a)'
  <2>1. MaxCrashes = 0 => \A v \in Version \ Loaded(pr.czar) : keyfile[v] = NoFile
    BY <1>1 DEF SoloInv, NoLitter
  <2>2. Loaded(pr.czar) \subseteq pr.czar.listed \cup {f}
    BY <1>2 DEF HoldsAlong
  <2>3. \A v \in pr.czar.listed : keyfile[v] = ContentOf(pr, v)
    BY <1>2, <1>3, NumbersApart DEF KeysAlong
  <2>4. \A v \in pr.czar.listed : Right(v)
    BY <1>8, <2>3 DEF Right, ContentOf
  <2>5. ~IsWriting(a)'
    BY <1>6 DEF IsWriting
  <2>6. MaxCrashes = 0 => \A v \in Version : v \notin pr.czar.listed => keyfile'[v] = NoFile
    BY <1>4, <2>1, <2>2
  <2> QED
    BY <1>1, <1>8, <1>10, <2>4, <2>5, <2>6 DEF NoLitter
<1>14. \A p \in Proc : p # a => LoadsAlong(a, proc[p])'
  <2>1. \A v, e : StandsFor(a, v, e) => StandsFor(a, v, e)'
    BY <1>1, <1>6, <1>8, <1>10 DEF StandsFor, IsWriting
  <2> SUFFICES ASSUME NEW p \in Proc, p # a PROVE LoadsAlong(a, proc[p])'
    OBVIOUS
  <2> QED
    BY <1>1, <1>6, <2>1 DEF LoadsAlong, SoloInv
<1>15. Idle.pc # "load"
  BY IdleAlong
<1> QED
  BY <1>5, <1>11, <1>12, <1>13, <1>14, <1>15, AdminMoves

\* Nobody but the administrator writes, and no file is removed under it.
LEMMA WriteSolo ==
  ASSUME NEW a \in Proc, IInv, SoloInv(a), NEW p \in Proc, Write(p)
  PROVE  SoloInv(a)'
<1>1. proc[p].pc \in {"write", "remove"}
  <2>1. RunsWell(proc[p])
    BY DEF IInv
  <2>2. proc[p].open # NoneOpen => proc[p].pc = "write"
    BY <2>1 DEF RunsWell
  <2> QED
    BY <2>2, NumbersApart DEF Write, OpenFile, FillMeta, FillKey, FillUnlinked, RemoveFile
<1>2. p = a
  BY <1>1 DEF SoloInv
<1>3. ~FillUnlinked(a)
  <2>1. IsWriting(a)
    BY <1>1, <1>2 DEF IsWriting
  <2> QED
    BY <2>1, WriterFacts DEF OrderAlong, FillUnlinked
<1>4. ASSUME NEW f \in File, OpenFile(a, f) PROVE SoloInv(a)'
  <2>1. f = Meta \/ f \in Version
    BY KeysetAssumption DEF KeysetAssumption, File, Version, Meta
  <2> QED
    BY <1>4, <2>1, OpenMetaSolo, OpenKeySolo
<1> QED
  BY <1>2, <1>3, <1>4, FillMetaSolo, FillKeySolo, RemoveFileSolo DEF Write
-------------------------------------------------------------------------------
LEMMA InitSolo ==
  ASSUME NEW a \in Proc, Init
  PROVE  SoloInv(a)
<1>1. meta = NoFile /\ ~IsReadable(meta) /\ dead = {} /\ used = {}
  BY DEF Init, IsReadable
<1>2. \A p \in Proc : proc[p] = Idle
  BY DEF Init
<1>3. \A p \in Proc : proc[p].pc = "idle"
  BY <1>2, IdleAlong
<1>4. \A p \in Proc : LoadsAlong(a, proc[p])
  BY <1>3 DEF LoadsAlong
<1>5. ReadsDisk(proc[a]) /\ WritesAlong(proc[a])
  BY <1>3 DEF ReadsDisk, WritesAlong
<1>6. DiskRight /\ CrashCostsOneFile
  BY <1>1 DEF DiskRight, CrashCostsOneFile
<1>7. NoLitter(a)
  BY <1>1, <1>3 DEF NoLitter, IsWriting, Init
<1> QED
  BY <1>1, <1>3, <1>4, <1>5, <1>6, <1>7 DEF SoloInv

\* A stuttering step.
LEMMA StutterSolo ==
  ASSUME NEW a \in Proc, SoloInv(a), UNCHANGED vars
  PROVE  SoloInv(a)'
<1> USE DEF vars
<1>1. DiskRight' /\ (~MetaFirst => CrashCostsOneFile)' /\ NoLitter(a)'
  BY DEF SoloInv, DiskRight, CrashCostsOneFile, NoLitter, Right, IsWriting
<1>2. \A p \in Proc : LoadsAlong(a, proc[p])'
  BY DEF SoloInv, LoadsAlong, StandsFor, IsWriting
<1>3. ReadsDisk(proc[a])' /\ WritesAlong(proc[a])'
  BY DEF SoloInv, ReadsDisk, WritesAlong, KeysAlong, MetaAlong, OldMeta, OrderAlong,
       HoldsAlong, Pending
<1> QED
  BY <1>1, <1>2, <1>3 DEF SoloInv

LEMMA NextSolo ==
  ASSUME NEW a \in Proc, Admin = {a}, ~MetaFirst \/ MaxCrashes = 0,
         IInv, SoloInv(a), [Next]_vars
  PROVE  SoloInv(a)'
<1>1. CASE UNCHANGED vars
  BY <1>1, StutterSolo
<1>2. CASE Next
  <2>1. PICK p \in Proc : \/ p = a /\ Create(p)
                          \/ \E crypter \in CrypterFlags : ReadMeta(p, crypter)
                          \/ Load(p) \/ Command(p) \/ Write(p) \/ Crash(p)
    BY <1>2 DEF Next
  <2>2. CASE Crash(p)
    <3>1. Exit(p) /\ UNCHANGED <<meta, keyfile, used, dead>>
      BY <2>2 DEF Crash
    <3>2. CASE proc[p].pc \in {"idle", "load"}
      BY <3>1, <3>2, ReaderEnds
    <3>3. CASE proc[p].pc \notin {"idle", "load"}
      <4>1. p = a /\ proc[a].pc \in {"write", "remove"}
        BY <3>3 DEF SoloInv, IInv, TypeOK, ProcState
      <4> QED
        BY <2>2, <4>1, WriterDies DEF IsWriting
    <3> QED
      BY <3>2, <3>3
  <2>3. CASE Load(p)
    BY <2>3, ReadKeySolo DEF Load
  <2> QED
    BY <2>1, <2>2, <2>3, CreateSolo, ReadMetaSolo, CommandSolo, WriteSolo
<1> QED
  BY <1>1, <1>2

(***************************************************************************)
(* One administrator, and no crash or the Java order of the files: the     *)
(* files, what the administrator writes and what the applications expect   *)
(* agree as SoloInv says.                                                  *)
(***************************************************************************)
THEOREM SoloInvariantHolds ==
  ASSUME NEW a, Admin = {a}, ~MetaFirst \/ MaxCrashes = 0
  PROVE  Spec => []SoloInv(a)
<1>1. a \in Proc
  BY KeyczartAssumption DEF KeyczartAssumption
<1>2. Init => SoloInv(a)
  BY <1>1, InitSolo
<1>3. IInv /\ SoloInv(a) /\ [Next]_vars => SoloInv(a)'
  BY <1>1, NextSolo
<1> QED
  BY <1>2, <1>3, InvariantHolds, PTL DEF Spec

(***************************************************************************)
(* A load that succeeds while the administrator changes the key set gives  *)
(* an application, version for version, the keys its metadata stood for.   *)
(***************************************************************************)
THEOREM LoadMatchesMetadataHolds ==
  ASSUME NEW a, Admin = {a}, ~MetaFirst \/ MaxCrashes = 0
  PROVE  Spec => []LoadMatchesMetadata
<1>1. SoloInv(a) => LoadMatchesMetadata
  BY DEF SoloInv, LoadsAlong, LoadMatchesMetadata, IsLoaded
<1> QED
  BY <1>1, SoloInvariantHolds, PTL

(***************************************************************************)
(* A key whose revocation the meta file has recorded is never again what a *)
(* listed version's file holds.                                            *)
(***************************************************************************)
THEOREM DeadStaysDeadHolds ==
  ASSUME NEW a, Admin = {a}, ~MetaFirst \/ MaxCrashes = 0
  PROVE  Spec => []DeadStaysDead
<1>1. SoloInv(a) => DeadStaysDead
  <2> SUFFICES ASSUME SoloInv(a), IsReadable(meta), NEW v \in ListedIn(meta),
                      IsReadable(keyfile[v])
               PROVE  keyfile[v].key \notin dead
    BY DEF DeadStaysDead
  <2>1. Right(v) /\ meta.holds[v] \notin dead
    BY DEF SoloInv, DiskRight
  <2> QED
    BY <2>1 DEF Right
<1> QED
  BY <1>1, SoloInvariantHolds, PTL

(***************************************************************************)
(* The Java order, for any number of crashes of any process: a key set     *)
(* whose metadata can be read has at most one version without its key.     *)
(***************************************************************************)
THEOREM CrashCostsOneFileHolds ==
  ASSUME NEW a, Admin = {a}, ~MetaFirst
  PROVE  Spec => []CrashCostsOneFile
<1>1. SoloInv(a) => CrashCostsOneFile
  BY DEF SoloInv
<1> QED
  BY <1>1, SoloInvariantHolds, PTL

(***************************************************************************)
(* Without crashes, in either order: whenever no command is under way the  *)
(* directory holds the listed versions' keys and nothing else.             *)
(***************************************************************************)
THEOREM RestingDirectoryIsCleanHolds ==
  ASSUME NEW a, Admin = {a}, MaxCrashes = 0
  PROVE  Spec => []RestingDirectoryIsClean
<1>1. a \in Proc
  BY KeyczartAssumption DEF KeyczartAssumption
<1>2. IInv /\ SoloInv(a) => RestingDirectoryIsClean
  <2> SUFFICES ASSUME IInv, SoloInv(a), ~IsWriting(a) PROVE RestingDirectoryIsClean
    BY <1>1 DEF RestingDirectoryIsClean
  <2>1. NoLitter(a)
    BY DEF SoloInv
  <2>2. (\A v \in Version : keyfile[v] = NoFile) => keyfile = [v \in Version |-> NoFile]
    BY DEF IInv, TypeOK
  <2> QED
    BY <2>1, <2>2 DEF NoLitter, RestingDirectoryIsClean
<1> QED
  BY <1>2, InvariantHolds, SoloInvariantHolds, PTL
-------------------------------------------------------------------------------
(***************************************************************************)
(* The refinement: with one administrator and no crash, the files and the  *)
(* command that is writing them show a key set that changes at once.       *)
(*                                                                         *)
(* AtomicKeyset has the operators of Keyset under names of its own.        *)
(***************************************************************************)
LEMMA SameOperators ==
  /\ Atomic!Version = Version /\ Atomic!EmptyCzar = EmptyCzar /\ Atomic!Status = Status
  /\ \A cz, n : Atomic!IsNextVersion(cz, n) <=> IsNextVersion(cz, n)
  /\ \A cz, k : Atomic!IsFreshKey(cz, k) <=> IsFreshKey(cz, k)
  /\ \A cz, n, s, k : Atomic!Added(cz, n, s, k) = Added(cz, n, s, k)
  /\ \A cz, v : Atomic!CanPromote(cz, v) <=> CanPromote(cz, v)
  /\ \A cz, v : Atomic!CanDemote(cz, v) <=> CanDemote(cz, v)
  /\ \A cz, v : Atomic!CanRevoke(cz, v) <=> CanRevoke(cz, v)
  /\ \A cz, v : Atomic!Promoted(cz, v) = Promoted(cz, v)
  /\ \A cz, v : Atomic!Demoted(cz, v) = Demoted(cz, v)
  /\ \A l, s, k : Atomic!Rebuilt(l, s, k) = Rebuilt(l, s, k)
<1>1. /\ Atomic!Version = Version /\ Atomic!Status = Status
      /\ Atomic!NoVersion = NoVersion /\ Atomic!Absent = Absent
  BY DEF Atomic!Version, Version, Atomic!Status, Status, Atomic!NoVersion, NoVersion,
         Atomic!Absent, Absent
<1>2. \A cz : Atomic!Loaded(cz) = Loaded(cz)
  BY <1>1 DEF Atomic!Loaded, Loaded
<1>3. Atomic!EmptyCzar = EmptyCzar
  BY <1>1 DEF Atomic!EmptyCzar, EmptyCzar
<1>4. \A cz, n : Atomic!IsNextVersion(cz, n) <=> IsNextVersion(cz, n)
  BY <1>2 DEF Atomic!IsNextVersion, IsNextVersion
<1>5. \A cz, k : Atomic!IsFreshKey(cz, k) <=> IsFreshKey(cz, k)
  BY <1>2 DEF Atomic!IsFreshKey, IsFreshKey, Atomic!HasHash, HasHash
<1>6. \A cz : Atomic!DemotePrimary(cz) = DemotePrimary(cz)
  BY <1>2 DEF Atomic!DemotePrimary, DemotePrimary
<1>7. \A cz, n, s : Atomic!Reserved(cz, n, s) = Reserved(cz, n, s)
  BY <1>6 DEF Atomic!Reserved, Reserved
<1>8. \A cz, n, s, k : Atomic!Added(cz, n, s, k) = Added(cz, n, s, k)
  <2> TAKE cz, n, s, k
  <2>1. Atomic!Reserved(cz, n, s) = Reserved(cz, n, s)
    BY <1>7
  <2> DEFINE grown(r) == [r EXCEPT !.listed = @ \cup {n}, !.status[n] = s, !.key[n] = k]
  <2>2. Atomic!Added(cz, n, s, k) = grown(Atomic!Reserved(cz, n, s))
    BY DEF Atomic!Added
  <2>3. Added(cz, n, s, k) = grown(Reserved(cz, n, s))
    BY DEF Added
  <2> HIDE DEF grown
  <2> QED
    BY <2>1, <2>2, <2>3
<1>9. \A cz, v : Atomic!PromotedToPrimary(cz, v) = PromotedToPrimary(cz, v)
  BY <1>6 DEF Atomic!PromotedToPrimary, PromotedToPrimary
<1>10. \A cz, v : Atomic!Promoted(cz, v) = Promoted(cz, v)
  BY <1>9 DEF Atomic!Promoted, Promoted
<1>11. \A cz, v : Atomic!Demoted(cz, v) = Demoted(cz, v)
  BY <1>1 DEF Atomic!Demoted, Demoted
<1>12. \A l, s : Atomic!PrimaryOf(l, s) = PrimaryOf(l, s)
  BY <1>1 DEF Atomic!PrimaryOf, PrimaryOf
<1>13. \A l, s, k : Atomic!Rebuilt(l, s, k) = Rebuilt(l, s, k)
  BY <1>1, <1>12 DEF Atomic!Rebuilt, Rebuilt
<1>14. /\ \A cz, v : Atomic!CanPromote(cz, v) <=> CanPromote(cz, v)
       /\ \A cz, v : Atomic!CanDemote(cz, v) <=> CanDemote(cz, v)
       /\ \A cz, v : Atomic!CanRevoke(cz, v) <=> CanRevoke(cz, v)
  BY DEF Atomic!CanPromote, CanPromote, Atomic!CanDemote, CanDemote,
         Atomic!CanRevoke, CanRevoke
<1> QED
  BY <1>1, <1>3, <1>4, <1>5, <1>8, <1>10, <1>11, <1>13, <1>14

\* Keyczar.__init__ depends only on what the files say of listed versions.
LEMMA RebuiltAgrees ==
  ASSUME NEW L \in SUBSET Version, NEW s, NEW t, NEW j, NEW k,
         \A v \in L : s[v] = t[v] /\ j[v] = k[v], HasOnePrimary(L, s)
  PROVE  Rebuilt(L, s, j) = Rebuilt(L, t, k)
<1>1. HasOnePrimary(L, t)
  BY DEF HasOnePrimary
<1>2. PrimaryOf(L, s) = PrimaryOf(L, t)
  <2> DEFINE p == PrimaryOf(L, s)
             q == PrimaryOf(L, t)
  <2>1. p \in L \cup {NoVersion} /\ \A v \in L : s[v] = "PRIMARY" <=> p = v
    BY PrimaryOfFacts
  <2>2. q \in L \cup {NoVersion} /\ \A v \in L : t[v] = "PRIMARY" <=> q = v
    BY <1>1, PrimaryOfFacts
  <2> HIDE DEF p, q
  <2>3. p = q
    BY <2>1, <2>2
  <2> QED
    BY <2>3 DEF p, q
<1>3. /\ [v \in Version |-> IF v \in L THEN s[v] ELSE Absent]
           = [v \in Version |-> IF v \in L THEN t[v] ELSE Absent]
      /\ [v \in Version |-> IF v \in L THEN j[v] ELSE NoKey]
           = [v \in Version |-> IF v \in L THEN k[v] ELSE NoKey]
  OBVIOUS
<1> QED
  BY <1>2, <1>3 DEF Rebuilt

\* A key set as Keyczar.__init__ builds it: nothing of other versions is left.
Tidy(cz) ==
  /\ cz \in Czar /\ Sound(cz) /\ Anchored(cz)
  /\ \A v \in Version \ cz.listed : cz.status[v] = Absent /\ cz.key[v] = NoKey

\* Writing such a key set and reading it back gives it again.
LEMMA TidyIsRebuilt ==
  ASSUME NEW cz, Tidy(cz)
  PROVE  Rebuilt(cz.listed, cz.status, cz.key) = cz
<1>1. cz \in Czar /\ cz.listed \subseteq Version
  BY DEF Tidy, Czar
<1>2. HasOnePrimary(cz.listed, cz.status)
  BY DEF HasOnePrimary, Tidy, Sound
<1>3. PrimaryOf(cz.listed, cz.status) = cz.primary
  <2> DEFINE p == PrimaryOf(cz.listed, cz.status)
  <2>1. p \in cz.listed \cup {NoVersion} /\ \A v \in cz.listed : cz.status[v] = "PRIMARY" <=> p = v
    BY <1>1, <1>2, PrimaryOfFacts
  <2>2. \A v \in cz.listed : cz.status[v] = "PRIMARY" <=> cz.primary = v
    BY DEF Tidy, Sound
  <2>3. cz.primary \in cz.listed \cup {NoVersion}
    BY DEF Tidy, Anchored
  <2> HIDE DEF p
  <2>4. p = cz.primary
    BY <2>1, <2>2, <2>3
  <2> QED
    BY <2>4 DEF p
<1>4. cz.status \in [Version -> Status \cup {Absent}] /\ cz.key \in [Version -> Key \cup {NoKey}]
  BY <1>1 DEF Czar
<1>5. /\ [v \in Version |-> IF v \in cz.listed THEN cz.status[v] ELSE Absent] = cz.status
      /\ [v \in Version |-> IF v \in cz.listed THEN cz.key[v] ELSE NoKey] = cz.key
  BY <1>4 DEF Tidy
<1>6. cz = [listed |-> cz.listed, status |-> cz.status, key |-> cz.key, primary |-> cz.primary]
  BY <1>1 DEF Czar
<1> QED
  BY <1>3, <1>5, <1>6 DEF Rebuilt

(***************************************************************************)
(* The commands but revoke keep a key set tidy.                            *)
(***************************************************************************)
LEMMA AddedIsTidy ==
  ASSUME NEW cz, Tidy(cz), NEW n \in Version, IsNextVersion(cz, n),
         NEW s \in Status, NEW k \in Key, IsFreshKey(cz, k)
  PROVE  Tidy(Added(cz, n, s, k))
<1> DEFINE r == Reserved(cz, n, s)
           q == Added(cz, n, s, k)
<1>1. cz \in Czar /\ Sound(cz) /\ Anchored(cz)
  BY DEF Tidy
<1>2. q \in Czar /\ Sound(q) /\ Anchored(q)
  BY <1>1, AddedIsSound
<1>3. r \in Czar /\ r.listed = cz.listed /\ r.key = cz.key
  BY <1>1, ReservedIsSound
<1>4. \A v \in Version : v \notin Loaded(cz) => r.status[v] = cz.status[v]
  <2> DEFINE d == DemotePrimary(cz)
  <2>1. d \in Czar /\ \A v \in Version : v \notin Loaded(cz) => d.status[v] = cz.status[v]
    BY <1>1, DemotePrimaryFacts
  <2>2. r = IF s = "PRIMARY" THEN [d EXCEPT !.primary = n] ELSE cz
    BY DEF Reserved
  <2> HIDE DEF d, r
  <2>3. r.status = d.status \/ r = cz
    BY <2>1, <2>2 DEF Czar
  <2> QED
    BY <2>1, <2>3
<1>5. q = [r EXCEPT !.listed = @ \cup {n}, !.status[n] = s, !.key[n] = k]
  BY DEF Added
<1> HIDE DEF r, q
<1>6. /\ q.listed = cz.listed \cup {n}
      /\ \A v \in Version : v # n => q.status[v] = r.status[v] /\ q.key[v] = cz.key[v]
  BY <1>3, <1>5 DEF Czar
<1>7. ASSUME NEW v \in Version, v \notin q.listed
      PROVE  q.status[v] = Absent /\ q.key[v] = NoKey
  <2>1. v # n /\ v \notin cz.listed
    BY <1>6, <1>7
  <2>2. cz.status[v] = Absent /\ cz.key[v] = NoKey
    BY <2>1 DEF Tidy
  <2>3. v \notin Loaded(cz)
    BY <2>2 DEF Loaded
  <2> QED
    BY <1>4, <1>6, <2>1, <2>2, <2>3
<1>8. Tidy(q)
  BY <1>2, <1>7 DEF Tidy
<1> QED
  BY <1>8 DEF q

LEMMA PromotedIsTidy ==
  ASSUME NEW cz, Tidy(cz), NEW v \in Version, CanPromote(cz, v)
  PROVE  Tidy(Promoted(cz, v))
<1> DEFINE q == Promoted(cz, v)
           raised == [cz EXCEPT !.status[v] = "PRIMARY"]
           d == DemotePrimary(raised)
<1>1. cz \in Czar /\ Sound(cz) /\ Anchored(cz)
  BY DEF Tidy
<1>2. q \in Czar /\ Sound(q) /\ Anchored(q) /\ q.listed = cz.listed /\ q.key = cz.key
  BY <1>1, PromotedIsSound
<1>3. /\ raised \in Czar /\ raised.key = cz.key
      /\ \A w \in Version : w # v => raised.status[w] = cz.status[w]
  BY <1>1 DEF Czar, Status
<1>4. Loaded(raised) = Loaded(cz) /\ v \in Loaded(cz)
  BY <1>1, <1>3 DEF Loaded, CanPromote, Sound
<1>5. q = IF cz.status[v] = "ACTIVE" THEN [d EXCEPT !.primary = v]
          ELSE [cz EXCEPT !.status[v] = "ACTIVE"]
  BY DEF Promoted, PromotedToPrimary
<1> HIDE DEF raised
<1>6. d \in Czar /\ \A w \in Version : w \notin Loaded(raised) => d.status[w] = raised.status[w]
  BY <1>3, DemotePrimaryFacts
<1> HIDE DEF q, d
<1>7. \A w \in Version : w \notin Loaded(cz) => q.status[w] = cz.status[w]
  <2>1. CASE cz.status[v] = "ACTIVE"
    <3>1. q.status = d.status
      BY <1>5, <1>6, <2>1 DEF Czar
    <3> QED
      BY <1>3, <1>4, <1>6, <3>1
  <2>2. CASE cz.status[v] # "ACTIVE"
    <3>1. \A w \in Version : w # v => q.status[w] = cz.status[w]
      BY <1>1, <1>5, <2>2 DEF Czar
    <3> QED
      BY <1>4, <3>1
  <2> QED
    BY <2>1, <2>2
<1>8. \A w \in Version \ q.listed : q.status[w] = Absent /\ q.key[w] = NoKey
  BY <1>2, <1>7 DEF Tidy, Loaded
<1>9. Tidy(q)
  BY <1>2, <1>8 DEF Tidy
<1> QED
  BY <1>9 DEF q

LEMMA DemotedIsTidy ==
  ASSUME NEW cz, Tidy(cz), NEW v \in Version, CanDemote(cz, v)
  PROVE  Tidy(Demoted(cz, v))
<1> DEFINE q == Demoted(cz, v)
<1>1. cz \in Czar /\ Sound(cz) /\ Anchored(cz) /\ v \in cz.listed
  BY DEF Tidy, CanDemote
<1>2. q \in Czar /\ Sound(q) /\ Anchored(q) /\ q.listed = cz.listed /\ q.key = cz.key
  BY <1>1, DemotedIsSound
<1>3. \A w \in Version : w # v => q.status[w] = cz.status[w]
  <2>1. CASE cz.status[v] = "PRIMARY"
    BY <1>1, <2>1 DEF Demoted, Czar
  <2>2. CASE cz.status[v] # "PRIMARY"
    BY <1>1, <2>2 DEF Demoted, Czar
  <2> QED
    BY <2>1, <2>2
<1> HIDE DEF q
<1>4. \A w \in Version \ q.listed : q.status[w] = Absent /\ q.key[w] = NoKey
  BY <1>1, <1>2, <1>3 DEF Tidy
<1>5. Tidy(q)
  BY <1>2, <1>4 DEF Tidy
<1> QED
  BY <1>5 DEF q

(***************************************************************************)
(* The key set the administrator has loaded is the one on disk, to the     *)
(* letter.                                                                 *)
(***************************************************************************)
LEMMA LoadedIsOnDisk ==
  ASSUME NEW a \in Proc, IInv, SoloInv(a), IsLoaded(a)
  PROVE  Tidy(proc[a].czar) /\ OnDisk = proc[a].czar
<1> PICK pr : pr = proc[a]
  OBVIOUS
<1> PICK cz : cz = pr.czar
  OBVIOUS
<1>1. /\ pr \in ProcState /\ cz \in Czar /\ Sound(cz) /\ Anchored(cz)
      /\ IsReadable(meta)
      /\ cz.listed = ListedIn(meta) /\ Loaded(cz) = ListedIn(meta)
      /\ \A v \in ListedIn(meta) : keyfile[v] = ContentOf(pr, v)
  BY LoadedFacts
<1>2. /\ cz.status = Rebuilt(ListedIn(meta), meta.status, EmptyCzar.key).status
      /\ cz.primary = PrimaryOf(ListedIn(meta), meta.status)
  BY DEF SoloInv, ReadsDisk, IsLoaded
<1>3. cz.status = [v \in Version |-> IF v \in ListedIn(meta) THEN meta.status[v] ELSE Absent]
  BY <1>2 DEF Rebuilt
<1>4. \A v \in Version \ cz.listed : cz.status[v] = Absent /\ cz.key[v] = NoKey
  BY <1>1, <1>3 DEF Loaded
<1>5. Tidy(cz)
  BY <1>1, <1>4 DEF Tidy
<1>6. \A v \in ListedIn(meta) : IsReadable(keyfile[v]) /\ keyfile[v].key = cz.key[v]
  <2> SUFFICES ASSUME NEW v \in ListedIn(meta)
               PROVE  keyfile[v] \in KeyContent /\ keyfile[v].key = cz.key[v]
    BY FileAssumption DEF FileAssumption, IsReadable
  <2>1. cz.key[v] \in Key /\ pr.crypter \in BOOLEAN
    BY <1>1 DEF Loaded, Czar, ProcState
  <2>2. keyfile[v] = [key |-> cz.key[v], encrypted |-> pr.crypter]
    BY <1>1 DEF ContentOf
  <2> QED
    BY <2>1, <2>2 DEF KeyContent
<1>7. cz.key = [v \in Version |-> IF v \in ListedIn(meta)
                  THEN (IF IsReadable(keyfile[v]) THEN keyfile[v].key ELSE NoKey)
                  ELSE NoKey]
  BY <1>1, <1>4, <1>6 DEF Czar
<1>8. cz = [listed |-> cz.listed, status |-> cz.status, key |-> cz.key, primary |-> cz.primary]
  BY <1>1 DEF Czar
<1>9. OnDisk = Rebuilt(ListedIn(meta), meta.status,
                 [v \in Version |-> IF IsReadable(keyfile[v]) THEN keyfile[v].key ELSE NoKey])
  BY <1>1 DEF OnDisk
<1>10. [v \in Version |-> IF v \in ListedIn(meta)
         THEN [w \in Version |-> IF IsReadable(keyfile[w]) THEN keyfile[w].key ELSE NoKey][v]
         ELSE NoKey] = cz.key
  BY <1>7
<1>11. OnDisk = cz
  BY <1>1, <1>2, <1>3, <1>8, <1>9, <1>10 DEF Rebuilt
<1> QED
  BY <1>5, <1>11

(***************************************************************************)
(* What the abstract key set is when a is the only one who writes, in a    *)
(* state and in the next one.                                              *)
(***************************************************************************)
LEMMA SeenFacts ==
  ASSUME NEW a \in Proc, SoloInv(a)
  PROVE  LET cz == proc[a].czar IN
         /\ Writers # {} <=> IsWriting(a)
         /\ IsWriting(a) => /\ Seen = Rebuilt(cz.listed, cz.status, cz.key)
                            /\ SeenEncrypted = proc[a].crypter
         /\ ~IsWriting(a) => /\ Seen = OnDisk
                             /\ SeenEncrypted = (IsReadable(meta) /\ meta.encrypted)
<1>1. \A p \in Proc : p # a => ~IsWriting(p)
  BY DEF SoloInv, IsWriting
<1>2. Writers = IF IsWriting(a) THEN {a} ELSE {}
  BY <1>1 DEF Writers
<1>3. IsWriting(a) => Writer = proc[a]
  BY <1>2 DEF Writer
<1> QED
  BY <1>2, <1>3 DEF Seen, SeenEncrypted

LEMMA SeenNext ==
  ASSUME NEW a \in Proc, SoloInv(a)'
  PROVE  LET cz == proc'[a].czar IN
         /\ Writers' # {} <=> IsWriting(a)'
         /\ IsWriting(a)' => /\ Seen' = Rebuilt(cz.listed, cz.status, cz.key)
                             /\ SeenEncrypted' = proc'[a].crypter
         /\ ~IsWriting(a)' => /\ Seen' = OnDisk'
                              /\ SeenEncrypted' = (IsReadable(meta') /\ meta'.encrypted)
<1>1. \A p \in Proc : p # a => ~IsWriting(p)'
  BY DEF SoloInv, IsWriting
<1>2. Writers' = IF IsWriting(a)' THEN {a} ELSE {}
  BY <1>1 DEF Writers
<1>3. IsWriting(a)' => Writer' = proc'[a]
  BY <1>2 DEF Writer
<1> QED
  BY <1>2, <1>3 DEF Seen, SeenEncrypted

\* Steps that the administrator does not see: of readers, and from file to file.
LEMMA UnseenStep ==
  ASSUME NEW a \in Proc, SoloInv(a), SoloInv(a)',
         IsWriting(a)' <=> IsWriting(a),
         IsWriting(a) => proc'[a].czar = proc[a].czar /\ proc'[a].crypter = proc[a].crypter,
         ~IsWriting(a) => UNCHANGED <<meta, keyfile>>
  PROVE  UNCHANGED Atomic!vars
<1>1. CASE IsWriting(a)
  BY <1>1, SeenFacts, SeenNext DEF Atomic!vars
<1>2. CASE ~IsWriting(a)
  <2>1. OnDisk' = OnDisk /\ UNCHANGED meta
    BY <1>2 DEF OnDisk
  <2> QED
    BY <1>2, <2>1, SeenFacts, SeenNext DEF Atomic!vars
<1> QED
  BY <1>1, <1>2

(***************************************************************************)
(* The end of a command: what it was writing is what the files hold.       *)
(***************************************************************************)
LEMMA EndStep ==
  ASSUME NEW a \in Proc, IInv, SoloInv(a), SoloInv(a)', MaxCrashes = 0,
         IsWriting(a), ~IsWriting(a)', meta' = MetaOf(proc[a])
  PROVE  UNCHANGED Atomic!vars
<1> PICK pr : pr = proc[a]
  OBVIOUS
<1> PICK cz : cz = pr.czar
  OBVIOUS
<1> PICK m : m = MetaOf(pr)
  OBVIOUS
<1> PICK kf : kf = keyfile'
  OBVIOUS
<1>1. /\ pr \in ProcState /\ WritingWell(pr)
      /\ Loaded(cz) \subseteq Version /\ cz.listed \subseteq Loaded(cz)
  BY WriterFacts
<1>2. /\ IsReadable(m) /\ ListedIn(m) = cz.listed /\ m.encrypted = pr.crypter
      /\ \A v \in cz.listed : m.holds[v] = cz.key[v]
  BY <1>1, MetaOfFacts
<1>3. \A v \in cz.listed : m.status[v] = cz.status[v]
  BY <1>1 DEF MetaOf
<1>4. \A v \in cz.listed : kf[v] = [key |-> cz.key[v], encrypted |-> pr.crypter]
  <2>1. \A v \in cz.listed : Right(v)'
    BY <1>1, <1>2 DEF SoloInv, NoLitter, IsReadable
  <2> QED
    BY <1>2, <2>1 DEF Right
<1>5. \A v \in cz.listed : IsReadable(kf[v]) /\ kf[v].key = cz.key[v]
  <2> SUFFICES ASSUME NEW v \in cz.listed
               PROVE  kf[v] \in KeyContent /\ kf[v].key = cz.key[v]
    BY FileAssumption DEF FileAssumption, IsReadable
  <2>1. cz.key[v] \in Key /\ pr.crypter \in BOOLEAN
    BY <1>1 DEF Loaded, Czar, ProcState
  <2>2. kf[v] = [key |-> cz.key[v], encrypted |-> pr.crypter]
    BY <1>4
  <2> QED
    BY <2>1, <2>2 DEF KeyContent
<1> PICK k : k = [v \in Version |-> IF IsReadable(kf[v]) THEN kf[v].key ELSE NoKey]
  OBVIOUS
<1>6. \A v \in cz.listed : k[v] = cz.key[v]
  BY <1>1, <1>5
<1>7. OnDisk' = Rebuilt(cz.listed, m.status, k)
  BY <1>2 DEF OnDisk
<1>8. Rebuilt(cz.listed, cz.status, cz.key) = Rebuilt(cz.listed, m.status, k)
  <2>1. HasOnePrimary(cz.listed, cz.status)
    BY <1>1 DEF WritingWell, Sound, HasOnePrimary
  <2>2. cz.listed \in SUBSET Version
    BY <1>1
  <2> QED
    BY <1>3, <1>6, <2>1, <2>2, RebuiltAgrees
<1>9. Seen' = Seen
  BY <1>7, <1>8, SeenFacts, SeenNext
<1>10. SeenEncrypted' = SeenEncrypted
  <2>1. pr.crypter \in BOOLEAN
    BY <1>1 DEF ProcState
  <2> QED
    BY <1>2, <2>1, SeenFacts, SeenNext
<1>11. meta' # NoFile /\ Writers # {}
  BY <1>2, SeenFacts DEF IsReadable
<1> QED
  BY <1>9, <1>10, <1>11 DEF Atomic!vars

\* The start of a command shows the whole of its effect.
LEMMA StartStep ==
  ASSUME NEW a \in Proc, IInv, SoloInv(a), SoloInv(a)', NEW q, NEW removed,
         StartWrite(a, q, removed)
  PROVE  /\ IsWriting(a)' /\ Writers' # {}
         /\ Seen' = Rebuilt(q.listed, q.status, q.key) /\ SeenEncrypted' = proc[a].crypter
<1> PICK x : x = Writing(q, proc[a].crypter, removed)
  OBVIOUS
<1>1. proc'[a] = x
  BY DEF StartWrite, IInv, TypeOK
<1>2. x.pc = "write" /\ x.czar = q /\ x.crypter = proc[a].crypter
  BY WritingFacts
<1>3. IsWriting(a)'
  BY <1>1, <1>2 DEF IsWriting
<1> QED
  BY <1>1, <1>2, <1>3, SeenNext

\* What a command starts from.
LEMMA LoadedSeen ==
  ASSUME NEW a \in Proc, IInv, SoloInv(a), IsLoaded(a)
  PROVE  /\ Tidy(proc[a].czar) /\ Seen = proc[a].czar
         /\ meta # NoFile /\ proc[a].crypter \in BOOLEAN
         /\ \/ SeenEncrypted = proc[a].crypter
            \/ proc[a].czar.listed = {} /\ SeenEncrypted = FALSE
         /\ proc[a].crypter = FALSE => SeenEncrypted = FALSE
<1> PICK pr : pr = proc[a]
  OBVIOUS
<1>1. ~IsWriting(a)
  BY DEF IsLoaded, IsWriting
<1>2. Tidy(pr.czar) /\ Seen = pr.czar /\ SeenEncrypted = (IsReadable(meta) /\ meta.encrypted)
  BY <1>1, LoadedIsOnDisk, SeenFacts
<1>3. /\ IsReadable(meta) /\ pr \in ProcState /\ pr.czar.listed = ListedIn(meta)
      /\ \A v \in ListedIn(meta) : meta.encrypted = pr.crypter
  BY LoadedFacts
<1>4. meta.encrypted => pr.crypter
  BY DEF SoloInv, ReadsDisk, IsLoaded
<1>5. pr.crypter \in BOOLEAN /\ meta.encrypted \in BOOLEAN /\ meta # NoFile
  BY <1>3 DEF ProcState, IInv, TypeOK, MetaContent, IsReadable
<1> QED
  BY <1>2, <1>3, <1>4, <1>5

(***************************************************************************)
(* The commands are the actions of AtomicKeyset.                           *)
(***************************************************************************)
LEMMA CreateActs ==
  ASSUME NEW a \in Proc, IInv, SoloInv(a), SoloInv(a)', Create(a)
  PROVE  Atomic!Create
<1>1. /\ proc[a].pc = "idle" /\ meta = NoFile /\ ~IsReadable(meta)
      /\ StartWrite(a, EmptyCzar, NoVersion)
  BY DEF Create, IsReadable
<1>2. ~IsWriting(a)
  BY <1>1 DEF IsWriting
<1>3. Writers = {} /\ Seen = EmptyCzar /\ SeenEncrypted = FALSE
  BY <1>1, <1>2, SeenFacts DEF OnDisk
<1>4. proc[a].crypter = FALSE
  BY <1>1 DEF IInv, RunsWell
<1>5. Tidy(EmptyCzar)
  BY EmptyIsSound DEF Tidy, EmptyCzar
<1>6. Writers' # {} /\ Seen' = EmptyCzar /\ SeenEncrypted' = FALSE
  BY <1>1, <1>4, <1>5, StartStep, TidyIsRebuilt
<1> QED
  BY <1>1, <1>3, <1>6 DEF Atomic!Create

LEMMA AddKeyActs ==
  ASSUME NEW a \in Proc, IInv, SoloInv(a), SoloInv(a)', AddKey(a)
  PROVE  \E crypter \in BOOLEAN : Atomic!AddKey(crypter)
<1> PICK cz : cz = proc[a].czar
  OBVIOUS
<1> PICK c : c = proc[a].crypter
  OBVIOUS
<1>1. PICK n \in Version, s \in Status, k \in Key \ used :
        /\ IsNextVersion(cz, n)
        /\ IsFreshKey(cz, k)
        /\ StartWrite(a, Added(cz, n, s, k), NoVersion)
  BY DEF AddKey
<1>2. IsLoaded(a)
  BY DEF AddKey
<1>3. /\ Tidy(cz) /\ Seen = cz /\ meta # NoFile /\ c \in BOOLEAN
      /\ SeenEncrypted = c \/ (cz.listed = {} /\ SeenEncrypted = FALSE)
  BY <1>2, LoadedSeen
<1> PICK q : q = Added(cz, n, s, k)
  OBVIOUS
<1>4. Tidy(q)
  BY <1>1, <1>3, AddedIsTidy
<1>5. Writers' # {} /\ Seen' = q /\ SeenEncrypted' = c
  BY <1>1, <1>4, StartStep, TidyIsRebuilt
<1>6. /\ \E i \in Atomic!Version, t \in Atomic!Status, j \in Key :
           /\ Atomic!IsNextVersion(Seen, i)
           /\ Atomic!IsFreshKey(Seen, j)
           /\ Seen' = Atomic!Added(Seen, i, t, j)
  <2>1. k \in Key /\ n \in Atomic!Version /\ s \in Atomic!Status
    BY SameOperators
  <2>2. Atomic!IsNextVersion(Seen, n) /\ Atomic!IsFreshKey(Seen, k)
    BY <1>1, <1>3, SameOperators
  <2>3. Seen' = Atomic!Added(Seen, n, s, k)
    BY <1>3, <1>5, SameOperators
  <2> QED
    BY <2>1, <2>2, <2>3
<1>7. (Writers # {} \/ meta # NoFile) /\ ((Writers # {} \/ meta # NoFile)' <=> (Writers # {} \/ meta # NoFile))
  BY <1>3, <1>5
<1>8. Atomic!AddKey(c)
  BY <1>3, <1>5, <1>6, <1>7 DEF Atomic!AddKey
<1> QED
  BY <1>3, <1>8

\* promote, demote and revoke: an unencrypted key set is replaced.
LEMMA ChangeActs ==
  ASSUME NEW a \in Proc, IInv, SoloInv(a), SoloInv(a)', IsLoaded(a), ~proc[a].crypter,
         NEW q, NEW removed, StartWrite(a, q, removed)
  PROVE  Atomic!Change(Rebuilt(q.listed, q.status, q.key))
<1>1. meta # NoFile /\ SeenEncrypted = FALSE /\ proc[a].crypter = FALSE
  BY LoadedSeen
<1>2. /\ Writers' # {} /\ SeenEncrypted' = FALSE
      /\ Seen' = Rebuilt(q.listed, q.status, q.key)
  BY <1>1, StartStep
<1> QED
  BY <1>1, <1>2 DEF Atomic!Change

LEMMA CommandActs ==
  ASSUME NEW a \in Proc, IInv, SoloInv(a), SoloInv(a)', NEW p \in Proc, Admin = {a}, Command(p)
  PROVE  Atomic!Next \/ UNCHANGED Atomic!vars
<1> PICK cz : cz = proc[a].czar
  OBVIOUS
<1>1. ASSUME IsLoaded(p), Exit(p), UNCHANGED <<meta, keyfile, used, dead, crashes>>
      PROVE  UNCHANGED Atomic!vars
  <2>1. proc'[p] = Idle /\ \A q \in Proc : q # p => proc'[q] = proc[q]
    BY <1>1 DEF Exit, IInv, TypeOK
  <2>2. ~IsWriting(p) /\ ~IsWriting(p)'
    BY <1>1, <2>1, IdleAlong DEF IsLoaded, IsWriting
  <2>3. /\ IsWriting(a)' <=> IsWriting(a)
        /\ IsWriting(a) => proc'[a] = proc[a]
    BY <2>1, <2>2 DEF IsWriting
  <2> QED
    BY <1>1, <2>3, UnseenStep
<1>2. CASE Use(p)
  BY <1>1, <1>2 DEF Use
<1>3. CASE p = a /\ AddKey(a)
  BY <1>3, AddKeyActs DEF Atomic!Next
<1>4. IsLoaded(a) => Tidy(cz) /\ Seen = cz
  BY LoadedSeen
<1>5. ASSUME p = a, NEW v \in Version, Promote(a, v)
      PROVE  Atomic!Next \/ UNCHANGED Atomic!vars
  <2>1. CASE CanPromote(cz, v)
    <3> PICK q : q = Promoted(cz, v)
      OBVIOUS
    <3>1. IsLoaded(a) /\ ~proc[a].crypter /\ StartWrite(a, q, NoVersion)
      BY <1>5, <2>1 DEF Promote
    <3>2. Rebuilt(q.listed, q.status, q.key) = q
      BY <1>4, <2>1, <3>1, PromotedIsTidy, TidyIsRebuilt
    <3>3. Atomic!Change(q)
      <4>1. Atomic!Change(Rebuilt(q.listed, q.status, q.key))
        BY <3>1, ChangeActs
      <4> QED
        BY <3>2, <4>1
    <3>4. v \in Atomic!Version /\ Atomic!CanPromote(Seen, v) /\ q = Atomic!Promoted(Seen, v)
      BY <1>4, <2>1, <3>1, SameOperators
    <3>5. Atomic!Promote(v)
      BY <3>3, <3>4 DEF Atomic!Promote
    <3> QED
      BY <3>4, <3>5 DEF Atomic!Next
  <2> QED
    BY <1>1, <1>5, <2>1 DEF Promote
<1>6. ASSUME p = a, NEW v \in Version, Demote(a, v)
      PROVE  Atomic!Next \/ UNCHANGED Atomic!vars
  <2>1. CASE CanDemote(cz, v)
    <3> PICK q : q = Demoted(cz, v)
      OBVIOUS
    <3>1. IsLoaded(a) /\ ~proc[a].crypter /\ StartWrite(a, q, NoVersion)
      BY <1>6, <2>1 DEF Demote
    <3>2. Rebuilt(q.listed, q.status, q.key) = q
      BY <1>4, <2>1, <3>1, DemotedIsTidy, TidyIsRebuilt
    <3>3. Atomic!Change(q)
      <4>1. Atomic!Change(Rebuilt(q.listed, q.status, q.key))
        BY <3>1, ChangeActs
      <4> QED
        BY <3>2, <4>1
    <3>4. v \in Atomic!Version /\ Atomic!CanDemote(Seen, v) /\ q = Atomic!Demoted(Seen, v)
      BY <1>4, <2>1, <3>1, SameOperators
    <3>5. Atomic!Demote(v)
      BY <3>3, <3>4 DEF Atomic!Demote
    <3> QED
      BY <3>4, <3>5 DEF Atomic!Next
  <2> QED
    BY <1>1, <1>6, <2>1 DEF Demote
<1>7. ASSUME p = a, NEW v \in Version, Revoke(a, v)
      PROVE  Atomic!Next \/ UNCHANGED Atomic!vars
  <2>1. CASE CanRevoke(cz, v)
    <3> PICK q : q = Revoked(cz, v)
      OBVIOUS
    <3>1. IsLoaded(a) /\ ~proc[a].crypter /\ StartWrite(a, q, v)
      BY <1>7, <2>1 DEF Revoke
    <3>2. q.listed = cz.listed \ {v} /\ q.status = cz.status /\ q.key = cz.key
      BY <1>4, <3>1 DEF Tidy, Revoked, Czar
    <3>3. Atomic!Change(Rebuilt(q.listed, q.status, q.key))
      BY <3>1, ChangeActs
    <3>4. /\ v \in Atomic!Version /\ Atomic!CanRevoke(Seen, v)
          /\ Rebuilt(q.listed, q.status, q.key)
               = Atomic!Rebuilt(Seen.listed \ {v}, Seen.status, Seen.key)
      BY <1>4, <2>1, <3>1, <3>2, SameOperators
    <3>5. Atomic!Revoke(v)
      BY <3>3, <3>4 DEF Atomic!Revoke
    <3> QED
      BY <3>4, <3>5 DEF Atomic!Next
  <2> QED
    BY <1>1, <1>7, <2>1 DEF Revoke
<1> QED
  BY <1>2, <1>3, <1>5, <1>6, <1>7 DEF Command

\* The writing of the files is unseen, up to and including its end.
LEMMA WriteActs ==
  ASSUME NEW a \in Proc, IInv, SoloInv(a), SoloInv(a)', MaxCrashes = 0, NEW p \in Proc, Write(p)
  PROVE  UNCHANGED Atomic!vars
<1>1. proc[p].pc \in {"write", "remove"}
  <2>1. proc[p].open # NoneOpen => proc[p].pc = "write"
    BY DEF IInv, RunsWell
  <2> QED
    BY <2>1, NumbersApart DEF Write, OpenFile, FillMeta, FillKey, FillUnlinked, RemoveFile
<1>2. p = a /\ IsWriting(a)
  BY <1>1 DEF SoloInv, IsWriting
<1> PICK pr : pr = proc[a]
  OBVIOUS
<1>3. MetaAlong(pr) /\ OrderAlong(pr)
  BY <1>2, WriterFacts
<1>4. ASSUME NEW f \in File, pr.open = f, proc' = [proc EXCEPT ![a] = AfterFile(@)],
             pr.todo = {} => meta' = MetaOf(pr)
      PROVE  UNCHANGED Atomic!vars
  <2> PICK x : x = AfterFile(pr)
    OBVIOUS
  <2>1. /\ proc'[a] = x
        /\ \/ x.pc = "idle" /\ pr.todo = {}
           \/ x.pc \in {"write", "remove"} /\ x.czar = pr.czar /\ x.crypter = pr.crypter
    BY <1>4, FilledFacts
  <2>2. CASE x.pc = "idle" /\ pr.todo = {}
    <3>1. ~IsWriting(a)'
      BY <2>1, <2>2 DEF IsWriting
    <3> QED
      BY <1>2, <1>4, <2>2, <3>1, EndStep
  <2>3. CASE x.pc \in {"write", "remove"} /\ x.czar = pr.czar /\ x.crypter = pr.crypter
    <3>1. IsWriting(a)'
      BY <2>1, <2>3 DEF IsWriting
    <3> QED
      BY <1>2, <2>1, <2>3, <3>1, UnseenStep
  <2> QED
    BY <2>1, <2>2, <2>3
<1>5. ASSUME NEW f \in File, OpenFile(a, f) PROVE UNCHANGED Atomic!vars
  <2> PICK x : x = Opened(pr, f)
    OBVIOUS
  <2>1. proc'[a] = x /\ x.pc = "write" /\ x.czar = pr.czar /\ x.crypter = pr.crypter
    BY <1>5, OpenedFacts
  <2>2. IsWriting(a)'
    BY <2>1 DEF IsWriting
  <2> QED
    BY <1>2, <2>1, <2>2, UnseenStep
<1>6. CASE FillMeta(a)
  <2>1. /\ pr.open = Meta /\ proc' = [proc EXCEPT ![a] = AfterFile(@)]
        /\ meta' \in Outcomes(meta, MetaOf(pr))
    BY <1>6 DEF FillMeta
  <2>2. meta' = MetaOf(pr)
    <3>1. Meta \notin pr.todo
      BY <1>3, <2>1 DEF OrderAlong
    <3>2. meta = Torn
      BY <1>3, <2>1, <3>1 DEF MetaAlong
    <3> QED
      BY <2>1, <3>2 DEF Outcomes
  <2> QED
    BY <1>4, <2>1, <2>2, NumbersApart
<1>7. CASE FillKey(a)
  <2>1. /\ pr.open \in Version /\ proc' = [proc EXCEPT ![a] = AfterFile(@)] /\ UNCHANGED meta
    BY <1>7 DEF FillKey
  <2>2. pr.todo = {} => meta = MetaOf(pr)
    BY <1>3, <2>1, NumbersApart DEF MetaAlong
  <2>3. pr.open \in File
    BY <2>1, NumbersApart
  <2> QED
    BY <1>4, <2>1, <2>2, <2>3
<1>8. CASE RemoveFile(a)
  <2>1. pr.pc = "remove" /\ UNCHANGED meta /\ proc'[a] = Idle
    BY <1>8 DEF RemoveFile
  <2>2. ~IsWriting(a)'
    BY <2>1, IdleAlong DEF IsWriting
  <2>3. meta = MetaOf(pr)
    BY <1>3, <2>1, NumbersApart DEF OrderAlong, MetaAlong
  <2> QED
    BY <1>2, <2>1, <2>2, <2>3, EndStep
<1>9. ~FillUnlinked(a)
  BY <1>3 DEF OrderAlong, FillUnlinked
<1> QED
  BY <1>2, <1>5, <1>6, <1>7, <1>8, <1>9 DEF Write

\* Reading the files is unseen.
LEMMA ReadActs ==
  ASSUME NEW a \in Proc, IInv, SoloInv(a), SoloInv(a)', NEW p \in Proc,
         Load(p) \/ \E crypter \in CrypterFlags : ReadMeta(p, crypter)
  PROVE  UNCHANGED Atomic!vars
<1>1. PICK x : /\ proc' = [proc EXCEPT ![p] = x] /\ x.pc \in {"idle", "load"}
               /\ proc[p].pc \in {"idle", "load"} /\ UNCHANGED <<meta, keyfile>>
  <2>1. ASSUME NEW v \in Version, ReadKey(p, v)
        PROVE  \E x : /\ proc' = [proc EXCEPT ![p] = x] /\ x.pc \in {"idle", "load"}
                      /\ proc[p].pc \in {"idle", "load"} /\ UNCHANGED <<meta, keyfile>>
    <3>1. proc[p].pc = "load" /\ UNCHANGED <<meta, keyfile>> /\ proc[p] \in ProcState
      BY <2>1 DEF ReadKey, IInv, TypeOK
    <3>2. CASE Opens(keyfile[v], proc[p].crypter)
      <4> DEFINE x == Bound(proc[p], v, keyfile[v].key)
      <4>1. keyfile[v].key \in Key
        BY <3>2 DEF Opens, IsReadable, IInv, TypeOK, KeyContent
      <4>2. x.pc = "load"
        BY <3>1, <4>1, BoundFacts
      <4>3. proc' = [proc EXCEPT ![p] = x]
        BY <2>1, <3>2 DEF ReadKey, IInv, TypeOK
      <4> HIDE DEF x
      <4> QED
        BY <3>1, <4>2, <4>3
    <3>3. CASE ~Opens(keyfile[v], proc[p].crypter)
      <4>1. proc' = [proc EXCEPT ![p] = Idle]
        BY <2>1, <3>3 DEF ReadKey, Exit
      <4> QED
        BY <3>1, <4>1, IdleAlong
    <3> QED
      BY <3>2, <3>3
  <2>2. ASSUME NEW crypter \in CrypterFlags, ReadMeta(p, crypter)
        PROVE  \E x : /\ proc' = [proc EXCEPT ![p] = x] /\ x.pc \in {"idle", "load"}
                      /\ proc[p].pc \in {"idle", "load"} /\ UNCHANGED <<meta, keyfile>>
    <3> DEFINE x == Loading(meta, crypter)
    <3>1. x.pc = "load"
      BY DEF Loading
    <3>2. /\ proc[p].pc = "idle" /\ proc' = [proc EXCEPT ![p] = x] /\ UNCHANGED <<meta, keyfile>>
      BY <2>2 DEF ReadMeta
    <3> HIDE DEF x
    <3> QED
      BY <3>1, <3>2
  <2> QED
    BY <2>1, <2>2 DEF Load
<1>2. proc'[p] = x /\ \A q \in Proc : q # p => proc'[q] = proc[q]
  BY <1>1 DEF IInv, TypeOK
<1>3. /\ IsWriting(a)' <=> IsWriting(a)
      /\ IsWriting(a) => proc'[a] = proc[a]
  BY <1>1, <1>2 DEF IsWriting
<1> QED
  BY <1>1, <1>3, UnseenStep

(***************************************************************************)
(* With one administrator and no crash, every behaviour of the processes   *)
(* and their files, in either order of the files, is one of AtomicKeyset:  *)
(* a command takes effect as a whole or not at all.                        *)
(***************************************************************************)
THEOREM ActsAtomicallyHolds ==
  ASSUME NEW a, Admin = {a}, MaxCrashes = 0
  PROVE  Spec => ActsAtomically
<1>1. a \in Proc
  BY KeyczartAssumption DEF KeyczartAssumption
<1>2. Init => Atomic!Init
  <2> SUFFICES ASSUME Init PROVE Atomic!Init
    OBVIOUS
  <2>1. SoloInv(a) /\ proc[a].pc = "idle"
    BY <1>1, InitSolo, IdleAlong DEF Init
  <2>2. ~IsWriting(a) /\ meta = NoFile /\ ~IsReadable(meta)
    BY <2>1 DEF IsWriting, Init, IsReadable
  <2>3. Writers = {} /\ Seen = EmptyCzar /\ SeenEncrypted = FALSE
    BY <1>1, <2>1, <2>2, SeenFacts DEF OnDisk
  <2> QED
    BY <2>2, <2>3, SameOperators DEF Atomic!Init
<1>3. IInv /\ SoloInv(a) /\ SoloInv(a)' /\ [Next]_vars => [Atomic!Next]_(Atomic!vars)
  <2> SUFFICES ASSUME IInv, SoloInv(a), SoloInv(a)', [Next]_vars
               PROVE  Atomic!Next \/ UNCHANGED Atomic!vars
    OBVIOUS
  <2>1. CASE UNCHANGED vars
    <3>1. UNCHANGED <<meta, keyfile, proc>>
      BY <2>1 DEF vars
    <3>2. IsWriting(a)' <=> IsWriting(a)
      BY <3>1 DEF IsWriting
    <3> QED
      BY <1>1, <3>1, <3>2, UnseenStep
  <2>2. CASE Next
    <3>1. PICK p \in Proc : \/ p = a /\ Create(p)
                            \/ \E crypter \in CrypterFlags : ReadMeta(p, crypter)
                            \/ Load(p) \/ Command(p) \/ Write(p) \/ Crash(p)
      BY <2>2 DEF Next
    <3>2. ~Crash(p)
      BY DEF Crash, IInv, TypeOK
    <3>3. CASE p = a /\ Create(p)
      BY <1>1, <3>3, CreateActs DEF Atomic!Next
    <3> QED
      BY <1>1, <3>1, <3>2, <3>3, ReadActs, CommandActs, WriteActs
  <2> QED
    BY <2>1, <2>2
<1> QED
  BY <1>2, <1>3, InvariantHolds, SoloInvariantHolds, PTL DEF Spec, ActsAtomically, Atomic!Spec
===============================================================================
