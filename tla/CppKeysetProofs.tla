--------------------------- MODULE CppKeysetProofs ---------------------------
(***************************************************************************)
(* What the C++ tool's order of writes guarantees, for any number of       *)
(* processes, keys, version numbers, crashes and failed writes.            *)
(*                                                                         *)
(* The properties of CppKeyset speak of the files.  A step that fills a    *)
(* file keeps them only because of what was still to be written before it, *)
(* so the inductive invariant says of every pending version of the meta    *)
(* file what the properties say of the one on disk (IsWhole, Fits), how    *)
(* the pending versions follow each other (Follows) and how they lead to   *)
(* the key file at the end (Announces, KeyIsNew).  The tool's own copy of  *)
(* the metadata is the one on disk while it loads (LoadsRight).            *)
(***************************************************************************)
EXTENDS CppKeyset, KeysetProofs, SequenceTheorems

\* Metadata that Keyset::Read takes, with all numbers below the next one.
IsWhole(m) ==
  /\ m \in KeysetMetadata
  /\ HasOnePrimary(ListedIn(m), m.status)
  /\ \A v \in ListedIn(m) : v < m.next

\* Nothing that was given out in m is free in n, or listed anew.
Follows(m, n) ==
  /\ m.next <= n.next
  /\ \A v \in Version : v < m.next /\ m.status[v] = Absent => n.status[v] = Absent

\* Metadata against the key files and the revocations there have been.
Fits(m) ==
  /\ \A v \in ListedIn(m) : IsReadable(keyfile[v]) \/ v = m.next - 1
  /\ ~recreated => \A v \in gone : v < m.next /\ m.status[v] = Absent
  /\ failures = 0 /\ ~recreated =>
       \A v \in Version : IsReadable(keyfile[v]) => v < m.next

IsMetaWrite(w) == w.file = Meta /\ IsWhole(w.content)

IsKeyWrite(w) == w.file \in Version /\ w.content \in KeyContent

\* A command writes versions of the meta file and then at most one key file.
InOrder(ws) ==
  /\ Len(ws) >= 1
  /\ \A i \in 1 .. Len(ws) :
       IsMetaWrite(ws[i]) \/ (i = Len(ws) /\ IsKeyWrite(ws[i]))
  /\ \A i, j \in 1 .. Len(ws) :
       i < j /\ ws[j].file = Meta => Follows(ws[i].content, ws[j].content)

\* The last meta file before a key file gives out the key's number.
Announces(ws) ==
  ws[Len(ws)].file # Meta =>
    /\ \A i \in 1 .. Len(ws) - 1 : ws[i].content.next <= ws[Len(ws)].file + 1
    /\ Len(ws) > 1 => ws[Len(ws) - 1].content.next = ws[Len(ws)].file + 1

\* The key file at the end against the files on disk.
KeyIsNew(ws) ==
  ws[Len(ws)].file # Meta =>
    LET n == ws[Len(ws)].file IN
    /\ meta # NoFile
    /\ IsReadable(meta) => meta.next <= n + 1
    /\ failures = 0 /\ ~recreated => ~IsReadable(keyfile[n])
    /\ failures = 0 /\ Len(ws) = 1 => meta \in KeysetMetadata /\ meta.next = n + 1

WritesRight(pr) ==
  pr.pc = "write" =>
    /\ InOrder(pr.writes)
    /\ Announces(pr.writes)
    /\ \A i \in 1 .. Len(pr.writes) :
         pr.writes[i].file = Meta => Fits(pr.writes[i].content)
    /\ KeyIsNew(pr.writes)

\* What a process has read of the keys so far.
ReadRight(pr) ==
  pr.pc = "load" /\ failures = 0 /\ ~recreated =>
    \A v \in ListedIn(pr.metadata) \ pr.todo :
      IsReadable(keyfile[v]) /\ pr.keys[v] = keyfile[v].key

\* The tool is the only writer, so that nothing changes while it reads.
LoadsRight(pr) ==
  pr.pc = "load" =>
    /\ IsReadable(meta) /\ pr.metadata = meta
    /\ \A v \in ListedIn(pr.metadata) \ pr.todo : IsReadable(keyfile[v])

MetaRight ==
  /\ IsReadable(meta) => IsWhole(meta) /\ Fits(meta)
  /\ meta = NoFile => gone = {} /\ \A v \in Version : ~IsReadable(keyfile[v])

IInv ==
  /\ TypeOK
  /\ MetaRight
  /\ \A p \in Proc : ReadRight(proc[p])
  /\ \A p \in Proc \ {Admin} : proc[p].pc # "write"
  /\ LoadsRight(proc[Admin])
  /\ WritesRight(proc[Admin])
-------------------------------------------------------------------------------
(***************************************************************************)
(* The versions of the meta file that one command writes, when m was on    *)
(* disk before.                                                            *)
(***************************************************************************)
Chain(m, metas) ==
  /\ metas \in Seq(KeysetMetadata)
  /\ \A i \in 1 .. Len(metas) : IsWhole(metas[i]) /\ Follows(m, metas[i])
  /\ \A i, j \in 1 .. Len(metas) : i < j => Follows(metas[i], metas[j])

\* Numbers that are taken stay taken over any number of versions.
LEMMA FollowsIsTransitive ==
  ASSUME NEW a \in KeysetMetadata, NEW b \in KeysetMetadata, NEW c \in KeysetMetadata,
         Follows(a, b), Follows(b, c)
  PROVE  Follows(a, c)
<1>1. a.next \in Int /\ b.next \in Int /\ c.next \in Int
  BY KeysetAssumption DEF KeysetMetadata, KeysetAssumption
<1>2. \A v \in Version : v \in Int
  BY DEF Version
<1> QED
  BY <1>1, <1>2 DEF Follows

\* A version of the meta file can be written twice.
LEMMA FollowsIsReflexive ==
  ASSUME NEW a \in KeysetMetadata PROVE Follows(a, a)
BY KeysetAssumption DEF KeysetMetadata, Follows, KeysetAssumption

\* A command that writes no version of the meta file.
LEMMA EmptyChain ==
  ASSUME NEW m
  PROVE  Chain(m, <<>>) /\ Latest(m, <<>>) = m /\ Len(<<>>) = 0
BY DEF Chain, Latest

\* A command that writes one.
LEMMA SingleChain ==
  ASSUME NEW m, NEW c, IsWhole(c), Follows(m, c)
  PROVE  Chain(m, <<c>>) /\ Latest(m, <<c>>) = c /\ Len(<<c>>) = 1
<1>1. c \in KeysetMetadata
  BY DEF IsWhole
<1>2. <<c>> \in Seq(KeysetMetadata) /\ Len(<<c>>) = 1 /\ <<c>>[1] = c /\ <<c>> # <<>>
  BY <1>1
<1> QED
  BY <1>2 DEF Chain, Latest

\* The last version of a chain is one of it, or the one it started from.
LEMMA LatestFacts ==
  ASSUME NEW m, IsWhole(m), NEW s, Chain(m, s)
  PROVE  /\ IsWhole(Latest(m, s)) /\ Follows(m, Latest(m, s))
         /\ \A i \in 1 .. Len(s) : Follows(s[i], Latest(m, s))
<1>1. CASE s = <<>>
  <2>1. Latest(m, s) = m /\ Len(s) = 0
    BY <1>1 DEF Latest
  <2> QED
    BY <2>1, FollowsIsReflexive DEF IsWhole
<1>2. CASE s # <<>>
  <2>1. Latest(m, s) = s[Len(s)] /\ Len(s) \in 1 .. Len(s)
    BY <1>2 DEF Latest, Chain
  <2>2. Follows(s[Len(s)], s[Len(s)])
    BY <2>1, FollowsIsReflexive DEF Chain, IsWhole
  <2>3. \A i \in 1 .. Len(s) : i = Len(s) \/ i < Len(s)
    BY <2>1
  <2> QED
    BY <2>1, <2>2, <2>3 DEF Chain
<1> QED
  BY <1>1, <1>2

\* The steps of a command, one after the other.
LEMMA ChainConcat ==
  ASSUME NEW m, IsWhole(m), NEW s, Chain(m, s), NEW t, Chain(Latest(m, s), t)
  PROVE  /\ Chain(m, s \o t)
         /\ Latest(m, s \o t) = Latest(Latest(m, s), t)
         /\ Len(s \o t) = Len(s) + Len(t)
<1> DEFINE l == Latest(m, s)
           u == s \o t
<1>1. s \in Seq(KeysetMetadata) /\ t \in Seq(KeysetMetadata)
  BY DEF Chain
<1>2. u \in Seq(KeysetMetadata) /\ Len(u) = Len(s) + Len(t) /\ Len(s) \in Nat /\ Len(t) \in Nat
  BY <1>1
<1>3. \A i \in 1 .. Len(u) :
        \/ i \in 1 .. Len(s) /\ u[i] = s[i]
        \/ i - Len(s) \in 1 .. Len(t) /\ u[i] = t[i - Len(s)]
  BY <1>1, <1>2
<1>4. IsWhole(l) /\ Follows(m, l) /\ \A i \in 1 .. Len(s) : Follows(s[i], l)
  BY LatestFacts
<1> HIDE DEF l, u
<1>5. Chain(l, t)
  BY DEF l
<1>6. \A i \in 1 .. Len(s) : s[i] \in KeysetMetadata /\ IsWhole(s[i]) /\ Follows(m, s[i])
  BY DEF Chain, IsWhole
<1>7. \A i \in 1 .. Len(t) : t[i] \in KeysetMetadata /\ IsWhole(t[i]) /\ Follows(l, t[i])
  BY <1>5 DEF Chain, IsWhole
<1>8. l \in KeysetMetadata /\ m \in KeysetMetadata
  BY <1>4 DEF IsWhole
<1>9. \A i \in 1 .. Len(u) : IsWhole(u[i]) /\ Follows(m, u[i])
  <2>1. \A i \in 1 .. Len(t) : Follows(m, t[i])
    BY <1>4, <1>7, <1>8, FollowsIsTransitive
  <2> QED
    BY <1>3, <1>6, <1>7, <2>1
<1>10. \A i, j \in 1 .. Len(u) : i < j => Follows(u[i], u[j])
  <2> SUFFICES ASSUME NEW i \in 1 .. Len(u), NEW j \in 1 .. Len(u), i < j
               PROVE  Follows(u[i], u[j])
    OBVIOUS
  <2>1. CASE j \in 1 .. Len(s)
    <3>1. i \in 1 .. Len(s) /\ u[i] = s[i] /\ u[j] = s[j]
      BY <1>1, <1>2, <2>1 DEF u
    <3> QED
      BY <2>1, <3>1 DEF Chain
  <2>2. CASE j \notin 1 .. Len(s)
    <3>1. j - Len(s) \in 1 .. Len(t) /\ u[j] = t[j - Len(s)]
      BY <1>3, <2>2
    <3>2. CASE i \in 1 .. Len(s)
      <4>1. u[i] = s[i]
        BY <1>1, <1>2, <3>2 DEF u
      <4> QED
        BY <1>4, <1>6, <1>7, <1>8, <3>1, <3>2, <4>1, FollowsIsTransitive
    <3>3. CASE i \notin 1 .. Len(s)
      <4>1. i - Len(s) \in 1 .. Len(t) /\ u[i] = t[i - Len(s)]
        BY <1>3, <3>3
      <4>2. i - Len(s) < j - Len(s)
        BY <1>2
      <4> QED
        BY <1>5, <3>1, <4>1, <4>2 DEF Chain
    <3> QED
      BY <3>2, <3>3
  <2> QED
    BY <2>1, <2>2
<1>11. Latest(m, u) = Latest(l, t)
  <2>1. CASE t = <<>>
    <3>1. u = s
      BY <1>1, <2>1 DEF u
    <3> QED
      BY <2>1, <3>1 DEF Latest, l
  <2>2. CASE t # <<>>
    <3>1. Len(t) > 0
      BY <1>1, <2>2
    <3>2. u # <<>> /\ u[Len(u)] = t[Len(t)]
      BY <1>1, <1>2, <3>1 DEF u
    <3> QED
      BY <2>2, <3>2 DEF Latest
  <2> QED
    BY <2>1, <2>2
<1> QED
  BY <1>2, <1>9, <1>10, <1>11 DEF Chain, l, u

-------------------------------------------------------------------------------
(***************************************************************************)
(* Keyset's methods write chains.                                          *)
(***************************************************************************)
LEMMA WithStatusFacts ==
  ASSUME NEW m \in KeysetMetadata, NEW v \in Version, NEW s \in Status \cup {Absent}
  PROVE  LET c == WithStatus(m, v, s) IN
         /\ c \in KeysetMetadata
         /\ c.next = m.next
         /\ \A w \in Version : c.status[w] = IF w = v THEN s ELSE m.status[w]
BY DEF WithStatus, KeysetMetadata

\* A change of one listed version's status that adds no second primary.
LEMMA WithStatusIsWhole ==
  ASSUME NEW m, IsWhole(m), NEW v \in Version, NEW s \in Status \cup {Absent},
         m.status[v] # Absent,
         s = "PRIMARY" => \A w \in ListedIn(m) : m.status[w] # "PRIMARY"
  PROVE  LET c == WithStatus(m, v, s) IN
         IsWhole(c) /\ Follows(m, c) /\ c.next = m.next
<1> DEFINE c == WithStatus(m, v, s)
<1>1. /\ c \in KeysetMetadata
      /\ c.next = m.next
      /\ \A w \in Version : c.status[w] = IF w = v THEN s ELSE m.status[w]
  BY WithStatusFacts DEF IsWhole
<1> HIDE DEF c
<1>2. ListedIn(c) \subseteq ListedIn(m)
  BY <1>1 DEF ListedIn
<1>3. HasOnePrimary(ListedIn(c), c.status)
  BY <1>1, <1>2 DEF HasOnePrimary, IsWhole, ListedIn
<1>4. Follows(m, c)
  BY <1>1, FollowsIsReflexive DEF Follows, IsWhole
<1>5. IsWhole(c)
  BY <1>1, <1>2, <1>3 DEF IsWhole
<1> QED
  BY <1>1, <1>4, <1>5 DEF c

\* The version that DemotedPrimary leaves has no primary.
LEMMA DemotedPrimaryChain ==
  ASSUME NEW m, IsWhole(m)
  PROVE  LET d == DemotedPrimary(m)
             l == Latest(m, d)
         IN  /\ Chain(m, d) /\ IsWhole(l) /\ l.next = m.next
             /\ \A v \in ListedIn(l) : l.status[v] # "PRIMARY"
             /\ ListedIn(l) = ListedIn(m)
             /\ \A v \in Version : m.status[v] = "INACTIVE" => l.status[v] = "INACTIVE"
<1> DEFINE d == DemotedPrimary(m)
           c == WithStatus(m, PrimaryIn(m), "ACTIVE")
<1>1. ListedIn(m) \subseteq Version /\ m \in KeysetMetadata
  BY DEF ListedIn, IsWhole
<1>2. /\ PrimaryIn(m) \in ListedIn(m) \cup {NoVersion}
      /\ \A v \in ListedIn(m) : m.status[v] = "PRIMARY" <=> PrimaryIn(m) = v
  BY <1>1, PrimaryOfFacts DEF IsWhole, PrimaryIn
<1>3. CASE PrimaryIn(m) = NoVersion
  <2>1. d = <<>>
    BY <1>3 DEF DemotedPrimary
  <2>2. \A v \in ListedIn(m) : v # NoVersion
    BY <1>1 DEF Version, NoVersion
  <2> QED
    BY <1>2, <1>3, <2>1, <2>2, EmptyChain
<1>4. CASE PrimaryIn(m) # NoVersion
  <2>1. PrimaryIn(m) \in ListedIn(m) /\ PrimaryIn(m) \in Version
    BY <1>1, <1>2, <1>4
  <2>2. m.status[PrimaryIn(m)] = "PRIMARY"
    BY <1>2, <2>1
  <2>3. IsWhole(c) /\ Follows(m, c) /\ c.next = m.next
    BY <2>1, <2>2, WithStatusIsWhole DEF Status, Absent
  <2>4. \A w \in Version : c.status[w] = IF w = PrimaryIn(m) THEN "ACTIVE" ELSE m.status[w]
    BY <1>1, <2>1, WithStatusFacts DEF Status
  <2>5. d = <<c>>
    BY <1>4 DEF DemotedPrimary
  <2>6. Chain(m, d) /\ Latest(m, d) = c
    BY <2>3, <2>5, SingleChain
  <2>7. ListedIn(c) = ListedIn(m)
    BY <2>2, <2>4 DEF ListedIn, Absent
  <2>8. \A v \in ListedIn(c) : c.status[v] # "PRIMARY"
    BY <1>1, <1>2, <2>4, <2>7
  <2>9. \A v \in Version : m.status[v] = "INACTIVE" => c.status[v] = "INACTIVE"
    BY <2>2, <2>4
  <2> QED
    BY <2>3, <2>6, <2>7, <2>8, <2>9
<1> QED
  BY <1>3, <1>4

\* UpdateKeyStatus demotes the old primary before it writes the new one.
LEMMA PromoteKeyChain ==
  ASSUME NEW m, IsWhole(m), NEW v \in ListedIn(m), m.status[v] \in {"INACTIVE", "ACTIVE"}
  PROVE  LET metas == PromoteKey(m, v) IN
         Chain(m, metas) /\ Len(metas) >= 1 /\ Latest(m, metas).next = m.next
<1>1. v \in Version /\ m \in KeysetMetadata /\ m.status[v] # Absent
  BY DEF ListedIn, IsWhole
<1>2. CASE m.status[v] = "INACTIVE"
  <2> DEFINE c == WithStatus(m, v, "ACTIVE")
  <2>1. PromoteKey(m, v) = <<c>>
    BY <1>2 DEF PromoteKey
  <2>2. IsWhole(c) /\ Follows(m, c) /\ c.next = m.next
    BY <1>1, WithStatusIsWhole DEF Status
  <2> HIDE DEF c
  <2>3. Chain(m, <<c>>) /\ Latest(m, <<c>>) = c /\ Len(<<c>>) = 1
    BY <2>2, SingleChain
  <2> QED
    BY <2>1, <2>2, <2>3
<1>3. CASE m.status[v] # "INACTIVE"
  <2> DEFINE d == DemotedPrimary(m)
             l == Latest(m, d)
             c == WithStatus(l, v, "PRIMARY")
  <2>1. PromoteKey(m, v) = Append(d, c)
    BY <1>3 DEF PromoteKey
  <2>2. /\ Chain(m, d) /\ IsWhole(l) /\ l.next = m.next
        /\ \A w \in ListedIn(l) : l.status[w] # "PRIMARY"
        /\ ListedIn(l) = ListedIn(m)
    BY DemotedPrimaryChain
  <2>3. l.status[v] # Absent
    BY <2>2 DEF ListedIn
  <2> HIDE DEF d, l
  <2>4. IsWhole(c) /\ Follows(l, c) /\ c.next = l.next
    BY <1>1, <2>2, <2>3, WithStatusIsWhole DEF Status
  <2> HIDE DEF c
  <2>5. Chain(l, <<c>>) /\ Latest(l, <<c>>) = c /\ Len(<<c>>) = 1
    BY <2>4, SingleChain
  <2>6. Append(d, c) = d \o <<c>>
    BY <2>2, <2>4, AppendIsConcat DEF Chain, IsWhole
  <2>7. /\ Chain(m, d \o <<c>>)
        /\ Latest(m, d \o <<c>>) = Latest(l, <<c>>)
        /\ Len(d \o <<c>>) = Len(d) + Len(<<c>>)
    BY <2>2, <2>5, ChainConcat DEF l
  <2>8. Len(d) \in Nat
    BY <2>2 DEF Chain
  <2> QED
    BY <2>1, <2>2, <2>4, <2>5, <2>6, <2>7, <2>8
<1> QED
  BY <1>2, <1>3

\* DemoteKey writes the meta file once.
LEMMA DemoteKeyChain ==
  ASSUME NEW m, IsWhole(m), NEW v \in ListedIn(m)
  PROVE  LET metas == DemoteKey(m, v) IN
         Chain(m, metas) /\ Len(metas) >= 1 /\ Latest(m, metas).next = m.next
<1> DEFINE s == IF m.status[v] = "PRIMARY" THEN "ACTIVE" ELSE "INACTIVE"
           c == WithStatus(m, v, s)
<1>1. v \in Version /\ m.status[v] # Absent
  BY DEF ListedIn
<1>2. s \in Status /\ s # "PRIMARY"
  BY DEF Status
<1>3. DemoteKey(m, v) = <<c>>
  BY DEF DemoteKey
<1> HIDE DEF s
<1>4. IsWhole(c) /\ Follows(m, c) /\ c.next = m.next
  BY <1>1, <1>2, WithStatusIsWhole
<1> HIDE DEF c
<1>5. Chain(m, <<c>>) /\ Latest(m, <<c>>) = c /\ Len(<<c>>) = 1
  BY <1>4, SingleChain
<1> QED
  BY <1>3, <1>4, <1>5

\* RevokeKey takes the version out and leaves nextKeyVersionNumber alone.
LEMMA RevokeKeyChain ==
  ASSUME NEW m, IsWhole(m), NEW v \in ListedIn(m)
  PROVE  LET metas == RevokeKey(m, v) IN
         Chain(m, metas) /\ Len(metas) >= 1 /\ Latest(m, metas).next = m.next
<1> DEFINE c == WithStatus(m, v, Absent)
<1>1. v \in Version /\ m.status[v] # Absent
  BY DEF ListedIn
<1>2. RevokeKey(m, v) = <<c>>
  BY DEF RevokeKey
<1>3. IsWhole(c) /\ Follows(m, c) /\ c.next = m.next
  BY <1>1, WithStatusIsWhole DEF Absent
<1> HIDE DEF c
<1>4. Chain(m, <<c>>) /\ Latest(m, <<c>>) = c /\ Len(<<c>>) = 1
  BY <1>3, SingleChain
<1> QED
  BY <1>2, <1>3, <1>4

\* A key set that is marked as encrypted.
LEMMA SetEncryptedChain ==
  ASSUME NEW m, IsWhole(m)
  PROVE  LET e == SetEncrypted(m) IN
         /\ IsWhole(e) /\ e.next = m.next
         /\ Chain(m, <<e>>) /\ Latest(m, <<e>>) = e /\ Len(<<e>>) = 1
<1> DEFINE e == SetEncrypted(m)
<1>1. /\ e \in KeysetMetadata /\ e.next = m.next /\ e.status = m.status
  BY DEF SetEncrypted, IsWhole, KeysetMetadata
<1> HIDE DEF e
<1>2. ListedIn(e) = ListedIn(m)
  BY <1>1 DEF ListedIn
<1>3. IsWhole(e)
  BY <1>1, <1>2 DEF IsWhole
<1>4. Follows(m, e)
  BY <1>1, FollowsIsReflexive DEF Follows, IsWhole
<1>5. Chain(m, <<e>>) /\ Latest(m, <<e>>) = e /\ Len(<<e>>) = 1
  BY <1>3, <1>4, SingleChain
<1> QED
  BY <1>1, <1>3, <1>5 DEF e

\* AddVersion gives out a number that no version has had.
LEMMA AddKeyVersionChain ==
  ASSUME NEW m, IsWhole(m), m.next <= MaxVersion, NEW s \in Status,
         s = "PRIMARY" => \A w \in ListedIn(m) : m.status[w] # "PRIMARY"
  PROVE  LET metas == AddKeyVersion(m, s) IN
         Chain(m, metas) /\ Len(metas) >= 1 /\ Latest(m, metas).next = m.next + 1
<1> DEFINE c == [m EXCEPT !.status[m.next] = s, !.next = @ + 1]
           n == m.next
<1>1. n \in Version /\ n + 1 \in 1 .. MaxVersion + 1 /\ m \in KeysetMetadata
  BY KeysetAssumption DEF IsWhole, KeysetMetadata, Version, KeysetAssumption
<1>2. /\ c \in KeysetMetadata
      /\ c.next = n + 1
      /\ \A w \in Version : c.status[w] = IF w = n THEN s ELSE m.status[w]
  BY <1>1 DEF KeysetMetadata
<1>3. AddKeyVersion(m, s) = IF s = "PRIMARY" THEN <<c, c>> ELSE <<c>>
  BY DEF AddKeyVersion
<1> HIDE DEF c
<1>4. ListedIn(c) = ListedIn(m) \cup {n} /\ n \notin ListedIn(m)
  BY <1>1, <1>2 DEF ListedIn, IsWhole, Version, Status, Absent
<1>5. IsWhole(c)
  <2>1. HasOnePrimary(ListedIn(c), c.status)
    BY <1>1, <1>2, <1>4 DEF HasOnePrimary, IsWhole, ListedIn
  <2>2. \A v \in ListedIn(c) : v < c.next
    BY <1>1, <1>2, <1>4 DEF IsWhole, Version, ListedIn
  <2> QED
    BY <1>2, <2>1, <2>2 DEF IsWhole
<1>6. Follows(m, c)
  BY <1>1, <1>2 DEF Follows, Version
<1>7. Chain(m, <<c>>) /\ Latest(m, <<c>>) = c /\ Len(<<c>>) = 1
  BY <1>5, <1>6, SingleChain
<1>8. CASE s = "PRIMARY"
  <2>1. Chain(c, <<c>>) /\ Latest(c, <<c>>) = c
    BY <1>2, <1>5, SingleChain, FollowsIsReflexive
  <2>2. <<c, c>> = <<c>> \o <<c>>
    OBVIOUS
  <2>3. Chain(m, <<c>> \o <<c>>) /\ Latest(m, <<c>> \o <<c>>) = c /\ Len(<<c>> \o <<c>>) = 2
    BY <1>7, <2>1, ChainConcat
  <2>4. AddKeyVersion(m, s) = <<c>> \o <<c>>
    BY <1>3, <1>8, <2>2
  <2> QED
    BY <1>2, <2>3, <2>4
<1>9. CASE s # "PRIMARY"
  BY <1>2, <1>3, <1>7, <1>9
<1> QED
  BY <1>8, <1>9

\* GenerateKey and ImportPrivateKey mark, demote and add, in this order.
LEMMA AddedMetasChain ==
  ASSUME NEW m, IsWhole(m), m.next <= MaxVersion, NEW s \in Status, NEW crypter \in BOOLEAN
  PROVE  LET metas == AddedMetas(m, crypter, s) IN
         Chain(m, metas) /\ Len(metas) >= 1 /\ Latest(m, metas).next = m.next + 1
<1> DEFINE e == SetEncrypted(m)
           marked == IF crypter THEN <<e>> ELSE <<>>
           start == Latest(m, marked)
           demoted == IF s = "PRIMARY" THEN DemotedPrimary(start) ELSE <<>>
           last == Latest(start, demoted)
           added == AddKeyVersion(last, s)
<1>1. AddedMetas(m, crypter, s) = (marked \o demoted) \o added
  BY DEF AddedMetas
<1>2. Chain(m, marked) /\ IsWhole(start) /\ start.next = m.next
  <2>1. CASE crypter
    <3>1. IsWhole(e) /\ e.next = m.next /\ Chain(m, <<e>>) /\ Latest(m, <<e>>) = e
      BY SetEncryptedChain
    <3>2. marked = <<e>>
      BY <2>1
    <3> HIDE DEF e, marked
    <3> QED
      BY <3>1, <3>2
  <2>2. CASE ~crypter
    <3>1. marked = <<>>
      BY <2>2
    <3> HIDE DEF marked
    <3> QED
      BY <3>1, EmptyChain
  <2> QED
    BY <2>1, <2>2
<1> HIDE DEF marked, e
<1>3. /\ Chain(start, demoted) /\ IsWhole(last) /\ last.next = start.next
      /\ s = "PRIMARY" => \A w \in ListedIn(last) : last.status[w] # "PRIMARY"
  <2> HIDE DEF start
  <2>1. CASE s = "PRIMARY"
    <3>1. demoted = DemotedPrimary(start)
      BY <2>1
    <3> HIDE DEF demoted
    <3> QED
      BY <1>2, <3>1, DemotedPrimaryChain
  <2>2. CASE s # "PRIMARY"
    <3>1. demoted = <<>>
      BY <2>2
    <3> HIDE DEF demoted
    <3> QED
      BY <1>2, <2>2, <3>1, EmptyChain
  <2> QED
    BY <2>1, <2>2
<1> HIDE DEF demoted
<1>4. Chain(last, added) /\ Len(added) >= 1 /\ Latest(last, added).next = last.next + 1
  <2> HIDE DEF last
  <2> QED
    BY <1>2, <1>3, AddKeyVersionChain
<1> HIDE DEF added
<1>5. /\ Chain(m, marked \o demoted)
      /\ Latest(m, marked \o demoted) = last
      /\ Len(marked \o demoted) \in Nat
  <2>1. /\ Chain(m, marked \o demoted)
        /\ Latest(m, marked \o demoted) = last
    BY <1>2, <1>3, ChainConcat
  <2> QED
    BY <2>1 DEF Chain
<1> HIDE DEF last, start
<1>6. /\ Chain(m, (marked \o demoted) \o added)
      /\ Latest(m, (marked \o demoted) \o added) = Latest(last, added)
      /\ Len((marked \o demoted) \o added) = Len(marked \o demoted) + Len(added)
  BY <1>4, <1>5, ChainConcat
<1>7. Len(added) \in Nat
  BY <1>4 DEF Chain
<1> QED
  BY <1>1, <1>2, <1>3, <1>4, <1>5, <1>6, <1>7

-------------------------------------------------------------------------------
(***************************************************************************)
(* The writes that a command starts with.                                  *)
(***************************************************************************)
LEMMA MetaWritesFacts ==
  ASSUME NEW m, NEW metas, Chain(m, metas)
  PROVE  LET ws == MetaWrites(metas) IN
         /\ ws \in Seq(Write) /\ Len(ws) = Len(metas)
         /\ \A i \in 1 .. Len(metas) : ws[i].file = Meta /\ ws[i].content = metas[i]
<1> DEFINE ws == MetaWrites(metas)
<1>1. metas \in Seq(KeysetMetadata) /\ DOMAIN metas = 1 .. Len(metas) /\ Len(metas) \in Nat
  BY DEF Chain
<1>2. ws = [i \in 1 .. Len(metas) |-> [file |-> Meta, content |-> metas[i]]]
  BY <1>1 DEF MetaWrites
<1>3. \A i \in 1 .. Len(metas) : [file |-> Meta, content |-> metas[i]] \in Write
  BY <1>1, KeysetAssumption DEF Write, File, Meta, KeysetAssumption
<1>4. ws \in Seq(Write)
  BY <1>1, <1>2, <1>3, IsASeq
<1>5. Len(ws) = Len(metas)
  BY <1>1, <1>2, <1>4
<1> QED
  BY <1>2, <1>4, <1>5

\* promote, demote, revoke and create write the meta file only.
LEMMA MetaWritesInOrder ==
  ASSUME NEW m, NEW metas, Chain(m, metas), Len(metas) >= 1
  PROVE  LET ws == MetaWrites(metas) IN
         InOrder(ws) /\ Announces(ws) /\ ws[Len(ws)].file = Meta
<1> DEFINE ws == MetaWrites(metas)
<1>1. /\ ws \in Seq(Write) /\ Len(ws) = Len(metas)
      /\ \A i \in 1 .. Len(metas) : ws[i].file = Meta /\ ws[i].content = metas[i]
  BY MetaWritesFacts
<1> HIDE DEF ws
<1>2. InOrder(ws)
  BY <1>1 DEF InOrder, IsMetaWrite, Chain
<1>3. ws[Len(ws)].file = Meta
  BY <1>1
<1> QED
  BY <1>2, <1>3 DEF Announces, ws

\* addkey and importkey end with the key file.
LEMMA AddWritesInOrder ==
  ASSUME NEW m, IsWhole(m), m.next <= MaxVersion, NEW s \in Status, NEW crypter \in BOOLEAN,
         NEW k \in Key
  PROVE  LET ws == AddWrites(m, crypter, s, k) IN
         /\ ws \in Seq(Write) /\ InOrder(ws) /\ Announces(ws)
         /\ Len(ws) > 1 /\ ws[Len(ws)].file = m.next
         /\ \A i \in 1 .. Len(ws) - 1 :
              /\ ws[i].file = Meta /\ IsWhole(ws[i].content)
              /\ Follows(m, ws[i].content) /\ ws[i].content.next <= m.next + 1
<1> DEFINE metas == AddedMetas(m, crypter, s)
           mw == MetaWrites(metas)
           w == [file |-> m.next, content |-> [key |-> k, encrypted |-> crypter]]
           ws == AddWrites(m, crypter, s, k)
<1>1. Chain(m, metas) /\ Len(metas) >= 1 /\ Latest(m, metas).next = m.next + 1
  BY AddedMetasChain
<1>2. m.next \in Version
  BY DEF IsWhole, KeysetMetadata, Version
<1>3. w \in Write /\ IsKeyWrite(w) /\ w.file = m.next
  BY <1>2 DEF Write, File, IsKeyWrite, KeyContent, Version
<1>4. ws = mw \o <<w>>
  BY DEF AddWrites, KeyWrite
<1> HIDE DEF metas, w, ws
<1>5. /\ mw \in Seq(Write) /\ Len(mw) = Len(metas)
      /\ \A i \in 1 .. Len(metas) : mw[i].file = Meta /\ mw[i].content = metas[i]
  BY <1>1, MetaWritesFacts
<1> HIDE DEF mw
<1>6. Len(metas) \in Nat
  BY <1>1 DEF Chain
<1>7. /\ ws \in Seq(Write) /\ Len(ws) = Len(metas) + 1 /\ ws[Len(ws)] = w
      /\ \A i \in 1 .. Len(metas) : ws[i] = mw[i]
  <2>1. <<w>> \in Seq(Write) /\ Len(<<w>>) = 1 /\ <<w>>[1] = w
    BY <1>3
  <2> QED
    BY <1>4, <1>5, <1>6, <2>1, ConcatProperties
<1>8. \A i \in 1 .. Len(metas) :
        /\ IsWhole(metas[i]) /\ metas[i] \in KeysetMetadata /\ Follows(m, metas[i])
        /\ metas[i].next <= m.next + 1
  BY <1>1, LatestFacts DEF Chain, IsWhole, Follows
<1>9. InOrder(ws)
  <2>1. \A i \in 1 .. Len(ws) : i \in 1 .. Len(metas) \/ i = Len(ws)
    BY <1>6, <1>7
  <2>2. \A i \in 1 .. Len(ws) : IsMetaWrite(ws[i]) \/ (i = Len(ws) /\ IsKeyWrite(ws[i]))
    BY <1>3, <1>5, <1>7, <1>8, <2>1 DEF IsMetaWrite
  <2>3. m.next # Meta
    BY <1>2 DEF Version, Meta
  <2>4. \A i, j \in 1 .. Len(ws) :
          i < j /\ ws[j].file = Meta => i \in 1 .. Len(metas) /\ j \in 1 .. Len(metas)
    BY <1>3, <1>6, <1>7, <2>1, <2>3
  <2>5. \A i, j \in 1 .. Len(metas) : i < j => Follows(metas[i], metas[j])
    BY <1>1 DEF Chain
  <2>6. \A i \in 1 .. Len(metas) : ws[i].content = metas[i]
    BY <1>5, <1>7
  <2>7. \A i, j \in 1 .. Len(ws) :
          i < j /\ ws[j].file = Meta => Follows(ws[i].content, ws[j].content)
    BY <2>4, <2>5, <2>6
  <2> QED
    BY <1>6, <1>7, <2>2, <2>7 DEF InOrder
<1>10. Announces(ws)
  <2>1. Latest(m, metas) = metas[Len(metas)]
    BY <1>1 DEF Latest, Chain
  <2>2. Len(ws) - 1 = Len(metas) /\ Len(metas) \in 1 .. Len(metas)
    BY <1>1, <1>6, <1>7
  <2>3. ws[Len(ws) - 1].content = metas[Len(metas)]
    BY <1>5, <1>7, <2>2
  <2>4. ws[Len(ws) - 1].content.next = m.next + 1
    BY <1>1, <2>1, <2>3
  <2>5. \A i \in 1 .. Len(ws) - 1 : ws[i].content.next <= m.next + 1
    BY <1>5, <1>7, <1>8, <2>2
  <2> QED
    BY <1>3, <1>7, <2>4, <2>5 DEF Announces
<1> QED
  BY <1>1, <1>3, <1>5, <1>6, <1>7, <1>8, <1>9, <1>10 DEF ws

\* What is left after a write.
LEMMA TailInOrder ==
  ASSUME NEW ws \in Seq(Write), InOrder(ws), Announces(ws), Len(ws) # 1
  PROVE  LET t == Tail(ws) IN
         /\ t \in Seq(Write) /\ Len(t) = Len(ws) - 1
         /\ \A i \in 1 .. Len(t) : t[i] = ws[i + 1]
         /\ InOrder(t) /\ Announces(t)
         /\ t[Len(t)] = ws[Len(ws)]
<1> DEFINE t == Tail(ws)
<1>1. Len(ws) \in Nat /\ Len(ws) > 1
  <2>1. Len(ws) >= 1
    BY DEF InOrder
  <2>2. Len(ws) \in Nat
    OBVIOUS
  <2>3. \A n \in Nat : n >= 1 /\ n # 1 => n > 1
    OBVIOUS
  <2> QED
    BY <2>1, <2>2, <2>3
<1>2. t \in Seq(Write) /\ Len(t) = Len(ws) - 1 /\ \A i \in 1 .. Len(t) : t[i] = ws[i + 1]
  BY <1>1
<1> HIDE DEF t
<1>3. t[Len(t)] = ws[Len(ws)] /\ Len(t) >= 1
  BY <1>1, <1>2
<1>4. \A i \in 1 .. Len(t) : i + 1 \in 1 .. Len(ws) /\ (i + 1 = Len(ws) => i = Len(t))
  BY <1>1, <1>2
<1>5. InOrder(t)
  <2>1. \A i \in 1 .. Len(t) : IsMetaWrite(t[i]) \/ (i = Len(t) /\ IsKeyWrite(t[i]))
    BY <1>2, <1>4 DEF InOrder
  <2>2. \A i, j \in 1 .. Len(t) :
          i < j /\ t[j].file = Meta => Follows(t[i].content, t[j].content)
    <3> SUFFICES ASSUME NEW i \in 1 .. Len(t), NEW j \in 1 .. Len(t), i < j, t[j].file = Meta
                 PROVE  Follows(t[i].content, t[j].content)
      OBVIOUS
    <3>1. i + 1 < j + 1 /\ t[i] = ws[i + 1] /\ t[j] = ws[j + 1]
      BY <1>2
    <3> QED
      BY <1>4, <3>1 DEF InOrder
  <2> QED
    BY <1>3, <2>1, <2>2 DEF InOrder
<1>6. Announces(t)
  <2>1. \A i \in 1 .. Len(t) - 1 : i \in 1 .. Len(t) /\ i + 1 \in 1 .. Len(ws) - 1
    BY <1>1, <1>2
  <2>2. Len(t) > 1 => t[Len(t) - 1] = ws[Len(ws) - 1]
    BY <1>1, <1>2
  <2> QED
    BY <1>1, <1>2, <1>3, <2>1, <2>2 DEF Announces
<1> QED
  BY <1>2, <1>3, <1>5, <1>6 DEF t

\* The head of the pending writes is a meta file, or it is all there is.
LEMMA HeadFacts ==
  ASSUME NEW ws \in Seq(Write), InOrder(ws)
  PROVE  /\ Head(ws) = ws[1] /\ 1 \in 1 .. Len(ws)
         /\ \/ Head(ws).file = Meta /\ IsWhole(Head(ws).content)
            \/ Head(ws).file # Meta /\ Len(ws) = 1 /\ IsKeyWrite(Head(ws))
<1>1. Len(ws) \in Nat /\ Len(ws) >= 1 /\ ws # <<>>
  <2>1. Len(ws) >= 1
    BY DEF InOrder
  <2> QED
    BY <2>1
<1>2. Head(ws) = ws[1] /\ 1 \in 1 .. Len(ws)
  BY <1>1
<1>3. IsMetaWrite(ws[1]) \/ (1 = Len(ws) /\ IsKeyWrite(ws[1]))
  BY <1>2 DEF InOrder
<1> QED
  BY <1>2, <1>3 DEF IsMetaWrite, IsKeyWrite, Version, Meta

-------------------------------------------------------------------------------
(***************************************************************************)
(* What the commands write fits what is on disk.                           *)
(***************************************************************************)
LEMMA FollowerFits ==
  ASSUME TypeOK, NEW m, IsWhole(m), Fits(m), NEW c, IsWhole(c), Follows(m, c),
         c.next <= m.next + 1,
         c.next = m.next \/ \A v \in ListedIn(m) : IsReadable(keyfile[v])
  PROVE  Fits(c)
<1>1. m.next \in Int /\ c.next \in Int /\ m.next <= c.next
  BY DEF IsWhole, KeysetMetadata, Follows
<1>2. \A v \in ListedIn(c) : v \in Int /\ v \in Version /\ v < c.next
  BY DEF IsWhole, ListedIn, Version
<1>3. \A v \in ListedIn(c) : v < m.next => v \in ListedIn(m)
  BY DEF Follows, ListedIn
<1>4. \A v \in ListedIn(c) : IsReadable(keyfile[v]) \/ v = c.next - 1
  <2>1. CASE c.next = m.next
    BY <1>1, <1>2, <1>3, <2>1 DEF Fits
  <2>2. CASE \A v \in ListedIn(m) : IsReadable(keyfile[v])
    BY <1>1, <1>2, <1>3, <2>2
  <2> QED
    BY <2>1, <2>2
<1>5. gone \subseteq Version /\ \A v \in Version : v \in Int
  BY DEF TypeOK, Version
<1>6. ~recreated => \A v \in gone : v < c.next /\ c.status[v] = Absent
  BY <1>1, <1>5 DEF Fits, Follows
<1>7. failures = 0 /\ ~recreated => \A v \in Version : IsReadable(keyfile[v]) => v < c.next
  BY <1>1, <1>5 DEF Fits
<1> QED
  BY <1>4, <1>6, <1>7 DEF Fits

\* A process that is not writing, or has just died.
LEMMA IdleIsRight ==
  /\ Idle \in ProcState /\ Idle.pc = "idle"
  /\ ReadRight(Idle) /\ LoadsRight(Idle) /\ WritesRight(Idle)
<1>1. NewMetadata \in KeysetMetadata
  BY KeysetAssumption DEF NewMetadata, KeysetMetadata, KeysetAssumption
<1>2. EmptyCzar.key \in [Version -> Key \cup {NoKey}]
  BY DEF EmptyCzar
<1>3. <<>> \in Seq(Write)
  OBVIOUS
<1>4. Idle \in ProcState /\ Idle.pc = "idle"
  BY <1>1, <1>2, <1>3 DEF Idle, ProcState
<1> QED
  BY <1>4 DEF ReadRight, LoadsRight, WritesRight

\* The empty key set that CmdCreate writes.
LEMMA NewMetadataIsWhole ==
  IsWhole(NewMetadata) /\ ListedIn(NewMetadata) = {} /\ NewMetadata.next = 1
<1>1. /\ NewMetadata \in KeysetMetadata /\ NewMetadata.next = 1
      /\ \A v \in Version : NewMetadata.status[v] = Absent
  BY KeysetAssumption DEF NewMetadata, KeysetMetadata, KeysetAssumption
<1>2. ListedIn(NewMetadata) = {}
  BY <1>1 DEF ListedIn
<1> QED
  BY <1>1, <1>2 DEF IsWhole, HasOnePrimary

(***************************************************************************)
(* A step of one process, put together from what it does to the files and  *)
(* what it does to the process.                                            *)
(***************************************************************************)
LEMMA OneProcessMoves ==
  ASSUME IInv, NEW p \in Proc, NEW x \in ProcState, proc' = [proc EXCEPT ![p] = x],
         p # Admin => x.pc # "write",
         meta' \in KeysetMetadata \cup {NoFile, Torn},
         keyfile' \in [Version -> KeyContent \cup {NoFile, Torn}],
         used' \subseteq Key, gone' \subseteq Version, recreated' \in BOOLEAN,
         crashes' \in 0 .. MaxFaults, failures' \in 0 .. MaxFaults,
         MetaRight',
         ReadRight(x)', \A q \in Proc : q # p => ReadRight(proc[q])',
         p = Admin => LoadsRight(x)' /\ WritesRight(x)',
         p # Admin => LoadsRight(proc[Admin])' /\ WritesRight(proc[Admin])'
  PROVE  IInv'
<1>1. Admin \in Proc /\ proc \in [Proc -> ProcState]
  BY CppKeysetAssumption DEF CppKeysetAssumption, IInv, TypeOK
<1>2. proc' \in [Proc -> ProcState] /\ proc'[p] = x /\ \A q \in Proc : q # p => proc'[q] = proc[q]
  BY <1>1
<1>3. TypeOK'
  BY <1>2 DEF TypeOK
<1>4. \A q \in Proc : ReadRight(proc[q])'
  BY <1>2 DEF ReadRight
<1>5. \A q \in Proc \ {Admin} : proc'[q].pc # "write"
  BY <1>2 DEF IInv
<1>6. LoadsRight(proc[Admin])'
  BY <1>1, <1>2 DEF LoadsRight
<1>7. WritesRight(proc[Admin])'
  <2>1. CASE p = Admin
    BY <1>2, <2>1 DEF WritesRight, KeyIsNew, Fits
  <2>2. CASE p # Admin
    BY <2>2
  <2> QED
    BY <2>1, <2>2
<1> QED
  BY <1>3, <1>4, <1>5, <1>6, <1>7 DEF IInv

(***************************************************************************)
(* A step that leaves the files alone, such as reading, the beginning of a *)
(* command and a crash.                                                    *)
(***************************************************************************)
LEMMA QuietStep ==
  ASSUME IInv, NEW p \in Proc, NEW x \in ProcState, proc' = [proc EXCEPT ![p] = x],
         UNCHANGED <<meta, keyfile, gone, recreated, failures>>,
         used' \subseteq Key, crashes' \in 0 .. MaxFaults,
         p # Admin => x.pc # "write",
         ReadRight(x), p = Admin => LoadsRight(x) /\ WritesRight(x)
  PROVE  IInv'
<1>1. \A c : Fits(c) => Fits(c)'
  BY DEF Fits
<1>2. MetaRight'
  BY DEF IInv, MetaRight, Fits
<1>3. ReadRight(x)'
  BY DEF ReadRight
<1>4. \A q \in Proc : q # p => ReadRight(proc[q])'
  BY DEF ReadRight, IInv, TypeOK
<1>5. p = Admin => LoadsRight(x)'
  BY DEF LoadsRight
<1>6. p = Admin => WritesRight(x)'
  BY <1>1 DEF WritesRight, KeyIsNew
<1>7. Admin \in Proc /\ proc \in [Proc -> ProcState]
  BY CppKeysetAssumption DEF CppKeysetAssumption, IInv, TypeOK
<1>8. p # Admin => LoadsRight(proc[Admin])'
  BY <1>7 DEF LoadsRight, IInv
<1>9. p # Admin => WritesRight(proc[Admin])'
  BY <1>7 DEF WritesRight, KeyIsNew, Fits, IInv
<1>10. /\ meta' \in KeysetMetadata \cup {NoFile, Torn}
       /\ keyfile' \in [Version -> KeyContent \cup {NoFile, Torn}]
       /\ gone' \subseteq Version /\ recreated' \in BOOLEAN /\ failures' \in 0 .. MaxFaults
  BY DEF IInv, TypeOK
<1> QED
  BY <1>2, <1>3, <1>4, <1>5, <1>6, <1>8, <1>9, <1>10, OneProcessMoves

\* The key set is empty before create.
LEMMA InitIsRight == ASSUME Init PROVE IInv
<1>1. Admin \in Proc /\ MaxFaults \in Nat
  BY CppKeysetAssumption DEF CppKeysetAssumption
<1>2. \A p \in Proc : proc[p] = Idle
  BY DEF Init
<1>3. TypeOK
  <2>1. proc \in [Proc -> ProcState]
    BY IdleIsRight DEF Init
  <2>2. /\ meta = NoFile /\ used = {} /\ gone = {} /\ recreated = FALSE
        /\ keyfile \in [Version -> KeyContent \cup {NoFile, Torn}]
    BY DEF Init
  <2>3. crashes \in 0 .. MaxFaults /\ failures \in 0 .. MaxFaults
    BY <1>1 DEF Init
  <2> QED
    BY <2>1, <2>2, <2>3 DEF TypeOK
<1>4. MetaRight
  BY DEF Init, MetaRight, IsReadable
<1> QED
  BY <1>1, <1>2, <1>3, <1>4, IdleIsRight DEF IInv

(***************************************************************************)
(* Keyset::Read and the processes that only read.                          *)
(***************************************************************************)
LEMMA ReadMetadataStep ==
  ASSUME IInv, NEW p \in Proc, NEW crypter \in BOOLEAN, ReadMetadata(p, crypter)
  PROVE  IInv'
<1> DEFINE x == Loading(meta, crypter)
<1>1. IsReadable(meta) /\ meta \in KeysetMetadata
  BY DEF ReadMetadata, IInv, TypeOK, IsReadable
<1>2. /\ x.pc = "load" /\ x.metadata = meta /\ x.todo = ListedIn(meta)
      /\ x \in ProcState
  BY <1>1, IdleIsRight DEF Loading, Idle, ProcState, ListedIn
<1> HIDE DEF x
<1>3. proc' = [proc EXCEPT ![p] = x] /\ UNCHANGED <<meta, keyfile, used, gone, recreated, crashes, failures>>
  BY DEF ReadMetadata, x
<1>4. ReadRight(x) /\ LoadsRight(x) /\ WritesRight(x)
  BY <1>1, <1>2 DEF ReadRight, LoadsRight, WritesRight
<1>5. used' \subseteq Key /\ crashes' \in 0 .. MaxFaults
  BY <1>3 DEF IInv, TypeOK
<1> QED
  BY <1>2, <1>3, <1>4, <1>5, QuietStep

LEMMA ReadKeyStep ==
  ASSUME IInv, NEW p \in Proc, ReadKey(p)
  PROVE  IInv'
<1>1. PICK v \in proc[p].todo : proc' = [proc EXCEPT ![p] = TakesKey(@, v)]
  BY DEF ReadKey
<1> DEFINE pr == proc[p]
           x == TakesKey(pr, v)
<1>2. pr \in ProcState /\ pr.pc = "load" /\ v \in Version /\ ReadRight(pr)
  BY DEF IInv, TypeOK, ReadKey, ProcState
<1>3. p = Admin => LoadsRight(pr)
  BY DEF IInv
<1>4. proc' = [proc EXCEPT ![p] = x]
  BY <1>1 DEF IInv, TypeOK
<1>5. UNCHANGED <<meta, keyfile, used, gone, recreated, crashes, failures>>
  BY DEF ReadKey
<1>6. used' \subseteq Key /\ crashes' \in 0 .. MaxFaults
  BY <1>5 DEF IInv, TypeOK
<1>7. CASE ~Accepts(pr, keyfile[v])
  <2>1. x = Idle
    BY <1>7 DEF TakesKey
  <2> HIDE DEF x
  <2> QED
    BY <1>4, <1>5, <1>6, <2>1, IdleIsRight, QuietStep
<1>8. CASE Accepts(pr, keyfile[v])
  <2> HIDE DEF pr
  <2>1. IsReadable(keyfile[v]) /\ keyfile[v].key \in Key
    BY <1>2, <1>8 DEF Accepts, Opens, IsReadable, IInv, TypeOK, KeyContent
  <2>2. x = [pr EXCEPT !.todo = @ \ {v}, !.keys[v] = keyfile[v].key]
    BY <1>8 DEF TakesKey
  <2>3. /\ x \in ProcState
        /\ x.pc = "load" /\ x.metadata = pr.metadata /\ x.todo = pr.todo \ {v}
        /\ x.keys[v] = keyfile[v].key
        /\ \A w \in Version : w # v => x.keys[w] = pr.keys[w]
    <3> DEFINE ks == [pr.keys EXCEPT ![v] = keyfile[v].key]
    <3>1. /\ ks \in [Version -> Key \cup {NoKey}] /\ ks[v] = keyfile[v].key
          /\ \A w \in Version : w # v => ks[w] = pr.keys[w]
      BY <1>2, <2>1 DEF ProcState
    <3>2. x = [pr EXCEPT !.todo = @ \ {v}, !.keys = ks]
      BY <2>2
    <3> HIDE DEF ks, x
    <3>3. x.keys = ks /\ x.pc = "load" /\ x.metadata = pr.metadata /\ x.todo = pr.todo \ {v}
      BY <1>2, <3>2 DEF ProcState
    <3>4. x \in ProcState
      BY <1>2, <3>1, <3>2 DEF ProcState
    <3> QED
      BY <3>1, <3>3, <3>4
  <2> HIDE DEF x
  <2>4. ListedIn(pr.metadata) \subseteq Version
    BY DEF ListedIn
  <2>5. ReadRight(x)
    BY <1>2, <2>1, <2>3, <2>4 DEF ReadRight
  <2>6. p = Admin => LoadsRight(x)
    BY <1>2, <1>3, <2>1, <2>3, <2>4 DEF LoadsRight
  <2>7. WritesRight(x) /\ x.pc # "write"
    BY <2>3 DEF WritesRight
  <2> QED
    BY <1>4, <1>5, <1>6, <2>3, <2>5, <2>6, <2>7, QuietStep
<1> QED
  BY <1>7, <1>8

\* Use and Crash: the process forgets everything, the files stay.
LEMMA ExitStep ==
  ASSUME IInv, NEW p \in Proc, Use(p) \/ Crash(p)
  PROVE  IInv'
<1>1. /\ proc' = [proc EXCEPT ![p] = Idle]
      /\ UNCHANGED <<meta, keyfile, used, gone, recreated, failures>>
  BY DEF Use, Crash
<1>2. crashes' \in 0 .. MaxFaults
  BY CppKeysetAssumption DEF CppKeysetAssumption, Use, Crash, IInv, TypeOK
<1>3. used' \subseteq Key
  BY <1>1 DEF IInv, TypeOK
<1> QED
  BY <1>1, <1>2, <1>3, IdleIsRight, QuietStep

-------------------------------------------------------------------------------
(***************************************************************************)
(* The commands.                                                           *)
(***************************************************************************)
Writing(ws) == [Idle EXCEPT !.pc = "write", !.writes = ws]

LEMMA WritingFacts ==
  ASSUME NEW ws \in Seq(Write)
  PROVE  /\ Writing(ws) \in ProcState
         /\ Writing(ws).pc = "write" /\ Writing(ws).writes = ws
BY IdleIsRight DEF Writing, Idle, ProcState

\* A command whose writes fit the files.
LEMMA StartStep ==
  ASSUME IInv, NEW ws \in Seq(Write), Start(Admin, ws),
         used' \subseteq Key, UNCHANGED recreated,
         InOrder(ws), Announces(ws), KeyIsNew(ws),
         \A i \in 1 .. Len(ws) : ws[i].file = Meta => Fits(ws[i].content)
  PROVE  IInv'
<1> DEFINE x == Writing(ws)
<1>1. x \in ProcState /\ x.pc = "write" /\ x.writes = ws
  BY WritingFacts
<1> HIDE DEF x
<1>2. proc' = [proc EXCEPT ![Admin] = x] /\ UNCHANGED <<meta, keyfile, gone, crashes, failures>>
  BY DEF Start, x, Writing
<1>3. WritesRight(x)
  BY <1>1 DEF WritesRight
<1>4. ReadRight(x) /\ LoadsRight(x)
  BY <1>1 DEF ReadRight, LoadsRight
<1>5. Admin \in Proc /\ crashes' \in 0 .. MaxFaults
  BY <1>2, CppKeysetAssumption DEF CppKeysetAssumption, IInv, TypeOK
<1> QED
  BY <1>1, <1>2, <1>3, <1>4, <1>5, QuietStep

\* promote, demote, revoke, and an addkey that fails.
LEMMA ChangeStep ==
  ASSUME IInv, IsReadable(meta), NEW metas, Chain(meta, metas), Len(metas) >= 1,
         Latest(meta, metas).next = meta.next,
         Start(Admin, MetaWrites(metas)), UNCHANGED <<used, recreated>>
  PROVE  IInv'
<1> DEFINE ws == MetaWrites(metas)
<1>1. IsWhole(meta) /\ Fits(meta) /\ TypeOK
  BY DEF IInv, MetaRight
<1>2. /\ ws \in Seq(Write) /\ Len(ws) = Len(metas)
      /\ \A i \in 1 .. Len(metas) : ws[i].file = Meta /\ ws[i].content = metas[i]
  BY MetaWritesFacts
<1>3. InOrder(ws) /\ Announces(ws) /\ ws[Len(ws)].file = Meta
  BY MetaWritesInOrder
<1>4. Start(Admin, ws) /\ UNCHANGED <<used, recreated>>
  OBVIOUS
<1> HIDE DEF ws
<1>5. \A i \in 1 .. Len(metas) : IsWhole(metas[i]) /\ Follows(meta, metas[i])
                                 /\ Follows(metas[i], Latest(meta, metas))
  BY <1>1, LatestFacts DEF Chain
<1>6. \A i \in 1 .. Len(metas) : metas[i].next = meta.next
  BY <1>1, <1>5 DEF Follows, IsWhole, KeysetMetadata
<1>7. meta.next <= meta.next + 1
  BY <1>1 DEF IsWhole, KeysetMetadata
<1>8. \A i \in 1 .. Len(metas) : Fits(metas[i])
  BY <1>1, <1>5, <1>6, <1>7, FollowerFits
<1>9. \A i \in 1 .. Len(ws) : ws[i].file = Meta => Fits(ws[i].content)
  BY <1>2, <1>8
<1>10. KeyIsNew(ws)
  BY <1>3 DEF KeyIsNew
<1>11. used' \subseteq Key
  BY <1>1, <1>4 DEF TypeOK
<1> QED
  BY <1>2, <1>3, <1>4, <1>9, <1>10, <1>11, StartStep

\* create, over nothing and over a torn meta file.
LEMMA CreateStep ==
  ASSUME IInv, Create(Admin)
  PROVE  IInv'
<1> DEFINE ws == MetaWrites(<<NewMetadata>>)
           x == Writing(ws)
<1>1. IsWhole(NewMetadata) /\ ListedIn(NewMetadata) = {} /\ NewMetadata.next = 1
  BY NewMetadataIsWhole
<1>2. Chain(NewMetadata, <<NewMetadata>>) /\ Len(<<NewMetadata>>) = 1
  BY <1>1, SingleChain, FollowsIsReflexive DEF IsWhole
<1>3. /\ ws \in Seq(Write) /\ Len(ws) = 1
      /\ ws[1].file = Meta /\ ws[1].content = <<NewMetadata>>[1]
  BY <1>2, MetaWritesFacts
<1>4. InOrder(ws) /\ Announces(ws) /\ ws[Len(ws)].file = Meta
  BY <1>2, MetaWritesInOrder
<1>5. /\ Start(Admin, ws) /\ UNCHANGED used /\ recreated' = (recreated \/ meta = Torn)
      /\ meta \in {NoFile, Torn}
  BY DEF Create, IsReadable
<1> HIDE DEF ws
<1>6. ws[1].content = NewMetadata
  BY <1>3
<1>7. KeyIsNew(ws)
  BY <1>4 DEF KeyIsNew
<1>8. used' \subseteq Key
  BY <1>5 DEF IInv, TypeOK
<1>9. CASE meta = NoFile
  <2>1. UNCHANGED recreated
    BY <1>5, <1>9, CppKeysetAssumption DEF CppKeysetAssumption, IInv, TypeOK
  <2>2. gone = {} /\ \A v \in Version : ~IsReadable(keyfile[v])
    BY <1>9 DEF IInv, MetaRight
  <2>3. Fits(NewMetadata)
    BY <1>1, <2>2 DEF Fits
  <2>4. \A i \in 1 .. Len(ws) : ws[i].file = Meta => Fits(ws[i].content)
    BY <1>3, <1>6, <2>3
  <2> QED
    BY <1>3, <1>4, <1>5, <1>7, <1>8, <2>1, <2>4, StartStep
<1>10. CASE meta = Torn
  <2>1. recreated' = TRUE
    BY <1>5, <1>10
  <2>2. x \in ProcState /\ x.pc = "write" /\ x.writes = ws
    BY <1>3, WritingFacts
  <2>3. proc' = [proc EXCEPT ![Admin] = x] /\ UNCHANGED <<meta, keyfile, gone, crashes, failures>>
    BY <1>5 DEF Start, Writing
  <2> HIDE DEF x
  <2>4. MetaRight'
    BY <1>10, <2>3, CppKeysetAssumption DEF CppKeysetAssumption, MetaRight, IsReadable
  <2>5. ReadRight(x)' /\ \A q \in Proc : q # Admin => ReadRight(proc[q])'
    BY <2>1 DEF ReadRight
  <2>6. LoadsRight(x)'
    BY <2>2 DEF LoadsRight
  <2>7. WritesRight(x)'
    <3>1. Fits(NewMetadata)'
      BY <1>1, <2>1 DEF Fits
    <3>2. \A i \in 1 .. Len(ws) : ws[i].file = Meta => Fits(ws[i].content)'
      BY <1>3, <1>6, <3>1 DEF Fits
    <3>3. KeyIsNew(ws)'
      BY <1>4 DEF KeyIsNew
    <3> QED
      BY <1>4, <2>2, <3>2, <3>3 DEF WritesRight
  <2>8. /\ Admin \in Proc
        /\ meta' \in KeysetMetadata \cup {NoFile, Torn}
        /\ keyfile' \in [Version -> KeyContent \cup {NoFile, Torn}]
        /\ gone' \subseteq Version /\ recreated' \in BOOLEAN
        /\ crashes' \in 0 .. MaxFaults /\ failures' \in 0 .. MaxFaults
    BY <2>1, <2>3, CppKeysetAssumption DEF CppKeysetAssumption, IInv, TypeOK
  <2> QED
    BY <1>8, <2>2, <2>3, <2>4, <2>5, <2>6, <2>7, <2>8, OneProcessMoves
<1> QED
  BY <1>5, <1>9, <1>10

\* addkey and importkey.
LEMMA AddKeyStep ==
  ASSUME IInv, NEW s \in Status, NEW k \in Key, AddKey(Admin, s, k)
  PROVE  IInv'
<1> DEFINE pr == proc[Admin]
           m == pr.metadata
           ws == AddWrites(m, pr.crypter, s, k)
<1>1. pr \in ProcState /\ pr.pc = "load" /\ pr.todo = {}
  BY CppKeysetAssumption DEF CppKeysetAssumption, IInv, TypeOK, AddKey, IsLoaded
<1>2. m = meta /\ IsReadable(meta) /\ \A v \in ListedIn(m) : IsReadable(keyfile[v])
  BY <1>1 DEF IInv, LoadsRight
<1>3. IsWhole(m) /\ Fits(m) /\ TypeOK
  BY <1>2 DEF IInv, MetaRight
<1>4. /\ Start(Admin, ws) /\ used' = used \cup {k} /\ UNCHANGED recreated
      /\ m.next <= MaxVersion
  BY DEF AddKey
<1>5. pr.crypter \in BOOLEAN
  BY <1>1 DEF ProcState
<1> HIDE DEF m, pr
<1>6. /\ ws \in Seq(Write) /\ InOrder(ws) /\ Announces(ws)
      /\ Len(ws) > 1 /\ ws[Len(ws)].file = m.next
      /\ \A i \in 1 .. Len(ws) - 1 :
           /\ ws[i].file = Meta /\ IsWhole(ws[i].content)
           /\ Follows(m, ws[i].content) /\ ws[i].content.next <= m.next + 1
  BY <1>3, <1>4, <1>5, AddWritesInOrder
<1> HIDE DEF ws
<1>7. m.next \in Version /\ m.next \in Int
  BY <1>3, <1>4 DEF IsWhole, KeysetMetadata, Version
<1>8. \A i \in 1 .. Len(ws) - 1 : Fits(ws[i].content)
  BY <1>2, <1>3, <1>6, FollowerFits
<1>9. \A i \in 1 .. Len(ws) : ws[i].file = Meta => Fits(ws[i].content)
  <2>1. m.next # Meta
    BY <1>7 DEF Version, Meta
  <2>2. \A i \in 1 .. Len(ws) : i = Len(ws) \/ i \in 1 .. Len(ws) - 1
    BY <1>6
  <2> QED
    BY <1>6, <1>8, <2>1, <2>2
<1>10. KeyIsNew(ws)
  <2>1. meta # NoFile
    BY <1>2 DEF IsReadable
  <2>2. meta.next <= m.next + 1
    BY <1>2, <1>7
  <2>3. failures = 0 /\ ~recreated => ~IsReadable(keyfile[m.next])
    BY <1>3, <1>7 DEF Fits
  <2>4. Len(ws) # 1
    BY <1>6
  <2> QED
    BY <1>6, <2>1, <2>2, <2>3, <2>4 DEF KeyIsNew
<1>11. used' \subseteq Key
  BY <1>3, <1>4 DEF TypeOK
<1> QED
  BY <1>4, <1>6, <1>9, <1>10, <1>11, StartStep

\* addkey and importkey when they fail after set_encrypted.
LEMMA AddKeyFailsStep ==
  ASSUME IInv, AddKeyFails(Admin)
  PROVE  IInv'
<1> DEFINE e == SetEncrypted(meta)
<1>1. proc[Admin].pc = "load"
  BY DEF AddKeyFails, IsLoaded
<1>2. proc[Admin].metadata = meta /\ IsReadable(meta) /\ IsWhole(meta)
  BY <1>1 DEF IInv, LoadsRight, MetaRight
<1>3. /\ IsWhole(e) /\ e.next = meta.next
      /\ Chain(meta, <<e>>) /\ Latest(meta, <<e>>) = e /\ Len(<<e>>) = 1
  BY <1>2, SetEncryptedChain
<1>4. Start(Admin, MetaWrites(<<e>>)) /\ UNCHANGED <<used, recreated>>
  BY <1>2 DEF AddKeyFails
<1> HIDE DEF e
<1>5. Len(<<e>>) >= 1 /\ Latest(meta, <<e>>).next = meta.next
  BY <1>3
<1> QED
  BY <1>2, <1>3, <1>4, <1>5, ChangeStep

LEMMA CommandStep ==
  ASSUME IInv, Command(Admin)
  PROVE  IInv'
<1>1. CASE Create(Admin)
  BY <1>1, CreateStep
<1>2. CASE \E s \in Status, k \in Key :
             GenerateKey(Admin, s, k) \/ ImportPrivateKey(Admin, s, k)
  BY <1>2, AddKeyStep DEF GenerateKey, ImportPrivateKey
<1>3. CASE \E v \in Version : CmdPromote(Admin, v) \/ CmdDemote(Admin, v) \/ CmdRevoke(Admin, v)
  <2>1. PICK v \in Version : CmdPromote(Admin, v) \/ CmdDemote(Admin, v) \/ CmdRevoke(Admin, v)
    BY <1>3
  <2>2. IsReadable(meta) /\ v \in ListedIn(meta)
    BY <2>1 DEF CmdPromote, CmdDemote, CmdRevoke, MayChange
  <2>3. IsWhole(meta)
    BY <2>2 DEF IInv, MetaRight
  <2>4. CASE CmdPromote(Admin, v)
    <3> DEFINE metas == PromoteKey(meta, v)
    <3>1. /\ Start(Admin, MetaWrites(metas)) /\ UNCHANGED <<used, recreated>>
          /\ meta.status[v] \in {"INACTIVE", "ACTIVE"}
      BY <2>4 DEF CmdPromote, MayChange, Change
    <3>2. Chain(meta, metas) /\ Len(metas) >= 1 /\ Latest(meta, metas).next = meta.next
      BY <2>2, <2>3, <3>1, PromoteKeyChain
    <3> HIDE DEF metas
    <3> QED
      BY <2>2, <3>1, <3>2, ChangeStep
  <2>5. CASE CmdDemote(Admin, v)
    <3> DEFINE metas == DemoteKey(meta, v)
    <3>1. Start(Admin, MetaWrites(metas)) /\ UNCHANGED <<used, recreated>>
      BY <2>5 DEF CmdDemote, Change
    <3>2. Chain(meta, metas) /\ Len(metas) >= 1 /\ Latest(meta, metas).next = meta.next
      BY <2>2, <2>3, DemoteKeyChain
    <3> HIDE DEF metas
    <3> QED
      BY <2>2, <3>1, <3>2, ChangeStep
  <2>6. CASE CmdRevoke(Admin, v)
    <3> DEFINE metas == RevokeKey(meta, v)
    <3>1. Start(Admin, MetaWrites(metas)) /\ UNCHANGED <<used, recreated>>
      BY <2>6 DEF CmdRevoke, Change
    <3>2. Chain(meta, metas) /\ Len(metas) >= 1 /\ Latest(meta, metas).next = meta.next
      BY <2>2, <2>3, RevokeKeyChain
    <3> HIDE DEF metas
    <3> QED
      BY <2>2, <3>1, <3>2, ChangeStep
  <2> QED
    BY <2>1, <2>4, <2>5, <2>6
<1>4. CASE AddKeyFails(Admin)
  BY <1>4, AddKeyFailsStep
<1> QED
  BY <1>1, <1>2, <1>3, <1>4 DEF Command

-------------------------------------------------------------------------------
(***************************************************************************)
(* The writes.  Only the tool writes.                                      *)
(***************************************************************************)
LEMMA WriterFacts ==
  ASSUME IInv, NEW p \in Proc, proc[p].pc = "write"
  PROVE  /\ p = Admin /\ proc[p] \in ProcState /\ proc[p].writes \in Seq(Write)
         /\ InOrder(proc[p].writes) /\ Announces(proc[p].writes) /\ KeyIsNew(proc[p].writes)
         /\ \A i \in 1 .. Len(proc[p].writes) :
              proc[p].writes[i].file = Meta => Fits(proc[p].writes[i].content)
<1>1. p = Admin
  BY DEF IInv
<1>2. proc[p] \in ProcState /\ proc[p].writes \in Seq(Write)
  BY DEF IInv, TypeOK, ProcState
<1> QED
  BY <1>1, <1>2 DEF IInv, WritesRight

\* The record of a process with one write less.
LEMMA AfterWriteFacts ==
  ASSUME NEW pr \in ProcState, pr.pc = "write", InOrder(pr.writes), Announces(pr.writes)
  PROVE  LET x == AfterWrite(pr) IN
         /\ x \in ProcState
         /\ Len(pr.writes) = 1 => x = Idle
         /\ Len(pr.writes) # 1 =>
              x.pc = "write" /\ x.writes = Tail(pr.writes) /\ Len(pr.writes) > 1
<1>1. pr.writes \in Seq(Write)
  BY DEF ProcState
<1>2. CASE Len(pr.writes) = 1
  BY <1>2, IdleIsRight DEF AfterWrite
<1>3. CASE Len(pr.writes) # 1
  <2>1. AfterWrite(pr) = [pr EXCEPT !.writes = Tail(@), !.open = FALSE]
    BY <1>3 DEF AfterWrite
  <2>2. Tail(pr.writes) \in Seq(Write) /\ Len(Tail(pr.writes)) = Len(pr.writes) - 1
    BY <1>1, <1>3, TailInOrder
  <2>3. Len(pr.writes) > 1
    <3>1. Len(pr.writes) \in Nat /\ Len(pr.writes) >= 1
      BY <1>1 DEF InOrder
    <3>2. \A n \in Nat : n >= 1 /\ n # 1 => n > 1
      OBVIOUS
    <3> QED
      BY <1>3, <3>1, <3>2
  <2> QED
    BY <1>3, <2>1, <2>2, <2>3 DEF ProcState
<1> QED
  BY <1>2, <1>3

\* creat: the meta file or the key file is torn.
LEMMA OpenFileStep ==
  ASSUME IInv, NEW p \in Proc, OpenFile(p)
  PROVE  IInv'
<1> DEFINE ws == proc[p].writes
           w == Head(ws)
<1>1. /\ p = Admin /\ proc[p] \in ProcState /\ ws \in Seq(Write)
      /\ InOrder(ws) /\ Announces(ws) /\ KeyIsNew(ws)
      /\ \A i \in 1 .. Len(ws) : ws[i].file = Meta => Fits(ws[i].content)
  BY WriterFacts DEF OpenFile
<1>2. PICK x : x = [proc[p] EXCEPT !.open = TRUE]
  OBVIOUS
<1>3. x \in ProcState /\ x.pc = "write" /\ x.writes = ws
  BY <1>1, <1>2 DEF ProcState, OpenFile
<1>4. /\ proc' = [proc EXCEPT ![p] = x] /\ Put(w.file, Torn)
      /\ UNCHANGED <<used, gone, recreated, crashes, failures>>
  BY <1>2 DEF OpenFile
<1>5. /\ w = ws[1] /\ 1 \in 1 .. Len(ws)
      /\ \/ w.file = Meta /\ IsWhole(w.content)
         \/ w.file # Meta /\ Len(ws) = 1 /\ IsKeyWrite(w)
  BY <1>1, HeadFacts
<1>6. PICK us : us = ws
  OBVIOUS
<1>7. \A q \in Proc : q # p => proc'[q] = proc[q]
  BY <1>4 DEF IInv, TypeOK
<1>8. /\ used' \subseteq Key /\ gone' \subseteq Version /\ recreated' \in BOOLEAN
      /\ crashes' \in 0 .. MaxFaults /\ failures' \in 0 .. MaxFaults
  BY <1>4 DEF IInv, TypeOK
<1>9. NoFile # Torn /\ ~IsReadable(Torn)
  BY CppKeysetAssumption DEF CppKeysetAssumption, IsReadable
<1>10. ReadRight(x)' /\ LoadsRight(x)'
  BY <1>3 DEF ReadRight, LoadsRight
<1>11. CASE w.file = Meta
  <2>1. meta' = Torn /\ keyfile' = keyfile
    BY <1>4, <1>11 DEF Put
  <2>2. MetaRight'
    BY <1>9, <2>1 DEF MetaRight
  <2>3. \A q \in Proc : q # p => ReadRight(proc[q])'
    BY <1>4, <1>7, <2>1 DEF ReadRight, IInv
  <2>4. \A c : Fits(c) => Fits(c)'
    BY <1>4, <2>1 DEF Fits
  <2>5. KeyIsNew(us)'
    <3>1. Len(us) = 1 => us[Len(us)].file = Meta
      BY <1>5, <1>6, <1>11
    <3> QED
      BY <1>1, <1>4, <1>6, <1>9, <2>1, <3>1 DEF KeyIsNew
  <2>6. WritesRight(x)'
    BY <1>1, <1>3, <1>6, <2>4, <2>5 DEF WritesRight
  <2>7. /\ meta' \in KeysetMetadata \cup {NoFile, Torn}
        /\ keyfile' \in [Version -> KeyContent \cup {NoFile, Torn}]
    BY <2>1 DEF IInv, TypeOK
  <2> QED
    BY <1>1, <1>3, <1>4, <1>8, <1>10, <2>2, <2>3, <2>6, <2>7, OneProcessMoves
<1>12. CASE w.file # Meta
  <2> DEFINE n == w.file
  <2>1. Len(ws) = 1 /\ n \in Version /\ ws[Len(ws)].file = n
    BY <1>5, <1>12 DEF IsKeyWrite
  <2>2. meta' = meta /\ keyfile' = [keyfile EXCEPT ![n] = Torn]
    BY <1>4, <1>12 DEF Put
  <2>3. /\ meta # NoFile
        /\ IsReadable(meta) => meta.next <= n + 1
        /\ failures = 0 /\ ~recreated => ~IsReadable(keyfile[n])
    BY <1>1, <1>12, <2>1 DEF KeyIsNew
  <2> HIDE DEF n
  <2>4. \A v \in Version : keyfile'[v] = IF v = n THEN Torn ELSE keyfile[v]
    BY <2>1, <2>2 DEF IInv, TypeOK
  <2>5. MetaRight'
    <3> SUFFICES ASSUME IsReadable(meta) PROVE Fits(meta)'
      BY <2>2, <2>3 DEF MetaRight, IInv
    <3>1. IsWhole(meta) /\ Fits(meta) /\ meta.next \in Int /\ n \in Int
      BY <2>1 DEF IInv, MetaRight, IsWhole, KeysetMetadata, Version
    <3>2. n \in ListedIn(meta) => n = meta.next - 1
      BY <2>3, <3>1 DEF IsWhole
    <3>3. \A v \in ListedIn(meta) : IsReadable(keyfile'[v]) \/ v = meta.next - 1
      BY <2>4, <3>1, <3>2 DEF Fits, ListedIn
    <3>4. failures = 0 /\ ~recreated => \A v \in Version : IsReadable(keyfile'[v]) => v < meta.next
      BY <1>9, <2>4, <3>1 DEF Fits
    <3> QED
      BY <1>4, <2>2, <3>1, <3>3, <3>4 DEF Fits
  <2>6. \A q \in Proc : q # p => ReadRight(proc[q])'
    BY <1>4, <1>7, <2>3, <2>4 DEF ReadRight, IInv, ListedIn
  <2>7. KeyIsNew(us)'
    BY <1>1, <1>4, <1>6, <1>9, <2>1, <2>2, <2>4 DEF KeyIsNew
  <2>8. WritesRight(x)'
    <3>1. us[Len(us)].file # Meta /\ Len(us) = 1
      BY <1>6, <1>12, <2>1 DEF n
    <3>2. \A i \in 1 .. Len(us) : us[i].file # Meta
      BY <3>1
    <3> QED
      BY <1>1, <1>3, <1>6, <2>7, <3>2 DEF WritesRight
  <2>9. /\ meta' \in KeysetMetadata \cup {NoFile, Torn}
        /\ keyfile' \in [Version -> KeyContent \cup {NoFile, Torn}]
    BY <2>2 DEF IInv, TypeOK
  <2> QED
    BY <1>1, <1>3, <1>4, <1>8, <1>10, <2>5, <2>6, <2>8, <2>9, OneProcessMoves
<1> QED
  BY <1>11, <1>12

\* A version of the meta file reaches the disk, and later ones follow it.
LEMMA FillMetaStep ==
  ASSUME IInv, NEW p \in Proc, FillFile(p), Head(proc[p].writes).file = Meta
  PROVE  IInv'
<1>1. PICK us : us = proc[p].writes
  OBVIOUS
<1>2. PICK x : x = AfterWrite(proc[p])
  OBVIOUS
<1> DEFINE w == us[1]
           c == w.content
<1>3. /\ p = Admin /\ proc[p] \in ProcState /\ us \in Seq(Write)
      /\ InOrder(us) /\ Announces(us) /\ KeyIsNew(us)
      /\ \A i \in 1 .. Len(us) : us[i].file = Meta => Fits(us[i].content)
  BY <1>1, WriterFacts DEF FillFile
<1>4. Head(us) = w /\ 1 \in 1 .. Len(us) /\ w.file = Meta /\ IsWhole(c)
  BY <1>1, <1>3, HeadFacts
<1>5. /\ x \in ProcState
      /\ Len(us) = 1 => x = Idle
      /\ Len(us) # 1 => x.pc = "write" /\ x.writes = Tail(us) /\ Len(us) > 1
  BY <1>1, <1>2, <1>3, AfterWriteFacts DEF FillFile
<1>6. /\ proc' = [proc EXCEPT ![p] = x] /\ meta' = c /\ keyfile' = keyfile
      /\ gone' = gone \cup Dropped(w)
      /\ UNCHANGED <<used, recreated, crashes, failures>>
  BY <1>1, <1>2, <1>4 DEF FillFile, Put
<1> HIDE DEF w
<1>7. c \in KeysetMetadata /\ c.next \in 1 .. MaxVersion + 1 /\ Fits(c)
  BY <1>3, <1>4 DEF IsWhole, KeysetMetadata, w
<1>8. Dropped(w) = {v \in 1 .. c.next - 1 : c.status[v] = Absent}
  BY <1>4 DEF Dropped
<1>9. Dropped(w) \subseteq Version /\ \A v \in Dropped(w) : v < c.next /\ c.status[v] = Absent
  BY <1>7, <1>8, KeysetAssumption DEF Version, KeysetAssumption
<1> HIDE DEF c
<1>10. \A q \in Proc : q # p => proc'[q] = proc[q]
  BY <1>6 DEF IInv, TypeOK
<1>11. meta' # NoFile
  BY <1>6, <1>7, FileAssumption DEF FileAssumption
<1>12. MetaRight'
  <2>1. Fits(meta)'
    BY <1>6, <1>7, <1>9 DEF Fits
  <2> QED
    BY <1>4, <1>6, <1>11, <2>1 DEF MetaRight
<1>13. \A q \in Proc : q # p => ReadRight(proc[q])'
  BY <1>6, <1>10 DEF ReadRight, IInv
<1>14. ReadRight(x)' /\ LoadsRight(x)' /\ WritesRight(x)'
  <2>1. CASE Len(us) = 1
    BY <1>5, <2>1, IdleIsRight DEF ReadRight, LoadsRight, WritesRight
  <2>2. CASE Len(us) # 1
    <3>1. PICK t : t = Tail(us)
      OBVIOUS
    <3>2. /\ t \in Seq(Write) /\ Len(t) = Len(us) - 1
          /\ \A i \in 1 .. Len(t) : t[i] = us[i + 1]
          /\ InOrder(t) /\ Announces(t)
          /\ t[Len(t)] = us[Len(us)]
      BY <1>3, <2>2, <3>1, TailInOrder
    <3>3. Len(us) \in Nat /\ Len(us) > 1
      BY <1>3, <1>5, <2>2
    <3>4. \A i \in 1 .. Len(t) : t[i].file = Meta => Fits(t[i].content) /\ Follows(c, t[i].content)
      <4>1. \A i \in 1 .. Len(t) : i + 1 \in 1 .. Len(us) /\ 1 < i + 1
        BY <3>2, <3>3
      <4> QED
        BY <1>3, <1>4, <3>2, <4>1 DEF InOrder, c, w
    <3>5. \A i \in 1 .. Len(t) : t[i].file = Meta => t[i].content.next \in Int
      BY <3>2 DEF InOrder, IsMetaWrite, IsKeyWrite, IsWhole, KeysetMetadata, Version, Meta
    <3>6. \A d : Fits(d) /\ Follows(c, d) /\ d.next \in Int => Fits(d)'
      BY <1>6, <1>7, <1>9 DEF Fits, Follows, Version
    <3>7. KeyIsNew(t)'
      <4> SUFFICES ASSUME t[Len(t)].file # Meta
                   PROVE  LET n == t[Len(t)].file IN
                          /\ meta' # NoFile
                          /\ meta'.next <= n + 1
                          /\ failures' = 0 /\ ~recreated' => ~IsReadable(keyfile'[n])
                          /\ Len(t) = 1 => meta' \in KeysetMetadata /\ meta'.next = n + 1
        BY DEF KeyIsNew
      <4>1. us[Len(us)].file # Meta /\ t[Len(t)].file = us[Len(us)].file
        BY <3>2
      <4>2. c.next <= us[Len(us)].file + 1
        BY <3>3, <4>1, <1>3 DEF Announces, c, w
      <4>3. Len(t) = 1 => c.next = us[Len(us)].file + 1
        BY <3>2, <3>3, <4>1, <1>3 DEF Announces, c, w
      <4>4. failures = 0 /\ ~recreated => ~IsReadable(keyfile[us[Len(us)].file])
        BY <1>3, <4>1 DEF KeyIsNew
      <4> QED
        BY <1>6, <1>7, <1>11, <4>1, <4>2, <4>3, <4>4
    <3>8. x.pc = "write" /\ x.writes = t
      BY <1>5, <2>2, <3>1
    <3>9. WritesRight(x)'
      BY <3>2, <3>4, <3>5, <3>6, <3>7, <3>8 DEF WritesRight
    <3> QED
      BY <3>8, <3>9 DEF ReadRight, LoadsRight
  <2> QED
    BY <2>1, <2>2
<1>15. /\ used' \subseteq Key /\ gone' \subseteq Version /\ recreated' \in BOOLEAN
       /\ crashes' \in 0 .. MaxFaults /\ failures' \in 0 .. MaxFaults
       /\ meta' \in KeysetMetadata \cup {NoFile, Torn}
       /\ keyfile' \in [Version -> KeyContent \cup {NoFile, Torn}]
  BY <1>6, <1>7, <1>9 DEF IInv, TypeOK
<1> QED
  BY <1>3, <1>5, <1>6, <1>12, <1>13, <1>14, <1>15, OneProcessMoves

\* The key file is complete, and its number was given out before.
LEMMA FillKeyStep ==
  ASSUME IInv, NEW p \in Proc, FillFile(p), Head(proc[p].writes).file # Meta
  PROVE  IInv'
<1> DEFINE ws == proc[p].writes
           w == Head(ws)
           n == w.file
<1>1. /\ p = Admin /\ proc[p] \in ProcState /\ ws \in Seq(Write)
      /\ InOrder(ws) /\ Announces(ws) /\ KeyIsNew(ws)
  BY WriterFacts DEF FillFile
<1>2. w = ws[1] /\ Len(ws) = 1 /\ IsKeyWrite(w) /\ n \in Version
  BY <1>1, HeadFacts DEF IsKeyWrite
<1>3. AfterWrite(proc[p]) = Idle
  BY <1>2 DEF AfterWrite
<1>4. /\ proc' = [proc EXCEPT ![p] = Idle] /\ meta' = meta
      /\ keyfile' = [keyfile EXCEPT ![n] = w.content]
      /\ gone' = gone /\ UNCHANGED <<used, recreated, crashes, failures>>
  BY <1>3 DEF FillFile, Put, Dropped
<1>5. /\ meta # NoFile
      /\ IsReadable(meta) => meta.next <= n + 1
      /\ failures = 0 /\ ~recreated => ~IsReadable(keyfile[n])
      /\ failures = 0 => meta \in KeysetMetadata /\ meta.next = n + 1
  BY <1>1, <1>2 DEF KeyIsNew
<1>6. w.content \in KeyContent
  BY <1>2 DEF IsKeyWrite
<1> HIDE DEF n, w
<1>7. \A v \in Version : v # n => keyfile'[v] = keyfile[v]
  BY <1>2, <1>4 DEF IInv, TypeOK
<1>8. MetaRight'
  <2> SUFFICES ASSUME IsReadable(meta) PROVE Fits(meta)'
    BY <1>4, <1>5 DEF MetaRight, IInv
  <2>1. IsWhole(meta) /\ Fits(meta) /\ meta.next \in Int /\ n \in Int
    BY <1>2 DEF IInv, MetaRight, IsWhole, KeysetMetadata, Version
  <2>2. n \in ListedIn(meta) => n = meta.next - 1
    BY <1>5, <2>1 DEF IsWhole
  <2>3. \A v \in ListedIn(meta) : IsReadable(keyfile'[v]) \/ v = meta.next - 1
    BY <1>7, <2>1, <2>2 DEF Fits, ListedIn
  <2>4. failures = 0 /\ ~recreated => \A v \in Version : IsReadable(keyfile'[v]) => v < meta.next
    BY <1>5, <1>7, <2>1 DEF Fits
  <2> QED
    BY <1>4, <2>1, <2>3, <2>4 DEF Fits
<1>9. \A q \in Proc : q # p => ReadRight(proc[q])'
  <2>1. \A q \in Proc : q # p => proc'[q] = proc[q]
    BY <1>4 DEF IInv, TypeOK
  <2> QED
    BY <1>4, <1>5, <1>7, <2>1 DEF ReadRight, IInv, ListedIn
<1>10. ReadRight(Idle)' /\ LoadsRight(Idle)' /\ WritesRight(Idle)'
  BY IdleIsRight DEF ReadRight, LoadsRight, WritesRight
<1>11. /\ used' \subseteq Key /\ gone' \subseteq Version /\ recreated' \in BOOLEAN
       /\ crashes' \in 0 .. MaxFaults /\ failures' \in 0 .. MaxFaults
       /\ meta' \in KeysetMetadata \cup {NoFile, Torn}
       /\ keyfile' \in [Version -> KeyContent \cup {NoFile, Torn}]
  BY <1>4, <1>6 DEF IInv, TypeOK
<1> QED
  BY <1>1, <1>4, <1>8, <1>9, <1>10, <1>11, IdleIsRight, OneProcessMoves

\* A write that fails leaves a torn file or none, and the command goes on.
LEMMA FailWriteStep ==
  ASSUME IInv, NEW p \in Proc, FailWrite(p)
  PROVE  IInv'
<1>1. PICK us : us = proc[p].writes
  OBVIOUS
<1>2. PICK x : x = AfterWrite(proc[p])
  OBVIOUS
<1>3. /\ p = Admin /\ proc[p] \in ProcState /\ us \in Seq(Write)
      /\ InOrder(us) /\ Announces(us) /\ KeyIsNew(us)
      /\ \A i \in 1 .. Len(us) : us[i].file = Meta => Fits(us[i].content)
  BY <1>1, WriterFacts DEF FailWrite
<1>4. /\ x \in ProcState
      /\ Len(us) = 1 => x = Idle
      /\ Len(us) # 1 => x.pc = "write" /\ x.writes = Tail(us) /\ Len(us) > 1
  BY <1>1, <1>2, <1>3, AfterWriteFacts DEF FailWrite
<1>5. /\ proc' = [proc EXCEPT ![p] = x]
      /\ UNCHANGED <<meta, keyfile, used, gone, recreated, crashes>>
  BY <1>2 DEF FailWrite
<1>6. failures' # 0 /\ failures' \in 0 .. MaxFaults
  BY CppKeysetAssumption DEF CppKeysetAssumption, FailWrite, IInv, TypeOK
<1>7. \A c : Fits(c) => Fits(c)'
  BY <1>5, <1>6 DEF Fits
<1>8. MetaRight'
  BY <1>5, <1>6 DEF MetaRight, IInv, Fits
<1>9. ReadRight(x)' /\ \A q \in Proc : q # p => ReadRight(proc[q])'
  BY <1>6 DEF ReadRight
<1>10. LoadsRight(x)' /\ WritesRight(x)'
  <2>1. CASE Len(us) = 1
    BY <1>4, <2>1, IdleIsRight DEF LoadsRight, WritesRight
  <2>2. CASE Len(us) # 1
    <3>1. PICK t : t = Tail(us)
      OBVIOUS
    <3>2. /\ t \in Seq(Write) /\ Len(t) = Len(us) - 1
          /\ \A i \in 1 .. Len(t) : t[i] = us[i + 1]
          /\ InOrder(t) /\ Announces(t)
          /\ t[Len(t)] = us[Len(us)]
      BY <1>3, <2>2, <3>1, TailInOrder
    <3>3. Len(us) \in Nat /\ Len(us) > 1
      BY <1>3, <1>4, <2>2
    <3>4. \A i \in 1 .. Len(t) : t[i].file = Meta => Fits(t[i].content)
      BY <1>3, <3>2, <3>3
    <3>5. KeyIsNew(t)'
      BY <1>3, <1>5, <1>6, <3>2 DEF KeyIsNew
    <3>6. x.pc = "write" /\ x.writes = t
      BY <1>4, <2>2, <3>1
    <3>7. WritesRight(x)'
      BY <1>7, <3>2, <3>4, <3>5, <3>6 DEF WritesRight
    <3> QED
      BY <3>6, <3>7 DEF LoadsRight
  <2> QED
    BY <2>1, <2>2
<1>11. /\ used' \subseteq Key /\ gone' \subseteq Version /\ recreated' \in BOOLEAN
       /\ crashes' \in 0 .. MaxFaults
       /\ meta' \in KeysetMetadata \cup {NoFile, Torn}
       /\ keyfile' \in [Version -> KeyContent \cup {NoFile, Torn}]
  BY <1>5 DEF IInv, TypeOK
<1> QED
  BY <1>3, <1>4, <1>5, <1>6, <1>8, <1>9, <1>10, <1>11, OneProcessMoves

-------------------------------------------------------------------------------
(***************************************************************************)
(* The inductive invariant holds: every action of the tool and of the      *)
(* applications keeps the pending writes in step with the files.           *)
(***************************************************************************)
THEOREM InvariantHolds == Spec => []IInv
<1>1. Init => IInv
  BY InitIsRight
<1>2. IInv /\ [Next]_vars => IInv'
  <2> SUFFICES ASSUME IInv, [Next]_vars PROVE IInv'
    OBVIOUS
  <2>1. CASE UNCHANGED vars
    BY <2>1 DEF vars, IInv, TypeOK, MetaRight, ReadRight, LoadsRight, WritesRight, KeyIsNew, Fits
  <2>2. CASE Command(Admin)
    BY <2>2, CommandStep
  <2>3. ASSUME NEW p \in Proc,
               \/ \E crypter \in BOOLEAN : ReadMetadata(p, crypter)
               \/ ReadKey(p) \/ Use(p)
               \/ OpenFile(p) \/ FillFile(p) \/ FailWrite(p) \/ Crash(p)
        PROVE  IInv'
    BY <2>3, ReadMetadataStep, ReadKeyStep, ExitStep, OpenFileStep, FillMetaStep,
       FillKeyStep, FailWriteStep
  <2> QED
    BY <2>1, <2>2, <2>3 DEF Next
<1> QED
  BY <1>1, <1>2, PTL DEF Spec

\* The variables keep their types, nextKeyVersionNumber its bound.
THEOREM TypesHold == Spec => []TypeOK
<1>1. IInv => TypeOK
  BY DEF IInv
<1> QED
  BY <1>1, InvariantHolds, PTL

(***************************************************************************)
(* Keyset::Read never refuses a key set for a second primary, whichever    *)
(* writes of UpdateKeyStatus and GenerateKey are lost.                     *)
(***************************************************************************)
THEOREM OnePrimaryOnDiskHolds == Spec => []OnePrimaryOnDisk
<1>1. IInv => OnePrimaryOnDisk
  BY DEF IInv, MetaRight, IsWhole, OnePrimaryOnDisk
<1> QED
  BY <1>1, InvariantHolds, PTL

(***************************************************************************)
(* However many processes die and writes fail, the only listed version     *)
(* without a complete key file is the newest (GenerateKey, Keyset::Read).  *)
(***************************************************************************)
THEOREM OnlyNewestIsMissingHolds == Spec => []OnlyNewestIsMissing
<1>1. IInv => OnlyNewestIsMissing
  BY DEF IInv, MetaRight, Fits, OnlyNewestIsMissing
<1> QED
  BY <1>1, InvariantHolds, PTL

(***************************************************************************)
(* AddVersion never gives out the number of a revoked version again, also  *)
(* when writes fail, as long as create is not run over a torn meta file.   *)
(***************************************************************************)
THEOREM RevokedStaysGoneHolds == Spec => []RevokedStaysGone
<1>1. IInv => RevokedStaysGone
  BY DEF IInv, MetaRight, Fits, RevokedStaysGone, ListedIn
<1> QED
  BY <1>1, InvariantHolds, PTL

(***************************************************************************)
(* Every application that has loaded the key set has, under each number,   *)
(* the key of that number's file (Keyset::Read beside a working tool).     *)
(***************************************************************************)
THEOREM LoadedIsRightHolds == Spec => []LoadedIsRight
<1>1. IInv => LoadedIsRight
  BY DEF IInv, ReadRight, LoadedIsRight, IsLoaded
<1> QED
  BY <1>1, InvariantHolds, PTL

(***************************************************************************)
(* GenerateKey never overwrites a complete key file of a version that is   *)
(* not revoked, over any number of crashes: a number is written to the     *)
(* meta file before it is used.                                            *)
(***************************************************************************)
THEOREM UnrevokedKeyFilesStayHolds == Spec => UnrevokedKeyFilesStay
<1> DEFINE Kept == \A v \in Version \ gone :
                     IsReadable(keyfile[v]) /\ failures = 0 /\ ~recreated
                       => keyfile'[v] = keyfile[v]
<1>1. IInv /\ [Next]_vars => [Kept]_vars
  <2> SUFFICES ASSUME IInv, Next PROVE Kept
    OBVIOUS
  <2>1. CASE keyfile' = keyfile
    BY <2>1
  <2>2. CASE keyfile' # keyfile
    <3>1. PICK p \in Proc : OpenFile(p) \/ FillFile(p)
      BY <2>2 DEF Next, ReadMetadata, ReadKey, Use, FailWrite, Crash, Command, Create,
           GenerateKey, ImportPrivateKey, AddKey, AddKeyFails, CmdPromote, CmdDemote, CmdRevoke, Change, Start
    <3> DEFINE ws == proc[p].writes
               n == Head(ws).file
    <3>2. ws \in Seq(Write) /\ InOrder(ws) /\ KeyIsNew(ws)
      BY <3>1, WriterFacts DEF OpenFile, FillFile
    <3>3. n # Meta /\ \E c : keyfile' = [keyfile EXCEPT ![n] = c]
      BY <2>2, <3>1 DEF OpenFile, FillFile, Put
    <3>4. Head(ws) = ws[1] /\ Len(ws) = 1 /\ n \in Version
      BY <3>2, <3>3, HeadFacts DEF IsKeyWrite
    <3>5. failures = 0 /\ ~recreated => ~IsReadable(keyfile[n])
      BY <3>2, <3>3, <3>4 DEF KeyIsNew
    <3> HIDE DEF n
    <3>6. \A v \in Version : v # n => keyfile'[v] = keyfile[v]
      BY <3>3, <3>4 DEF IInv, TypeOK
    <3> QED
      BY <3>5, <3>6
  <2> QED
    BY <2>1, <2>2
<1> QED
  BY <1>1, InvariantHolds, PTL DEF Spec, UnrevokedKeyFilesStay
===============================================================================
