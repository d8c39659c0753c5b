------------------------------ MODULE CppKeyset ------------------------------
(***************************************************************************)
(* The C++ key set tool.  A Keyset tells its observer of every change, and *)
(* the observer, a KeysetWriter, writes a file at once: a command is a     *)
(* series of versions of the meta file and, at the end, one key file.  Key *)
(* files that are there are not written again, and a version number that   *)
(* was given out is kept from being given out again by                     *)
(* nextKeyVersionNumber in the meta file.                                  *)
(*                                                                         *)
(* promote, demote and revoke read the meta file only; addkey, importkey   *)
(* and the applications read all keys and give up on the first that is     *)
(* missing.  A process can die between two writes or in the middle of one, *)
(* and a write that fails is not noticed: the observer's methods are void. *)
(***************************************************************************)
EXTENDS Keyset, Sequences

CONSTANTS
  Proc,         \* tool and application processes
  Admin,        \* the one that runs the tool
  MaxFaults,    \* bound: how often a process dies or a write fails
  NoFile,       \* the file does not exist
  Torn          \* the file was truncated and not filled: parsing it fails

ASSUME CppKeysetAssumption ==
  /\ Admin \in Proc
  /\ MaxFaults \in Nat
  /\ NoFile # Torn

Meta == 0
File == 0 .. MaxVersion

KeysetMetadata ==
  [status    : [Version -> Status \cup {Absent}],
   encrypted : BOOLEAN,
   next      : 1 .. MaxVersion + 1]

KeyContent == [key : Key, encrypted : BOOLEAN]

\* A complete file is neither missing nor torn.
ASSUME FileAssumption ==
  {NoFile, Torn} \cap (KeysetMetadata \cup KeyContent) = {}

VARIABLES
  meta,       \* the meta file
  keyfile,    \* the file of each version
  proc,       \* what each process is doing
  used,       \* the keys made so far
  gone,       \* history: the numbers whose revocation was written
  recreated,  \* history: was there a create over a torn meta file?
  crashes,
  failures

vars == <<meta, keyfile, proc, used, gone, recreated, crashes, failures>>

\* A file write that is still to come.
Write == [file : File, content : KeysetMetadata \cup KeyContent]

NewMetadata ==
  [status |-> [v \in Version |-> Absent], encrypted |-> FALSE, next |-> 1]

Idle ==
  [pc |-> "idle", metadata |-> NewMetadata, keys |-> EmptyCzar.key, todo |-> {},
   crypter |-> FALSE, writes |-> <<>>, open |-> FALSE]

ProcState ==
  [pc       : {"idle", "load", "write"},
   metadata : KeysetMetadata,
   keys     : [Version -> Key \cup {NoKey}],  \* version_number_map_
   todo     : SUBSET Version,                 \* keys still to read
   crypter  : BOOLEAN,                        \* reads and writes encrypted keys
   writes   : Seq(Write),
   open     : BOOLEAN]                        \* the first of them has begun

Init ==
  /\ meta = NoFile
  /\ keyfile = [v \in Version |-> NoFile]
  /\ proc = [p \in Proc |-> Idle]
  /\ used = {}
  /\ gone = {}
  /\ recreated = FALSE
  /\ crashes = 0 /\ failures = 0

IsReadable(content) == content \notin {NoFile, Torn}

ListedIn(m) == {v \in Version : m.status[v] # Absent}

PrimaryIn(m) == PrimaryOf(ListedIn(m), m.status)
-------------------------------------------------------------------------------
(***************************************************************************)
(* The versions of the meta file that Keyset's methods hand to the writer. *)
(***************************************************************************)
WithStatus(m, v, s) == [m EXCEPT !.status[v] = s]

DemotedPrimary(m) ==
  IF PrimaryIn(m) = NoVersion THEN <<>> ELSE <<WithStatus(m, PrimaryIn(m), "ACTIVE")>>

\* The latest version, when m was the one before.
Latest(m, metas) == IF metas = <<>> THEN m ELSE metas[Len(metas)]

\* Mutant: the new primary is written before the old one is demoted.
PromotedBeforeDemotion(m, v) ==
  LET raised == WithStatus(m, v, IF m.status[v] = "ACTIVE" THEN "PRIMARY" ELSE "ACTIVE")
  IN  IF PrimaryIn(m) = NoVersion THEN <<raised>>
      ELSE <<raised, WithStatus(raised, PrimaryIn(m), "ACTIVE")>>

\* PromoteKey and UpdateKeyStatus.
PromoteKey(m, v) ==
  IF m.status[v] = "INACTIVE" THEN <<WithStatus(m, v, "ACTIVE")>>
  ELSE LET demoted == DemotedPrimary(m)
       IN  Append(demoted, WithStatus(Latest(m, demoted), v, "PRIMARY"))

DemoteKey(m, v) ==
  <<WithStatus(m, v, IF m.status[v] = "PRIMARY" THEN "ACTIVE" ELSE "INACTIVE")>>

RevokeByStatus(m, v) == <<WithStatus(m, v, "REVOKED")>>           \* mutant

\* Mutant: the number after the largest listed one is next, as in COMPAT_KEYCZAR_06B.
RevokeAndRecount(m, v) ==
  LET rest == ListedIn(m) \ {v}
  IN  <<[WithStatus(m, v, Absent) EXCEPT !.next =
           CHOOSE n \in 1 .. MaxVersion + 1 :
             (\A w \in rest : w < n) /\ (n = 1 \/ n - 1 \in rest)]>>

\* RevokeKey: KeysetWriter.OnRevokedKey does nothing, the key file stays.
RevokeKey(m, v) == <<WithStatus(m, v, Absent)>>

\* AddKeyVersion: a primary is written by UpdateKeyStatus and once more.
AddKeyVersion(m, s) ==
  LET added == [m EXCEPT !.status[m.next] = s, !.next = @ + 1]
  IN  IF s = "PRIMARY" THEN <<added, added>> ELSE <<added>>

SetEncrypted(m) == [m EXCEPT !.encrypted = TRUE]

\* CmdAddKey, CmdImportKey, GenerateKey, ImportPrivateKey: all but the key file.
AddedMetas(m, crypter, s) ==
  LET marked  == IF crypter THEN <<SetEncrypted(m)>> ELSE <<>>
      start   == Latest(m, marked)
      demoted == IF s = "PRIMARY" THEN DemotedPrimary(start) ELSE <<>>
  IN  marked \o demoted \o AddKeyVersion(Latest(start, demoted), s)

MetaWrites(metas) == [i \in DOMAIN metas |-> [file |-> Meta, content |-> metas[i]]]

KeyWrite(n, k, crypter) == <<[file |-> n, content |-> [key |-> k, encrypted |-> crypter]]>>

KeyFileFirst(m, crypter, s, k) ==                                \* mutant
  KeyWrite(m.next, k, crypter) \o MetaWrites(AddedMetas(m, crypter, s))

AddWrites(m, crypter, s, k) ==
  MetaWrites(AddedMetas(m, crypter, s)) \o KeyWrite(m.next, k, crypter)
-------------------------------------------------------------------------------
(***************************************************************************)
(* Keyset::Read with the keys, in the order of their numbers.  It fails on *)
(* metadata with two primaries, on a key file that is missing, torn or of  *)
(* the other kind, and on a key whose hash the key set holds already.      *)
(***************************************************************************)
Loading(m, crypter) ==
  [Idle EXCEPT !.pc = "load", !.metadata = m, !.todo = ListedIn(m), !.crypter = crypter]

ReadMetadata(p, crypter) ==
  /\ proc[p].pc = "idle"
  /\ IsReadable(meta)
  /\ HasOnePrimary(ListedIn(meta), meta.status)
  /\ proc' = [proc EXCEPT ![p] = Loading(meta, crypter)]
  /\ UNCHANGED <<meta, keyfile, used, gone, recreated, crashes, failures>>

Holds(pr, k) == \E v \in Version : pr.keys[v] # NoKey /\ Hash[pr.keys[v]] = Hash[k]

Opens(content, crypter) == IsReadable(content) /\ content.encrypted = crypter

Accepts(pr, content) == Opens(content, pr.crypter) /\ ~Holds(pr, content.key)

\* Mutant: a key that cannot be read is skipped.
SkipsKey(pr, v) ==
  IF Accepts(pr, keyfile[v])
    THEN [pr EXCEPT !.todo = @ \ {v}, !.keys[v] = keyfile[v].key]
    ELSE [pr EXCEPT !.todo = @ \ {v}]

TakesKey(pr, v) ==
  IF Accepts(pr, keyfile[v])
    THEN [pr EXCEPT !.todo = @ \ {v}, !.keys[v] = keyfile[v].key]
    ELSE Idle

ReadKey(p) ==
  /\ proc[p].pc = "load"
  /\ \E v \in proc[p].todo :
       /\ \A w \in proc[p].todo : v <= w
       /\ proc' = [proc EXCEPT ![p] = TakesKey(@, v)]
  /\ UNCHANGED <<meta, keyfile, used, gone, recreated, crashes, failures>>

IsLoaded(p) == proc[p].pc = "load" /\ proc[p].todo = {}

\* pubkey, exportkey, an application, or an addkey that fails and writes nothing.
Use(p) ==
  /\ IsLoaded(p)
  /\ proc' = [proc EXCEPT ![p] = Idle]
  /\ UNCHANGED <<meta, keyfile, used, gone, recreated, crashes, failures>>
-------------------------------------------------------------------------------
(***************************************************************************)
(* The commands.  From here to the last write a command reads nothing.     *)
(***************************************************************************)
Start(p, writes) ==
  /\ proc' = [proc EXCEPT ![p] = [Idle EXCEPT !.pc = "write", !.writes = writes]]
  /\ UNCHANGED <<meta, keyfile, gone, crashes, failures>>

\* CmdCreate tests whether the meta file can be read, not whether it is there.
Create(p) ==
  /\ proc[p].pc = "idle"
  /\ ~IsReadable(meta)
  /\ Start(p, MetaWrites(<<NewMetadata>>))
  /\ recreated' = (recreated \/ meta = Torn)
  /\ UNCHANGED used

\* The kind of encryption is free as long as the key set is empty.
IsCompatible(m, crypter) == ListedIn(m) = {} \/ crypter = m.encrypted

\* GenerateKey makes a new key, ImportPrivateKey takes any, also a revoked one.
AddKey(p, s, k) ==
  LET pr == proc[p] IN
  /\ IsLoaded(p)
  /\ IsCompatible(pr.metadata, pr.crypter)
  /\ pr.metadata.next <= MaxVersion
  /\ ~Holds(pr, k)
  /\ Start(p, AddWrites(pr.metadata, pr.crypter, s, k))
  /\ used' = used \cup {k}
  /\ UNCHANGED recreated

\* A size that the type does not have, an import that cannot be parsed or is held
\* already: by then the key set has been marked as encrypted.
AddKeyFails(p) ==
  /\ IsLoaded(p)
  /\ proc[p].crypter /\ IsCompatible(proc[p].metadata, TRUE)
  /\ Start(p, MetaWrites(<<SetEncrypted(proc[p].metadata)>>))
  /\ UNCHANGED <<used, recreated>>

GenerateKey(p, s, k) == k \notin used /\ AddKey(p, s, k)

ImportPrivateKey(p, s, k) == k \in used /\ AddKey(p, s, k)

\* ReadMetadataOnly, then PromoteKey, DemoteKey or RevokeKey.
Change(p, metas) ==
  /\ HasOnePrimary(ListedIn(meta), meta.status)
  /\ Start(p, MetaWrites(metas))
  /\ UNCHANGED <<used, recreated>>

MayChange(p, v, from) ==
  proc[p].pc = "idle" /\ IsReadable(meta) /\ v \in ListedIn(meta) /\ meta.status[v] \in from

CmdPromote(p, v) ==
  MayChange(p, v, {"INACTIVE", "ACTIVE"}) /\ Change(p, PromoteKey(meta, v))

CmdDemote(p, v) ==
  MayChange(p, v, {"PRIMARY", "ACTIVE"}) /\ Change(p, DemoteKey(meta, v))

CmdRevoke(p, v) ==
  MayChange(p, v, {"INACTIVE"}) /\ Change(p, RevokeKey(meta, v))
-------------------------------------------------------------------------------
(***************************************************************************)
(* WriteFile: creat truncates the file, write fills it.  Either may fail,  *)
(* and the command goes on as if it had not.                               *)
(***************************************************************************)
Put(f, content) ==
  IF f = Meta
    THEN meta' = content /\ UNCHANGED keyfile
    ELSE keyfile' = [keyfile EXCEPT ![f] = content] /\ UNCHANGED meta

AfterWrite(pr) ==
  IF Len(pr.writes) = 1 THEN Idle
  ELSE [pr EXCEPT !.writes = Tail(@), !.open = FALSE]

OpenFile(p) ==
  /\ proc[p].pc = "write" /\ ~proc[p].open
  /\ Put(Head(proc[p].writes).file, Torn)
  /\ proc' = [proc EXCEPT ![p].open = TRUE]
  /\ UNCHANGED <<used, gone, recreated, crashes, failures>>

\* The numbers below next that are not listed were given out and revoked.
Dropped(w) ==
  IF w.file = Meta
    THEN {v \in 1 .. w.content.next - 1 : w.content.status[v] = Absent}
    ELSE {}

FillFile(p) ==
  LET w == Head(proc[p].writes) IN
  /\ proc[p].pc = "write" /\ proc[p].open
  /\ Put(w.file, w.content)
  /\ gone' = gone \cup Dropped(w)
  /\ proc' = [proc EXCEPT ![p] = AfterWrite(@)]
  /\ UNCHANGED <<used, recreated, crashes, failures>>

FailWrite(p) ==
  /\ proc[p].pc = "write"
  /\ crashes + failures < MaxFaults
  /\ failures' = failures + 1
  /\ proc' = [proc EXCEPT ![p] = AfterWrite(@)]
  /\ UNCHANGED <<meta, keyfile, used, gone, recreated, crashes>>

Crash(p) ==
  /\ proc[p].pc = "write"
  /\ crashes + failures < MaxFaults
  /\ crashes' = crashes + 1
  /\ proc' = [proc EXCEPT ![p] = Idle]
  /\ UNCHANGED <<meta, keyfile, used, gone, recreated, failures>>

Command(p) ==
  \/ Create(p)
  \/ \E s \in Status, k \in Key : GenerateKey(p, s, k) \/ ImportPrivateKey(p, s, k)
  \/ AddKeyFails(p)
  \/ \E v \in Version : CmdPromote(p, v) \/ CmdDemote(p, v) \/ CmdRevoke(p, v)

Next ==
  \/ \E p \in Proc :
       \/ \E crypter \in BOOLEAN : ReadMetadata(p, crypter)
       \/ ReadKey(p) \/ Use(p)
       \/ OpenFile(p) \/ FillFile(p) \/ FailWrite(p) \/ Crash(p)
  \/ Command(Admin)

Spec == Init /\ [][Next]_vars
-------------------------------------------------------------------------------
TypeOK ==
  /\ meta \in KeysetMetadata \cup {NoFile, Torn}
  /\ keyfile \in [Version -> KeyContent \cup {NoFile, Torn}]
  /\ proc \in [Proc -> ProcState]
  /\ used \subseteq Key
  /\ gone \subseteq Version
  /\ recreated \in BOOLEAN
  /\ crashes \in 0 .. MaxFaults /\ failures \in 0 .. MaxFaults

(***************************************************************************)
(* No version of the meta file that a promotion or a new primary goes      *)
(* through names two primaries, whichever write is the last before a crash *)
(* or fails: Keyset::Read ("Keyset cannot have more than one primary key") *)
(* never refuses a key set for that reason (UpdateKeyStatus, GenerateKey). *)
(***************************************************************************)
OnePrimaryOnDisk ==
  IsReadable(meta) => HasOnePrimary(ListedIn(meta), meta.status)

(***************************************************************************)
(* As long as the meta file can be read, crashes and failed writes have    *)
(* cost one key at most, and it is the newest: the version is listed       *)
(* before its key file is written (AddKeyVersion before NotifyOnNewKey in  *)
(* GenerateKey), but no other one can be added until the key set can be    *)
(* read again (Keyset::Read).  A torn meta file costs the whole key set.   *)
(***************************************************************************)
OnlyNewestIsMissing ==
  IsReadable(meta) =>
    \A v \in ListedIn(meta) : IsReadable(keyfile[v]) \/ v = meta.next - 1

(***************************************************************************)
(* A version number whose revocation has reached the disk is never listed  *)
(* again, so that the key file RevokeKey leaves behind is not taken up as  *)
(* that of a new version (KeysetMetadata::AddVersion), unless create was   *)
(* run over a torn meta file.                                              *)
(***************************************************************************)
RevokedStaysGone ==
  IsReadable(meta) /\ ~recreated => ListedIn(meta) \cap gone = {}

(***************************************************************************)
(* The key file of a version that has not been revoked, once complete, is  *)
(* never overwritten, although processes die at any write: the number is   *)
(* taken in the meta file before the key file is written (GenerateKey).    *)
(* Excepted are failed meta writes, which the tool does not notice, and    *)
(* create over a torn meta file.  What becomes of the key file of a        *)
(* revoked version is not the subject.                                     *)
(***************************************************************************)
UnrevokedKeyFilesStay ==
  [][\A v \in Version \ gone : IsReadable(keyfile[v]) /\ failures = 0 /\ ~recreated
       => keyfile'[v] = keyfile[v]]_vars

(***************************************************************************)
(* What a process has loaded under a version number, while the tool was at *)
(* work, is the key that this number stands for on disk (Keyset::Read).    *)
(***************************************************************************)
LoadedIsRight ==
  failures = 0 /\ ~recreated =>
    \A p \in Proc : IsLoaded(p) =>
      \A v \in ListedIn(proc[p].metadata) :
        IsReadable(keyfile[v]) /\ proc[p].keys[v] = keyfile[v].key

(***************************************************************************)
(* keyczar_tool.h:91, 'its "encrypted" flag will be set to true and it     *)
(* will only be possible to add encrypted keys after that operation (or    *)
(* the lifetime of this key set)': once an encrypted key has been added to *)
(* a key set that is marked as encrypted, its listed keys are encrypted    *)
(* (CmdAddKey).                                                            *)
(***************************************************************************)
EncryptedForLife ==
  /\ IsReadable(meta) /\ meta.encrypted
  /\ \E v \in Version : Opens(keyfile[v], TRUE)
  => \A v \in ListedIn(meta) : ~Opens(keyfile[v], FALSE)
===============================================================================
