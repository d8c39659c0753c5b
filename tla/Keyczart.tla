------------------------------- MODULE Keyczart -------------------------------
(***************************************************************************)
(* The key set tool: processes that run keyczart commands, and             *)
(* applications that load the key set, on one directory without any lock.  *)
(* A command loads the whole key set (the meta file, then one file per     *)
(* version), changes it in memory and writes every file again, each by     *)
(* truncating it and filling it; revoke removes one file at the end.  A    *)
(* process can die between any two of these steps.                         *)
(*                                                                         *)
(* The Python tool writes the meta file first and the key files after it,  *)
(* the Java tool the other way round; MetaFirst chooses.  The key type is  *)
(* one that GenKey supports.                                               *)
(***************************************************************************)
EXTENDS Keyset, FiniteSets

CONSTANTS
  Proc,          \* tool and application processes
  Admin,         \* the ones that change the key set
  MetaFirst,     \* Write: meta file before key files?
  CrypterFlags,  \* is --crypter given?  a set of Booleans
  MaxCrashes,    \* bound: how many processes die
  NoFile,        \* the file does not exist
  Torn           \* the file is empty or half written: parsing it raises

ASSUME KeyczartAssumption ==
  /\ Admin \subseteq Proc
  /\ MetaFirst \in BOOLEAN
  /\ CrypterFlags \subseteq BOOLEAN
  /\ MaxCrashes \in Nat
  /\ NoFile # Torn

\* File names: the meta file and a file per version.
Meta == 0
File == 0 .. MaxVersion

NoneOpen == -1
Unlinked == -2   \* the open file was removed by another process

\* holds is history, and not in the file: the keys the writer had.
MetaContent ==
  [status    : [Version -> Status \cup {Absent}],
   encrypted : BOOLEAN,
   holds     : [Version -> Key \cup {NoKey}]]
KeyContent == [key : Key, encrypted : BOOLEAN]

\* A complete file is neither missing nor torn.
ASSUME FileAssumption ==
  {NoFile, Torn} \cap (MetaContent \cup KeyContent) = {}

VARIABLES
  meta,     \* the meta file
  keyfile,  \* the file of each version
  proc,     \* what each process is doing
  used,     \* the keys generated so far
  dead,     \* history: keys whose revocation the meta file has recorded
  crashes

vars == <<meta, keyfile, proc, used, dead, crashes>>

Idle == [pc |-> "idle", czar |-> EmptyCzar, crypter |-> FALSE,
         todo |-> {}, open |-> NoneOpen, remove |-> NoVersion,
         expects |-> EmptyCzar.key]

ProcState ==
  [pc      : {"idle", "load", "write", "remove"},
   czar    : Czar,                        \* the GenericKeyczar
   crypter : BOOLEAN,                     \* works through an EncryptedReader
   todo    : SUBSET File,                 \* files still to read or to write
   open    : File \cup {NoneOpen, Unlinked},
   remove  : Version \cup {NoVersion},    \* the file revoke will remove
   expects : [Version -> Key \cup {NoKey}]]  \* history: the keys meta stood for

IsReadable(content) == content \notin {NoFile, Torn}

ListedIn(m) == {v \in Version : m.status[v] # Absent}

Init ==
  /\ meta = NoFile
  /\ keyfile = [v \in Version |-> NoFile]
  /\ proc = [p \in Proc |-> Idle]
  /\ used = {}
  /\ dead = {}
  /\ crashes = 0
-------------------------------------------------------------------------------
(***************************************************************************)
(* Keyczar.__init__: the metadata, then the keys in any order.  A file     *)
(* that is missing or torn, an encrypted key set without a crypter, or a   *)
(* second primary ends the command.                                        *)
(***************************************************************************)
Exit(p) == proc' = [proc EXCEPT ![p] = Idle]

Loading(m, crypter) ==
  [pc |-> "load", czar |-> Rebuilt(ListedIn(m), m.status, EmptyCzar.key),
   crypter |-> crypter, todo |-> ListedIn(m), open |-> NoneOpen,
   remove |-> NoVersion, expects |-> m.holds]

ReadMeta(p, crypter) ==
  /\ proc[p].pc = "idle"
  /\ IsReadable(meta)
  /\ meta.encrypted => crypter
  /\ HasOnePrimary(ListedIn(meta), meta.status)
  /\ proc' = [proc EXCEPT ![p] = Loading(meta, crypter)]
  /\ UNCHANGED <<meta, keyfile, used, dead, crashes>>

\* _keys[version] = key
Bound(pr, v, k) ==
  [pr EXCEPT !.todo = @ \ {v}, !.czar = [@ EXCEPT !.key[v] = k]]

\* Mutant: a plain key file passes through the crypter.
OpensEitherWay(content, crypter) == IsReadable(content)

\* The file parses, and Crypter.Decrypt wants ciphertext, ReadKey plain JSON.
Opens(content, crypter) == IsReadable(content) /\ content.encrypted = crypter

ReadKey(p, v) ==
  /\ proc[p].pc = "load"
  /\ v \in proc[p].todo
  /\ IF Opens(keyfile[v], proc[p].crypter)
       THEN proc' = [proc EXCEPT ![p] = Bound(@, v, keyfile[v].key)]
       ELSE Exit(p)
  /\ UNCHANGED <<meta, keyfile, used, dead, crashes>>

IsLoaded(p) == proc[p].pc = "load" /\ proc[p].todo = {}
-------------------------------------------------------------------------------
(***************************************************************************)
(* The commands.  Each starts from a loaded key set; what it changes goes  *)
(* to the files step by step.  promote, demote and revoke pass no crypter, *)
(* and a call that raises ends the command with nothing written.           *)
(***************************************************************************)
Writing(cz, crypter, removed) ==
  [pc |-> "write", czar |-> cz, crypter |-> crypter,
   todo |-> {Meta} \cup Loaded(cz), open |-> NoneOpen, remove |-> removed,
   expects |-> EmptyCzar.key]

StartWrite(p, cz, removed) ==
  proc' = [proc EXCEPT ![p] = Writing(cz, @.crypter, removed)]

\* The existence of the meta file is tested before it is opened.
Create(p) ==
  /\ proc[p].pc = "idle"
  /\ meta = NoFile
  /\ StartWrite(p, EmptyCzar, NoVersion)
  /\ UNCHANGED <<meta, keyfile, used, dead, crashes>>

AddKey(p) ==
  /\ IsLoaded(p)
  /\ \E n \in Version, s \in Status, k \in Key \ used :
       /\ IsNextVersion(proc[p].czar, n)
       /\ IsFreshKey(proc[p].czar, k)
       /\ StartWrite(p, Added(proc[p].czar, n, s, k), NoVersion)
       /\ used' = used \cup {k}
  /\ UNCHANGED <<meta, keyfile, dead, crashes>>

Promote(p, v) ==
  /\ IsLoaded(p) /\ ~proc[p].crypter
  /\ IF CanPromote(proc[p].czar, v)
       THEN StartWrite(p, Promoted(proc[p].czar, v), NoVersion)
       ELSE Exit(p)
  /\ UNCHANGED <<meta, keyfile, used, dead, crashes>>

Demote(p, v) ==
  /\ IsLoaded(p) /\ ~proc[p].crypter
  /\ IF CanDemote(proc[p].czar, v)
       THEN StartWrite(p, Demoted(proc[p].czar, v), NoVersion)
       ELSE Exit(p)
  /\ UNCHANGED <<meta, keyfile, used, dead, crashes>>

Revoke(p, v) ==
  /\ IsLoaded(p) /\ ~proc[p].crypter
  /\ IF CanRevoke(proc[p].czar, v)
       THEN StartWrite(p, Revoked(proc[p].czar, v), v)
       ELSE Exit(p)
  /\ UNCHANGED <<meta, keyfile, used, dead, crashes>>

\* usekey, pubkey, or an application: the loaded key set is not written.
Use(p) ==
  /\ IsLoaded(p)
  /\ Exit(p)
  /\ UNCHANGED <<meta, keyfile, used, dead, crashes>>
-------------------------------------------------------------------------------
(***************************************************************************)
(* GenericKeyczar.Write.  The order of the files is the only difference    *)
(* between the Python and the Java code.                                   *)
(***************************************************************************)
PythonOrder(todo, f) == Meta \in todo => f = Meta
MetaLeads(todo, f) == Meta \in todo => f = Meta   \* mutant
JavaOrder(todo, f) == f = Meta => todo = {Meta}

IsNextFile(todo, f) ==
  /\ f \in todo
  /\ IF MetaFirst THEN PythonOrder(todo, f) ELSE JavaOrder(todo, f)

MetaOf(pr) ==
  [status    |-> [v \in Version |->
                    IF v \in pr.czar.listed THEN pr.czar.status[v] ELSE Absent],
   encrypted |-> pr.crypter,
   holds     |-> [v \in Version |->
                    IF v \in pr.czar.listed THEN pr.czar.key[v] ELSE NoKey]]

Opened(pr, f) == [pr EXCEPT !.open = f, !.todo = @ \ {f}]

\* WriteFile, first half: open(loc, "w") creates or truncates the file.
OpenFile(p, f) ==
  /\ proc[p].pc = "write" /\ proc[p].open = NoneOpen
  /\ IsNextFile(proc[p].todo, f)
  /\ proc' = [proc EXCEPT ![p] = Opened(@, f)]
  /\ IF f = Meta
       THEN meta' = Torn /\ UNCHANGED keyfile
       ELSE keyfile' = [keyfile EXCEPT ![f] = Torn] /\ UNCHANGED meta
  /\ UNCHANGED <<used, dead, crashes>>

(***************************************************************************)
(* WriteFile, second half: the data reaches the file.  If another process  *)
(* has filled the file since, its tail stays when it is the longer one.    *)
(***************************************************************************)
Outcomes(content, mine) == IF content = Torn THEN {mine} ELSE {mine, Torn}

\* Mutant: revoke leaves the file where it is.
AfterFileKept(pr) == IF pr.todo # {} THEN [pr EXCEPT !.open = NoneOpen] ELSE Idle

AfterFile(pr) ==
  IF pr.todo # {} THEN [pr EXCEPT !.open = NoneOpen]
  ELSE IF pr.remove # NoVersion THEN [pr EXCEPT !.open = NoneOpen, !.pc = "remove"]
  ELSE Idle

Died(cz, v) == IF v = NoVersion THEN {} ELSE {cz.key[v]}

FillMeta(p) ==
  /\ proc[p].open = Meta
  /\ meta' \in Outcomes(meta, MetaOf(proc[p]))
  /\ proc' = [proc EXCEPT ![p] = AfterFile(@)]
  /\ dead' = dead \cup Died(proc[p].czar, proc[p].remove)
  /\ UNCHANGED <<keyfile, used, crashes>>

FillKey(p) ==
  LET f == proc[p].open IN
  /\ f \in Version
  /\ \E content \in Outcomes(keyfile[f], [key |-> proc[p].czar.key[f],
                                          encrypted |-> proc[p].crypter]) :
       keyfile' = [keyfile EXCEPT ![f] = content]
  /\ proc' = [proc EXCEPT ![p] = AfterFile(@)]
  /\ UNCHANGED <<meta, used, dead, crashes>>

\* The data goes to a file that no name leads to any more.
FillUnlinked(p) ==
  /\ proc[p].open = Unlinked
  /\ proc' = [proc EXCEPT ![p] = AfterFile(@)]
  /\ UNCHANGED <<meta, keyfile, used, dead, crashes>>

\* FileWriter.Remove; os.remove raises if the file is gone.
RemoveFile(p) ==
  LET f == proc[p].remove IN
  /\ proc[p].pc = "remove"
  /\ keyfile' = [keyfile EXCEPT ![f] = NoFile]
  /\ proc' = [q \in Proc |->
       IF q = p THEN Idle
       ELSE IF proc[q].open = f THEN [proc[q] EXCEPT !.open = Unlinked]
       ELSE proc[q]]
  /\ UNCHANGED <<meta, used, dead, crashes>>

Crash(p) ==
  /\ proc[p].pc # "idle"
  /\ crashes < MaxCrashes
  /\ crashes' = crashes + 1
  /\ Exit(p)
  /\ UNCHANGED <<meta, keyfile, used, dead>>
-------------------------------------------------------------------------------
Load(p) == \E v \in Version : ReadKey(p, v)

Command(p) ==
  \/ Use(p)
  \/ /\ p \in Admin
     /\ \/ AddKey(p)
        \/ \E v \in Version : Promote(p, v) \/ Demote(p, v) \/ Revoke(p, v)

Write(p) ==
  \/ \E f \in File : OpenFile(p, f)
  \/ FillMeta(p)
  \/ FillKey(p)
  \/ FillUnlinked(p)
  \/ RemoveFile(p)

Next ==
  \E p \in Proc :
    \/ p \in Admin /\ Create(p)
    \/ \E crypter \in CrypterFlags : ReadMeta(p, crypter)
    \/ Load(p)
    \/ Command(p)
    \/ Write(p)
    \/ Crash(p)

Spec == Init /\ [][Next]_vars

\* A process that is alive runs on; it need not start a command.
FairSpec ==
  Spec /\ \A p \in Proc : WF_vars(Load(p) \/ Command(p) \/ Write(p))
-------------------------------------------------------------------------------
TypeOK ==
  /\ meta \in MetaContent \cup {NoFile, Torn}
  /\ keyfile \in [Version -> KeyContent \cup {NoFile, Torn}]
  /\ proc \in [Proc -> ProcState]
  /\ used \subseteq Key
  /\ dead \subseteq Key
  /\ crashes \in 0 .. MaxCrashes

(***************************************************************************)
(* However many processes write the directory at once and wherever they    *)
(* die, a meta file that parses never names two primaries: the check in    *)
(* Keyczar.__init__ ("Key sets may only have a single primary version")    *)
(* never makes the key set unusable.                                       *)
(***************************************************************************)
SinglePrimary ==
  IsReadable(meta) => HasOnePrimary(ListedIn(meta), meta.status)

IsWriting(p) == proc[p].pc \in {"write", "remove"}

(***************************************************************************)
(* A load that succeeds while the key set is being changed gives the       *)
(* application the keys its metadata stood for: a version is bound to      *)
(* another key only if its own key was revoked in the meantime and its     *)
(* number given out again.                                                 *)
(***************************************************************************)
LoadMatchesMetadata ==
  \A p \in Proc : IsLoaded(p) =>
    \A v \in proc[p].czar.listed :
      \/ proc[p].czar.key[v] = proc[p].expects[v]
      \/ proc[p].expects[v] \in dead

(***************************************************************************)
(* docs/keyczar.tex:126, "The revoke command will permenantly delete key   *)
(* material": a key whose revocation the meta file has recorded is never   *)
(* again what a listed version's file holds, where every load would take   *)
(* it up.                                                                  *)
(***************************************************************************)
DeadStaysDead ==
  IsReadable(meta) =>
    \A v \in ListedIn(meta) : IsReadable(keyfile[v]) => keyfile[v].key \notin dead

Right(v) == keyfile[v] = [key |-> meta.holds[v], encrypted |-> meta.encrypted]

(***************************************************************************)
(* With the key files written before the meta file, a crash costs one file *)
(* at most: if the metadata can be read, every listed version but one has  *)
(* its own key, protected as the metadata says.                            *)
(***************************************************************************)
CrashCostsOneFile ==
  IsReadable(meta) =>
    \A v, w \in ListedIn(meta) : Right(v) \/ Right(w) \/ v = w

(***************************************************************************)
(* When no command is under way, the directory holds exactly the files of  *)
(* the listed versions: all can be loaded, and no revoked key is left on   *)
(* disk.                                                                   *)
(***************************************************************************)
RestingDirectoryIsClean ==
  (\A p \in Proc : ~IsWriting(p)) =>
    \/ meta = NoFile /\ keyfile = [v \in Version |-> NoFile]
    \/ /\ IsReadable(meta)
       /\ \A v \in Version :
            IF v \in ListedIn(meta) THEN Right(v) ELSE keyfile[v] = NoFile

(***************************************************************************)
(* Revocation gets done: once the metadata has dropped a key, its file     *)
(* disappears and the key is never on disk again.                          *)
(***************************************************************************)
RevocationCompletes ==
  \A k \in Key : k \in dead ~>
    [](\A v \in Version : IsReadable(keyfile[v]) => keyfile[v].key # k)
-------------------------------------------------------------------------------
(***************************************************************************)
(* The administrator's view.  A command takes effect when its first file   *)
(* is about to be written: from then on the key set is what that process   *)
(* is writing, and between commands it is what the files hold.             *)
(***************************************************************************)
Writers == {p \in Proc : IsWriting(p)}

Writer == proc[CHOOSE p \in Writers : TRUE]

OnDisk ==
  IF IsReadable(meta)
    THEN Rebuilt(ListedIn(meta), meta.status,
           [v \in Version |->
              IF IsReadable(keyfile[v]) THEN keyfile[v].key ELSE NoKey])
    ELSE EmptyCzar

Seen ==
  IF Writers = {} THEN OnDisk
  ELSE Rebuilt(Writer.czar.listed, Writer.czar.status, Writer.czar.key)

SeenEncrypted ==
  IF Writers # {} THEN Writer.crypter ELSE IsReadable(meta) /\ meta.encrypted

Atomic == INSTANCE AtomicKeyset WITH
  exists    <- Writers # {} \/ meta # NoFile,
  set       <- Seen,
  encrypted <- SeenEncrypted

(***************************************************************************)
(* With one administrator and no crash, the sequence of file operations is *)
(* indistinguishable from commands that take effect at once: nothing that  *)
(* the load and the write do file by file loses, mixes or resurrects a     *)
(* version.                                                                *)
(***************************************************************************)
ActsAtomically == Atomic!Spec
===============================================================================
