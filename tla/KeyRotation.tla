----------------------------- MODULE KeyRotation -----------------------------
(***************************************************************************)
(* Encrypters, Crypters, Signers and Verifiers that live while their key   *)
(* set is rotated.  Each holds the keys it read when it was constructed    *)
(* (Keyczar.__init__) and never looks at the directory again, so that the  *)
(* one that makes a message and the one that reads it may have key sets of *)
(* different ages.                                                         *)
(*                                                                         *)
(* A version climbs and falls one status at a time.  That ladder is all    *)
(* that keeps old objects useful, and it only does if the administrator    *)
(* waits: a command is given only when every living object is fewer than   *)
(* pace commands behind, and a key is added only at a status from which    *)
(* pace commands cannot carry it past PRIMARY.                             *)
(***************************************************************************)
EXTENDS Keyset, FiniteSets

CONSTANTS
  Party,      \* processes that hold an Encrypter, Crypter, Signer or Verifier
  Paces,      \* how many commands an object may be behind
  MaxWire     \* bound: messages kept

(***************************************************************************)
(* The height of a status above REVOKED, the fourth rung that is not       *)
(* written anywhere.                                                       *)
(***************************************************************************)
Height(s) ==
  CASE s = "PRIMARY" -> 3
    [] s = "ACTIVE" -> 2
    [] s = "INACTIVE" -> 1
    [] OTHER -> 0

ASSUME RotationAssumption ==
  /\ Paces \subseteq 0 .. 2
  /\ MaxWire \in Nat

\* The statuses that addkey may be given.
NewStatus(d) == {s \in Status : Height(s) + d <= 3}

VARIABLES
  pace,     \* the administrator's patience, which never changes
  set,      \* the key set on disk
  minted,   \* keys generated so far: a random generator repeats none
  alive,    \* the parties that have constructed their object
  snap,     \* what it holds
  lag,      \* commands given since then
  wire      \* messages that may still have to be read

vars == <<pace, set, minted, alive, snap, lag, wire>>

Keys(cz) == {cz.key[v] : v \in Loaded(cz)}

Form == {"ciphertext", "signature", "attached", "unversioned"}

\* A message carries the key that made it; all but the unversioned carry its hash_id.
Message == [form : Form, key : Key]

TypeOK ==
  /\ pace \in Paces
  /\ set \in Czar
  /\ minted \in SUBSET Key
  /\ alive \in SUBSET Party
  /\ snap \in [Party -> Czar]
  /\ lag \in [Party -> 0 .. 2]
  /\ wire \in SUBSET Message

Init ==
  /\ pace \in Paces
  /\ set = EmptyCzar
  /\ minted = {}
  /\ alive = {}
  /\ snap = [p \in Party |-> EmptyCzar]
  /\ lag = [p \in Party |-> 0]
  /\ wire = {}
-------------------------------------------------------------------------------
(***************************************************************************)
(* The administrator.  Between two commands the key set is only on disk,   *)
(* and every command begins by loading it.                                 *)
(***************************************************************************)
Command(cz) ==
  /\ \A p \in alive : lag[p] < pace
  /\ set' = cz
  /\ lag' = [p \in Party |-> IF p \in alive THEN lag[p] + 1 ELSE 0]
  /\ UNCHANGED <<pace, alive, snap, wire>>

AddKey(n, s, k) ==
  /\ IsNextVersion(set, n)
  /\ k \notin minted
  /\ IsFreshKey(set, k)
  /\ minted' = minted \cup {k}
  /\ Command(Added(set, n, s, k))

Promote(v) == CanPromote(set, v) /\ Command(Promoted(set, v)) /\ UNCHANGED minted

Demote(v) == CanDemote(set, v) /\ Command(Demoted(set, v)) /\ UNCHANGED minted

\* The command writes the metadata without v and removes v's key file.
Revoke(v) ==
  /\ CanRevoke(set, v)
  /\ Command(Rebuilt(set.listed \ {v}, set.status, set.key))
  /\ UNCHANGED minted
-------------------------------------------------------------------------------
\* Encrypter.Read and its siblings: the object replaces the one p had.
Read(p) ==
  /\ HasOnePrimary(set.listed, set.status)
  /\ alive' = alive \cup {p}
  /\ snap' = [snap EXCEPT ![p] = Rebuilt(set.listed, set.status, set.key)]
  /\ lag' = [lag EXCEPT ![p] = 0]
  /\ UNCHANGED <<pace, set, minted, wire>>

\* Keyczar.primary_key; with no primary, GetKey raises and nothing is made.
PrimaryKey(cz) == cz.key[cz.primary]

EmitUnderVersion(p, form) ==                                     \* mutant
  /\ p \in alive
  /\ snap[p].primary # NoVersion
  /\ Cardinality(wire) < MaxWire
  /\ wire' = wire \cup {[form |-> form, key |-> snap[p].primary]}
  /\ UNCHANGED <<pace, set, minted, alive, snap, lag>>

Emit(p, form) ==
  /\ p \in alive
  /\ snap[p].primary # NoVersion
  /\ Cardinality(wire) < MaxWire
  /\ wire' = wire \cup {[form |-> form, key |-> PrimaryKey(snap[p])]}
  /\ UNCHANGED <<pace, set, minted, alive, snap, lag>>

Encrypt(p) == Emit(p, "ciphertext")

Sign(p) == Emit(p, "signature")

AttachedSign(p) == Emit(p, "attached")

UnversionedSign(p) == Emit(p, "unversioned")

Next ==
  \/ \E n \in Version, s \in NewStatus(pace), k \in Key : AddKey(n, s, k)
  \/ \E v \in Version : Promote(v) \/ Demote(v) \/ Revoke(v)
  \/ \E p \in Party :
       Read(p) \/ Encrypt(p) \/ Sign(p) \/ AttachedSign(p) \/ UnversionedSign(p)

Spec == Init /\ [][Next]_vars
-------------------------------------------------------------------------------
(***************************************************************************)
(* Reading changes nothing, so it is a function of the object and the      *)
(* message.  _ParseHeader looks the key up under the hash_id in the header *)
(* and the key found must be the one that made the message, or its check   *)
(* of the signature fails; UnversionedVerifier tries the key of each       *)
(* version.                                                                *)
(***************************************************************************)
GetKey(cz, h) ==
  IF HasHash(cz, h)
    THEN cz.key[CHOOSE v \in Loaded(cz) : Hash[cz.key[v]] = h]
    ELSE NoKey

TriesPrimary(cz, m) ==                                           \* mutant
  cz.primary # NoVersion /\ m.key = PrimaryKey(cz)

TriesEach(cz, m) == \E v \in Loaded(cz) : cz.key[v] = m.key

ParsesHeader(cz, m) == GetKey(cz, Hash[m.key]) = m.key

Reads(cz, m) ==
  IF m.form = "unversioned" THEN TriesEach(cz, m) ELSE ParsesHeader(cz, m)

(***************************************************************************)
(* What a living object would encrypt or sign with at this moment          *)
(* (Encrypter.Encrypt, Signer.Sign), every other living object, older or   *)
(* newer, can decrypt or verify at this moment (Crypter.Decrypt,           *)
(* Verifier.Verify, UnversionedVerifier.Verify).                           *)
(***************************************************************************)
PeersCanRead ==
  \A p, q \in alive : snap[p].primary # NoVersion =>
    \A f \in Form : Reads(snap[q], [form |-> f, key |-> PrimaryKey(snap[p])])

(***************************************************************************)
(* A message that was made at any time, by an object of any permitted age, *)
(* is read by every living object (Crypter.Decrypt, Verifier.Verify,       *)
(* Verifier.AttachedVerify, UnversionedVerifier.Verify) until its key is   *)
(* revoked, although key identifiers may collide and version numbers come  *)
(* back.                                                                   *)
(***************************************************************************)
ReadableUntilRevoked ==
  \A m \in wire, q \in alive : m.key \in Keys(set) => Reads(snap[q], m)
===============================================================================
