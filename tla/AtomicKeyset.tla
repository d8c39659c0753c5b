----------------------------- MODULE AtomicKeyset -----------------------------
(***************************************************************************)
(* What the key set tool promises to one administrator: a key set whose    *)
(* commands take effect at once and completely.  The numbers, statuses and *)
(* keys of a set change by the same rules as in a GenericKeyczar, a revoked*)
(* version is gone, and the keys of one set are all encrypted or all plain.*)
(***************************************************************************)
EXTENDS Keyset

VARIABLES
  exists,     \* was the key set created?
  set,        \* its versions
  encrypted   \* are its keys encrypted?

vars == <<exists, set, encrypted>>

Init == exists = FALSE /\ set = EmptyCzar /\ encrypted = FALSE

Create ==
  /\ ~exists
  /\ exists' = TRUE
  /\ UNCHANGED <<set, encrypted>>

\* Only the first key decides whether the key set is encrypted.
AddKey(crypter) ==
  /\ exists
  /\ crypter = encrypted \/ (set.listed = {} /\ ~encrypted)
  /\ \E n \in Version, s \in Status, k \in Key :
       /\ IsNextVersion(set, n)
       /\ IsFreshKey(set, k)
       /\ set' = Added(set, n, s, k)
  /\ encrypted' = crypter
  /\ UNCHANGED exists

\* The commands without a --crypter flag change unencrypted key sets only.
Change(cz) ==
  /\ exists /\ ~encrypted
  /\ set' = cz
  /\ UNCHANGED <<exists, encrypted>>

Promote(v) == CanPromote(set, v) /\ Change(Promoted(set, v))

Demote(v) == CanDemote(set, v) /\ Change(Demoted(set, v))

Revoke(v) ==
  /\ CanRevoke(set, v)
  /\ Change(Rebuilt(set.listed \ {v}, set.status, set.key))

Next ==
  \/ Create
  \/ \E crypter \in BOOLEAN : AddKey(crypter)
  \/ \E v \in Version : Promote(v) \/ Demote(v) \/ Revoke(v)

Spec == Init /\ [][Next]_vars
===============================================================================
