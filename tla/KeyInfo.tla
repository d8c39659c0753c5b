------------------------------- MODULE KeyInfo -------------------------------
(***************************************************************************)
(* The enumerations of keyinfo.py: key types with their admissible sizes,  *)
(* statuses, purposes, and the type and purpose of the key sets that the   *)
(* tool can create or export.                                              *)
(***************************************************************************)
EXTENDS Integers

PrivateTypes == {"AES", "HMAC_SHA1", "DSA_PRIV", "RSA_PRIV"}
PublicTypes == {"DSA_PUB", "RSA_PUB"}
KeyTypes == PrivateTypes \cup PublicTypes

Status == {"PRIMARY", "ACTIVE", "INACTIVE"}

Purposes == {"DECRYPT_AND_ENCRYPT", "ENCRYPT", "SIGN_AND_VERIFY", "VERIFY"}

\* KeyType.__sizes: the sizes IsValidSize accepts.
SizesOf(type) ==
  CASE type = "AES" -> {128, 192, 256}
    [] type = "HMAC_SHA1" -> {256}
    [] type \in {"DSA_PRIV", "DSA_PUB"} -> {1024}
    [] type \in {"RSA_PRIV", "RSA_PUB"} -> {2048, 4096, 1024, 768, 512}

\* KeyType.default_size: the head of the list of sizes.
DefaultSize(type) ==
  CASE type = "AES" -> 128
    [] type = "HMAC_SHA1" -> 256
    [] type \in {"DSA_PRIV", "DSA_PUB"} -> 1024
    [] type \in {"RSA_PRIV", "RSA_PUB"} -> 2048

\* keyczart.Create: the type chosen for a purpose and the --asymmetric flag.
CreatedKinds ==
  {[type |-> "HMAC_SHA1", purpose |-> "SIGN_AND_VERIFY"],
   [type |-> "RSA_PRIV",  purpose |-> "SIGN_AND_VERIFY"],
   [type |-> "DSA_PRIV",  purpose |-> "SIGN_AND_VERIFY"],
   [type |-> "AES",       purpose |-> "DECRYPT_AND_ENCRYPT"],
   [type |-> "RSA_PRIV",  purpose |-> "DECRYPT_AND_ENCRYPT"]}

\* PublicKeyExport: a kind has a public counterpart only if its keys are pairs.
IsExportable(kind) ==
  \/ kind.type = "DSA_PRIV" /\ kind.purpose = "SIGN_AND_VERIFY"
  \/ kind.type = "RSA_PRIV"
       /\ kind.purpose \in {"DECRYPT_AND_ENCRYPT", "SIGN_AND_VERIFY"}

PublicKind(kind) ==
  [type |-> IF kind.type = "DSA_PRIV" THEN "DSA_PUB" ELSE "RSA_PUB",
   purpose |-> IF kind.purpose = "SIGN_AND_VERIFY" THEN "VERIFY" ELSE "ENCRYPT"]

Kinds == CreatedKinds \cup {PublicKind(k) : k \in {c \in CreatedKinds : IsExportable(c)}}
==============================================================================
