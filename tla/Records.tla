------------------------------- MODULE Records -------------------------------
(***************************************************************************)
(* Signed location records and the self-certifying names they are filed    *)
(* under: crates/core/src/record.rs and the key derivation of name.rs.     *)
(*                                                                         *)
(* Option and Result values are sets with at most one element: {} is       *)
(* None / Err, {x} is Some(x) / Ok(x).                                     *)
(***************************************************************************)
EXTENDS Integers, Sequences, FiniteSets

CONSTANTS
    Pubkey,          \* ed25519 verifying keys
    Hash,            \* [Pubkey -> sequences]: lowercase base32 of SHA-256
    MaxKeyidLen,     \* length of a full hash (52 in the code)
    MaxRecordBytes,  \* MAX_RECORD_BYTES, the cap on a serialized record
    RecordVersion    \* RECORD_VERSION

ASSUME HashAssumption ==
    /\ MaxKeyidLen \in Nat \ {0}
    /\ \A pk \in Pubkey : Hash[pk] \in Seq(Nat) /\ Len(Hash[pk]) = MaxKeyidLen

ASSUME SizeAssumption == MaxRecordBytes \in Nat

-----------------------------------------------------------------------------
(* Names *)

keyid_full_from_pubkey(pubkey) == Hash[pubkey]

\* String::truncate leaves a string that is already shorter alone.
keyid_from_pubkey(pubkey, len) ==
    LET full == keyid_full_from_pubkey(pubkey)
    IN  SubSeq(full, 1, IF len > Len(full) THEN Len(full) ELSE len)

keyid_matches_pubkey(keyid, pubkey) ==
    keyid_from_pubkey(pubkey, Len(keyid)) = keyid

\* SHA-256 of the domain prefix and the keyid; collisions are left out, so
\* the key is the pair itself.
dht_key(keyid) == [prefix |-> "mc-tunnel:v1:", keyid |-> keyid]

\* The PeerId is the multihash of the key: as good as the key itself.
peer_id_from_ed25519(pubkey) == [peer |-> pubkey]

-----------------------------------------------------------------------------
(* Records *)

\* A signature binds the signing key to the whole body; nobody else can make
\* the pair.
sign(body, key) == [body |-> body, sig |-> [by |-> key, over |-> body]]

\* The bytes of a record: how many there are and what they decode to.
to_bytes(rec, size) == [size |-> size, cbor |-> {rec}]

from_bytes(bytes) == IF bytes.size > MaxRecordBytes THEN {} ELSE bytes.cbor

sig_verifies(rec) == rec.sig = [by |-> rec.body.pubkey, over |-> rec.body]

signature_valid(rec) == rec.body.v = RecordVersion /\ sig_verifies(rec)

abs_diff(a, b) == IF a > b THEN a - b ELSE b - a

\* A slip: verify without the binding of keyid and key.
verify_unbound(rec, expected_keyid, now, max_skew) ==
    IF rec.body.v # RecordVersion THEN "UnsupportedVersion"
    ELSE IF ~sig_verifies(rec) THEN "BadSignature"
    ELSE IF abs_diff(now, rec.body.ts) > max_skew THEN "StaleTimestamp"
    ELSE "Ok"

\* The checks in the order of the code: the first that fails names the error.
verify(rec, expected_keyid, now, max_skew) ==
    IF rec.body.v # RecordVersion THEN "UnsupportedVersion"
    ELSE IF ~sig_verifies(rec) THEN "BadSignature"
    ELSE IF ~keyid_matches_pubkey(expected_keyid, rec.body.pubkey)
         THEN "KeyidMismatch"
    ELSE IF abs_diff(now, rec.body.ts) > max_skew THEN "StaleTimestamp"
    ELSE "Ok"

authorizes_storage_key(rec, storage_key) ==
    /\ signature_valid(rec)
    /\ LET full == keyid_full_from_pubkey(rec.body.pubkey)
       IN  \E l \in 1 .. Len(full) : dht_key(SubSeq(full, 1, l)) = storage_key

\* Positions of the candidates that parse and verify.
verified_at(candidates, expected_keyid, now, max_skew) ==
    {i \in 1 .. Len(candidates) :
        \E rec \in from_bytes(candidates[i]) :
            verify(rec, expected_keyid, now, max_skew) = "Ok"}

\* The newest verified candidate; Iterator::max_by_key keeps the last of
\* several that tie.
select_verified(candidates, expected_keyid, now, max_skew) ==
    LET ok == verified_at(candidates, expected_keyid, now, max_skew)
        beats(m, j) == \A r \in from_bytes(candidates[m]),
                          s \in from_bytes(candidates[j]) :
                            \/ s.body.ts < r.body.ts
                            \/ s.body.ts = r.body.ts /\ j <= m
    IN  UNION {from_bytes(candidates[i]) :
                 i \in {m \in ok : \A j \in ok : beats(m, j)}}
=============================================================================
