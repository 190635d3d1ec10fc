------------------------------- MODULE Names --------------------------------
(***************************************************************************)
(* Addresses [vanity].[keyid].minecraft and what is typed for them:        *)
(* crates/core/src/name.rs.  A text is a sequence of labels, each a word   *)
(* (what it spells in lower case) that may be written with capitals, with  *)
(* or without blanks around the whole.  Of a word only its length and      *)
(* whether all of its characters are base32 matter.                        *)
(*                                                                         *)
(* Option and Result values are sets with at most one element.             *)
(***************************************************************************)
EXTENDS Integers, Sequences

CONSTANTS
    Word,          \* what a label may spell
    Length,        \* [Word -> length in bytes]
    Base32,        \* the words made of a-z and 2-7 only
    Empty,         \* the empty word
    Suffix,        \* SUFFIX
    MinKeyidLen,   \* MIN_KEYID_LEN
    MaxKeyidLen,   \* MAX_KEYID_LEN
    MaxVanityLen,  \* the longest vanity label (8)
    Key,           \* public keys
    Keyid          \* [Key -> [lengths -> Word]]: keyid_from_pubkey

ASSUME WordAssumption ==
    /\ Length \in [Word -> Nat]
    /\ Base32 \subseteq Word
    /\ {Empty, Suffix} \subseteq Word
    /\ \A w \in Word : Length[w] = 0 <=> w = Empty
    /\ MinKeyidLen \in Nat \ {0} /\ MaxKeyidLen \in Nat /\ MaxVanityLen \in Nat

\* The keyid is the beginning of the lowercase base32 of a hash.
ASSUME KeyidAssumption ==
    \A k \in Key : \A len \in MinKeyidLen..MaxKeyidLen :
        Keyid[k][len] \in Base32 /\ Length[Keyid[k][len]] = len

Label == [word : Word, capitals : BOOLEAN]
Text == [blanks : BOOLEAN, labels : Seq(Label)]

-----------------------------------------------------------------------------

check_keyid_len(len) == len \in MinKeyidLen..MaxKeyidLen

validate_keyid(w) == w # Empty /\ check_keyid_len(Length[w]) /\ w \in Base32

validate_vanity(w) == w = Empty \/ (Length[w] <= MaxVanityLen /\ w \in Base32)

\* The names there are.
Name == {n \in [vanity : Word, keyid : Word] :
            validate_vanity(n.vanity) /\ validate_keyid(n.keyid)}

from_pubkey(key, vanity, len) ==
    IF check_keyid_len(len) /\ validate_vanity(vanity)
    THEN {[vanity |-> vanity, keyid |-> Keyid[key][len]]}
    ELSE {}

\* trim() and to_ascii_lowercase(), split at the dots.
Normal(text) == [i \in 1..Len(text.labels) |-> text.labels[i].word]

\* The last label is the suffix, the one before it the keyid, and a third, in
\* front, the vanity - which may be empty there too.
parse(text) ==
    LET w == Normal(text)
        n == Len(text.labels)
        name == [vanity |-> IF n = 3 THEN w[1] ELSE Empty, keyid |-> w[n - 1]]
    IN  IF n \in 2..3 /\ w[n] = Suffix
             /\ validate_vanity(name.vanity) /\ validate_keyid(name.keyid)
        THEN {name} ELSE {}

Plain(w) == [word |-> w, capitals |-> FALSE]

\* Display: an empty vanity is left out.
to_string(n) ==
    [blanks |-> FALSE,
     labels |-> IF n.vanity = Empty
                THEN <<Plain(n.keyid), Plain(Suffix)>>
                ELSE <<Plain(n.vanity), Plain(n.keyid), Plain(Suffix)>>]
=============================================================================
