---------------------------- MODULE NamesProofs -----------------------------
(* What is printed for a name is parsed as that name. *)
EXTENDS Names, TLAPS

\* What the labels of a printed name spell.
LEMMA PrintedLabels ==
    ASSUME NEW n \in Name
    PROVE  LET t == to_string(n)
               m == IF n.vanity = Empty THEN 2 ELSE 3
           IN  /\ Len(t.labels) = m
               /\ Normal(t)[m] = Suffix
               /\ Normal(t)[m - 1] = n.keyid
               /\ m = 3 => Normal(t)[1] = n.vanity
<1>1. CASE n.vanity = Empty
  BY <1>1 DEF to_string, Normal, Plain
<1>2. CASE n.vanity # Empty
  BY <1>2 DEF to_string, Normal, Plain
<1> QED
  BY <1>1, <1>2

\* Name::parse takes what Display prints back to the name it was printed for, for
\* every name there is: with a vanity and without one, and with every length of
\* keyid.  The agent may therefore key its map of tunnels by what names print as.
THEOREM RoundTrip == \A n \in Name : parse(to_string(n)) = {n}
<1> SUFFICES ASSUME NEW n \in Name PROVE parse(to_string(n)) = {n}
  OBVIOUS
<1> DEFINE t == to_string(n)
           m == IF n.vanity = Empty THEN 2 ELSE 3
           name == [vanity |-> IF m = 3 THEN Normal(t)[1] ELSE Empty,
                    keyid |-> Normal(t)[m - 1]]
<1>1. /\ Len(t.labels) = m
      /\ Normal(t)[m] = Suffix
      /\ Normal(t)[m - 1] = n.keyid
      /\ m = 3 => Normal(t)[1] = n.vanity
  BY PrintedLabels
<1>2. n \in [vanity : Word, keyid : Word] /\ validate_vanity(n.vanity) /\ validate_keyid(n.keyid)
  BY DEF Name
<1>3. name = n
  <2>1. name.vanity = n.vanity
    BY <1>1
  <2>2. name.keyid = n.keyid
    BY <1>1
  <2> QED
    BY <1>2, <2>1, <2>2
<1>4. m \in 2..3
  OBVIOUS
<1>5. parse(t) = {name}
  <2> HIDE DEF t, m
  <2> QED
    BY <1>1, <1>2, <1>3, <1>4 DEF parse
<1> QED
  BY <1>3, <1>5

\* Two names never print as the same text, so no two share an entry of that map.
THEOREM PrintedDiffer ==
    \A n1, n2 \in Name : to_string(n1) = to_string(n2) => n1 = n2
<1> SUFFICES ASSUME NEW n1 \in Name, NEW n2 \in Name, to_string(n1) = to_string(n2)
             PROVE  n1 = n2
  OBVIOUS
<1>1. {n1} = {n2}
  BY RoundTrip
<1> QED
  BY <1>1

\* Whatever is typed, parse returns nothing or one name that passes the checks of
\* keyid and vanity: no other word gets into a DHT lookup.
THEOREM ParseSound ==
    ASSUME NEW text \in Text
    PROVE  parse(text) \subseteq Name
<1> DEFINE w == Normal(text)
           n == Len(text.labels)
           name == [vanity |-> IF n = 3 THEN w[1] ELSE Empty, keyid |-> w[n - 1]]
<1>1. text.labels \in Seq(Label)
  BY DEF Text
<1>2. n \in Nat /\ \A i \in 1..n : text.labels[i] \in Label
  BY <1>1
<1>3. \A i \in 1..n : text.labels[i].word \in Word
  BY <1>2 DEF Label
<1>4. \A i \in 1..n : w[i] \in Word
  BY <1>3 DEF Normal
<1>5. ASSUME n \in 2..3, validate_vanity(name.vanity), validate_keyid(name.keyid)
      PROVE  name \in Name
  <2> HIDE DEF w, n
  <2>1. n - 1 \in 1..n /\ 1 \in 1..n
    BY <1>2, <1>5
  <2>2. w[n - 1] \in Word /\ w[1] \in Word
    BY <1>4, <2>1
  <2>3. name \in [vanity : Word, keyid : Word]
    BY <2>2, WordAssumption
  <2> QED
    BY <1>5, <2>3 DEF Name
<1> QED
  BY <1>5 DEF parse

\* The address that init and publish print for a key - whatever vanity label and
\* length they were given - is one that parse accepts, and it commits to that key.
THEOREM PublishedNameParses ==
    ASSUME NEW key \in Key, NEW vanity \in Word, NEW len \in Nat,
           NEW n \in from_pubkey(key, vanity, len)
    PROVE  parse(to_string(n)) = {n} /\ n.keyid = Keyid[key][len]
<1>1. /\ len \in MinKeyidLen..MaxKeyidLen
      /\ validate_vanity(vanity)
      /\ n = [vanity |-> vanity, keyid |-> Keyid[key][len]]
  BY DEF from_pubkey, check_keyid_len
<1>2. Keyid[key][len] \in Base32 /\ Length[Keyid[key][len]] = len
  BY <1>1, KeyidAssumption
<1>3. len # 0
  BY <1>1, WordAssumption
<1>4. Keyid[key][len] \in Word /\ Keyid[key][len] # Empty
  BY <1>2, <1>3, WordAssumption
<1>5. n \in Name
  BY <1>1, <1>2, <1>4 DEF Name, validate_keyid, check_keyid_len
<1> QED
  BY <1>1, <1>5, RoundTrip
=============================================================================
