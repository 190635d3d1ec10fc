----------------------------- MODULE DhtProofs ------------------------------
(***************************************************************************)
(* Proofs about Dht: type correctness, LockoutBounded, ResolvedGenuine and *)
(* NoRollback, for any nodes, keys, clocks and windows.                    *)
(***************************************************************************)
EXTENDS Dht, TLAPS

-----------------------------------------------------------------------------
(* Facts about values, names and keys *)

\* Parsing yields nothing that is not in the bytes, and at most one record.
LEMMA FromBytesFacts ==
    ASSUME NEW v \in Value
    PROVE  /\ from_bytes(v) \subseteq v.cbor
           /\ from_bytes(v) \subseteq Record
           /\ AtMostOne(from_bytes(v))
           /\ v.size \in Nat
BY SizeAssumption DEF Value, from_bytes, AtMostOne

\* What a publisher puts is a well-formed value around one record.
LEMMA PublishedValue ==
    ASSUME NEW p \in Owner, NEW addrs \in Locations, NEW ts \in Int
    PROVE  LET rec == build_record(p, addrs, ts)
               value == to_bytes(rec, RecordSize[addrs])
           IN  /\ rec \in Record
               /\ value \in Value
               /\ value.cbor = {rec}
               /\ signature_valid(rec)
               /\ rec.body.pubkey = p
               /\ rec.body.ts = ts
               /\ rec.body.ttl = RecordTtl
<1> DEFINE body == [v |-> RecordVersion, pubkey |-> p,
                    peer_id |-> peer_id_from_ed25519(p),
                    addrs |-> addrs, ts |-> ts, ttl |-> RecordTtl]
<1>1. p \in Pubkey
    BY OwnerAssumption
<1>2. body \in Body
    BY <1>1, ConstantsAssumption DEF Body, peer_id_from_ed25519
<1>3. build_record(p, addrs, ts) = [body |-> body, sig |-> [by |-> p, over |-> body]]
    BY DEF build_record, sign
<1>4. RecordSize[addrs] \in Nat
    BY OwnerAssumption
<1> HIDE DEF body
<1>5. build_record(p, addrs, ts) \in Record
    BY <1>1, <1>2, <1>3 DEF Record
<1>6. /\ body.v = RecordVersion /\ body.pubkey = p /\ body.ts = ts
      /\ body.ttl = RecordTtl
    BY DEF body
<1>7. signature_valid(build_record(p, addrs, ts))
    BY <1>3, <1>6 DEF signature_valid, sig_verifies
<1> QED
    BY <1>3, <1>4, <1>5, <1>6, <1>7 DEF to_bytes, Value, AtMostOne

\* The expiry computed for a value is a set of at most one instant.
LEMMA ExpiryTyped ==
    ASSUME TypeOK, NEW v \in Value
    PROVE  [value |-> v, expires |-> ExpiresIn(v)] \in Entry
<1>1. ExpiresIn(v) \subseteq Int
  <2> SUFFICES ASSUME NEW rec \in from_bytes(v)
               PROVE  now + rec.body.ttl \in Int
      BY DEF ExpiresIn
  <2>1. rec \in Record
      BY FromBytesFacts
  <2> QED
      BY <2>1 DEF TypeOK, Record, Body
<1> QED
    BY <1>1 DEF Entry

-----------------------------------------------------------------------------
(* Type correctness *)

LEMMA TypeInit == Init => TypeOK
BY ConstantsAssumption, ForeignAssumption DEF Init, TypeOK, AtMostOne

LEMMA KeyOfOwner ==
    ASSUME NEW p \in Owner
    PROVE  dht_key(keyid_from_pubkey(p, KeyidLen[p])) \in DhtKey
BY OwnerAssumption DEF DhtKey

LEMMA TypeNext == TypeOK /\ [Next]_vars => TypeOK'
<1> SUFFICES ASSUME TypeOK, [Next]_vars PROVE TypeOK'
    OBVIOUS
<1>1. CASE Tick
    BY <1>1 DEF Tick, netVars, resolverVars, TypeOK
<1>2. ASSUME NEW p \in Owner, Publish(p) PROVE TypeOK'
  <2>1. PICK addrs \in Locations, ts \in OwnerClock(p) :
          LET value == to_bytes(build_record(p, addrs, ts), RecordSize[addrs])
              n == Home[p]
              k == dht_key(keyid_from_pubkey(p, KeyidLen[p]))
          IN  /\ store' = [store EXCEPT ![n][k] =
                            {[value |-> value, expires |-> ExpiresIn(value)]}]
              /\ held' = [held EXCEPT ![n][k] =
                            {rec.body.ts : rec \in from_bytes(value)}]
              /\ wire' = wire \cup {value}
      BY <1>2 DEF Publish
  <2> DEFINE value == to_bytes(build_record(p, addrs, ts), RecordSize[addrs])
             n == Home[p]
             k == dht_key(keyid_from_pubkey(p, KeyidLen[p]))
  <2>2. ts \in Int
      BY OwnerAssumption DEF OwnerClock, TypeOK
  <2>3. value \in Value
      BY <2>2, PublishedValue
  <2>4. {rec.body.ts : rec \in from_bytes(value)} \subseteq Int
      BY <2>3, FromBytesFacts DEF Record, Body
  <2>5. [value |-> value, expires |-> ExpiresIn(value)] \in Entry
      BY <2>3, ExpiryTyped
  <2>6. n \in Node /\ k \in DhtKey
      BY OwnerAssumption, KeyOfOwner
  <2>7. /\ store' = [store EXCEPT ![n][k] =
                            {[value |-> value, expires |-> ExpiresIn(value)]}]
        /\ held' = [held EXCEPT ![n][k] =
                            {rec.body.ts : rec \in from_bytes(value)}]
        /\ wire' = wire \cup {value}
      BY <2>1
  <2> HIDE DEF value, n, k
  <2>8. /\ store' \in [Node -> [DhtKey -> SUBSET Entry]]
        /\ \A m \in Node, j \in DhtKey : AtMostOne(store'[m][j])
      BY <2>5, <2>6, <2>7 DEF TypeOK, AtMostOne
  <2>9. held' \in [Node -> [DhtKey -> SUBSET Int]]
      BY <2>4, <2>6, <2>7 DEF TypeOK
  <2>10. puts' = puts + 1 /\ UNCHANGED <<now, resolverVars>>
      BY <1>2 DEF Publish
  <2>11. wire' \subseteq Value
      BY <2>3, <2>7 DEF TypeOK
  <2> QED
      BY <2>8, <2>9, <2>10, <2>11 DEF resolverVars, TypeOK
<1>3. ASSUME NEW n \in Node, NEW k \in DhtKey, NEW value \in wire,
             Inbound(n, k, value)
      PROVE  TypeOK'
  <2>1. PICK rec \in from_bytes(value) :
          /\ store' = [store EXCEPT ![n][k] =
                         {[value |-> value, expires |-> ExpiresIn(value)]}]
          /\ held' = [held EXCEPT ![n][k] = @ \cup {rec.body.ts}]
      BY <1>3 DEF Inbound, validate_inbound_record
  <2>2. value \in Value
      BY DEF TypeOK
  <2>3. [value |-> value, expires |-> ExpiresIn(value)] \in Entry
      BY <2>2, ExpiryTyped
  <2>4. rec.body.ts \in Int
      BY <2>2, FromBytesFacts DEF Record, Body
  <2>5. /\ store' \in [Node -> [DhtKey -> SUBSET Entry]]
        /\ \A m \in Node, j \in DhtKey : AtMostOne(store'[m][j])
      BY <2>1, <2>3 DEF TypeOK, AtMostOne
  <2>6. held' \in [Node -> [DhtKey -> SUBSET Int]]
      BY <2>1, <2>4 DEF TypeOK
  <2> QED
      BY <1>3, <2>5, <2>6 DEF Inbound, resolverVars, TypeOK
<1>4. ASSUME NEW n \in Node, NEW k \in DhtKey, Expire(n, k) PROVE TypeOK'
  <2>1. /\ store' \in [Node -> [DhtKey -> SUBSET Entry]]
        /\ \A m \in Node, j \in DhtKey : AtMostOne(store'[m][j])
      BY <1>4 DEF Expire, TypeOK, AtMostOne
  <2> QED
      BY <1>4, <2>1 DEF Expire, resolverVars, TypeOK
<1>5. ASSUME NEW n \in Node, Restart(n) PROVE TypeOK'
  <2>1. /\ store' \in [Node -> [DhtKey -> SUBSET Entry]]
        /\ \A m \in Node, j \in DhtKey : AtMostOne(store'[m][j])
        /\ held' \in [Node -> [DhtKey -> SUBSET Int]]
      BY <1>5 DEF Restart, TypeOK, AtMostOne
  <2> QED
      BY <1>5, <2>1 DEF Restart, resolverVars, TypeOK
<1>6. ASSUME NEW keyid \in Keyids, StartResolve(keyid) PROVE TypeOK'
    BY <1>6, ConstantsAssumption DEF StartResolve, NewQuery, netVars, TypeOK
<1>7. ASSUME NEW n \in Node, Answer(n) PROVE TypeOK'
  <2> DEFINE k == dht_key(target)
             live == {entry \in store[n][k] : ~Expired(entry)}
  <2>1. k \in DhtKey
      BY DEF TypeOK, DhtKey
  <2>2. live \subseteq store[n][k]
      OBVIOUS
  <2>3. /\ store' = [store EXCEPT ![n][k] = live]
        /\ \/ acc' = acc
           \/ \E entry \in live : acc' = Accumulate(entry.value)
        /\ floor' = floor \cup held[n][k]
        /\ asked' = asked \cup {n}
      BY <1>7 DEF Answer
  <2> HIDE DEF k, live
  <2>4. /\ store' \in [Node -> [DhtKey -> SUBSET Entry]]
        /\ \A m \in Node, j \in DhtKey : AtMostOne(store'[m][j])
      BY <2>1, <2>2, <2>3 DEF TypeOK, AtMostOne
  <2>5. floor' \subseteq Int
      BY <2>1, <2>3 DEF TypeOK
  <2>6. acc' \in Seq({v \in Value : v.size <= MaxRecordBytes})
    <3>1. CASE acc' = acc
        BY <3>1 DEF TypeOK
    <3>2. ASSUME NEW entry \in live, acc' = Accumulate(entry.value)
          PROVE  acc' \in Seq({v \in Value : v.size <= MaxRecordBytes})
      <4>1. entry.value \in Value
          BY <2>1, <2>2 DEF TypeOK, Entry
      <4> QED
          BY <3>2, <4>1 DEF Accumulate, TypeOK
    <3> QED
        BY <2>3, <3>1, <3>2
  <2> QED
      BY <1>7, <2>3, <2>4, <2>5, <2>6 DEF Answer, TypeOK
<1>8. ASSUME NEW value \in wire, AnswerForeign(value) PROVE TypeOK'
  <2>1. acc' \in Seq({v \in Value : v.size <= MaxRecordBytes})
      BY <1>8 DEF AnswerForeign, Accumulate, TypeOK
  <2> QED
      BY <1>8, <2>1 DEF AnswerForeign, netVars, TypeOK
<1>9. CASE FinishQuery
    BY <1>9 DEF FinishQuery, netVars, TypeOK
<1>10. CASE Select
  <2>1. PICK clock \in PeerClock :
           \/ \E rec \in select_verified(acc, target, clock, MaxSkew) :
                /\ found' = {rec}
                /\ phase' \in {"resolved", "refused"}
                /\ deadline' = {}
           \/ /\ found' = {}
              /\ phase' \in {"failed", "sleeping"}
              /\ deadline' \subseteq deadline
      BY <1>10 DEF Select
  <2>2. select_verified(acc, target, clock, MaxSkew) \subseteq Record
    <3> SUFFICES ASSUME NEW i \in 1 .. Len(acc)
                 PROVE  from_bytes(acc[i]) \subseteq Record
        BY DEF select_verified, verified_at
    <3>1. acc[i] \in Value
        BY DEF TypeOK
    <3> QED
        BY <3>1, FromBytesFacts
  <2>3. found' \subseteq Record
      BY <2>1, <2>2
  <2>4. /\ phase' \in {"failed", "sleeping", "resolved", "refused"}
        /\ deadline' \subseteq Nat
      BY <2>1 DEF TypeOK
  <2>5. acc' = <<>> /\ asked' = {} /\ floor' \subseteq floor
      BY <1>10 DEF Select
  <2> QED
      BY <1>10, <2>3, <2>4, <2>5 DEF Select, netVars, TypeOK
<1>11. CASE Retry
    BY <1>11 DEF Retry, NewQuery, netVars, TypeOK
<1>12. CASE UNCHANGED vars
    BY <1>12 DEF vars, TypeOK
<1> QED
    BY <1>1, <1>2, <1>3, <1>4, <1>5, <1>6, <1>7, <1>8, <1>9, <1>10, <1>11,
       <1>12 DEF Next

\* The type invariant of Dht: the stores hold at most one entry per key and a
\* get query never holds an oversized value (handle_kad_result's size check).
THEOREM TypeCorrect == Spec => []TypeOK
BY TypeInit, TypeNext, PTL DEF Spec

-----------------------------------------------------------------------------
(* Names, keys and the selection of a candidate *)

\* Two names share a DHT key only if they share the keyid.
LEMMA KeyInjective ==
    ASSUME NEW a, NEW b, dht_key(a) = dht_key(b)
    PROVE  a = b
BY DEF dht_key

\* The first l characters of a sequence.
LEMMA PrefixFacts ==
    ASSUME NEW s \in Seq(Nat), NEW l \in 0 .. Len(s)
    PROVE  Len(SubSeq(s, 1, l)) = l
OBVIOUS

\* A truncated hash is a keyid of the key it was made from.
LEMMA TruncatedMatches ==
    ASSUME NEW p \in Pubkey, NEW l \in Nat
    PROVE  keyid_matches_pubkey(keyid_from_pubkey(p, l), p)
<1> DEFINE full == Hash[p]
           m == IF l > Len(full) THEN Len(full) ELSE l
<1>1. full \in Seq(Nat)
    BY HashAssumption
<1>2. m \in 0 .. Len(full)
    BY <1>1
<1>3. keyid_from_pubkey(p, l) = SubSeq(full, 1, m)
    BY DEF keyid_from_pubkey, keyid_full_from_pubkey
<1>4. Len(SubSeq(full, 1, m)) = m
    BY <1>1, <1>2, PrefixFacts
<1>5. keyid_from_pubkey(p, m) = SubSeq(full, 1, m)
    BY <1>1, <1>2 DEF keyid_from_pubkey, keyid_full_from_pubkey
<1> HIDE DEF m
<1> QED
    BY <1>3, <1>4, <1>5 DEF keyid_matches_pubkey

\* The storage-side check binds a key to the signer: a record that may be
\* filed under the key of a keyid is validly signed by a key with that keyid.
LEMMA StorageKeyBinding ==
    ASSUME NEW rec \in Record, NEW keyid \in Keyids,
           authorizes_storage_key(rec, dht_key(keyid))
    PROVE  /\ signature_valid(rec)
           /\ keyid_matches_pubkey(keyid, rec.body.pubkey)
<1> DEFINE full == Hash[rec.body.pubkey]
<1>1. rec.body.pubkey \in Pubkey
    BY DEF Record, Body
<1>2. full \in Seq(Nat)
    BY <1>1, HashAssumption
<1>3. PICK l \in 1 .. Len(full) : dht_key(SubSeq(full, 1, l)) = dht_key(keyid)
    BY DEF authorizes_storage_key, keyid_full_from_pubkey
<1>4. SubSeq(full, 1, l) = keyid
    BY <1>3, KeyInjective
<1>5. Len(keyid) = l
    BY <1>2, <1>4, PrefixFacts
<1>6. keyid_from_pubkey(rec.body.pubkey, l) = SubSeq(full, 1, l)
    BY <1>2 DEF keyid_from_pubkey, keyid_full_from_pubkey
<1>7. keyid_matches_pubkey(keyid, rec.body.pubkey)
    BY <1>4, <1>5, <1>6 DEF keyid_matches_pubkey
<1> QED
    BY <1>7 DEF authorizes_storage_key

\* A record that verifies is signed, matches the keyid and is fresh.
LEMMA VerifyOk ==
    ASSUME NEW rec \in Record, NEW keyid, NEW clock \in Int,
           verify(rec, keyid, clock, MaxSkew) = "Ok"
    PROVE  /\ signature_valid(rec)
           /\ keyid_matches_pubkey(keyid, rec.body.pubkey)
           /\ clock - rec.body.ts <= MaxSkew
           /\ rec.body.ts - clock <= MaxSkew
<1>1. rec.body.ts \in Int
    BY DEF Record, Body
<1> QED
    BY <1>1, ConstantsAssumption DEF verify, signature_valid, abs_diff

\* And conversely.
LEMMA VerifyIfFresh ==
    ASSUME NEW rec \in Record, NEW keyid, NEW clock \in Int,
           signature_valid(rec), keyid_matches_pubkey(keyid, rec.body.pubkey),
           clock - rec.body.ts <= MaxSkew, rec.body.ts - clock <= MaxSkew
    PROVE  verify(rec, keyid, clock, MaxSkew) = "Ok"
<1>1. rec.body.ts \in Int
    BY DEF Record, Body
<1> QED
    BY <1>1, ConstantsAssumption DEF verify, signature_valid, abs_diff

\* select_verified returns a verified candidate that no verified candidate
\* is newer than.
LEMMA SelectFacts ==
    ASSUME NEW cands \in Seq(Value), NEW keyid, NEW clock \in Int,
           NEW rec \in select_verified(cands, keyid, clock, MaxSkew)
    PROVE  /\ rec \in Record
           /\ \E i \in 1 .. Len(cands) : rec \in from_bytes(cands[i])
           /\ verify(rec, keyid, clock, MaxSkew) = "Ok"
           /\ \A j \in 1 .. Len(cands) : \A s \in from_bytes(cands[j]) :
                 verify(s, keyid, clock, MaxSkew) = "Ok"
                    => s.body.ts <= rec.body.ts
<1> DEFINE ok == verified_at(cands, keyid, clock, MaxSkew)
<1>1. PICK i \in ok :
         /\ rec \in from_bytes(cands[i])
         /\ \A j \in ok : \A r \in from_bytes(cands[i]),
                             s \in from_bytes(cands[j]) :
               s.body.ts < r.body.ts \/ (s.body.ts = r.body.ts /\ j <= i)
    BY DEF select_verified
<1>2. i \in 1 .. Len(cands) /\ cands[i] \in Value
    BY DEF verified_at
<1>3. PICK r0 \in from_bytes(cands[i]) : verify(r0, keyid, clock, MaxSkew) = "Ok"
    BY <1>1 DEF verified_at
<1>4. rec = r0 /\ rec \in Record
    BY <1>1, <1>2, <1>3, FromBytesFacts DEF AtMostOne
<1>5. ASSUME NEW j \in 1 .. Len(cands), NEW s \in from_bytes(cands[j]),
             verify(s, keyid, clock, MaxSkew) = "Ok"
      PROVE  s.body.ts <= rec.body.ts
  <2>1. j \in ok
      BY <1>5 DEF verified_at
  <2>2. cands[j] \in Value
      OBVIOUS
  <2>3. s \in Record
      BY <2>2, <1>5, FromBytesFacts
  <2>4. s.body.ts \in Int /\ rec.body.ts \in Int
      BY <2>3, <1>4 DEF Record, Body
  <2>5. s.body.ts < rec.body.ts \/ s.body.ts = rec.body.ts
      BY <1>1, <1>5, <2>1
  <2> QED
      BY <2>4, <2>5
<1> QED
    BY <1>1, <1>2, <1>3, <1>4, <1>5

-----------------------------------------------------------------------------
(* The inductive invariant *)

LEMMA InitInv == Init => IInv
<1> SUFFICES ASSUME Init PROVE IInv
    OBVIOUS
<1>1. TypeOK
    BY TypeInit
<1>2. WireInv
  <2> SUFFICES ASSUME NEW v \in Foreign, NEW rec \in v.cbor
               PROVE  /\ ~(signature_valid(rec) /\ rec.body.pubkey \in Owner)
                      /\ \A keyid \in Keyids :
                            ~(WellClocked(keyid) /\ Governs(keyid, rec))
      BY DEF Init, WireInv
  <2>1. signature_valid(rec) => rec.body.pubkey \notin Owner
      BY ForeignAssumption
  <2>2. rec.body.pubkey \in Pubkey
      BY ForeignAssumption DEF Value, Record, Body
  <2> QED
      BY <2>1, <2>2 DEF WellClocked, Governs
<1>3. StoreInv /\ HeldInv /\ LockoutBounded
    BY DEF Init, StoreInv, HeldInv, LockoutBounded, DhtKey
<1>4. QueryInv
    BY DEF Init, QueryInv
<1>5. ResolvedGenuine /\ NoRollback
    BY DEF Init, ResolvedGenuine, NoRollback
<1> QED
    BY <1>1, <1>2, <1>3, <1>4, <1>5 DEF IInv

\* What a put does, in terms of the value and the record in it.
LEMMA PublishFacts ==
    ASSUME TypeOK, NEW p \in Owner, Publish(p)
    PROVE  \E value \in Value, rec \in Record :
             LET n == Home[p]
                 k == dht_key(keyid_from_pubkey(p, KeyidLen[p]))
             IN  /\ value.cbor = {rec}
                 /\ signature_valid(rec)
                 /\ rec.body.pubkey = p
                 /\ rec.body.ts <= now + OwnerHi[p]
                 /\ rec.body.ttl = RecordTtl
                 /\ n \in Node /\ k \in DhtKey
                 /\ store' = [store EXCEPT ![n][k] =
                        {[value |-> value, expires |-> ExpiresIn(value)]}]
                 /\ held' = [held EXCEPT ![n][k] =
                        {r.body.ts : r \in from_bytes(value)}]
                 /\ wire' = wire \cup {value}
                 /\ UNCHANGED <<now, resolverVars>>
<1> DEFINE n == Home[p]
           k == dht_key(keyid_from_pubkey(p, KeyidLen[p]))
<1>1. PICK addrs \in Locations, ts \in OwnerClock(p) :
        LET value == to_bytes(build_record(p, addrs, ts), RecordSize[addrs])
        IN  /\ store' = [store EXCEPT ![n][k] =
                          {[value |-> value, expires |-> ExpiresIn(value)]}]
            /\ held' = [held EXCEPT ![n][k] =
                          {r.body.ts : r \in from_bytes(value)}]
            /\ wire' = wire \cup {value}
    BY DEF Publish
<1> DEFINE rec == build_record(p, addrs, ts)
           value == to_bytes(rec, RecordSize[addrs])
<1>2. ts \in Int /\ ts <= now + OwnerHi[p]
    BY OwnerAssumption DEF OwnerClock, TypeOK
<1>3. /\ rec \in Record /\ value \in Value /\ value.cbor = {rec}
      /\ signature_valid(rec) /\ rec.body.pubkey = p /\ rec.body.ts = ts
      /\ rec.body.ttl = RecordTtl
    BY <1>2, PublishedValue
<1>4. n \in Node /\ k \in DhtKey
    BY OwnerAssumption, KeyOfOwner
<1>5. UNCHANGED <<now, resolverVars>>
    BY DEF Publish
<1>6. /\ store' = [store EXCEPT ![n][k] =
                          {[value |-> value, expires |-> ExpiresIn(value)]}]
      /\ held' = [held EXCEPT ![n][k] =
                          {r.body.ts : r \in from_bytes(value)}]
      /\ wire' = wire \cup {value}
    BY <1>1
<1> HIDE DEF rec, value, n, k
<1>7. /\ value.cbor = {rec}
      /\ signature_valid(rec)
      /\ rec.body.pubkey = p
      /\ rec.body.ts <= now + OwnerHi[p]
      /\ rec.body.ttl = RecordTtl
      /\ n \in Node /\ k \in DhtKey
      /\ store' = [store EXCEPT ![n][k] =
                          {[value |-> value, expires |-> ExpiresIn(value)]}]
      /\ held' = [held EXCEPT ![n][k] =
                          {r.body.ts : r \in from_bytes(value)}]
      /\ wire' = wire \cup {value}
      /\ UNCHANGED <<now, resolverVars>>
    BY <1>2, <1>3, <1>4, <1>5, <1>6
<1> QED
    BY <1>3, <1>7, Zenon DEF n, k

\* A well-clocked publisher's own record is in time when it is put.
LEMMA PutInTime ==
    ASSUME TypeOK, NEW p \in Owner, NEW rec \in Record,
           rec.body.pubkey = p, rec.body.ts <= now + OwnerHi[p],
           rec.body.ttl = RecordTtl,
           NEW keyid \in Keyids, WellClocked(keyid), Governs(keyid, rec)
    PROVE  InTime(rec)
<1>1. p \in Pubkey /\ OwnerHi[p] \in Int /\ rec.body.ts \in Int
    BY OwnerAssumption DEF Record, Body
<1>2. /\ OwnerHi[p] - PeerLo <= MaxSkew
      /\ OwnerHi[p] - PeerLo <= RecordTtl - MaxSkew
    BY <1>1 DEF WellClocked, Governs
<1> QED
    BY <1>1, <1>2, ConstantsAssumption DEF InTime, TypeOK

LEMMA WireNext == TypeOK /\ WireInv /\ [Next]_vars => WireInv'
<1> SUFFICES ASSUME TypeOK, WireInv, [Next]_vars PROVE WireInv'
    OBVIOUS
<1>1. ASSUME now' \in Nat, now' >= now, UNCHANGED wire PROVE WireInv'
  <2> SUFFICES ASSUME NEW v \in wire, NEW rec \in v.cbor, NEW keyid \in Keyids,
                      WellClocked(keyid), Governs(keyid, rec)
               PROVE  InTime(rec)'
      BY <1>1 DEF WireInv, WellClocked, Governs
  <2>1. InTime(rec)
      BY DEF WireInv
  <2>2. rec.body.ts \in Int
      BY DEF TypeOK, Value, Record, Body
  <2> QED
      BY <1>1, <2>1, <2>2, ConstantsAssumption DEF InTime, TypeOK
<1>2. CASE Tick
    BY <1>1, <1>2 DEF Tick, netVars, TypeOK
<1>3. ASSUME NEW p \in Owner, Publish(p) PROVE WireInv'
  <2>1. PICK value \in Value, rec \in Record :
          /\ value.cbor = {rec} /\ signature_valid(rec) /\ rec.body.pubkey = p
          /\ rec.body.ts <= now + OwnerHi[p] /\ rec.body.ttl = RecordTtl
          /\ wire' = wire \cup {value} /\ now' = now
      BY <1>3, PublishFacts
  <2>2. value \notin Foreign
      BY <2>1, ForeignAssumption
  <2>3. ASSUME NEW keyid \in Keyids, WellClocked(keyid), Governs(keyid, rec)
        PROVE  InTime(rec)
      BY <2>1, <2>3, PutInTime
  <2> SUFFICES ASSUME NEW v \in wire', NEW r \in v.cbor
               PROVE  /\ signature_valid(r) /\ r.body.pubkey \in Owner
                            => v \notin Foreign
                      /\ \A keyid \in Keyids :
                            WellClocked(keyid) /\ Governs(keyid, r) => InTime(r)'
      BY DEF WireInv, WellClocked, Governs
  <2>4. CASE v \in wire
      BY <2>1, <2>4 DEF WireInv, InTime
  <2>5. CASE v = value
      BY <2>1, <2>2, <2>3, <2>5 DEF InTime
  <2> QED
      BY <2>1, <2>4, <2>5
<1>4. ASSUME UNCHANGED <<now, wire>> PROVE WireInv'
    BY <1>1, <1>4 DEF TypeOK
<1>5. CASE \E n \in Node, k \in DhtKey, value \in wire : Inbound(n, k, value)
    BY <1>4, <1>5 DEF Inbound
<1>6. CASE \E n \in Node, k \in DhtKey : Expire(n, k)
    BY <1>4, <1>6 DEF Expire
<1>7. CASE \E n \in Node : Restart(n)
    BY <1>4, <1>7 DEF Restart
<1>8. CASE \E keyid \in Keyids : StartResolve(keyid)
    BY <1>4, <1>8 DEF StartResolve, netVars
<1>9. CASE \E n \in Node : Answer(n)
    BY <1>4, <1>9 DEF Answer
<1>10. CASE \E value \in wire : AnswerForeign(value)
    BY <1>4, <1>10 DEF AnswerForeign, netVars
<1>11. CASE FinishQuery \/ Select \/ Retry
    BY <1>4, <1>11 DEF FinishQuery, Select, Retry, netVars
<1>12. CASE UNCHANGED vars
    BY <1>4, <1>12 DEF vars
<1> QED
    BY <1>2, <1>3, <1>5, <1>6, <1>7, <1>8, <1>9, <1>10, <1>11, <1>12 DEF Next

\* What storing an inbound record does.
LEMMA InboundFacts ==
    ASSUME TypeOK, NEW n \in Node, NEW k \in DhtKey, NEW value \in wire,
           Inbound(n, k, value)
    PROVE  \E rec \in Record :
             /\ value \in Value
             /\ rec \in from_bytes(value)
             /\ authorizes_storage_key(rec, k)
             /\ rec.body.ts <= now + PeerHi + MaxFutureSkew
             /\ \A entry \in store[n][k] : \A old \in from_bytes(entry.value) :
                   rec.body.ts > old.body.ts
             /\ store' = [store EXCEPT ![n][k] =
                     {[value |-> value, expires |-> ExpiresIn(value)]}]
             /\ held' = [held EXCEPT ![n][k] = @ \cup {rec.body.ts}]
             /\ UNCHANGED <<now, wire, puts, resolverVars>>
<1>1. PICK rec \in validate_inbound_record(k, value) :
         /\ \E clock \in PeerClock : ~TooFarInFuture(rec, clock)
         /\ is_newer_than_stored(n, k, rec.body.ts)
         /\ store' = [store EXCEPT ![n][k] =
                        {[value |-> value, expires |-> ExpiresIn(value)]}]
         /\ held' = [held EXCEPT ![n][k] = @ \cup {rec.body.ts}]
    BY DEF Inbound
<1>2. value \in Value
    BY DEF TypeOK
<1>3. rec \in from_bytes(value) /\ authorizes_storage_key(rec, k)
    BY DEF validate_inbound_record
<1>4. rec \in Record /\ rec.body.ts \in Int
    BY <1>2, <1>3, FromBytesFacts DEF Record, Body
<1>5. PICK clock \in PeerClock : ~TooFarInFuture(rec, clock)
    BY <1>1
<1>6. rec.body.ts <= now + PeerHi + MaxFutureSkew
    BY <1>4, <1>5, ConstantsAssumption DEF PeerClock, TooFarInFuture, TypeOK
<1>7. UNCHANGED <<now, wire, puts, resolverVars>>
    BY DEF Inbound
<1> QED
    BY <1>1, <1>2, <1>3, <1>4, <1>6, <1>7 DEF is_newer_than_stored

\* An entry for a governed, in-time record outlives its usefulness.
LEMMA ExpiryLate ==
    ASSUME TypeOK, WireInv, NEW value \in Value, NEW rec \in from_bytes(value),
           InTime(rec), NEW e \in ExpiresIn(value)
    PROVE  e >= rec.body.ts - PeerLo + MaxSkew
<1>1. PICK r \in from_bytes(value) : e = now + r.body.ttl
    BY DEF ExpiresIn
<1>2. r = rec /\ rec \in Record
    BY FromBytesFacts DEF AtMostOne
<1>3. rec.body.ts \in Int /\ now \in Int
    BY <1>2 DEF Record, Body, TypeOK
<1>4. e = now + RecordTtl
    BY <1>1, <1>2 DEF InTime
<1> QED
    BY <1>3, <1>4, ConstantsAssumption DEF InTime

LEMMA StoreNext ==
    TypeOK /\ WireInv /\ WireInv' /\ StoreInv /\ [Next]_vars => StoreInv'
<1> SUFFICES ASSUME TypeOK, WireInv, WireInv', StoreInv, [Next]_vars
             PROVE  StoreInv'
    OBVIOUS
<1> DEFINE Good(value, expires, keyid) ==
              \A rec \in from_bytes(value) :
                /\ Governs(keyid, rec)
                /\ WellClocked(keyid) =>
                      \A e \in expires : e >= rec.body.ts - PeerLo + MaxSkew
<1>0. \A keyid \in Keyids : dht_key(keyid) \in DhtKey
    BY DEF DhtKey
\* A step that removes entries at most.
<1>1. ASSUME wire \subseteq wire',
             \A m \in Node, j \in DhtKey : store'[m][j] \subseteq store[m][j]
      PROVE  StoreInv'
    BY <1>0, <1>1 DEF StoreInv, Governs, WellClocked
\* A step that replaces the entry under one key.
<1>2. ASSUME NEW n \in Node, NEW k \in DhtKey, NEW value \in Value,
             store' = [store EXCEPT ![n][k] =
                         {[value |-> value, expires |-> ExpiresIn(value)]}],
             wire \subseteq wire', value \in wire',
             \A keyid \in Keyids : dht_key(keyid) = k =>
                Good(value, ExpiresIn(value), keyid)
      PROVE  StoreInv'
  <2> SUFFICES ASSUME NEW m \in Node, NEW keyid \in Keyids,
                      NEW entry \in store'[m][dht_key(keyid)]
               PROVE  /\ entry.value \in wire'
                      /\ Good(entry.value, entry.expires, keyid)
      BY DEF StoreInv, Governs, WellClocked
  <2>1. CASE m = n /\ dht_key(keyid) = k
    <3>1. entry = [value |-> value, expires |-> ExpiresIn(value)]
        BY <1>2, <2>1 DEF TypeOK
    <3>2. Good(value, ExpiresIn(value), keyid)
        BY <1>2, <2>1
    <3> HIDE DEF Good
    <3> QED
        BY <1>2, <3>1, <3>2
  <2>2. CASE ~(m = n /\ dht_key(keyid) = k)
    <3>1. entry \in store[m][dht_key(keyid)]
        BY <1>0, <1>2, <2>2 DEF TypeOK
    <3> QED
        BY <1>2, <3>1 DEF StoreInv
  <2> QED
      BY <2>1, <2>2
<1>3. ASSUME NEW p \in Owner, Publish(p) PROVE StoreInv'
  <2> DEFINE n == Home[p]
             k == dht_key(keyid_from_pubkey(p, KeyidLen[p]))
  <2>1. PICK value \in Value, rec \in Record :
          /\ value.cbor = {rec} /\ signature_valid(rec) /\ rec.body.pubkey = p
          /\ rec.body.ts <= now + OwnerHi[p] /\ rec.body.ttl = RecordTtl
          /\ n \in Node /\ k \in DhtKey
          /\ store' = [store EXCEPT ![n][k] =
                {[value |-> value, expires |-> ExpiresIn(value)]}]
          /\ wire' = wire \cup {value} /\ now' = now
      BY <1>3, PublishFacts
  <2>2. ASSUME NEW keyid \in Keyids, dht_key(keyid) = k
        PROVE  Good(value, ExpiresIn(value), keyid)
    <3>1. keyid = keyid_from_pubkey(p, KeyidLen[p])
        BY <2>2, KeyInjective
    <3>2. Governs(keyid, rec)
        BY <2>1, <3>1, OwnerAssumption, TruncatedMatches DEF Governs
    <3> SUFFICES ASSUME NEW r \in from_bytes(value)
                 PROVE  /\ Governs(keyid, r)
                        /\ WellClocked(keyid) =>
                              \A e \in ExpiresIn(value) :
                                 e >= r.body.ts - PeerLo + MaxSkew
        OBVIOUS
    <3>3. r = rec
        BY <2>1, FromBytesFacts
    <3>4. ASSUME WellClocked(keyid) PROVE InTime(rec)
        BY <2>1, <3>2, <3>4, PutInTime
    <3> QED
        BY <3>2, <3>3, <3>4, ExpiryLate
  <2> HIDE DEF Good, n, k
  <2> QED
      BY <1>2, <2>1, <2>2
<1>4. ASSUME NEW n \in Node, NEW k \in DhtKey, NEW value \in wire,
             Inbound(n, k, value)
      PROVE  StoreInv'
  <2>1. PICK rec \in Record :
             /\ value \in Value
             /\ rec \in from_bytes(value)
             /\ authorizes_storage_key(rec, k)
             /\ store' = [store EXCEPT ![n][k] =
                     {[value |-> value, expires |-> ExpiresIn(value)]}]
             /\ UNCHANGED <<now, wire>>
      BY <1>4, InboundFacts
  <2>2. ASSUME NEW keyid \in Keyids, dht_key(keyid) = k
        PROVE  Good(value, ExpiresIn(value), keyid)
    <3>1. Governs(keyid, rec)
        BY <2>1, <2>2, StorageKeyBinding DEF Governs
    <3> SUFFICES ASSUME NEW r \in from_bytes(value)
                 PROVE  /\ Governs(keyid, r)
                        /\ WellClocked(keyid) =>
                              \A e \in ExpiresIn(value) :
                                 e >= r.body.ts - PeerLo + MaxSkew
        OBVIOUS
    <3>2. r = rec
        BY <2>1, FromBytesFacts DEF AtMostOne
    <3>3. ASSUME WellClocked(keyid) PROVE InTime(rec)
        BY <2>1, <3>1, <3>3, FromBytesFacts DEF WireInv
    <3> QED
        BY <2>1, <3>1, <3>2, <3>3, ExpiryLate
  <2> HIDE DEF Good
  <2> QED
      BY <1>2, <2>1, <2>2
<1>5. ASSUME NEW n \in Node, NEW k \in DhtKey, Expire(n, k) PROVE StoreInv'
    BY <1>1, <1>5 DEF Expire, TypeOK
<1>6. ASSUME NEW n \in Node, Restart(n) PROVE StoreInv'
    BY <1>1, <1>6 DEF Restart, TypeOK
<1>7. ASSUME NEW n \in Node, Answer(n) PROVE StoreInv'
  <2> DEFINE k == dht_key(target)
             live == {entry \in store[n][k] : ~Expired(entry)}
  <2>1. store' = [store EXCEPT ![n][k] = live] /\ wire' = wire
      BY <1>7 DEF Answer
  <2>2. live \subseteq store[n][k] /\ k \in DhtKey
      BY <1>0 DEF TypeOK
  <2> HIDE DEF live, k
  <2> QED
      BY <1>1, <2>1, <2>2 DEF TypeOK
<1>8. ASSUME UNCHANGED <<wire, store>> PROVE StoreInv'
    BY <1>1, <1>8
<1>9. CASE Tick
    BY <1>8, <1>9 DEF Tick, netVars
<1>10. CASE \E keyid \in Keyids : StartResolve(keyid)
    BY <1>8, <1>10 DEF StartResolve, netVars
<1>11. CASE \E value \in wire : AnswerForeign(value)
    BY <1>8, <1>11 DEF AnswerForeign, netVars
<1>12. CASE FinishQuery \/ Select \/ Retry
    BY <1>8, <1>12 DEF FinishQuery, Select, Retry, netVars
<1>13. CASE UNCHANGED vars
    BY <1>8, <1>13 DEF vars
<1> QED
    BY <1>3, <1>4, <1>5, <1>6, <1>7, <1>9, <1>10, <1>11, <1>12, <1>13 DEF Next

\* Time only makes a timestamp more stale.
LEMMA StaleStable ==
    ASSUME TypeOK, now' \in Nat, now' >= now, NEW t \in Int, Stale(t)
    PROVE  Stale(t)'
<1>1. now \in Nat
    BY DEF TypeOK
<1>2. PeerLo \in Int /\ MaxSkew \in Int
    BY ConstantsAssumption
<1> QED
    BY <1>1, <1>2 DEF Stale

\* When an entry expires, everything dated no later than it is stale.
LEMMA ExpiredStale ==
    ASSUME TypeOK, StoreInv, NEW n \in Node, NEW keyid \in Keyids,
           WellClocked(keyid), NEW entry \in store[n][dht_key(keyid)],
           Expired(entry), NEW rec \in from_bytes(entry.value),
           NEW t \in Int, rec.body.ts >= t
    PROVE  Stale(t)
<1>1. dht_key(keyid) \in DhtKey
    BY DEF DhtKey
<1>2. entry \in Entry
    BY <1>1 DEF TypeOK
<1>3. rec \in Record
    BY <1>2, FromBytesFacts DEF Entry
<1>4. PICK e \in entry.expires : now >= e
    BY DEF Expired
<1>5. e \in Int /\ rec.body.ts \in Int /\ now \in Int
    BY <1>2, <1>3 DEF Entry, Record, Body, TypeOK
<1>6. e >= rec.body.ts - PeerLo + MaxSkew
    BY DEF StoreInv
<1> QED
    BY <1>4, <1>5, <1>6, ConstantsAssumption DEF Stale

LEMMA HeldNext == TypeOK /\ StoreInv /\ HeldInv /\ [Next]_vars => HeldInv'
<1> SUFFICES ASSUME TypeOK, StoreInv, HeldInv, [Next]_vars PROVE HeldInv'
    OBVIOUS
<1> DEFINE Kept(n, k, t) == \E entry \in store[n][k] :
                              \E rec \in from_bytes(entry.value) : rec.body.ts >= t
<1>0. \A keyid \in Keyids : dht_key(keyid) \in DhtKey
    BY DEF DhtKey
\* held and store stand still; time may pass.
<1>1. ASSUME now' \in Nat, now' >= now, UNCHANGED <<store, held>> PROVE HeldInv'
  <2> SUFFICES ASSUME NEW n \in Node, NEW keyid \in Keyids, WellClocked(keyid),
                      NEW t \in held[n][dht_key(keyid)]
               PROVE  Stale(t)' \/ Kept(n, dht_key(keyid), t)
      BY <1>1 DEF HeldInv, WellClocked
  <2>1. Stale(t) \/ Kept(n, dht_key(keyid), t)
      BY DEF HeldInv
  <2>2. t \in Int
      BY <1>0 DEF TypeOK
  <2> HIDE DEF Kept
  <2> QED
      BY <1>1, <2>1, <2>2, StaleStable
\* An entry under one key is dropped after its expiry, or nothing is.
<1>2. ASSUME NEW n \in Node, NEW k \in DhtKey,
             NEW rest, rest \subseteq store[n][k],
             \A entry \in store[n][k] : entry \in rest \/ Expired(entry),
             store' = [store EXCEPT ![n][k] = rest],
             UNCHANGED <<now, held>>
      PROVE  HeldInv'
  <2> SUFFICES ASSUME NEW m \in Node, NEW keyid \in Keyids, WellClocked(keyid),
                      NEW t \in held[m][dht_key(keyid)]
               PROVE  Stale(t) \/ Kept(m, dht_key(keyid), t)'
      BY <1>2 DEF HeldInv, WellClocked, Stale
  <2>1. t \in Int
      BY <1>0 DEF TypeOK
  <2>2. CASE Stale(t)
      BY <2>2
  <2>3. ASSUME NEW entry \in store[m][dht_key(keyid)],
               NEW rec \in from_bytes(entry.value), rec.body.ts >= t
        PROVE  Stale(t) \/ Kept(m, dht_key(keyid), t)'
    <3>1. CASE Expired(entry)
        BY <2>1, <2>3, <3>1, ExpiredStale
    <3>2. CASE entry \in store'[m][dht_key(keyid)]
        BY <2>3, <3>2
    <3>3. Expired(entry) \/ entry \in store'[m][dht_key(keyid)]
        BY <1>0, <1>2, <2>3 DEF TypeOK
    <3> QED
        BY <3>1, <3>2, <3>3
  <2> QED
      BY <2>2, <2>3 DEF HeldInv
<1>3. CASE Tick
    BY <1>1, <1>3 DEF Tick, netVars, TypeOK
<1>4. ASSUME NEW p \in Owner, Publish(p) PROVE HeldInv'
  <2> DEFINE n == Home[p]
             k == dht_key(keyid_from_pubkey(p, KeyidLen[p]))
  <2>1. PICK value \in Value :
          /\ n \in Node /\ k \in DhtKey
          /\ store' = [store EXCEPT ![n][k] =
                {[value |-> value, expires |-> ExpiresIn(value)]}]
          /\ held' = [held EXCEPT ![n][k] = {r.body.ts : r \in from_bytes(value)}]
          /\ now' = now
      BY <1>4, PublishFacts
  <2> HIDE DEF n, k
  <2> SUFFICES ASSUME NEW m \in Node, NEW keyid \in Keyids, WellClocked(keyid),
                      NEW t \in held'[m][dht_key(keyid)]
               PROVE  Stale(t) \/ Kept(m, dht_key(keyid), t)'
      BY <2>1 DEF HeldInv, WellClocked, Stale
  <2>2. CASE m = n /\ dht_key(keyid) = k
    <3>1. PICK r \in from_bytes(value) : t = r.body.ts
        BY <2>1, <2>2 DEF TypeOK
    <3>2. store'[m][dht_key(keyid)]
             = {[value |-> value, expires |-> ExpiresIn(value)]}
        BY <2>1, <2>2 DEF TypeOK
    <3>3. r.body.ts \in Int
        BY FromBytesFacts DEF Record, Body
    <3> QED
        BY <3>1, <3>2, <3>3
  <2>3. CASE ~(m = n /\ dht_key(keyid) = k)
    <3>1. /\ held'[m][dht_key(keyid)] = held[m][dht_key(keyid)]
          /\ store'[m][dht_key(keyid)] = store[m][dht_key(keyid)]
        BY <1>0, <2>1, <2>3 DEF TypeOK
    <3> QED
        BY <3>1 DEF HeldInv
  <2> QED
      BY <2>2, <2>3
<1>5. ASSUME NEW n \in Node, NEW k \in DhtKey, NEW value \in wire,
             Inbound(n, k, value)
      PROVE  HeldInv'
  <2>1. PICK rec \in Record :
             /\ rec \in from_bytes(value)
             /\ \A entry \in store[n][k] : \A old \in from_bytes(entry.value) :
                   rec.body.ts > old.body.ts
             /\ store' = [store EXCEPT ![n][k] =
                     {[value |-> value, expires |-> ExpiresIn(value)]}]
             /\ held' = [held EXCEPT ![n][k] = @ \cup {rec.body.ts}]
             /\ now' = now
      BY <1>5, InboundFacts
  <2> SUFFICES ASSUME NEW m \in Node, NEW keyid \in Keyids, WellClocked(keyid),
                      NEW t \in held'[m][dht_key(keyid)]
               PROVE  Stale(t) \/ Kept(m, dht_key(keyid), t)'
      BY <2>1 DEF HeldInv, WellClocked, Stale
  <2>2. CASE m = n /\ dht_key(keyid) = k
    <3>1. store'[n][k] = {[value |-> value, expires |-> ExpiresIn(value)]}
        BY <2>1 DEF TypeOK
    <3>2. rec.body.ts \in Int
        BY DEF Record, Body
    <3>3. ASSUME t \in Int, rec.body.ts >= t PROVE Kept(m, dht_key(keyid), t)'
      <4> DEFINE new == [value |-> value, expires |-> ExpiresIn(value)]
      <4>1. new \in store'[m][dht_key(keyid)] /\ rec \in from_bytes(new.value)
          BY <2>1, <2>2, <3>1
      <4> HIDE DEF new
      <4> QED
          BY <3>3, <4>1
    <3>4. CASE t = rec.body.ts
        BY <3>2, <3>3, <3>4
    <3>5. CASE t \in held[n][k]
      <4>1. t \in Int
          BY <3>5 DEF TypeOK
      <4>2. Stale(t) \/ Kept(n, k, t)
          BY <2>2, <3>5 DEF HeldInv
      <4>3. ASSUME NEW entry \in store[n][k], NEW old \in from_bytes(entry.value),
                   old.body.ts >= t
            PROVE  rec.body.ts >= t
        <5>1. old.body.ts \in Int
          <6>1. entry.value \in Value
              BY DEF TypeOK, Entry
          <6> QED
              BY <6>1, FromBytesFacts DEF Record, Body
        <5>2. rec.body.ts > old.body.ts
            BY <2>1
        <5> QED
            BY <3>2, <4>1, <4>3, <5>1, <5>2
      <4>4. Kept(n, k, t) => rec.body.ts >= t
          BY <4>3
      <4> HIDE DEF Kept
      <4> QED
          BY <3>3, <4>1, <4>2, <4>4
    <3>6. t \in held[n][k] \/ t = rec.body.ts
        BY <2>1, <2>2 DEF TypeOK
    <3> QED
        BY <3>4, <3>5, <3>6
  <2>3. CASE ~(m = n /\ dht_key(keyid) = k)
    <3>1. /\ held'[m][dht_key(keyid)] = held[m][dht_key(keyid)]
          /\ store'[m][dht_key(keyid)] = store[m][dht_key(keyid)]
        BY <1>0, <2>1, <2>3 DEF TypeOK
    <3> QED
        BY <3>1 DEF HeldInv
  <2> QED
      BY <2>2, <2>3
<1>6. ASSUME NEW n \in Node, NEW k \in DhtKey, Expire(n, k) PROVE HeldInv'
  <2> DEFINE rest == {}
  <2>1. /\ \A entry \in store[n][k] : entry \in rest \/ Expired(entry)
        /\ rest \subseteq store[n][k]
      BY <1>6 DEF Expire, TypeOK, AtMostOne
  <2>2. /\ store' = [store EXCEPT ![n][k] = rest]
        /\ UNCHANGED <<now, held>>
      BY <1>6 DEF Expire
  <2> HIDE DEF rest
  <2> QED
      BY <1>2, <2>1, <2>2
<1>7. ASSUME NEW n \in Node, Restart(n) PROVE HeldInv'
  <2> SUFFICES ASSUME NEW m \in Node, NEW keyid \in Keyids, WellClocked(keyid),
                      NEW t \in held'[m][dht_key(keyid)]
               PROVE  Stale(t) \/ Kept(m, dht_key(keyid), t)'
      BY <1>7 DEF Restart, HeldInv, WellClocked, Stale
  <2>1. /\ m # n
        /\ held'[m] = held[m]
        /\ store'[m] = store[m]
      BY <1>0, <1>7 DEF Restart, TypeOK
  <2> QED
      BY <2>1 DEF HeldInv
<1>8. ASSUME NEW n \in Node, Answer(n) PROVE HeldInv'
  <2> DEFINE k == dht_key(target)
             live == {entry \in store[n][k] : ~Expired(entry)}
  <2>1. store' = [store EXCEPT ![n][k] = live] /\ UNCHANGED <<now, held>>
      BY <1>8 DEF Answer
  <2>2. /\ live \subseteq store[n][k] /\ k \in DhtKey
        /\ \A entry \in store[n][k] : entry \in live \/ Expired(entry)
      BY <1>0 DEF TypeOK
  <2> HIDE DEF live, k
  <2> QED
      BY <1>2, <2>1, <2>2
<1>9. ASSUME UNCHANGED <<now, store, held>> PROVE HeldInv'
    BY <1>1, <1>9 DEF TypeOK
<1>10. CASE \E keyid \in Keyids : StartResolve(keyid)
    BY <1>9, <1>10 DEF StartResolve, netVars
<1>11. CASE \E value \in wire : AnswerForeign(value)
    BY <1>9, <1>11 DEF AnswerForeign, netVars
<1>12. CASE FinishQuery \/ Select \/ Retry
    BY <1>9, <1>12 DEF FinishQuery, Select, Retry, netVars
<1>13. CASE UNCHANGED vars
    BY <1>9, <1>13 DEF vars
<1> QED
    BY <1>3, <1>4, <1>5, <1>6, <1>7, <1>8, <1>10, <1>11, <1>12, <1>13 DEF Next

LEMMA LockoutNext == TypeOK /\ LockoutBounded /\ [Next]_vars => LockoutBounded'
<1> SUFFICES ASSUME TypeOK, LockoutBounded, [Next]_vars PROVE LockoutBounded'
    OBVIOUS
<1> DEFINE Fine(n, rec) == \/ rec.body.pubkey \in Owner /\ n = Home[rec.body.pubkey]
                           \/ rec.body.ts <= now + PeerHi + MaxFutureSkew
\* Entries only go, and time may pass.
<1>1. ASSUME now' \in Nat, now' >= now,
             \A m \in Node, j \in DhtKey : store'[m][j] \subseteq store[m][j]
      PROVE  LockoutBounded'
  <2> SUFFICES ASSUME NEW m \in Node, NEW j \in DhtKey, NEW entry \in store[m][j],
                      NEW rec \in from_bytes(entry.value),
                      rec.body.ts <= now + PeerHi + MaxFutureSkew
               PROVE  rec.body.ts <= now' + PeerHi + MaxFutureSkew
      BY <1>1 DEF LockoutBounded
  <2>1. entry.value \in Value
      BY DEF TypeOK, Entry
  <2>2. rec.body.ts \in Int /\ now \in Int
      BY <2>1, FromBytesFacts DEF Record, Body, TypeOK
  <2> QED
      BY <1>1, <2>2, ConstantsAssumption
\* The entry under one key is replaced.
<1>2. ASSUME NEW n \in Node, NEW k \in DhtKey, NEW value, now' = now,
             store' = [store EXCEPT ![n][k] =
                         {[value |-> value, expires |-> ExpiresIn(value)]}],
             \A rec \in from_bytes(value) : Fine(n, rec)
      PROVE  LockoutBounded'
  <2> SUFFICES ASSUME NEW m \in Node, NEW j \in DhtKey,
                      NEW entry \in store'[m][j],
                      NEW rec \in from_bytes(entry.value)
               PROVE  Fine(m, rec)
      BY <1>2 DEF LockoutBounded
  <2>1. CASE m = n /\ j = k
    <3>1. entry.value = value
        BY <1>2, <2>1 DEF TypeOK
    <3> HIDE DEF Fine
    <3> QED
        BY <1>2, <2>1, <3>1
  <2>2. CASE ~(m = n /\ j = k)
    <3>1. entry \in store[m][j]
        BY <1>2, <2>2 DEF TypeOK
    <3> QED
        BY <3>1 DEF LockoutBounded
  <2> QED
      BY <2>1, <2>2
<1>3. CASE Tick
    BY <1>1, <1>3 DEF Tick, netVars, TypeOK
<1>4. ASSUME NEW p \in Owner, Publish(p) PROVE LockoutBounded'
  <2> DEFINE n == Home[p]
             k == dht_key(keyid_from_pubkey(p, KeyidLen[p]))
  <2>1. PICK value \in Value, rec \in Record :
          /\ value.cbor = {rec} /\ signature_valid(rec) /\ rec.body.pubkey = p
          /\ n \in Node /\ k \in DhtKey
          /\ store' = [store EXCEPT ![n][k] =
                {[value |-> value, expires |-> ExpiresIn(value)]}]
          /\ wire' = wire \cup {value} /\ now' = now
      BY <1>4, PublishFacts
  <2>2. \A r \in from_bytes(value) : Fine(n, r)
      BY <2>1, FromBytesFacts
  <2> HIDE DEF Fine, n, k
  <2> QED
      BY <1>2, <2>1, <2>2
<1>5. ASSUME NEW n \in Node, NEW k \in DhtKey, NEW value \in wire,
             Inbound(n, k, value)
      PROVE  LockoutBounded'
  <2>1. PICK rec \in Record :
             /\ value \in Value /\ rec \in from_bytes(value)
             /\ rec.body.ts <= now + PeerHi + MaxFutureSkew
             /\ store' = [store EXCEPT ![n][k] =
                     {[value |-> value, expires |-> ExpiresIn(value)]}]
             /\ now' = now
      BY <1>5, InboundFacts
  <2>2. \A r \in from_bytes(value) : Fine(n, r)
      BY <2>1, FromBytesFacts DEF AtMostOne
  <2> HIDE DEF Fine
  <2> QED
      BY <1>2, <2>1, <2>2
<1>6. ASSUME NEW n \in Node, NEW k \in DhtKey, Expire(n, k) PROVE LockoutBounded'
    BY <1>1, <1>6 DEF Expire, TypeOK
<1>7. ASSUME NEW n \in Node, Restart(n) PROVE LockoutBounded'
    BY <1>1, <1>7 DEF Restart, TypeOK
<1>8. ASSUME NEW n \in Node, Answer(n) PROVE LockoutBounded'
  <2> DEFINE k == dht_key(target)
             live == {entry \in store[n][k] : ~Expired(entry)}
  <2>1. store' = [store EXCEPT ![n][k] = live] /\ now' = now
      BY <1>8 DEF Answer
  <2>2. live \subseteq store[n][k] /\ k \in DhtKey
      BY DEF TypeOK, DhtKey
  <2> HIDE DEF live, k
  <2> QED
      BY <1>1, <2>1, <2>2 DEF TypeOK
<1>9. ASSUME UNCHANGED <<now, store>> PROVE LockoutBounded'
    BY <1>1, <1>9 DEF TypeOK
<1>10. CASE \E keyid \in Keyids : StartResolve(keyid)
    BY <1>9, <1>10 DEF StartResolve, netVars
<1>11. CASE \E value \in wire : AnswerForeign(value)
    BY <1>9, <1>11 DEF AnswerForeign, netVars
<1>12. CASE FinishQuery \/ Select \/ Retry
    BY <1>9, <1>12 DEF FinishQuery, Select, Retry, netVars
<1>13. CASE UNCHANGED vars
    BY <1>9, <1>13 DEF vars
<1> QED
    BY <1>3, <1>4, <1>5, <1>6, <1>7, <1>8, <1>10, <1>11, <1>12, <1>13 DEF Next

LEMMA QueryNext ==
    TypeOK /\ StoreInv /\ HeldInv /\ QueryInv /\ [Next]_vars => QueryInv'
<1> SUFFICES ASSUME TypeOK, StoreInv, HeldInv, QueryInv, [Next]_vars
             PROVE  QueryInv'
    OBVIOUS
<1> DEFINE Covered(t) == \E i \in 1 .. Len(acc) : \E rec \in from_bytes(acc[i]) :
                            Governs(target, rec) /\ rec.body.ts >= t
\* The query stands still; time may pass and values may be sent.
<1>1. ASSUME now' \in Nat, now' >= now, wire \subseteq wire',
             UNCHANGED <<acc, target, floor>>,
             phase' \in {"querying", "collected"} => phase \in {"querying", "collected"}
      PROVE  QueryInv'
  <2>1. \A i \in 1 .. Len(acc') : acc'[i] \in wire'
      BY <1>1 DEF QueryInv
  <2>2. ASSUME phase' \in {"querying", "collected"}, WellClocked(target),
               NEW t \in floor
        PROVE  Stale(t)' \/ Covered(t)
    <3>1. Stale(t) \/ Covered(t)
        BY <1>1, <2>2 DEF QueryInv
    <3>2. t \in Int
        BY DEF TypeOK
    <3> HIDE DEF Covered
    <3> QED
        BY <1>1, <3>1, <3>2, StaleStable
  <2> QED
      BY <1>1, <2>1, <2>2 DEF QueryInv, WellClocked, Governs
\* A query that has collected nothing yet, or is over.
<1>2. ASSUME acc' = <<>>, floor' = {} \/ phase' \notin {"querying", "collected"}
      PROVE  QueryInv'
    BY <1>2 DEF QueryInv
\* A candidate is added or left out, and what it covers joins the floor.
<1>3. ASSUME NEW value \in wire, value \in Value, acc' = Accumulate(value),
             UNCHANGED <<now, wire, phase, target>>,
             \A t \in floor' : \/ t \in floor
                               \/ WellClocked(target) =>
                                    \/ Stale(t)
                                    \/ /\ value.size <= MaxRecordBytes
                                       /\ \E rec \in from_bytes(value) :
                                            /\ Governs(target, rec)
                                            /\ rec.body.ts >= t
      PROVE  QueryInv'
  <2>1. acc \in Seq(Value)
    <3>1. {v \in Value : v.size <= MaxRecordBytes} \subseteq Value
        OBVIOUS
    <3> QED
        BY <3>1 DEF TypeOK
  <2>2. \/ acc' = acc /\ ~(value.size <= MaxRecordBytes)
        \/ /\ Len(acc') = Len(acc) + 1
           /\ acc'[Len(acc) + 1] = value
           /\ \A i \in 1 .. Len(acc) : acc'[i] = acc[i]
      BY <1>3, <2>1 DEF Accumulate
  <2>3. \A i \in 1 .. Len(acc) : i \in 1 .. Len(acc') /\ acc'[i] = acc[i]
      BY <2>1, <2>2
  <2>4. \A i \in 1 .. Len(acc') : acc'[i] \in wire'
    <3>1. \A i \in 1 .. Len(acc') : i \in 1 .. Len(acc) \/ acc'[i] = value
        BY <2>1, <2>2
    <3> QED
        BY <1>3, <2>3, <3>1 DEF QueryInv
  <2>5. ASSUME phase \in {"querying", "collected"}, WellClocked(target),
               NEW t \in floor'
        PROVE  Stale(t) \/ \E i \in 1 .. Len(acc') : \E rec \in from_bytes(acc'[i]) :
                              Governs(target, rec) /\ rec.body.ts >= t
    <3>1. CASE t \in floor
      <4>1. Stale(t) \/ Covered(t)
          BY <2>5, <3>1 DEF QueryInv
      <4> QED
          BY <2>3, <4>1
    <3>2. CASE t \notin floor
      <4>1. \/ Stale(t)
            \/ /\ value.size <= MaxRecordBytes
               /\ \E rec \in from_bytes(value) :
                     Governs(target, rec) /\ rec.body.ts >= t
          BY <1>3, <2>5, <3>2
      <4>2. CASE Stale(t)
          BY <4>2
      <4>3. CASE /\ value.size <= MaxRecordBytes
                 /\ \E rec \in from_bytes(value) :
                       Governs(target, rec) /\ rec.body.ts >= t
        <5>1. Len(acc) + 1 \in 1 .. Len(acc') /\ acc'[Len(acc) + 1] = value
            BY <2>1, <2>2, <4>3
        <5> QED
            BY <4>3, <5>1
      <4> QED
          BY <4>1, <4>2, <4>3
    <3> QED
        BY <3>1, <3>2
  <2> QED
      BY <1>3, <2>4, <2>5 DEF QueryInv, WellClocked, Governs, Stale
<1>4. CASE Tick
    BY <1>1, <1>4 DEF Tick, netVars, resolverVars, TypeOK
<1>5. ASSUME NEW p \in Owner, Publish(p) PROVE QueryInv'
  <2>1. wire \subseteq wire' /\ UNCHANGED <<now, resolverVars>>
      BY <1>5 DEF Publish
  <2> QED
      BY <1>1, <2>1 DEF resolverVars, TypeOK
<1>6. ASSUME UNCHANGED <<now, wire, resolverVars>> PROVE QueryInv'
    BY <1>1, <1>6 DEF resolverVars, TypeOK
<1>7. CASE \E n \in Node, k \in DhtKey, value \in wire : Inbound(n, k, value)
    BY <1>6, <1>7 DEF Inbound
<1>8. CASE \E n \in Node, k \in DhtKey : Expire(n, k)
    BY <1>6, <1>8 DEF Expire
<1>9. CASE \E n \in Node : Restart(n)
    BY <1>6, <1>9 DEF Restart
<1>10. CASE \E keyid \in Keyids : StartResolve(keyid)
    BY <1>2, <1>10 DEF StartResolve, NewQuery
<1>11. ASSUME NEW n \in Node, Answer(n) PROVE QueryInv'
  <2> DEFINE k == dht_key(target)
             live == {entry \in store[n][k] : ~Expired(entry)}
  <2>1. target \in Keyids /\ k \in DhtKey
      BY DEF TypeOK, DhtKey
  <2>2. /\ floor' = floor \cup held[n][k]
        /\ UNCHANGED <<now, wire, phase, target>>
        /\ (live = {} /\ acc' = acc) \/ \E entry \in live : acc' = Accumulate(entry.value)
        /\ phase = "querying"
      BY <1>11 DEF Answer
  \* What the node took in is stale or in an entry it returns.
  <2>3. ASSUME WellClocked(target), NEW t \in held[n][k]
        PROVE  \/ Stale(t)
               \/ \E entry \in live : \E rec \in from_bytes(entry.value) :
                     Governs(target, rec) /\ rec.body.ts >= t
    <3>1. t \in Int
        BY <2>1 DEF TypeOK
    <3>2. CASE Stale(t)
        BY <3>2
    <3>3. ASSUME NEW entry \in store[n][k], NEW rec \in from_bytes(entry.value),
                 rec.body.ts >= t
          PROVE  Stale(t) \/ (entry \in live /\ Governs(target, rec))
      <4>1. Governs(target, rec)
          BY <2>1, <3>3 DEF StoreInv
      <4>2. CASE Expired(entry)
          BY <2>1, <2>3, <3>1, <3>3, <4>2, ExpiredStale
      <4>3. CASE ~Expired(entry)
          BY <4>1, <4>3
      <4> QED
          BY <4>2, <4>3
    <3> QED
        BY <2>1, <2>3, <3>2, <3>3 DEF HeldInv
  <2>4. CASE live = {} /\ acc' = acc
    <3>1. \A i \in 1 .. Len(acc') : acc'[i] \in wire'
        BY <2>2, <2>4 DEF QueryInv
    <3>2. ASSUME WellClocked(target), NEW t \in floor'
          PROVE  Stale(t) \/ Covered(t)
      <4>1. CASE t \in floor
          BY <2>2, <3>2, <4>1 DEF QueryInv
      <4>2. CASE t \in held[n][k]
          BY <2>3, <2>4, <3>2, <4>2
      <4> QED
          BY <2>2, <3>2, <4>1, <4>2
    <3> QED
        BY <2>2, <2>4, <3>1, <3>2 DEF QueryInv, WellClocked, Governs, Stale
  <2>5. ASSUME NEW entry \in live, acc' = Accumulate(entry.value) PROVE QueryInv'
    <3>1. entry \in store[n][k] /\ entry \in Entry
        BY <2>1 DEF TypeOK
    <3>2. entry.value \in wire /\ entry.value \in Value
        BY <2>1, <3>1 DEF StoreInv, Entry
    <3>3. \A e \in live : e = entry
        BY <2>1 DEF TypeOK, AtMostOne
    <3>4. \A rec : rec \in from_bytes(entry.value)
                       => entry.value.size <= MaxRecordBytes
      <4>1. entry.value.size \in Nat
          BY <3>2, FromBytesFacts
      <4> QED
          BY <4>1, SizeAssumption DEF from_bytes
    <3>5. ASSUME NEW t \in floor', t \notin floor, WellClocked(target)
          PROVE  \/ Stale(t)
                 \/ /\ entry.value.size <= MaxRecordBytes
                    /\ \E rec \in from_bytes(entry.value) :
                          Governs(target, rec) /\ rec.body.ts >= t
      <4>1. t \in held[n][k]
          BY <2>2, <3>5
      <4> HIDE DEF live, k
      <4> QED
          BY <2>3, <3>3, <3>4, <3>5, <4>1
    <3> HIDE DEF live, k
    <3> QED
        BY <1>3, <2>2, <2>5, <3>2, <3>5
  <2> QED
      BY <2>2, <2>4, <2>5
<1>12. ASSUME NEW value \in wire, AnswerForeign(value) PROVE QueryInv'
  <2>1. /\ acc' = Accumulate(value) /\ floor' = floor
        /\ UNCHANGED <<now, wire, phase, target>>
      BY <1>12 DEF AnswerForeign, netVars
  <2>2. value \in Value
      BY DEF TypeOK
  <2> QED
      BY <1>3, <2>1, <2>2
<1>13. CASE FinishQuery
    BY <1>1, <1>13 DEF FinishQuery, netVars, TypeOK
<1>14. CASE Select
  <2>1. acc' = <<>> /\ phase' \in {"resolved", "refused", "failed", "sleeping"}
      BY <1>14 DEF Select
  <2> QED
      BY <1>2, <2>1
<1>15. CASE Retry
    BY <1>2, <1>15 DEF Retry, NewQuery
<1>16. CASE UNCHANGED vars
    BY <1>6, <1>16 DEF vars, resolverVars
<1> QED
    BY <1>4, <1>5, <1>7, <1>8, <1>9, <1>10, <1>11, <1>12, <1>13, <1>14, <1>15,
       <1>16 DEF Next

LEMMA ClockTyped ==
    ASSUME TypeOK, NEW clock \in PeerClock
    PROVE  clock \in Int /\ clock >= now + PeerLo
BY ConstantsAssumption DEF PeerClock, TypeOK

LEMMA AccTyped == TypeOK => acc \in Seq(Value)
<1>1. {v \in Value : v.size <= MaxRecordBytes} \subseteq Value
    OBVIOUS
<1> QED
    BY <1>1 DEF TypeOK

\* Steps other than Select do not resolve anything.
LEMMA OnlySelectResolves ==
    ASSUME TypeOK, [Next]_vars, ~Select, phase' = "resolved"
    PROVE  /\ phase = "resolved" /\ UNCHANGED <<target, floor, found>>
           /\ wire \subseteq wire'
<1>1. CASE Tick
    BY <1>1 DEF Tick, netVars, resolverVars
<1>2. CASE \E p \in Owner : Publish(p)
    BY <1>2 DEF Publish, resolverVars
<1>3. CASE \E n \in Node, k \in DhtKey, value \in wire : Inbound(n, k, value)
    BY <1>3 DEF Inbound, resolverVars
<1>4. CASE \E n \in Node, k \in DhtKey : Expire(n, k)
    BY <1>4 DEF Expire, resolverVars
<1>5. CASE \E n \in Node : Restart(n)
    BY <1>5 DEF Restart, resolverVars
<1>6. CASE \E keyid \in Keyids : StartResolve(keyid)
    BY <1>6 DEF StartResolve, NewQuery
<1>7. CASE \E n \in Node : Answer(n)
    BY <1>7 DEF Answer
<1>8. CASE \E value \in wire : AnswerForeign(value)
    BY <1>8 DEF AnswerForeign
<1>9. CASE FinishQuery
    BY <1>9 DEF FinishQuery
<1>10. CASE Retry
    BY <1>10 DEF Retry, NewQuery
<1>11. CASE UNCHANGED vars
    BY <1>11 DEF vars
<1> QED
    BY <1>1, <1>2, <1>3, <1>4, <1>5, <1>6, <1>7, <1>8, <1>9, <1>10, <1>11
       DEF Next

\* What Select does when it resolves.
LEMMA SelectResolves ==
    ASSUME TypeOK, Select, phase' = "resolved"
    PROVE  /\ phase = "collected"
           /\ \E clock \in PeerClock :
                \E rec \in select_verified(acc, target, clock, MaxSkew) :
                   found' = {rec} /\ PeerBound(rec)
           /\ UNCHANGED <<wire, target, floor, now>>
BY DEF Select, netVars

LEMMA GenuineNext ==
    TypeOK /\ WireInv /\ QueryInv /\ ResolvedGenuine /\ [Next]_vars
        => ResolvedGenuine'
<1> SUFFICES ASSUME TypeOK, WireInv, QueryInv, ResolvedGenuine, [Next]_vars,
                    phase' = "resolved"
             PROVE  ResolvedGenuine'
    BY DEF ResolvedGenuine
<1>1. CASE ~Select
  <2>1. /\ phase = "resolved" /\ UNCHANGED <<target, floor, found>>
        /\ wire \subseteq wire'
      BY <1>1, OnlySelectResolves
  <2> QED
      BY <2>1 DEF ResolvedGenuine, PeerBound
<1>2. CASE Select
  <2>0. PICK clock \in PeerClock :
           \E rec \in select_verified(acc, target, clock, MaxSkew) :
              found' = {rec} /\ PeerBound(rec)
      BY <1>2, SelectResolves
  <2>1. PICK rec \in select_verified(acc, target, clock, MaxSkew) :
           /\ found' = {rec} /\ PeerBound(rec)
           /\ UNCHANGED <<wire, target>>
      BY <1>2, <2>0, SelectResolves
  <2>2. acc \in Seq(Value) /\ clock \in Int
      BY AccTyped, ClockTyped
  <2>3. /\ rec \in Record
        /\ \E i \in 1 .. Len(acc) : rec \in from_bytes(acc[i])
        /\ verify(rec, target, clock, MaxSkew) = "Ok"
      BY <2>2, SelectFacts
  <2>4. signature_valid(rec) /\ keyid_matches_pubkey(target, rec.body.pubkey)
      BY <2>2, <2>3, VerifyOk
  <2>5. PICK i \in 1 .. Len(acc) : rec \in from_bytes(acc[i])
      BY <2>3
  <2>6. acc[i] \in wire /\ acc[i] \in Value
      BY <2>2 DEF QueryInv
  <2>7. rec \in acc[i].cbor /\ acc[i].cbor = {rec}
      BY <2>5, <2>6, FromBytesFacts DEF Value, AtMostOne
  <2>8. rec.body.pubkey \in Owner => acc[i] \in wire \ Foreign
      BY <2>4, <2>6, <2>7 DEF WireInv
  <2> QED
      BY <2>1, <2>4, <2>7, <2>8 DEF ResolvedGenuine, PeerBound
<1> QED
    BY <1>1, <1>2

LEMMA RollbackNext ==
    TypeOK /\ WireInv /\ QueryInv /\ NoRollback /\ [Next]_vars => NoRollback'
<1> SUFFICES ASSUME TypeOK, WireInv, QueryInv, NoRollback, [Next]_vars,
                    phase' = "resolved"
             PROVE  NoRollback'
    BY DEF NoRollback
<1>1. CASE ~Select
  <2>1. phase = "resolved" /\ UNCHANGED <<target, floor, found>>
      BY <1>1, OnlySelectResolves
  <2> QED
      BY <2>1 DEF NoRollback, WellClocked
<1>2. CASE Select
  <2>0. PICK clock \in PeerClock :
           \E rec \in select_verified(acc, target, clock, MaxSkew) :
              found' = {rec} /\ PeerBound(rec)
      BY <1>2, SelectResolves
  <2>1. PICK rec \in select_verified(acc, target, clock, MaxSkew) :
           /\ found' = {rec} /\ phase = "collected"
           /\ UNCHANGED <<target, floor>>
      BY <1>2, <2>0, SelectResolves
  <2>2. acc \in Seq(Value) /\ clock \in Int /\ clock >= now + PeerLo
      BY AccTyped, ClockTyped
  <2>3. /\ rec \in Record
        /\ verify(rec, target, clock, MaxSkew) = "Ok"
        /\ \A j \in 1 .. Len(acc) : \A s \in from_bytes(acc[j]) :
              verify(s, target, clock, MaxSkew) = "Ok"
                 => s.body.ts <= rec.body.ts
      BY <2>2, SelectFacts
  <2>4. rec.body.ts >= clock - MaxSkew /\ rec.body.ts \in Int
    <3>1. rec.body.ts \in Int
        BY <2>3 DEF Record, Body
    <3>2. clock - rec.body.ts <= MaxSkew
        BY <2>2, <2>3, VerifyOk
    <3> QED
        BY <2>2, <3>1, <3>2, ConstantsAssumption
  <2>5. ASSUME WellClocked(target), NEW t \in floor PROVE rec.body.ts >= t
    <3>1. t \in Int /\ now \in Int /\ target \in Keyids
        BY DEF TypeOK
    <3>2. \/ Stale(t)
          \/ \E i \in 1 .. Len(acc) : \E s \in from_bytes(acc[i]) :
               Governs(target, s) /\ s.body.ts >= t
        BY <2>1, <2>5 DEF QueryInv
    \* Nothing as old as t passes the freshness check.
    <3>3. CASE Stale(t)
        BY <2>2, <2>4, <3>1, <3>3, ConstantsAssumption DEF Stale
    \* A candidate s covers t: it verifies, or it is staler than rec.
    <3>4. ASSUME NEW i \in 1 .. Len(acc), NEW s \in from_bytes(acc[i]),
                 Governs(target, s), s.body.ts >= t
          PROVE  rec.body.ts >= t
      <4>1. acc[i] \in wire /\ acc[i] \in Value
          BY <2>2 DEF QueryInv
      <4>2. s \in Record /\ s \in acc[i].cbor
          BY <3>4, <4>1, FromBytesFacts
      <4>3. s.body.ts \in Int
          BY <4>2 DEF Record, Body
      <4>4. InTime(s)
          BY <2>5, <3>1, <3>4, <4>1, <4>2 DEF WireInv
      <4>5. s.body.ts - clock <= MaxSkew
          BY <2>2, <3>1, <4>3, <4>4, ConstantsAssumption DEF InTime
      <4>6. CASE clock - s.body.ts <= MaxSkew
        <5>1. verify(s, target, clock, MaxSkew) = "Ok"
            BY <2>2, <3>4, <4>2, <4>5, <4>6, VerifyIfFresh DEF Governs
        <5>2. s.body.ts <= rec.body.ts
            BY <2>3, <3>4, <5>1
        <5> QED
            BY <2>4, <3>1, <3>4, <4>3, <5>2
      <4>7. CASE ~(clock - s.body.ts <= MaxSkew)
          BY <2>2, <2>4, <3>1, <3>4, <4>3, <4>7, ConstantsAssumption
      <4> QED
          BY <4>6, <4>7
    <3> QED
        BY <3>2, <3>3, <3>4
  <2> QED
      BY <2>1, <2>5 DEF NoRollback, WellClocked
<1> QED
    BY <1>1, <1>2

LEMMA NextInv == IInv /\ [Next]_vars => IInv'
<1> SUFFICES ASSUME IInv, [Next]_vars PROVE IInv'
    OBVIOUS
<1>1. TypeOK' /\ WireInv'
    BY TypeNext, WireNext DEF IInv
<1>2. StoreInv' /\ HeldInv' /\ QueryInv'
    BY <1>1, StoreNext, HeldNext, QueryNext DEF IInv
<1>3. LockoutBounded' /\ ResolvedGenuine' /\ NoRollback'
    BY LockoutNext, GenuineNext, RollbackNext DEF IInv
<1> QED
    BY <1>1, <1>2, <1>3 DEF IInv

LEMMA SpecInv == Spec => []IInv
BY InitInv, NextInv, PTL DEF Spec

\* A resolver never returns a record older than one that a node it asked has
\* taken in (the publisher's own node: since the publisher's last put), whatever is lost, delayed, replayed, expired or restarted, when
\* the publisher's clock is ahead of the others' by at most MAX_SKEW and by
\* at most RECORD_TTL - MAX_SKEW.
THEOREM ResolverNeverGoesBack == Spec => []NoRollback
<1>1. IInv => NoRollback
    BY DEF IInv
<1> QED
    BY <1>1, SpecInv, PTL

\* What resolve() returns was put by a publisher the name commits to.
THEOREM ResolvedIsGenuine == Spec => []ResolvedGenuine
<1>1. IInv => ResolvedGenuine
    BY DEF IInv
<1> QED
    BY <1>1, SpecInv, PTL

\* A stored record is dated ahead by at most the future tolerance plus the
\* clock error, anywhere but in its signer's own store.
THEOREM LockoutIsBounded == Spec => []LockoutBounded
<1>1. IInv => LockoutBounded
    BY DEF IInv
<1> QED
    BY <1>1, SpecInv, PTL
=============================================================================
