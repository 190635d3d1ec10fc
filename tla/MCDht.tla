------------------------------- MODULE MCDht --------------------------------
(***************************************************************************)
(* Dht on small instances: two nodes, one publisher (alice) whose name is  *)
(* looked up, and a key (carol) that other software signs with.            *)
(***************************************************************************)
EXTENDS Dht, TLC

CONSTANTS alice, carol, n1, n2, here, big

MCHash == [pk \in Pubkey |-> IF pk = alice THEN <<1, 2>> ELSE <<1, 3>>]
MCHome == alice :> n1
MCKeyidLen == alice :> 2
MCKeyids == {<<1, 2>>, <<1, 3>>}
MCAliceOnly == {<<1, 2>>}
MCRecordSize == [l \in Locations |-> IF l = big THEN 3 ELSE 1]
MCPeerLo == -1
MCZero == alice :> 0
MCFast == alice :> 2

ForeignBody(pk, peer, ts) ==
    [v |-> RecordVersion, pubkey |-> pk, peer_id |-> peer_id_from_ed25519(peer),
     addrs |-> here, ts |-> ts, ttl |-> RecordTtl]

\* Bytes that do not decode, a body in alice's name under carol's signature,
\* and carol's own records: one dated far ahead and one that names a peer other
\* than its signer.
MCForeign ==
    {[size |-> 1, cbor |-> {}],
     [size |-> 1, cbor |-> {[body |-> ForeignBody(alice, alice, StartTime + 1),
                             sig |-> [by |-> carol,
                                      over |-> ForeignBody(alice, alice, StartTime + 1)]]}],
     to_bytes(sign(ForeignBody(carol, carol, StartTime + 9), carol), 1),
     to_bytes(sign(ForeignBody(carol, alice, StartTime + 1), carol), 1)}

MCNoForeign == {}

\* Bound: foreign values, oversized records and the other name are followed up to
\* the first put and instant 3; from then on only behaviours of one name's
\* well-formed records, lost, delayed and replayed.
MCBound ==
    LET odd(v) == v \in Foreign \/ v.size > MaxRecordBytes
    IN  puts = 2 \/ now > 3 =>
          /\ \A v \in wire \ Foreign : ~odd(v)
          /\ target = <<1, 2>>
          /\ \A i \in 1 .. Len(acc) : ~odd(acc[i])
          /\ \A n \in Node, k \in DhtKey : \A e \in store[n][k] : ~odd(e.value)
=============================================================================
