-------------------------------- MODULE Dht ---------------------------------
(***************************************************************************)
(* Location records between the publishers that sign them, the DHT nodes   *)
(* that store them and a resolver that looks one up.                       *)
(*                                                                         *)
(* The publishers are crates/cli/src/tunnel.rs (publish), the nodes are    *)
(* the record handling of crates/net/src/node.rs over libp2p's MemoryStore,*)
(* the resolver is tunnel.rs (resolve, establish) with the get query of    *)
(* node.rs under it.  Values travel through a set `wire' that only grows:  *)
(* any of them may arrive anywhere, at any time, any number of times, under*)
(* any key, or never - which covers loss, delay, duplication, reordering   *)
(* and the periodic re-replication by other nodes.                         *)
(*                                                                         *)
(* `now' is real time in seconds.  A process reads a wall clock that is    *)
(* off by an amount within given bounds and may jump within them; expiry   *)
(* runs on the monotonic clock (Instant), i.e. on `now' itself.            *)
(***************************************************************************)
EXTENDS Records

CONSTANTS
    Owner,          \* the keys whose holders publish with this program
    Home,           \* [Owner -> Node]: the node a publisher runs in-process
    KeyidLen,       \* [Owner -> Nat]: --keyid-len of the published name
    Locations,      \* the address lists a publisher may be reachable at
    RecordSize,     \* [Locations -> Nat]: bytes of the record carrying one
    Node,           \* the DHT nodes that run this program
    Keyids,         \* the keyids of the names in play
    Foreign,        \* values put on the network by other software
    RecordTtl,      \* RECORD_TTL
    MaxSkew,        \* MAX_SKEW, the resolver's freshness window
    MaxFutureSkew,  \* MAX_FUTURE_SKEW, the storage side's tolerance
    ResolveTimeout, \* RESOLVE_TIMEOUT
    PeerLo, PeerHi, \* clock error of nodes and resolver, least and greatest
    OwnerLo, OwnerHi, \* [Owner -> Int]: clock error of each publisher
    MaxRecords,     \* capacity of a node's MemoryStore
    StartTime,      \* bound: the run starts here
    MaxTime,        \* bound: and ends here
    MaxPuts,        \* bound: puts over all publishers
    MaxCandidates   \* bound: records one get query collects

DhtKey == {dht_key(k) : k \in Keyids}

Body == [v : Nat, pubkey : Pubkey, peer_id : [peer : Pubkey],
         addrs : Locations, ts : Int, ttl : Nat]

Record == [body : Body, sig : [by : Pubkey, over : Body]]

AtMostOne(S) == \A x, y \in S : x = y

Value == {v \in [size : Nat, cbor : SUBSET Record] : AtMostOne(v.cbor)}

ASSUME ConstantsAssumption ==
    /\ RecordVersion \in Nat /\ RecordTtl \in Nat /\ MaxSkew \in Nat
    /\ MaxFutureSkew \in Nat /\ ResolveTimeout \in Nat
    /\ PeerLo \in Int /\ PeerHi \in Int /\ MaxRecords \in Nat
    /\ StartTime \in Nat /\ MaxTime \in Nat /\ MaxPuts \in Nat
    /\ MaxCandidates \in Nat

ASSUME OwnerAssumption ==
    /\ Owner \subseteq Pubkey
    /\ Home \in [Owner -> Node]
    /\ KeyidLen \in [Owner -> Nat]
    /\ OwnerLo \in [Owner -> Int] /\ OwnerHi \in [Owner -> Int]
    /\ RecordSize \in [Locations -> Nat]
    /\ Keyids \subseteq Seq(Nat)
    /\ \A p \in Owner : keyid_from_pubkey(p, KeyidLen[p]) \in Keyids

\* Signatures cannot be forged: what other software sends is not validly
\* signed with a publisher's key.
ASSUME ForeignAssumption ==
    /\ Foreign \subseteq Value
    /\ \A v \in Foreign : \A rec \in v.cbor :
          signature_valid(rec) => rec.body.pubkey \notin Owner

VARIABLES
    now,      \* real time
    wire,     \* every value that has been sent
    puts,     \* number of puts so far (bounded by MaxPuts)
    store,    \* [Node -> [DhtKey -> at most one [value, expires]]]
    held,     \* history: timestamps a node has taken in for a key since it
              \* started or, at the publisher's own node, since its last put
    phase,    \* where the resolver is
    target,   \* the keyid it resolves
    deadline, \* when it stops retrying, while it runs
    asked,    \* nodes that have answered the running query
    acc,      \* candidates the running query has collected
    floor,    \* history: what the nodes that answered had taken in
    found     \* the record resolve() returned, if any

netVars == <<wire, puts, store, held>>
resolverVars == <<phase, target, deadline, asked, acc, floor, found>>
vars == <<now, wire, puts, store, held,
          phase, target, deadline, asked, acc, floor, found>>

PeerClock == now + PeerLo .. now + PeerHi

OwnerClock(p) == now + OwnerLo[p] .. now + OwnerHi[p]

Init ==
    /\ now = StartTime
    /\ wire = Foreign
    /\ puts = 0
    /\ store = [n \in Node |-> [k \in DhtKey |-> {}]]
    /\ held = [n \in Node |-> [k \in DhtKey |-> {}]]
    /\ phase = "idle"
    /\ target \in Keyids
    /\ deadline = {}
    /\ asked = {}
    /\ acc = <<>>
    /\ floor = {}
    /\ found = {}

Tick ==
    /\ now < MaxTime
    /\ now' = now + 1
    /\ UNCHANGED <<netVars, resolverVars>>

-----------------------------------------------------------------------------
(* The record store of a node *)

\* MemoryStore::put refuses a key it does not hold once it is full.
HasRoom(n, k) ==
    \/ store[n][k] # {}
    \/ Cardinality({j \in DhtKey : store[n][j] # {}}) < MaxRecords

Expired(entry) == \E e \in entry.expires : now >= e

\* Record::expires for a value: ttl seconds from the moment it is handled.
ExpiresIn(value) == {now + rec.body.ttl : rec \in from_bytes(value)}

-----------------------------------------------------------------------------
(* Publisher *)

build_record(p, addrs, ts) ==
    sign([v |-> RecordVersion, pubkey |-> p,
          peer_id |-> peer_id_from_ed25519(p),
          addrs |-> addrs, ts |-> ts, ttl |-> RecordTtl], p)

\* One round of the publish loop: a record is signed and handed to kad, which
\* files it in the publisher's own store without any filter and then sends it
\* out.  A full local store fails the put before anything is sent.
\* For the own node the publisher's word is the last one, even if its clock has
\* gone back or the record is too large for anyone to take: held starts again.
Publish(p) ==
    /\ puts < MaxPuts
    /\ \E addrs \in Locations, ts \in OwnerClock(p) :
         LET value == to_bytes(build_record(p, addrs, ts), RecordSize[addrs])
             n == Home[p]
             k == dht_key(keyid_from_pubkey(p, KeyidLen[p]))
         IN  /\ HasRoom(n, k)
             /\ store' = [store EXCEPT ![n][k] =
                            {[value |-> value, expires |-> ExpiresIn(value)]}]
             /\ held' = [held EXCEPT ![n][k] =
                            {rec.body.ts : rec \in from_bytes(value)}]
             /\ wire' = wire \cup {value}
    /\ puts' = puts + 1
    /\ UNCHANGED <<now, resolverVars>>

-----------------------------------------------------------------------------
(* DHT node *)

validate_inbound_record(k, value) ==
    {rec \in from_bytes(value) : authorizes_storage_key(rec, k)}

\* A slip: whatever arrives last replaces what is stored.
last_one_wins(n, k, ts) == TRUE

\* The stored entry counts whether or not it has expired.
is_newer_than_stored(n, k, ts) ==
    \A entry \in store[n][k] : \A rec \in from_bytes(entry.value) :
        ts > rec.body.ts

\* A slip: no check of the date at all.
AnyDate(rec, clock) == FALSE

TooFarInFuture(rec, clock) == rec.body.ts > clock + MaxFutureSkew

\* A value arrives under a key.  Records that fail a conjunct here are
\* dropped: not parsable or not bound to the key, too far in the future, not
\* newer, no room.  The sender is not told, so a drop changes nothing.
Inbound(n, k, value) ==
    /\ \E rec \in validate_inbound_record(k, value) :
         /\ \E clock \in PeerClock : ~TooFarInFuture(rec, clock)
         /\ is_newer_than_stored(n, k, rec.body.ts)
         /\ HasRoom(n, k)
         /\ store' = [store EXCEPT ![n][k] =
                        {[value |-> value, expires |-> ExpiresIn(value)]}]
         /\ held' = [held EXCEPT ![n][k] = @ \cup {rec.body.ts}]
    /\ UNCHANGED <<now, wire, puts, resolverVars>>

\* kad's background job drops an expired entry (an answered get does too).
Expire(n, k) ==
    /\ \E entry \in store[n][k] : Expired(entry)
    /\ store' = [store EXCEPT ![n][k] = {}]
    /\ UNCHANGED <<now, wire, puts, held, resolverVars>>

\* The store is in memory only: a process that stops loses it.
Restart(n) ==
    /\ store' = [store EXCEPT ![n] = [k \in DhtKey |-> {}]]
    /\ held' = [held EXCEPT ![n] = [k \in DhtKey |-> {}]]
    /\ UNCHANGED <<now, wire, puts, resolverVars>>

-----------------------------------------------------------------------------
(* Resolver *)

NewQuery ==
    /\ phase' = "querying"
    /\ asked' = {}
    /\ acc' = <<>>
    /\ floor' = {}

\* establish() calls resolve() for a name.
StartResolve(keyid) ==
    /\ phase \in {"idle", "resolved", "refused", "failed"}
    /\ target' = keyid
    /\ deadline' = {now + ResolveTimeout}
    /\ found' = {}
    /\ NewQuery
    /\ UNCHANGED <<now, netVars>>

\* A slip: candidates of any size are kept.
AccumulateAll(value) == Append(acc, value)

\* FoundRecord: a candidate joins the query's list unless it is oversized.
Accumulate(value) ==
    IF value.size <= MaxRecordBytes THEN Append(acc, value) ELSE acc

\* A node answers the running query from its store, dropping an entry that
\* has expired instead of returning it.
Answer(n) ==
    LET k == dht_key(target)
        live == {entry \in store[n][k] : ~Expired(entry)}
    IN  /\ phase = "querying"
        /\ n \notin asked
        /\ Len(acc) < MaxCandidates
        /\ asked' = asked \cup {n}
        /\ store' = [store EXCEPT ![n][k] = live]
        /\ \/ live = {} /\ acc' = acc
           \/ \E entry \in live : acc' = Accumulate(entry.value)
        /\ floor' = floor \cup held[n][k]
        /\ UNCHANGED <<now, wire, puts, held, phase, target, deadline, found>>

\* A node that runs other software answers with anything it has seen.
AnswerForeign(value) ==
    /\ phase = "querying"
    /\ Len(acc) < MaxCandidates
    /\ acc' = Accumulate(value)
    /\ UNCHANGED <<now, netVars, phase, target, deadline, asked, floor, found>>

\* The query ends - finished, no quorum, or timed out: all the same to the
\* caller, which gets whatever was collected.
FinishQuery ==
    /\ phase = "querying"
    /\ phase' = "collected"
    /\ UNCHANGED <<now, netVars, target, deadline, asked, acc, floor, found>>

PeerBound(rec) == rec.body.peer_id = peer_id_from_ed25519(rec.body.pubkey)

\* resolve() looks at the candidates with a clock reading of its own.  One
\* that verifies is returned and establish() then insists that its peer_id is
\* that of the signing key; otherwise it gives up or retries after a pause.
Select ==
    /\ phase = "collected"
    /\ \E clock \in PeerClock :
         LET picked == select_verified(acc, target, clock, MaxSkew)
         IN  \/ \E rec \in picked :
                  /\ found' = {rec}
                  /\ phase' = IF PeerBound(rec) THEN "resolved" ELSE "refused"
                  /\ deadline' = {}
             \/ /\ picked = {} /\ found' = {}
                /\ \/ /\ \E d \in deadline : now >= d
                      /\ phase' = "failed" /\ deadline' = {}
                   \/ /\ \A d \in deadline : now < d
                      /\ phase' = "sleeping" /\ UNCHANGED deadline
    /\ asked' = {} /\ acc' = <<>>
    /\ floor' = IF phase' = "resolved" THEN floor ELSE {}
    /\ UNCHANGED <<now, netVars, target>>

\* The pause between two attempts; how long it takes is left open.
Retry ==
    /\ phase = "sleeping"
    /\ NewQuery
    /\ UNCHANGED <<now, netVars, target, deadline, found>>

-----------------------------------------------------------------------------

Next ==
    \/ Tick
    \/ \E p \in Owner : Publish(p)
    \/ \E n \in Node, k \in DhtKey, value \in wire : Inbound(n, k, value)
    \/ \E n \in Node, k \in DhtKey : Expire(n, k)
    \/ \E n \in Node : Restart(n)
    \/ \E keyid \in Keyids : StartResolve(keyid)
    \/ \E n \in Node : Answer(n)
    \/ \E value \in wire : AnswerForeign(value)
    \/ FinishQuery
    \/ Select
    \/ Retry

Spec == Init /\ [][Next]_vars

-----------------------------------------------------------------------------
(* Properties *)

Entry == [value : Value, expires : SUBSET Int]

\* Type invariant.  Beyond the shapes: a get query never holds a value larger
\* than MAX_RECORD_BYTES, whoever sent it (handle_kad_result).
TypeOK ==
    /\ now \in Nat
    /\ wire \subseteq Value
    /\ puts \in Nat
    /\ store \in [Node -> [DhtKey -> SUBSET Entry]]
    /\ \A n \in Node, k \in DhtKey : AtMostOne(store[n][k])
    /\ held \in [Node -> [DhtKey -> SUBSET Int]]
    /\ phase \in {"idle", "querying", "collected", "sleeping",
                  "resolved", "refused", "failed"}
    /\ target \in Keyids
    /\ deadline \subseteq Nat
    /\ asked \subseteq Node
    /\ acc \in Seq({v \in Value : v.size <= MaxRecordBytes})
    /\ floor \subseteq Int
    /\ found \subseteq Record

\* Every key that a keyid may stand for belongs to a publisher of this
\* program whose clock runs ahead of the other parties' by no more than the
\* freshness window and by no more than what the ttl leaves beyond it.
WellClocked(keyid) ==
    \A pk \in Pubkey : keyid_matches_pubkey(keyid, pk) =>
        /\ pk \in Owner
        /\ OwnerHi[pk] - PeerLo <= MaxSkew
        /\ OwnerHi[pk] - PeerLo <= RecordTtl - MaxSkew

\* A resolver never goes back: once one of the nodes that answered the query
\* has taken in a record, resolve() does not return an older one - although
\* the node may have dropped the newer record at its expiry and any older
\* record may be replayed to any node or straight to the resolver.  (The
\* publisher's own node counts from the publisher's last put, which replaces
\* what it had unseen: held.)  This is
\* what is_newer_than_stored, the expiry of receipt + ttl, verify's freshness
\* window and the max_by_key of select_verified achieve together.
NoRollback ==
    phase = "resolved" /\ WellClocked(target) =>
        \A rec \in found : \A t \in floor : rec.body.ts >= t

\* What resolve() returns for a name was signed and put by a publisher whose
\* key the name commits to, and names that publisher's own peer id.
ResolvedGenuine ==
    phase = "resolved" => \A rec \in found :
        /\ keyid_matches_pubkey(target, rec.body.pubkey)
        /\ PeerBound(rec)
        /\ rec.body.pubkey \in Owner =>
              \E value \in wire \ Foreign : value.cbor = {rec}

\* How far ahead a stored record can be dated, anywhere but in its signer's
\* own store: the longest that a record of the same key dated by real time
\* can be kept out by is_newer_than_stored.
LockoutBounded ==
    \A n \in Node, k \in DhtKey : \A entry \in store[n][k] :
        \A rec \in from_bytes(entry.value) :
            \/ rec.body.pubkey \in Owner /\ n = Home[rec.body.pubkey]
            \/ rec.body.ts <= now + PeerHi + MaxFutureSkew

\* The comment in handle_event on the future check: a record dated in the
\* future cannot get stored and then block the owner's correctly dated ones.
\* Read here as: when the record a publisher currently has in its own store is
\* one that resolvers accept, no node refuses it as "not newer" in favour of a
\* stored record that resolvers reject as too far ahead.
FutureRecordNeverBlocks ==
    \A p \in Owner, n \in Node :
        LET k == dht_key(keyid_from_pubkey(p, KeyidLen[p]))
        IN  \A current \in store[Home[p]][k], entry \in store[n][k] :
              \A rec \in validate_inbound_record(k, current.value),
                 old \in from_bytes(entry.value) :
                   /\ n # Home[p]
                   /\ abs_diff(now, rec.body.ts) <= MaxSkew
                   /\ old.body.ts > now + MaxSkew
                   => is_newer_than_stored(n, k, rec.body.ts)

-----------------------------------------------------------------------------
(* The inductive invariant behind the four invariants above *)

\* rec is validly signed by a key the keyid stands for.
Governs(keyid, rec) ==
    signature_valid(rec) /\ keyid_matches_pubkey(keyid, rec.body.pubkey)

\* No party's clock is so far behind that rec looks dated in the future, and
\* rec will have gone stale everywhere by the time its ttl has passed.
InTime(rec) ==
    /\ rec.body.ts <= now + PeerLo + MaxSkew
    /\ rec.body.ts <= now + PeerLo + RecordTtl - MaxSkew
    /\ rec.body.ttl = RecordTtl

\* t is so old that nobody accepts a record dated t or earlier.
Stale(t) == now >= t - PeerLo + MaxSkew

WireInv ==
    \A v \in wire : \A rec \in v.cbor :
        /\ signature_valid(rec) /\ rec.body.pubkey \in Owner => v \notin Foreign
        /\ \A keyid \in Keyids :
              WellClocked(keyid) /\ Governs(keyid, rec) => InTime(rec)

StoreInv ==
    \A n \in Node, keyid \in Keyids : \A entry \in store[n][dht_key(keyid)] :
        /\ entry.value \in wire
        /\ \A rec \in from_bytes(entry.value) :
              /\ Governs(keyid, rec)
              /\ WellClocked(keyid) =>
                    \A e \in entry.expires : e >= rec.body.ts - PeerLo + MaxSkew

\* A node still has what it took in, or something newer - or it is stale.
HeldInv ==
    \A n \in Node, keyid \in Keyids : WellClocked(keyid) =>
        \A t \in held[n][dht_key(keyid)] :
            \/ Stale(t)
            \/ \E entry \in store[n][dht_key(keyid)] :
                 \E rec \in from_bytes(entry.value) : rec.body.ts >= t

\* So does a query for what the nodes that answered it took in.
QueryInv ==
    /\ \A i \in 1 .. Len(acc) : acc[i] \in wire
    /\ phase \in {"querying", "collected"} /\ WellClocked(target) =>
          \A t \in floor :
              \/ Stale(t)
              \/ \E i \in 1 .. Len(acc) : \E rec \in from_bytes(acc[i]) :
                   Governs(target, rec) /\ rec.body.ts >= t

IInv ==
    /\ TypeOK
    /\ WireInv
    /\ StoreInv
    /\ HeldInv
    /\ QueryInv
    /\ LockoutBounded
    /\ ResolvedGenuine
    /\ NoRollback
=============================================================================
