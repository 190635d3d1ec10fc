----------------------------- MODULE Republish ------------------------------
(***************************************************************************)
(* The timing of the publish loop (publish in crates/cli/src/tunnel.rs)    *)
(* against the life of the copy that a storing node keeps for resolvers.   *)
(*                                                                         *)
(* Everything is relative to the present, so that behaviours may be        *)
(* infinite: waits count down, ages count up to AgeCap.  All clocks are    *)
(* right; what wrong clocks do is the subject of Dht.  Gathering addresses *)
(* takes no time here and a sleep ends when it is due.                     *)
(***************************************************************************)
EXTENDS Integers, FiniteSets

CONSTANTS
    Locations,   \* the addresses the publisher may be reachable at
    MaxAddrs,    \* addresses that fit into a record of MAX_RECORD_BYTES
    RecordTtl,   \* RECORD_TTL
    MaxSkew,     \* MAX_SKEW
    Settle,      \* the pause before the first put
    Retry,       \* RETRY
    PutTimeout,  \* the longest a put may take (kad's query timeout)
    MaxFails,    \* rounds in a row that fail in what counts as a good network
    AgeCap       \* bound: ages are counted up to here

ASSUME RepublishAssumption ==
    /\ RecordTtl \in Nat /\ MaxSkew \in Nat /\ Settle \in Nat
    /\ Retry \in Nat \ {0} /\ PutTimeout \in Nat
    /\ MaxFails \in Nat /\ AgeCap \in Nat /\ MaxAddrs \in Nat
    /\ IsFiniteSet(Locations)

\* The longest that a record is served in a good network: it took its time to be
\* put, then come the pause, rounds that fail, and a put that takes its time too.
Longest == RecordTtl \div 2 + 2 * PutTimeout + MaxFails * (PutTimeout + Retry)

\* The ttl leaves room for that (of 600 s, with 60 s for a put and 5 s before a
\* retry, for two failed rounds).
ASSUME RoomAssumption ==
    RecordTtl >= 2 /\ Longest < RecordTtl /\ PutTimeout < AgeCap

VARIABLES
    pc,     \* where the loop is
    left,   \* time until the current wait is over, or the put times out
    addr,   \* where the publisher can be reached now: {} or {location}
    external, \* external_addrs: locations that were confirmed from outside
    rec,    \* the record being put: {} or {[addrs, age]}
    acked,  \* a storing node has acknowledged that record
    copy,   \* what that node serves: {} or {[addrs, age, left]}
    fails   \* rounds that failed since the last good one, to MaxFails + 1

vars == <<pc, left, addr, external, rec, acked, copy, fails>>

\* A slip: the record is put again when it runs out.
refreshLate == RecordTtl

refresh == RecordTtl \div 2

Init ==
    /\ pc = "settling"
    /\ left = Settle
    /\ addr \in {{}} \cup {{a} : a \in Locations}
    /\ external = {}
    /\ rec = {}
    /\ acked = FALSE
    /\ copy = {}
    /\ fails = MaxFails + 1

Older(age) == IF age < AgeCap THEN age + 1 ELSE age

\* A second passes.  Waits end and puts time out when they are due.
Tick ==
    /\ pc # "gathering"
    /\ left > 0 \/ pc = "stopped"
    /\ left' = IF left > 0 THEN left - 1 ELSE 0
    /\ rec' = {[r EXCEPT !.age = Older(@)] : r \in rec}
    /\ copy' = {[c EXCEPT !.age = Older(@), !.left = @ - 1] :
                  c \in {d \in copy : d.left > 1}}
    /\ UNCHANGED <<pc, addr, external, acked, fails>>

\* The network gives the publisher another address, or none.
Move(a) ==
    /\ addr # a
    /\ addr' = a
    /\ UNCHANGED <<pc, left, external, rec, acked, copy, fails>>

\* Peers confirm that the present address can be reached.  That an address no
\* longer can, the event loop does not take note of.
Confirm ==
    /\ ~(addr \subseteq external)
    /\ external' = external \cup addr
    /\ UNCHANGED <<pc, left, addr, rec, acked, copy, fails>>

\* What goes into the record: the addresses listened on and the external ones.
advertised_addrs == addr \cup external

Fits(addrs) == Cardinality(addrs) <= MaxAddrs

Wake ==
    /\ pc \in {"settling", "sleeping"}
    /\ left = 0
    /\ pc' = "gathering"
    /\ UNCHANGED <<left, addr, external, rec, acked, copy, fails>>

\* How the rounds have gone.  One whose record is too large for storing nodes
\* looks like a good one to the publisher and is worse than a failed one.
Counted(good) ==
    IF \E r \in rec : ~Fits(r.addrs) THEN MaxFails + 1
    ELSE IF good THEN 0
    ELSE IF fails <= MaxFails THEN fails + 1 ELSE fails

\* A slip: the long pause after a failed round too.
SleepLong(good) ==
    /\ pc' = "sleeping"
    /\ left' = refresh
    /\ fails' = Counted(good)
    /\ rec' = {}
    /\ acked' = FALSE

\* The end of a round: sleep, longer after a good one.
Sleep(good) ==
    /\ pc' = "sleeping"
    /\ left' = IF good THEN refresh ELSE Retry
    /\ fails' = Counted(good)
    /\ rec' = {}
    /\ acked' = FALSE

\* No dialable address, or the node does not answer.
NoAddress ==
    /\ pc = "gathering"
    /\ Sleep(FALSE)
    /\ UNCHANGED <<addr, external, copy>>

\* A slip: an empty list of addresses is put as well.
PutEmpty ==
    /\ pc = "gathering"
    /\ pc' = "putting"
    /\ left' = PutTimeout
    /\ rec' = {[addrs |-> advertised_addrs, age |-> 0]}
    /\ acked' = FALSE
    /\ UNCHANGED <<addr, external, copy, fails>>

\* A slip: once there are external addresses the others are left out.
PutExternal ==
    /\ pc = "gathering"
    /\ advertised_addrs # {}
    /\ pc' = "putting"
    /\ left' = PutTimeout
    /\ rec' = {[addrs |-> IF external # {} THEN external ELSE addr, age |-> 0]}
    /\ acked' = FALSE
    /\ UNCHANGED <<addr, external, copy, fails>>

\* build_record and put_record.
Put ==
    /\ pc = "gathering"
    /\ advertised_addrs # {}
    /\ pc' = "putting"
    /\ left' = PutTimeout
    /\ rec' = {[addrs |-> advertised_addrs, age |-> 0]}
    /\ acked' = FALSE
    /\ UNCHANGED <<addr, external, copy, fails>>

\* The record reaches the storing node, which acknowledges it in any case and
\* keeps it for ttl from now if it is not too large and newer than what it has.
Deliver ==
    /\ pc = "putting" /\ ~acked
    /\ \E r \in rec :
         copy' = IF Fits(r.addrs) /\ \A c \in copy : r.age < c.age
                 THEN {[addrs |-> r.addrs, age |-> r.age, left |-> RecordTtl]}
                 ELSE copy
    /\ acked' = TRUE
    /\ UNCHANGED <<pc, left, addr, external, rec, fails>>

PutOk ==
    /\ pc = "putting" /\ acked
    /\ Sleep(TRUE)
    /\ UNCHANGED <<addr, external, copy>>

\* No node has answered in time - the record may have arrived all the same.
PutErr ==
    /\ pc = "putting"
    /\ Sleep(FALSE)
    /\ UNCHANGED <<addr, external, copy>>

\* Ctrl-C: the loop is aborted wherever it is.
Stop ==
    /\ pc # "stopped"
    /\ pc' = "stopped"
    /\ left' = 0 /\ rec' = {} /\ acked' = FALSE
    /\ UNCHANGED <<addr, external, copy, fails>>

Next ==
    \/ Tick \/ Confirm \/ Wake \/ NoAddress \/ Put \/ Deliver \/ PutOk \/ PutErr \/ Stop
    \/ \E a \in {{}} \cup {{l} : l \in Locations} : Move(a)

Spec == Init /\ [][Next]_vars

\* Time passes, the loop's task is scheduled, and a put ends one way or the
\* other.
FairSpec ==
    Spec /\ WF_vars(Tick) /\ WF_vars(Wake) /\ WF_vars(NoAddress \/ Put)
         /\ WF_vars(PutOk \/ PutErr)

-----------------------------------------------------------------------------
(* Properties *)

\* Type invariant.  Beyond the shapes: a put is never made without an address
\* to put.
TypeOK ==
    /\ pc \in {"settling", "gathering", "putting", "sleeping", "stopped"}
    /\ rec # {} <=> pc = "putting"
    /\ left \in Nat
    /\ addr \subseteq Locations
    /\ external \subseteq Locations
    /\ rec \subseteq [addrs : (SUBSET Locations) \ {{}}, age : 0 .. AgeCap]
    /\ acked \in BOOLEAN
    /\ copy \subseteq [addrs : (SUBSET Locations) \ {{}}, age : 0 .. AgeCap, left : 1 .. RecordTtl]
    /\ fails \in 0 .. MaxFails + 1

GoodNetwork == pc # "stopped" /\ fails <= MaxFails

\* Once a put has succeeded the name stays in the DHT: the next record always
\* arrives before the last one expires, as long as no more than MaxFails
\* rounds in a row fail (refresh = ttl/2 leaves room for a slow put and
\* retries) and the addresses, of which there are ever more, fit into a record.
CopyKept == GoodNetwork => copy # {}

\* How far past the freshness window the served record can get.
AgeBounded ==
    GoodNetwork => \A c \in copy : c.age <= Longest

\* When the publisher stays at a new address and rounds keep succeeding, the
\* record in the DHT ends up with that address in it, whatever addresses of
\* earlier times it still carries.
LocationFollowed ==
    \A a \in Locations :
        <>[](addr = {a}) /\ []<>(fails = 0 /\ pc = "sleeping")
            => <>[](\A c \in copy : a \in c.addrs)

\* SPEC.md on the publisher: it puts again every ttl/2 and so keeps the
\* record fresh.  Read as: with every put succeeding, the record that is
\* served passes the freshness check of resolvers at all times.
KeptFresh == pc # "stopped" /\ fails = 0 => \A c \in copy : c.age <= MaxSkew

-----------------------------------------------------------------------------
(* The inductive invariant behind CopyKept and AgeBounded *)

\* The longest it can take, in a good network, until a record has arrived.
Slack == (MaxFails - fails) * (PutTimeout + Retry)
Due == left + Slack + (IF pc = "putting" THEN 0 ELSE PutTimeout)

\* The record of this round has arrived and was kept.
Arrived == acked /\ \A r \in rec : Fits(r.addrs)

RoundInv ==
    /\ \A r, s \in rec : r = s
    /\ \A r \in rec : r.age + left <= PutTimeout
    /\ acked => pc = "putting"
    /\ pc = "settling" => copy = {} /\ fails = MaxFails + 1

\* A record is newer than what the storing node has, so that it is kept.
NewerInv ==
    /\ ~acked => \A r \in rec, c \in copy : r.age < c.age
    /\ pc = "gathering" => \A c \in copy : c.age >= 1
    /\ pc = "sleeping" => \A c \in copy : c.age + left >= 1

\* What has arrived in this round is as fresh as the round is young.
FreshInv ==
    Arrived =>
        /\ copy # {}
        /\ \A c \in copy : c.age + left <= PutTimeout /\ c.left + PutTimeout >= RecordTtl + left

\* What is served lasts until the next record is due.
KeepInv ==
    GoodNetwork /\ ~Arrived =>
        /\ copy # {}
        /\ \A c \in copy : c.age + Due <= Longest /\ c.left > Due

IInv == TypeOK /\ RoundInv /\ NewerInv /\ FreshInv /\ KeepInv
=============================================================================
