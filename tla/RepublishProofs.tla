--------------------------- MODULE RepublishProofs --------------------------
(***************************************************************************)
(* Proofs about Republish: in a good network the name stays in the DHT and *)
(* the record that is served does not get too old, for any ttl, timeout,   *)
(* pause and number of failed rounds that leave room for each other.       *)
(***************************************************************************)
EXTENDS Republish, TLAPS

Rec == [addrs : (SUBSET Locations) \ {{}}, age : 0 .. AgeCap]
Copy == [addrs : (SUBSET Locations) \ {{}}, age : 0 .. AgeCap, left : 1 .. RecordTtl]

-----------------------------------------------------------------------------
(* Arithmetic *)

LEMMA Constants ==
    /\ RecordTtl \in Nat /\ Settle \in Nat /\ PutTimeout \in Nat /\ MaxFails \in Nat /\ AgeCap \in Nat
    /\ Retry \in Nat /\ Retry >= 1
    /\ refresh \in Nat /\ refresh >= 1 /\ refresh = RecordTtl \div 2
    /\ PutTimeout < AgeCap
BY RepublishAssumption, RoomAssumption DEF refresh

LEMMA Products ==
    ASSUME NEW k \in Nat, NEW w \in Nat
    PROVE  k * w \in Nat /\ (k + 1) * w = k * w + w
OBVIOUS

LEMMA Monotone ==
    ASSUME NEW k \in Nat, NEW m \in Nat, k <= m, NEW w \in Nat
    PROVE  k * w <= m * w
OBVIOUS

\* What n failed rounds cost.
Cost(n) == n * (PutTimeout + Retry)

LEMMA CostFacts ==
    /\ \A n \in Nat : Cost(n) \in Nat /\ Cost(n + 1) = Cost(n) + PutTimeout + Retry
    /\ \A n \in 0..MaxFails : Cost(n) <= Cost(MaxFails)
    /\ Longest = refresh + 2 * PutTimeout + Cost(MaxFails)
    /\ Longest \in Nat /\ Longest < RecordTtl
<1>1. ASSUME NEW n \in Nat PROVE Cost(n) \in Nat /\ Cost(n + 1) = Cost(n) + PutTimeout + Retry
    <2>1. PutTimeout + Retry \in Nat
        BY Constants
    <2>2. PICK w \in Nat : w = PutTimeout + Retry
        BY <2>1
    <2>3. n * w \in Nat /\ (n + 1) * w = n * w + w
        BY Products
    <2>4. Cost(n) = n * w /\ Cost(n + 1) = (n + 1) * w
        BY <2>2 DEF Cost
    <2>5. Cost(n) \in Nat /\ Cost(n + 1) = Cost(n) + w
        BY <2>3, <2>4
    <2> QED
        BY <2>2, <2>5, Constants
<1>2. ASSUME NEW n \in 0..MaxFails PROVE Cost(n) <= Cost(MaxFails)
    BY Monotone, Constants DEF Cost
<1>3. Longest = refresh + 2 * PutTimeout + Cost(MaxFails)
    BY DEF Longest, Cost, refresh
<1>4. Cost(MaxFails) \in Nat
    BY <1>1, Constants
<1>5. Longest \in Nat
    BY <1>3, <1>4, Constants
<1> QED
    BY <1>1, <1>2, <1>3, <1>5, RoomAssumption

-----------------------------------------------------------------------------
(* Time *)

LEMMA OlderFacts ==
    ASSUME NEW a \in 0..AgeCap
    PROVE  /\ Older(a) \in 0..AgeCap /\ Older(a) <= a + 1
           /\ a < AgeCap => Older(a) = a + 1
           /\ a = AgeCap => Older(a) = AgeCap
BY Constants DEF Older

LEMMA OlderRec ==
    ASSUME NEW r \in Rec
    PROVE  LET s == [r EXCEPT !.age = Older(@)]
           IN  s \in Rec /\ s.addrs = r.addrs /\ s.age = Older(r.age)
<1>1. Older(r.age) \in 0..AgeCap
    BY OlderFacts DEF Rec
<1> QED
    BY <1>1 DEF Rec

LEMMA OlderCopy ==
    ASSUME NEW c \in Copy, c.left > 1
    PROVE  LET d == [c EXCEPT !.age = Older(@), !.left = @ - 1]
           IN  d \in Copy /\ d.addrs = c.addrs /\ d.age = Older(c.age) /\ d.left = c.left - 1
<1>1. Older(c.age) \in 0..AgeCap
    BY OlderFacts DEF Copy
<1>2. c.left - 1 \in 1..RecordTtl
    BY Constants DEF Copy
<1> QED
    BY <1>1, <1>2 DEF Copy

\* How many failed rounds the network may still have.
LEMMA SlackFacts ==
    ASSUME TypeOK
    PROVE  fails <= MaxFails => MaxFails - fails \in 0..MaxFails /\ Slack = Cost(MaxFails - fails) /\ Slack \in Nat
<1> SUFFICES ASSUME fails <= MaxFails
             PROVE  MaxFails - fails \in 0..MaxFails /\ Slack = Cost(MaxFails - fails) /\ Slack \in Nat
    OBVIOUS
<1>1. MaxFails - fails \in 0..MaxFails /\ MaxFails - fails \in Nat
    BY Constants DEF TypeOK
<1>2. Slack = Cost(MaxFails - fails)
    BY DEF Slack, Cost
<1> QED
    BY <1>1, <1>2, CostFacts

-----------------------------------------------------------------------------
(* Steps *)

LEMMA InitInv == Init => IInv
<1> SUFFICES ASSUME Init PROVE IInv
    OBVIOUS
<1>1. TypeOK
    <2>1. addr \subseteq Locations
        BY DEF Init
    <2>2. left \in Nat /\ fails \in 0 .. MaxFails + 1
        BY Constants DEF Init
    <2> QED
        BY <2>1, <2>2 DEF Init, TypeOK
<1>2. RoundInv /\ NewerInv
    BY DEF Init, RoundInv, NewerInv
<1>3. FreshInv /\ KeepInv
    BY Constants DEF Init, FreshInv, KeepInv, Arrived, GoodNetwork
<1> QED
    BY <1>1, <1>2, <1>3 DEF IInv

\* Nothing but the place in the network changes.
LEMMA SameInv ==
    ASSUME IInv, UNCHANGED <<pc, left, rec, acked, copy, fails>>,
           addr' \subseteq Locations, external' \subseteq Locations
    PROVE  IInv'
<1>1. TypeOK'
    BY DEF IInv, TypeOK
<1>2. RoundInv' /\ NewerInv'
    BY DEF IInv, RoundInv, NewerInv
<1>3. FreshInv' /\ KeepInv'
    BY DEF IInv, FreshInv, KeepInv, Arrived, GoodNetwork, Due, Slack
<1> QED
    BY <1>1, <1>2, <1>3 DEF IInv

LEMMA TickInv ==
    ASSUME IInv, Tick
    PROVE  IInv'
<1>1. /\ pc # "gathering"
      /\ left > 0 \/ pc = "stopped"
      /\ left' = IF left > 0 THEN left - 1 ELSE 0
      /\ rec' = {[r EXCEPT !.age = Older(@)] : r \in rec}
      /\ copy' = {[c EXCEPT !.age = Older(@), !.left = @ - 1] : c \in {d \in copy : d.left > 1}}
      /\ UNCHANGED <<pc, addr, external, acked, fails>>
    BY DEF Tick
<1>2. /\ left \in Nat /\ rec \subseteq Rec /\ copy \subseteq Copy /\ left' \in Nat
      /\ pc # "stopped" => left > 0 /\ left' = left - 1
    <2>1. left \in Nat /\ rec \subseteq Rec /\ copy \subseteq Copy
        BY DEF IInv, TypeOK, Rec, Copy
    <2>2. (left > 0 \/ pc = "stopped") /\ left' = IF left > 0 THEN left - 1 ELSE 0
        BY <1>1
    <2>3. left' \in Nat /\ (left > 0 => left' = left - 1)
        BY <2>1, <2>2
    <2> QED
        BY <2>1, <2>2, <2>3
<1>3. ASSUME NEW s \in rec'
      PROVE  /\ s \in Rec
             /\ \E r \in rec : s = [r EXCEPT !.age = Older(@)] /\ s.addrs = r.addrs /\ s.age = Older(r.age)
    <2>1. PICK r \in rec : s = [r EXCEPT !.age = Older(@)]
        BY <1>1
    <2> QED
        BY <1>2, <2>1, OlderRec
<1>4. ASSUME NEW d \in copy'
      PROVE  d \in Copy /\ \E c \in copy : d.age = Older(c.age) /\ d.left = c.left - 1
    <2>1. PICK c \in copy : c.left > 1 /\ d = [c EXCEPT !.age = Older(@), !.left = @ - 1]
        BY <1>1
    <2> QED
        BY <1>2, <2>1, OlderCopy
<1>5. rec' # {} <=> rec # {}
    BY <1>1
<1>6. TypeOK'
    BY <1>1, <1>2, <1>3, <1>4, <1>5 DEF IInv, TypeOK, Rec, Copy
<1>7. RoundInv'
    <2>1. \A r, s \in rec' : r = s
        BY <1>1 DEF IInv, RoundInv
    <2>2. ASSUME NEW s \in rec' PROVE s.age + left' <= PutTimeout
        <3>1. PICK r \in rec : s.age = Older(r.age)
            BY <1>3
        <3>2. r.age \in 0..AgeCap /\ r.age + left <= PutTimeout /\ pc = "putting"
            BY <1>2 DEF IInv, RoundInv, TypeOK, Rec
        <3>3. s.age <= r.age + 1 /\ s.age \in 0..AgeCap
            BY <3>1, <3>2, OlderFacts
        <3> QED
            BY <1>2, <3>2, <3>3, Constants
    <2>3. pc = "settling" => copy' = {}
        BY <1>1 DEF IInv, RoundInv
    <2> QED
        BY <1>1, <2>1, <2>2, <2>3 DEF IInv, RoundInv
<1>8. NewerInv'
    <2>1. ASSUME ~acked, NEW s \in rec', NEW d \in copy' PROVE s.age < d.age
        <3>1. PICK r \in rec : s.age = Older(r.age)
            BY <1>3
        <3>2. PICK c \in copy : d.age = Older(c.age)
            BY <1>4
        <3>3. /\ r.age \in 0..AgeCap /\ c.age \in 0..AgeCap /\ r.age < c.age
              /\ r.age + left <= PutTimeout /\ pc = "putting"
            BY <1>2, <2>1 DEF IInv, NewerInv, RoundInv, TypeOK, Rec, Copy
        <3>4. r.age < AgeCap /\ r.age + 1 < AgeCap
            BY <1>2, <3>3, Constants
        <3> QED
            BY <3>1, <3>2, <3>3, <3>4, OlderFacts, Constants
    <2>2. ASSUME pc = "sleeping", NEW d \in copy' PROVE d.age + left' >= 1
        <3>1. PICK c \in copy : d.age = Older(c.age)
            BY <1>4
        <3>2. c.age \in 0..AgeCap
            BY <1>2 DEF Copy
        <3>3. d.age >= 1 /\ d.age \in Nat
            BY <3>1, <3>2, OlderFacts, Constants
        <3> QED
            BY <1>2, <3>3
    <2> QED
        BY <1>1, <2>1, <2>2 DEF NewerInv
<1>9. ASSUME NEW c \in copy, c.left > 1 PROVE copy' # {}
    BY <1>1, <1>9
<1>10. Arrived' <=> Arrived
    <2>1. \A s \in rec' : \E r \in rec : s.addrs = r.addrs
        BY <1>3
    <2>2. \A r \in rec : \E s \in rec' : s.addrs = r.addrs
        <3> SUFFICES ASSUME NEW r \in rec PROVE \E s \in rec' : s.addrs = r.addrs
            OBVIOUS
        <3>1. [r EXCEPT !.age = Older(@)] \in rec'
            BY <1>1
        <3> QED
            BY <1>2, <3>1, OlderRec
    <2> QED
        BY <1>1, <2>1, <2>2 DEF Arrived
<1>11. FreshInv'
    <2> SUFFICES ASSUME Arrived
                 PROVE  /\ copy' # {}
                        /\ \A d \in copy' : d.age + left' <= PutTimeout /\ d.left + PutTimeout >= RecordTtl + left'
        BY <1>10 DEF FreshInv
    <2>1. left > 0 /\ left' = left - 1
        BY <1>2 DEF IInv, RoundInv, Arrived
    <2>2. /\ copy # {}
          /\ \A c \in copy : c.age + left <= PutTimeout /\ c.left + PutTimeout >= RecordTtl + left
        BY DEF IInv, FreshInv
    <2>3. PutTimeout < RecordTtl
        BY CostFacts, Constants
    <2>4. \A c \in copy : c.age \in 0..AgeCap /\ c.left \in 1..RecordTtl
        BY <1>2 DEF Copy
    <2>5. \A c \in copy : c.left > 1
        BY <1>2, <2>1, <2>2, <2>3, <2>4, Constants
    <2>6. ASSUME NEW d \in copy'
          PROVE  d.age + left' <= PutTimeout /\ d.left + PutTimeout >= RecordTtl + left'
        <3>1. PICK c \in copy : d.age = Older(c.age) /\ d.left = c.left - 1
            BY <1>4
        <3>2. d.age <= c.age + 1 /\ d.age \in 0..AgeCap
            BY <2>4, <3>1, OlderFacts
        <3> QED
            BY <1>2, <2>1, <2>2, <2>4, <3>1, <3>2, Constants
    <2> QED
        BY <1>9, <2>2, <2>5, <2>6
<1>12. KeepInv'
    <2> SUFFICES ASSUME GoodNetwork, ~Arrived
                 PROVE  /\ copy' # {}
                        /\ \A d \in copy' : d.age + Due' <= Longest /\ d.left > Due'
        BY <1>1, <1>10 DEF KeepInv, GoodNetwork
    <2>1. left > 0 /\ left' = left - 1 /\ pc' = pc /\ fails' = fails
        BY <1>1, <1>2 DEF GoodNetwork
    <2>2. copy # {} /\ \A c \in copy : c.age + Due <= Longest /\ c.left > Due
        BY DEF IInv, KeepInv
    <2>3. Slack \in Nat
        BY SlackFacts DEF IInv, GoodNetwork
    <2>4. Due \in Nat /\ Due >= 1 /\ Due' = Due - 1
        <3>1. Slack' = Slack
            BY <2>1 DEF Slack
        <3> QED
            BY <1>2, <2>1, <2>3, <3>1, Constants DEF Due
    <2>5. \A c \in copy : c.age \in 0..AgeCap /\ c.left \in 1..RecordTtl
        BY <1>2 DEF Copy
    <2>6. \A c \in copy : c.left > 1
        BY <2>2, <2>4, <2>5, Constants
    <2>7. ASSUME NEW d \in copy' PROVE d.age + Due' <= Longest /\ d.left > Due'
        <3>1. PICK c \in copy : d.age = Older(c.age) /\ d.left = c.left - 1
            BY <1>4
        <3>2. d.age <= c.age + 1 /\ d.age \in 0..AgeCap
            BY <2>5, <3>1, OlderFacts
        <3> QED
            BY <2>2, <2>4, <2>5, <3>1, <3>2, CostFacts, Constants
    <2> QED
        BY <1>9, <2>2, <2>6, <2>7
<1> QED
    BY <1>6, <1>7, <1>8, <1>11, <1>12 DEF IInv

\* A round is over: sleep begins, the copy stays.
LEMMA SleepInv ==
    ASSUME IInv, pc \in {"gathering", "putting"}, NEW good \in BOOLEAN, Sleep(good),
           good => acked, UNCHANGED <<addr, external, copy>>
    PROVE  IInv'
<1>1. /\ pc' = "sleeping" /\ rec' = {} /\ acked' = FALSE /\ fails' = Counted(good)
      /\ left' = IF good THEN refresh ELSE Retry
    BY DEF Sleep
<1>2. left' \in Nat /\ left' >= 1
    BY <1>1, Constants
<1>3. fails \in 0 .. MaxFails + 1 /\ left \in Nat /\ copy \subseteq Copy
    BY DEF IInv, TypeOK, Copy
<1>4. /\ Counted(good) \in 0 .. MaxFails + 1
      /\ Counted(good) <= MaxFails =>
            /\ \A r \in rec : Fits(r.addrs)
            /\ good => Counted(good) = 0
            /\ ~good => Counted(good) = fails + 1 /\ fails < MaxFails
    BY <1>3, Constants DEF Counted
<1>5. TypeOK'
    BY <1>1, <1>2, <1>4 DEF IInv, TypeOK
<1>6. RoundInv'
    BY <1>1 DEF RoundInv
<1>7. \A c \in copy : c.age \in 0..AgeCap /\ c.left \in 1..RecordTtl
    BY <1>3 DEF Copy
<1>8. NewerInv'
    BY <1>1, <1>2, <1>7 DEF NewerInv
<1>9. FreshInv'
    BY <1>1 DEF FreshInv, Arrived
<1>10. KeepInv'
    <2> SUFFICES ASSUME Counted(good) <= MaxFails
                 PROVE  /\ copy # {}
                        /\ \A c \in copy : c.age + Due' <= Longest /\ c.left > Due'
        BY <1>1 DEF KeepInv, GoodNetwork
    <2>1. Due' = left' + Slack' + PutTimeout /\ Slack' = Cost(MaxFails - Counted(good))
        BY <1>1 DEF Due, Slack, Cost
    <2>2. CASE good
        <3>1. Arrived
            BY <1>4, <2>2 DEF Arrived
        <3>2. Due' = refresh + Cost(MaxFails) + PutTimeout
            <4>1. Counted(good) = 0 /\ left' = refresh
                BY <1>1, <1>4, <2>2
            <4>2. MaxFails - Counted(good) = MaxFails
                BY <4>1, Constants
            <4> QED
                BY <2>1, <4>1, <4>2
        <3>3. /\ copy # {}
              /\ \A c \in copy : c.age + left <= PutTimeout /\ c.left + PutTimeout >= RecordTtl + left
            BY <3>1 DEF IInv, FreshInv
        <3>4. Cost(MaxFails) \in Nat
            BY CostFacts, Constants
        <3> QED
            BY <1>3, <1>7, <3>2, <3>3, <3>4, CostFacts, Constants
    <2>3. CASE ~good
        <3>1. fails + 1 = Counted(good) /\ fails < MaxFails
            BY <1>4, <2>3
        <3>2. /\ MaxFails - fails - 1 \in Nat /\ MaxFails - fails \in 0..MaxFails
              /\ MaxFails - fails = (MaxFails - fails - 1) + 1
              /\ MaxFails - Counted(good) = MaxFails - fails - 1
            BY <1>3, <3>1, Constants
        <3>3. PICK k \in Nat : k = MaxFails - fails - 1
            BY <3>2
        <3>4. Slack = Cost(k + 1) /\ Slack' = Cost(k) /\ k + 1 \in 0..MaxFails
            <4>1. k + 1 = MaxFails - fails /\ k = MaxFails - Counted(good)
                BY <3>2, <3>3
            <4>2. Slack = Cost(MaxFails - fails)
                BY DEF Slack, Cost
            <4> QED
                BY <2>1, <3>2, <4>1, <4>2
        <3>5. /\ Slack = Slack' + PutTimeout + Retry /\ Slack' \in Nat /\ Slack <= Cost(MaxFails)
              /\ Cost(MaxFails) \in Nat
            BY <3>3, <3>4, CostFacts, Constants
        <3>6. Due' = Slack
            BY <1>1, <2>1, <2>3, <3>5, Constants
        <3>7. CASE Arrived
            <4>1. /\ copy # {}
                  /\ \A c \in copy : c.age + left <= PutTimeout /\ c.left + PutTimeout >= RecordTtl + left
                BY <3>7 DEF IInv, FreshInv
            <4> QED
                BY <1>3, <1>7, <3>5, <3>6, <4>1, CostFacts, Constants
        <3>8. CASE ~Arrived
            <4>1. pc # "stopped" /\ fails <= MaxFails
                BY <1>3, <3>1, Constants
            <4>2. copy # {} /\ \A c \in copy : c.age + Due <= Longest /\ c.left > Due
                BY <3>8, <4>1 DEF IInv, KeepInv, GoodNetwork
            <4>3. Due \in Nat /\ Slack \in Nat /\ Slack <= Due
                <5>1. Slack \in Nat
                    BY <3>3, <3>4, CostFacts
                <5>2. \E x \in {0, PutTimeout} : Due = left + Slack + x
                    BY DEF Due
                <5> QED
                    BY <1>3, <5>1, <5>2, Constants
            <4> QED
                BY <1>7, <3>6, <4>2, <4>3, CostFacts, Constants
        <3> QED
            BY <3>7, <3>8
    <2> QED
        BY <2>2, <2>3
<1> QED
    BY <1>5, <1>6, <1>8, <1>9, <1>10 DEF IInv

LEMMA WakeInv ==
    ASSUME IInv, Wake
    PROVE  IInv'
<1>1. /\ pc \in {"settling", "sleeping"} /\ left = 0 /\ pc' = "gathering"
      /\ UNCHANGED <<left, addr, external, rec, acked, copy, fails>>
    BY DEF Wake
<1>2. TypeOK'
    BY <1>1 DEF IInv, TypeOK
<1>3. RoundInv'
    BY <1>1 DEF IInv, RoundInv
<1>4. NewerInv'
    <2>1. \A c \in copy : c.age \in 0..AgeCap
        BY DEF IInv, TypeOK
    <2>2. \A c \in copy : c.age >= 1
        BY <1>1, <2>1 DEF IInv, NewerInv, RoundInv
    <2> QED
        BY <1>1, <2>2 DEF IInv, NewerInv
<1>5. FreshInv' /\ KeepInv'
    BY <1>1 DEF IInv, FreshInv, KeepInv, RoundInv, Arrived, GoodNetwork, Due, Slack
<1> QED
    BY <1>2, <1>3, <1>4, <1>5 DEF IInv

LEMMA PutInv ==
    ASSUME IInv, Put
    PROVE  IInv'
<1> DEFINE r0 == [addrs |-> advertised_addrs, age |-> 0]
<1>1. /\ pc = "gathering" /\ advertised_addrs # {} /\ pc' = "putting" /\ left' = PutTimeout
      /\ rec' = {r0} /\ acked' = FALSE /\ UNCHANGED <<addr, external, copy, fails>>
    BY DEF Put
<1>2. r0 \in Rec
    <2>1. advertised_addrs \in (SUBSET Locations) \ {{}}
        <3>1. advertised_addrs \subseteq Locations
            BY DEF IInv, TypeOK, advertised_addrs
        <3>2. advertised_addrs # {}
            BY <1>1
        <3> HIDE DEF advertised_addrs
        <3> QED
            BY <3>1, <3>2
    <2>2. 0 \in 0..AgeCap
        BY Constants
    <2> QED
        BY <2>1, <2>2 DEF Rec
<1>3. r0.age = 0
    OBVIOUS
<1> HIDE DEF r0
<1>4. TypeOK'
    BY <1>1, <1>2, Constants DEF IInv, TypeOK, Rec
<1>5. RoundInv'
    BY <1>1, <1>3, Constants DEF RoundInv
<1>6. NewerInv'
    <2>1. \A c \in copy : c.age \in 0..AgeCap /\ c.age >= 1
        BY <1>1 DEF IInv, TypeOK, NewerInv
    <2> QED
        BY <1>1, <1>3, <2>1, Constants DEF NewerInv
<1>7. FreshInv'
    BY <1>1 DEF FreshInv, Arrived
<1>8. KeepInv'
    <2> SUFFICES ASSUME fails <= MaxFails
                 PROVE  /\ copy # {}
                        /\ \A c \in copy : c.age + Due' <= Longest /\ c.left > Due'
        BY <1>1 DEF KeepInv, GoodNetwork
    <2>1. copy # {} /\ \A c \in copy : c.age + Due <= Longest /\ c.left > Due
        BY <1>1 DEF IInv, KeepInv, RoundInv, GoodNetwork, Arrived
    <2>2. Due \in Nat /\ Due' \in Nat /\ Due' <= Due
        <3>1. Slack \in Nat /\ Slack' = Slack
            BY <1>1, SlackFacts DEF IInv, Slack
        <3>2. left \in Nat
            BY DEF IInv, TypeOK
        <3> QED
            BY <1>1, <3>1, <3>2, Constants DEF Due
    <2>3. \A c \in copy : c.age \in 0..AgeCap /\ c.left \in 1..RecordTtl
        BY DEF IInv, TypeOK
    <2> QED
        BY <2>1, <2>2, <2>3, CostFacts, Constants
<1> QED
    BY <1>4, <1>5, <1>6, <1>7, <1>8 DEF IInv

LEMMA DeliverInv ==
    ASSUME IInv, Deliver
    PROVE  IInv'
<1>1. PICK r \in rec :
        copy' = IF Fits(r.addrs) /\ \A c \in copy : r.age < c.age
                THEN {[addrs |-> r.addrs, age |-> r.age, left |-> RecordTtl]}
                ELSE copy
    BY DEF Deliver
<1>2. /\ pc = "putting" /\ ~acked /\ acked' = TRUE
      /\ UNCHANGED <<pc, left, addr, external, rec, fails>>
    BY DEF Deliver
<1>3. r \in Rec /\ rec = {r} /\ r.age \in 0..AgeCap /\ r.age + left <= PutTimeout /\ left \in Nat
    BY DEF IInv, TypeOK, RoundInv, Rec
<1> DEFINE c0 == [addrs |-> r.addrs, age |-> r.age, left |-> RecordTtl]
<1>4. /\ Fits(r.addrs) => copy' = {c0}
      /\ ~Fits(r.addrs) => copy' = copy
    BY <1>1, <1>2 DEF IInv, NewerInv
<1>5. c0 \in Copy /\ c0.age = r.age /\ c0.left = RecordTtl
    BY <1>3, RoomAssumption, Constants DEF Rec, Copy
<1> HIDE DEF c0
<1>6. TypeOK'
    BY <1>2, <1>4, <1>5 DEF IInv, TypeOK, Copy
<1>7. RoundInv'
    BY <1>2 DEF IInv, RoundInv
<1>8. NewerInv'
    BY <1>2 DEF NewerInv
<1>9. Arrived' <=> Fits(r.addrs)
    BY <1>2, <1>3 DEF Arrived
<1>10. FreshInv'
    BY <1>2, <1>3, <1>4, <1>5, <1>9, Constants DEF FreshInv
<1>11. KeepInv'
    BY <1>2, <1>4, <1>9 DEF IInv, KeepInv, GoodNetwork, Arrived, Due, Slack
<1> QED
    BY <1>6, <1>7, <1>8, <1>10, <1>11 DEF IInv

LEMMA StopInv ==
    ASSUME IInv, Stop
    PROVE  IInv'
<1>1. /\ pc' = "stopped" /\ left' = 0 /\ rec' = {} /\ acked' = FALSE
      /\ UNCHANGED <<addr, external, copy, fails>>
    BY DEF Stop
<1>2. TypeOK'
    BY <1>1 DEF IInv, TypeOK
<1>3. RoundInv' /\ NewerInv'
    BY <1>1 DEF RoundInv, NewerInv
<1>4. FreshInv' /\ KeepInv'
    BY <1>1 DEF FreshInv, KeepInv, Arrived, GoodNetwork
<1> QED
    BY <1>2, <1>3, <1>4 DEF IInv

LEMMA NextInv == IInv /\ [Next]_vars => IInv'
<1> SUFFICES ASSUME IInv, [Next]_vars PROVE IInv'
    OBVIOUS
<1>1. CASE UNCHANGED vars
    BY <1>1, SameInv DEF vars, IInv, TypeOK
<1>2. CASE Confirm
    BY <1>2, SameInv DEF Confirm, IInv, TypeOK
<1>3. ASSUME NEW a \in {{}} \cup {{l} : l \in Locations}, Move(a) PROVE IInv'
    <2>1. addr' \subseteq Locations
        BY <1>3 DEF Move
    <2> QED
        BY <1>3, <2>1, SameInv DEF Move, IInv, TypeOK
<1>4. CASE NoAddress
    BY <1>4, SleepInv DEF NoAddress
<1>5. CASE PutOk
    BY <1>5, SleepInv DEF PutOk
<1>6. CASE PutErr
    BY <1>6, SleepInv DEF PutErr
<1> QED
    BY <1>1, <1>2, <1>3, <1>4, <1>5, <1>6, TickInv, WakeInv, PutInv, DeliverInv, StopInv DEF Next

LEMMA InvHolds == Spec => []IInv
BY InitInv, NextInv, PTL DEF Spec

-----------------------------------------------------------------------------
(* Theorems *)

\* Type correctness; in particular no record without an address is ever put.
\* (publish)
THEOREM TypeCorrect == Spec => []TypeOK
<1>1. IInv => TypeOK
    BY DEF IInv
<1> QED
    BY <1>1, InvHolds, PTL

\* From the first good round on the storing node serves a record at all times, as
\* long as no more rounds in a row fail than the ttl leaves room for: the pause of
\* ttl/2, slow puts and retries included.  (refresh and RETRY in publish)
THEOREM CopyIsKept == Spec => []CopyKept
<1>1. IInv => CopyKept
    BY DEF IInv, FreshInv, KeepInv, CopyKept
<1> QED
    BY <1>1, InvHolds, PTL

\* And the record that it serves is never older than half its ttl, two puts and the
\* failed rounds.
THEOREM AgeIsBounded == Spec => []AgeBounded
<1>1. IInv => AgeBounded
    <2> SUFFICES ASSUME IInv, GoodNetwork, NEW c \in copy PROVE c.age <= Longest
        BY DEF AgeBounded
    <2>1. c.age \in 0..AgeCap /\ left \in Nat
        BY DEF IInv, TypeOK
    <2>2. CASE Arrived
        <3>1. c.age + left <= PutTimeout
            BY <2>2 DEF IInv, FreshInv
        <3>2. Cost(MaxFails) \in Nat
            BY CostFacts, Constants
        <3> QED
            BY <2>1, <3>1, <3>2, CostFacts, Constants
    <2>3. CASE ~Arrived
        <3>1. c.age + Due <= Longest
            BY <2>3 DEF IInv, KeepInv
        <3>2. Slack \in Nat
            BY SlackFacts DEF IInv, GoodNetwork
        <3>3. Due \in Nat
            BY <2>1, <3>2, Constants DEF Due
        <3> QED
            BY <2>1, <3>1, <3>3, CostFacts, Constants
    <2> QED
        BY <2>2, <2>3
<1> QED
    BY <1>1, InvHolds, PTL
=============================================================================
