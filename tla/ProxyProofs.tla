----------------------------- MODULE ProxyProofs ----------------------------
(***************************************************************************)
(* Proofs about Proxy: the counter counts the tasks, the cap holds and the *)
(* limiter keeps to its rate, for any cap, rate and number of connections. *)
(***************************************************************************)
EXTENDS Proxy, FiniteSetTheorems, TLAPS

-----------------------------------------------------------------------------
(* Arithmetic of the bucket *)

LEMMA CapacityFacts ==
    /\ capacity \in Nat /\ capacity >= 1
    /\ Full \in Nat /\ Full = capacity * TicksPerSec
    /\ Full >= TicksPerSec
<1>1. capacity \in Nat /\ capacity >= 1
    BY ProxyAssumption DEF capacity
<1>2. \A k \in Nat, t \in Nat : k >= 1 => k * t >= t /\ k * t \in Nat
    OBVIOUS
<1> HIDE DEF capacity
<1>3. Full = capacity * TicksPerSec
    BY DEF Full
<1> QED
    BY <1>1, <1>2, <1>3, ProxyAssumption

LEMMA Distribute ==
    ASSUME NEW k \in Int, NEW a \in Int, NEW b \in Int
    PROVE  k * (a + b) = k * a + k * b
OBVIOUS

LEMMA ProductNat ==
    ASSUME NEW k \in Nat, NEW a \in Nat
    PROVE  k * a \in Nat
OBVIOUS

\* The refill adds no more than the rate allows since the last call, and
\* never overfills.
LEMMA RefillFacts ==
    ASSUME TypeOK, tokens <= Full
    PROVE  /\ Refilled \in Nat
           /\ Refilled <= Full
           /\ Refilled <= tokens + capacity * (now - last)
<1> DEFINE d == now - last
<1>1. d \in Nat /\ tokens \in Nat
    BY DEF TypeOK
<1>2. capacity \in Nat /\ Full \in Nat
    BY CapacityFacts
<1>3. d * capacity = capacity * d /\ capacity * d \in Nat
    BY <1>1, <1>2, ProductNat
<1>4. Refilled = IF tokens + capacity * d < Full THEN tokens + capacity * d ELSE Full
    BY <1>3 DEF Refilled
<1> HIDE DEF d
<1>5. PICK x \in Nat : x = capacity * d
    BY <1>3
<1>6. /\ Refilled \in Nat
      /\ Refilled <= Full
      /\ Refilled <= tokens + x
    BY <1>1, <1>2, <1>4, <1>5
<1> QED
    BY <1>5, <1>6 DEF d

-----------------------------------------------------------------------------
(* Type correctness *)

LEMMA TypeInit == Init => TypeOK
BY CapacityFacts DEF Init, TypeOK, Running

LEMMA AllowTyped ==
    ASSUME TypeOK, tokens <= Full, NEW yes \in BOOLEAN, Allow(yes)
    PROVE  /\ tokens' \in Nat /\ tokens' <= Full
           /\ last' = now
           /\ admits' \in Seq(Nat)
<1>1. Refilled \in Nat /\ Refilled <= Full /\ Full \in Nat
    BY RefillFacts, CapacityFacts
<1>2. TicksPerSec \in Nat
    BY ProxyAssumption
<1>3. tokens' \in Nat /\ tokens' <= Full
  <2>1. CASE yes
    <3>1. tokens' = Refilled - TicksPerSec /\ Refilled >= TicksPerSec
        BY <2>1 DEF Allow
    <3> QED
        BY <1>1, <1>2, <3>1
  <2>2. CASE ~yes
    <3>1. tokens' = Refilled
        BY <2>2 DEF Allow
    <3> QED
        BY <1>1, <3>1
  <2> QED
      BY <2>1, <2>2
<1>4. admits' \in Seq(Nat)
    BY DEF Allow, TypeOK
<1> QED
    BY <1>3, <1>4 DEF Allow

LEMMA TypeNext == TypeOK /\ tokens <= Full /\ [Next]_vars => TypeOK'
<1> SUFFICES ASSUME TypeOK, tokens <= Full, [Next]_vars PROVE TypeOK'
    OBVIOUS
<1>1. CASE Tick
    BY <1>1 DEF Tick, limiter, TypeOK
<1>2. CASE Stop
    BY <1>2 DEF Stop, limiter, TypeOK
<1>3. ASSUME NEW c \in Conn, Accept(c) PROVE TypeOK'
  <2>1. /\ tokens' \in Nat /\ last' = now /\ admits' \in Seq(Nat)
      BY <1>3, AllowTyped DEF Accept
  <2>2. /\ pc' \in {"accept", "load"}
        /\ cur' \in SUBSET Conn
        /\ conn' \in [Conn -> {"waiting", "dropped", "done"} \cup Running]
        /\ UNCHANGED <<now, live, eof>>
      BY <1>3 DEF Accept, TypeOK
  <2> QED
      BY <2>1, <2>2 DEF TypeOK
<1>4. ASSUME NEW c \in Conn, CheckCap(c) PROVE TypeOK'
    BY <1>4 DEF CheckCap, limiter, TypeOK
<1>5. ASSUME NEW c \in Conn, Spawn(c) PROVE TypeOK'
    BY <1>5 DEF Spawn, limiter, TypeOK, Running
<1>6. ASSUME NEW c \in Conn, Opened(c) PROVE TypeOK'
    BY <1>6 DEF Opened, limiter, TypeOK, Running
<1>7. ASSUME NEW c \in Conn, OpenFailed(c) PROVE TypeOK'
    BY <1>7 DEF OpenFailed, limiter, TypeOK, Running
<1>8. ASSUME NEW c \in Conn, SpliceEnds(c) \/ SpliceFails(c) PROVE TypeOK'
    BY <1>8 DEF SpliceEnds, SpliceFails, limiter, TypeOK, Running
<1>9. ASSUME NEW c \in Conn, Finish(c) PROVE TypeOK'
    BY <1>9 DEF Finish, limiter, TypeOK
<1>10. ASSUME NEW c \in Conn, NEW end \in Ends, Close(c, end) PROVE TypeOK'
    BY <1>10 DEF Close, limiter, TypeOK
<1>11. CASE UNCHANGED vars
    BY <1>11 DEF vars, TypeOK
<1> QED
    BY <1>1, <1>2, <1>3, <1>4, <1>5, <1>6, <1>7, <1>8, <1>9, <1>10, <1>11
       DEF Next

-----------------------------------------------------------------------------
(* The counter and the cap *)

LEMMA ActiveFinite == IsFiniteSet(Active)
BY ProxyAssumption, FS_Subset DEF Active

LEMMA ActiveGrows ==
    ASSUME TypeOK, NEW c \in Conn, conn[c] \notin Running, NEW s \in Running,
           conn' = [conn EXCEPT ![c] = s]
    PROVE  Cardinality(Active') = Cardinality(Active) + 1
<1>1. Active' = Active \cup {c} /\ c \notin Active
    BY DEF Active, TypeOK
<1> QED
    BY <1>1, ActiveFinite, FS_AddElement

LEMMA ActiveShrinks ==
    ASSUME TypeOK, NEW c \in Conn, conn[c] \in Running, NEW s, s \notin Running,
           conn' = [conn EXCEPT ![c] = s]
    PROVE  Cardinality(Active') = Cardinality(Active) - 1
<1>1. Active' = Active \ {c} /\ c \in Active
    BY DEF Active, TypeOK
<1> QED
    BY <1>1, ActiveFinite, FS_RemoveElement

LEMMA ActiveStays ==
    ASSUME TypeOK, NEW c \in Conn, NEW s, s \in Running <=> conn[c] \in Running,
           conn' = [conn EXCEPT ![c] = s]
    PROVE  Active' = Active
BY DEF Active, TypeOK

LEMMA CountNext ==
    TypeOK /\ LiveCountsTasks /\ LoopInv /\ [Next]_vars
        => LiveCountsTasks' /\ LoopInv'
<1> SUFFICES ASSUME TypeOK, LiveCountsTasks, LoopInv, [Next]_vars
             PROVE  LiveCountsTasks' /\ LoopInv'
    OBVIOUS
<1>0. live \in Int /\ MaxConns \in Int
    BY ProxyAssumption DEF TypeOK
<1>1. CASE Tick
    BY <1>1 DEF Tick, LiveCountsTasks, LoopInv, Active
<1>2. CASE Stop
    BY <1>2 DEF Stop, LiveCountsTasks, LoopInv, Active
<1>3. ASSUME NEW c \in Conn, Accept(c) PROVE LiveCountsTasks' /\ LoopInv'
  <2>1. CASE conn' = conn /\ pc' = "load" /\ cur' = {c} /\ live' = live
      BY <1>3, <2>1 DEF Accept, LiveCountsTasks, LoopInv, Active
  <2>2. CASE /\ conn' = [conn EXCEPT ![c] = "dropped"]
             /\ UNCHANGED <<pc, cur, live>>
    <3>1. Active' = Active
        BY <1>3, <2>2, ActiveStays DEF Accept, Running
    <3>2. pc = "accept" /\ cur = {}
        BY <1>3 DEF Accept, LoopInv
    <3> QED
        BY <2>2, <3>1, <3>2 DEF LiveCountsTasks, LoopInv
  <2> QED
      BY <1>3, <2>1, <2>2 DEF Accept
<1>4. ASSUME NEW c \in Conn, CheckCap(c) PROVE LiveCountsTasks' /\ LoopInv'
  <2>1. conn[c] = "waiting" /\ pc = "load" /\ live' = live
      BY <1>4 DEF CheckCap, LoopInv
  <2>2. CASE /\ conn' = [conn EXCEPT ![c] = "dropped"]
             /\ pc' = "accept" /\ cur' = {}
    <3>1. Active' = Active
        BY <2>1, <2>2, ActiveStays DEF Running
    <3> QED
        BY <2>1, <2>2, <3>1 DEF LiveCountsTasks, LoopInv
  <2>3. CASE ~AtCap /\ pc' = "spawn" /\ UNCHANGED <<conn, cur>>
      BY <1>0, <2>1, <2>3 DEF LiveCountsTasks, LoopInv, Active, AtCap
  <2> QED
      BY <1>4, <2>2, <2>3 DEF CheckCap
<1>5. ASSUME NEW c \in Conn, Spawn(c) PROVE LiveCountsTasks' /\ LoopInv'
  <2>1. /\ conn[c] = "waiting" /\ live < MaxConns /\ live' = live + 1
        /\ conn' = [conn EXCEPT ![c] = "opening"] /\ pc' = "accept" /\ cur' = {}
      BY <1>5 DEF Spawn, LoopInv
  <2>2. Cardinality(Active') = Cardinality(Active) + 1
      BY <2>1, ActiveGrows DEF Running
  <2> QED
      BY <1>0, <2>1, <2>2 DEF LiveCountsTasks, LoopInv
\* A task moves on within its slot.
<1>6. ASSUME NEW c \in Conn, NEW s \in Running, conn[c] \in Running,
             conn' = [conn EXCEPT ![c] = s], UNCHANGED <<pc, cur, live>>
      PROVE  LiveCountsTasks' /\ LoopInv'
  <2>1. Active' = Active
      BY <1>6, ActiveStays
  <2>2. c \notin cur
      BY <1>6 DEF LoopInv, Running
  <2>3. \A d \in cur : conn'[d] = conn[d]
      BY <1>6, <2>2 DEF TypeOK
  <2> QED
      BY <1>6, <2>1, <2>3 DEF LiveCountsTasks, LoopInv
<1>7. ASSUME NEW c \in Conn,
             Opened(c) \/ OpenFailed(c) \/ SpliceEnds(c) \/ SpliceFails(c)
      PROVE  LiveCountsTasks' /\ LoopInv'
    BY <1>6, <1>7 DEF Opened, OpenFailed, SpliceEnds, SpliceFails, Running
<1>8. ASSUME NEW c \in Conn, Finish(c) PROVE LiveCountsTasks' /\ LoopInv'
  <2>1. /\ conn[c] = "closing" /\ live' = live - 1
        /\ conn' = [conn EXCEPT ![c] = "done"] /\ UNCHANGED <<pc, cur>>
      BY <1>8 DEF Finish
  <2>2. Cardinality(Active') = Cardinality(Active) - 1
      BY <2>1, ActiveShrinks DEF Running
  <2>3. \A d \in cur : conn'[d] = conn[d]
      BY <2>1 DEF LoopInv, TypeOK
  <2> QED
      BY <1>0, <2>1, <2>2, <2>3 DEF LiveCountsTasks, LoopInv
<1>9. ASSUME NEW c \in Conn, NEW end \in Ends, Close(c, end)
      PROVE  LiveCountsTasks' /\ LoopInv'
    BY <1>9 DEF Close, LiveCountsTasks, LoopInv, Active
<1>10. CASE UNCHANGED vars
    BY <1>10 DEF vars, LiveCountsTasks, LoopInv, Active
<1> QED
    BY <1>1, <1>2, <1>3, <1>4, <1>5, <1>7, <1>8, <1>9, <1>10 DEF Next

-----------------------------------------------------------------------------
(* The rate *)

\* The allowance since instant a grows with time at least as fast as the
\* bucket is refilled.
LEMMA Carry ==
    ASSUME NEW used \in Int, NEW old \in Int, NEW new \in Int, NEW full \in Int,
           NEW k \in Int, NEW a \in Int, NEW before \in Int, NEW at \in Int,
           used + old <= full + k * (before - a),
           new <= old + k * (at - before)
    PROVE  used + new <= full + k * (at - a)
<1>1. k * ((before - a) + (at - before)) = k * (before - a) + k * (at - before)
    BY Distribute
<1>2. (before - a) + (at - before) = at - a
    OBVIOUS
<1>3. PICK x \in Int : x = k * (before - a)
    OBVIOUS
<1>4. PICK y \in Int : y = k * (at - before)
    OBVIOUS
<1>5. k * (at - a) = x + y
    BY <1>1, <1>2, <1>3, <1>4
<1>6. used + new <= full + (x + y)
    BY <1>3, <1>4
<1> QED
    BY <1>5, <1>6

\* One call of allow() keeps the bucket invariant.
LEMMA BucketAllow ==
    ASSUME TypeOK, BucketInv, NEW yes \in BOOLEAN, Allow(yes)
    PROVE  BucketInv'
<1>1. Refilled \in Nat /\ Refilled <= tokens + capacity * (now - last)
    BY RefillFacts DEF BucketInv
<1>2. /\ capacity \in Int /\ Full \in Int /\ TicksPerSec \in Nat
      /\ now \in Int /\ last \in Int /\ tokens \in Int
      /\ admits \in Seq(Nat) /\ last <= now
    BY CapacityFacts, ProxyAssumption DEF TypeOK
<1>3. tokens' \in Nat /\ tokens' <= Full /\ last' = now
    BY AllowTyped DEF BucketInv
<1>4. UNCHANGED <<capacity, Full>>
    BY DEF capacity, Full
<1>5. ASSUME NEW i \in 1 .. Len(admits)
      PROVE  /\ admits[i] \in Nat /\ admits[i] <= now
             /\ (Len(admits) - i + 1) * TicksPerSec + Refilled
                    <= Full + capacity * (now - admits[i])
  <2>1. admits[i] \in Nat /\ admits[i] <= last
      BY <1>2 DEF BucketInv
  <2>2. PICK used \in Int : used = (Len(admits) - i + 1) * TicksPerSec
      BY <1>2
  <2>3. used + tokens <= Full + capacity * (last - admits[i])
      BY <2>2 DEF BucketInv
  <2>4. used + Refilled <= Full + capacity * (now - admits[i])
    <3>1. Refilled \in Int /\ admits[i] \in Int
        BY <1>1, <2>1
    <3> QED
        BY <1>1, <1>2, <2>3, <3>1, Carry, Zenon
  <2>5. admits[i] <= now
      BY <1>2, <2>1
  <2> QED
      BY <2>1, <2>2, <2>4, <2>5
<1>6. CASE ~yes
  <2>1. tokens' = Refilled /\ admits' = admits
      BY <1>6 DEF Allow
  <2> QED
      BY <1>3, <1>4, <1>5, <2>1 DEF BucketInv
<1>7. CASE yes
  <2>1. tokens' = Refilled - TicksPerSec /\ admits' = Append(admits, now)
      BY <1>7 DEF Allow
  <2>2. /\ Len(admits') = Len(admits) + 1 /\ Len(admits) \in Nat
        /\ \A i \in 1 .. Len(admits) : admits'[i] = admits[i]
        /\ admits'[Len(admits) + 1] = now
      BY <1>2, <2>1
  <2>3. ASSUME NEW i \in 1 .. Len(admits')
        PROVE  /\ admits'[i] <= now
               /\ (Len(admits') - i + 1) * TicksPerSec + tokens'
                    <= Full + capacity * (now - admits'[i])
    <3>1. CASE i \in 1 .. Len(admits)
      <4>1. PICK m \in Int : m = Len(admits) - i + 1
          BY <2>2
      <4>2. Len(admits') - i + 1 = m + 1
          BY <2>2, <4>1
      <4>3. (m + 1) * TicksPerSec = m * TicksPerSec + TicksPerSec
          BY <1>2, <4>1
      <4>4. PICK x \in Int : x = m * TicksPerSec
          BY <1>2
      <4>5. PICK y \in Int : y = Full + capacity * (now - admits[i])
          BY <1>2, <1>5, <3>1
      <4>6. x + Refilled <= y
          BY <1>5, <3>1, <4>1, <4>4, <4>5
      <4>7. (x + TicksPerSec) + tokens' <= y
          BY <1>1, <1>2, <2>1, <4>6
      <4> QED
          BY <1>5, <2>2, <3>1, <4>2, <4>3, <4>4, <4>5, <4>7
    <3>2. CASE i = Len(admits) + 1
      <4>1. (Len(admits') - i + 1) * TicksPerSec = TicksPerSec
          BY <1>2, <2>2, <3>2
      <4>2. capacity * (now - admits'[i]) = 0
          BY <1>2, <2>2, <3>2
      <4>3. Refilled <= Full
          BY RefillFacts DEF BucketInv
      <4> QED
          BY <1>1, <1>2, <2>1, <2>2, <3>2, <4>1, <4>2, <4>3
    <3> QED
        BY <2>2, <2>3, <3>1, <3>2
  <2> QED
      BY <1>3, <1>4, <2>3 DEF BucketInv
<1> QED
    BY <1>6, <1>7

\* An admission is within the allowance of every earlier one.
LEMMA RateAllow ==
    ASSUME TypeOK, BucketInv, BucketInv', RateHolds,
           NEW yes \in BOOLEAN, Allow(yes)
    PROVE  RateHolds'
<1>1. /\ admits \in Seq(Nat) /\ TicksPerSec \in Nat /\ now \in Nat
      /\ capacity \in Int /\ Full \in Int
    BY CapacityFacts, ProxyAssumption DEF TypeOK
<1>2. UNCHANGED <<capacity, Full>> /\ last' = now
    BY DEF capacity, Full, Allow
<1>3. CASE ~yes
    BY <1>2, <1>3 DEF Allow, RateHolds
<1>4. CASE yes
  <2>1. admits' = Append(admits, now)
      BY <1>4 DEF Allow
  <2>2. /\ Len(admits') = Len(admits) + 1 /\ Len(admits) \in Nat
        /\ \A i \in 1 .. Len(admits) : admits'[i] = admits[i]
        /\ admits'[Len(admits) + 1] = now
      BY <1>1, <2>1
  <2> SUFFICES ASSUME NEW i \in 1 .. Len(admits'), NEW j \in 1 .. Len(admits'),
                      i <= j
               PROVE  (j - i + 1) * TicksPerSec
                         <= Full + capacity * (admits'[j] - admits'[i])
      BY <1>2 DEF RateHolds
  <2>3. CASE j \in 1 .. Len(admits)
    <3>1. i \in 1 .. Len(admits)
        BY <2>2, <2>3
    <3> QED
        BY <2>2, <2>3, <3>1 DEF RateHolds
  <2>4. CASE j = Len(admits) + 1
    <3>1. tokens' \in Nat
        BY AllowTyped DEF BucketInv
    <3>2. (Len(admits') - i + 1) * TicksPerSec + tokens'
              <= Full + capacity * (now - admits'[i])
        BY <1>2 DEF BucketInv
    <3>3. PICK x \in Int : x = (j - i + 1) * TicksPerSec
        BY <1>1, <2>2
    <3>4. admits'[i] \in Nat
        BY <1>1, <2>1, <2>2
    <3>5. PICK y \in Int : y = Full + capacity * (now - admits'[i])
        BY <1>1, <3>4
    <3>6. x + tokens' <= y
        BY <2>2, <2>4, <3>2, <3>3, <3>5
    <3>7. x <= y
      <4>1. PICK z \in Nat : z = tokens'
          BY <3>1
      <4>2. x + z <= y
          BY <3>6, <4>1
      <4> QED
          BY <4>2
    <3> QED
        BY <2>2, <2>4, <3>3, <3>5, <3>7
  <2> QED
      BY <2>2, <2>3, <2>4
<1> QED
    BY <1>3, <1>4

LEMMA BucketNext ==
    TypeOK /\ BucketInv /\ RateHolds /\ [Next]_vars => BucketInv' /\ RateHolds'
<1> SUFFICES ASSUME TypeOK, BucketInv, RateHolds, [Next]_vars
             PROVE  BucketInv' /\ RateHolds'
    OBVIOUS
<1>1. ASSUME UNCHANGED limiter PROVE BucketInv' /\ RateHolds'
    BY <1>1 DEF limiter, BucketInv, RateHolds, capacity, Full
<1>2. ASSUME NEW c \in Conn, Accept(c) PROVE BucketInv' /\ RateHolds'
  <2>1. Allow(TRUE) \/ Allow(FALSE)
      BY <1>2 DEF Accept
  <2> QED
      BY <2>1, BucketAllow, RateAllow
<1>3. CASE Tick \/ Stop
    BY <1>1, <1>3 DEF Tick, Stop
<1>4. ASSUME NEW c \in Conn, CheckCap(c) \/ Spawn(c) PROVE BucketInv' /\ RateHolds'
    BY <1>1, <1>4 DEF CheckCap, Spawn
<1>5. ASSUME NEW c \in Conn,
             Opened(c) \/ OpenFailed(c) \/ SpliceEnds(c) \/ SpliceFails(c)
      PROVE  BucketInv' /\ RateHolds'
    BY <1>1, <1>5 DEF Opened, OpenFailed, SpliceEnds, SpliceFails
<1>6. ASSUME NEW c \in Conn, Finish(c) PROVE BucketInv' /\ RateHolds'
    BY <1>1, <1>6 DEF Finish
<1>7. ASSUME NEW c \in Conn, NEW end \in Ends, Close(c, end)
      PROVE  BucketInv' /\ RateHolds'
    BY <1>1, <1>7 DEF Close
<1>8. CASE UNCHANGED vars
    BY <1>1, <1>8 DEF vars, limiter
<1> QED
    BY <1>2, <1>3, <1>4, <1>5, <1>6, <1>7, <1>8 DEF Next

-----------------------------------------------------------------------------

LEMMA InitInv == Init => IInv
<1> SUFFICES ASSUME Init PROVE IInv
    OBVIOUS
<1>1. TypeOK
    BY TypeInit
<1>2. LiveCountsTasks
  <2>1. Active = {}
      BY DEF Init, Active, Running
  <2> QED
      BY <2>1, FS_EmptySet DEF Init, LiveCountsTasks
<1>3. LoopInv
    BY ProxyAssumption DEF Init, LoopInv
<1>4. BucketInv /\ RateHolds
    BY CapacityFacts DEF Init, BucketInv, RateHolds
<1> QED
    BY <1>1, <1>2, <1>3, <1>4 DEF IInv

LEMMA NextInv == IInv /\ [Next]_vars => IInv'
<1> SUFFICES ASSUME IInv, [Next]_vars PROVE IInv'
    OBVIOUS
<1>1. TypeOK'
    BY TypeNext DEF IInv, BucketInv
<1>2. LiveCountsTasks' /\ LoopInv'
    BY CountNext DEF IInv
<1>3. BucketInv' /\ RateHolds'
    BY BucketNext DEF IInv
<1> QED
    BY <1>1, <1>2, <1>3 DEF IInv

LEMMA SpecInv == Spec => []IInv
BY InitInv, NextInv, PTL DEF Spec

\* Tokens, clock and tasks stay within their types; in particular the bucket never
\* goes below zero and its clock never runs ahead.  (RateLimiter::allow)
THEOREM TypeCorrect == Spec => []TypeOK
<1>1. IInv => TypeOK
    BY DEF IInv
<1> QED
    BY <1>1, SpecInv, PTL

\* live is the number of running tasks at all times: no path of a task leaks
\* its slot or frees it twice.
THEOREM CounterIsExact == Spec => []LiveCountsTasks
<1>1. IInv => LiveCountsTasks
    BY DEF IInv
<1> QED
    BY <1>1, SpecInv, PTL

\* max_conns is never exceeded, although load and fetch_add are two steps.
THEOREM CapIsKept == Spec => []CapHolds
<1>1. IInv => CapHolds
    BY DEF IInv, LiveCountsTasks, LoopInv, CapHolds
<1> QED
    BY <1>1, SpecInv, PTL

\* Over any stretch of time the limiter admits one burst plus rate times time.
THEOREM RateIsKept == Spec => []RateHolds
<1>1. IInv => RateHolds
    BY DEF IInv
<1> QED
    BY <1>1, SpecInv, PTL
=============================================================================
