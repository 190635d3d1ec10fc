---------------------------- MODULE NetNodeProofs ---------------------------
(***************************************************************************)
(* Proofs about NetNode, for any tasks, records, capacity and timeouts: no *)
(* entry leaks, a resolve is over in time, and every step of the network   *)
(* task is a step of Requests.                                             *)
(***************************************************************************)
EXTENDS NetNode, TLAPS

-----------------------------------------------------------------------------
(* Sequences *)

LEMMA AppendFacts ==
    ASSUME NEW S, NEW s \in Seq(S), NEW e \in S
    PROVE  /\ Append(s, e) \in Seq(S)
           /\ Len(s) \in Nat /\ Len(Append(s, e)) = Len(s) + 1
           /\ \A i \in 1..Len(s) : Append(s, e)[i] = s[i]
           /\ Append(s, e)[Len(s) + 1] = e
OBVIOUS

LEMMA TailFacts ==
    ASSUME NEW S, NEW s \in Seq(S), s # <<>>
    PROVE  /\ Len(s) \in Nat /\ Len(s) >= 1
           /\ Head(s) = s[1] /\ Head(s) \in S
           /\ Tail(s) \in Seq(S) /\ Len(Tail(s)) = Len(s) - 1
           /\ \A i \in 1..Len(s) - 1 : Tail(s)[i] = s[i + 1]
OBVIOUS

-----------------------------------------------------------------------------

Event == [id : Task, kind : {"found", "get", "failed", "put"},
          value : Small \cup Huge \cup Other]
Command == [by : Task, kind : Kind]

LEMMA InitInv == Init => IInv
<1> SUFFICES ASSUME Init PROVE IInv
    OBVIOUS
<1>1. TypeOK
    BY NetNodeAssumption DEF Init, TypeOK, Kind
<1>2. ASSUME NEW t \in Task
      PROVE  QueryInv(t) /\ PlaceInv(t) /\ AnswerInv(t) /\ AgeInv(t)
    <2>1. Len(events) = 0 /\ Len(queue) = 0
        BY DEF Init
    <2>2. QueryInv(t) /\ PlaceInv(t) /\ AnswerInv(t)
        BY <2>1 DEF Init, QueryInv, PlaceInv, AnswerInv, Clear
    <2>3. AgeInv(t)
        BY NetNodeAssumption DEF Init, AgeInv, Task
    <2> QED
        BY <2>2, <2>3
<1> QED
    BY <1>1, <1>2 DEF IInv

\* What the invariants say of the network task alone stays as it is when the
\* network task does.
LEMMA SameNet ==
    ASSUME NEW t \in Task, UNCHANGED events, query'[t] = query[t],
           t \in pendingPut' <=> t \in pendingPut, pendingGet'[t] = pendingGet[t]
    PROVE  /\ Clear(t)' <=> Clear(t)
           /\ Reported(t)' = Reported(t)
           /\ QueryInv(t)' <=> QueryInv(t)
BY DEF Clear, Reported, QueryInv

\* A step of a caller that has no request open, or gives up.
LEMMA CallerStep ==
    ASSUME IInv, NEW t \in Task,
           UNCHANGED <<queue, pendingPut, pendingGet, query, left, events, count>>,
           NEW a \in {"call", "idle", "pause", "gone"}, NEW k \in Kind,
           NEW g \in Nat, NEW w \in 0..Pause, NEW n \in 0..MaxAddrs,
           at' = [at EXCEPT ![t] = a], op' = [op EXCEPT ![t] = k],
           reply' = [reply EXCEPT ![t] = {}], found' = [found EXCEPT ![t] = {}],
           age' = [age EXCEPT ![t] = g], wake' = [wake EXCEPT ![t] = w],
           todo' = [todo EXCEPT ![t] = n],
           a # "gone" => at[t] \notin {"wait", "gone"},
           t \in Resolver => k \in {"get", "dial"},
           t \in Publisher => k \in {"doctor", "put"},
           a \in {"idle", "gone"} \/ t \notin Resolver \/ k # "get" => g = 0,
           t \in Resolver /\ a = "pause" => k = "get" /\ g + w < ResolveTimeout + Pause,
           a = "call" => g < ResolveTimeout + Pause,
           g \in {0, age[t]}
    PROVE  IInv'
<1>1. TypeOK'
    BY DEF IInv, TypeOK
<1>2. ASSUME NEW u \in Task
      PROVE  QueryInv(u)' /\ PlaceInv(u)' /\ AnswerInv(u)' /\ AgeInv(u)'
    <2>1. /\ Clear(u)' <=> Clear(u)
          /\ Reported(u)' = Reported(u)
          /\ QueryInv(u)'
        BY SameNet DEF IInv
    <2>2. PlaceInv(u) /\ AnswerInv(u) /\ AgeInv(u)
        BY DEF IInv
    <2>3. CASE u # t
        <3>1. /\ at'[u] = at[u] /\ op'[u] = op[u] /\ reply'[u] = reply[u]
              /\ found'[u] = found[u] /\ age'[u] = age[u] /\ wake'[u] = wake[u]
            BY <2>3 DEF IInv, TypeOK
        <3>2. PlaceInv(u)'
            BY <2>1, <2>2, <3>1 DEF PlaceInv
        <3>3. AnswerInv(u)'
            BY <2>1, <2>2, <3>1 DEF AnswerInv
        <3>4. AgeInv(u)'
            BY <2>1, <2>2, <3>1 DEF AgeInv
        <3> QED
            BY <2>1, <3>2, <3>3, <3>4
    <2>4. CASE u = t
        <3>1. /\ at'[u] = a /\ op'[u] = k /\ reply'[u] = {}
              /\ found'[u] = {} /\ age'[u] = g /\ wake'[u] = w
            BY <2>4 DEF IInv, TypeOK
        <3>2. PlaceInv(u)'
            BY <2>1, <2>2, <2>4, <3>1 DEF PlaceInv
        <3>3. AnswerInv(u)'
            BY <2>1, <2>2, <2>4, <3>1 DEF AnswerInv, PlaceInv, Clear
        <3>4. AgeInv(u)'
            <4>1. age[u] \in Nat /\ left[u] \in 0..QueryTimeout
                BY DEF IInv, TypeOK
            <4>2. g + left[u] < ResolveTimeout + Pause + QueryTimeout
                BY <2>2, <2>4, <4>1, NetNodeAssumption DEF AgeInv
            <4> QED
                BY <2>4, <3>1, <4>2 DEF AgeInv
        <3> QED
            BY <2>1, <3>2, <3>3, <3>4
    <2> QED
        BY <2>3, <2>4
<1> QED
    BY <1>1, <1>2 DEF IInv

LEMMA EnqueueInv ==
    ASSUME IInv, NEW t \in Task, Enqueue(t)
    PROVE  IInv'
<1> DEFINE c == [by |-> t, kind |-> op[t]]
<1>1. /\ queue \in Seq(Command) /\ c \in Command
      /\ queue' = Append(queue, c)
      /\ Len(queue) < Capacity
    BY DEF IInv, TypeOK, Enqueue, Command
<1>2. /\ queue' \in Seq(Command)
      /\ Len(queue) \in Nat /\ Len(queue') = Len(queue) + 1
      /\ \A i \in 1..Len(queue) : queue'[i] = queue[i]
      /\ queue'[Len(queue) + 1] = c
    BY <1>1, AppendFacts
<1>3. /\ at' = [at EXCEPT ![t] = "wait"] /\ at[t] = "call"
      /\ UNCHANGED <<op, reply, age, wake, todo, pendingPut, pendingGet,
                     query, left, events, found, count>>
    BY DEF Enqueue, pending, kad
<1>4. TypeOK'
    <2>1. Len(queue') <= Capacity
        BY <1>1, <1>2, NetNodeAssumption
    <2>2. at' \in [Task -> {"idle", "call", "wait", "answered", "pause", "gone"}]
        BY <1>3 DEF IInv, TypeOK
    <2> QED
        BY <1>2, <1>3, <2>1, <2>2 DEF IInv, TypeOK, Command
<1>5. ASSUME NEW u \in Task
      PROVE  QueryInv(u)' /\ PlaceInv(u)' /\ AnswerInv(u)' /\ AgeInv(u)'
    <2>1. /\ Clear(u)' <=> Clear(u)
          /\ Reported(u)' = Reported(u)
          /\ QueryInv(u)'
        BY <1>3, SameNet DEF IInv
    <2>2. PlaceInv(u) /\ AnswerInv(u) /\ AgeInv(u)
        BY DEF IInv
    <2>3. at'[u] = IF u = t THEN "wait" ELSE at[u]
        BY <1>3 DEF IInv, TypeOK
    <2>4. c.by = t /\ c.kind = op[t]
        OBVIOUS
    <2> HIDE DEF c
    <2>5. PlaceInv(u)'
        <3>1. CASE u = t
            <4>1. Clear(u) /\ \A i \in 1..Len(queue) : queue[i].by # u
                BY <1>3, <2>2, <3>1 DEF PlaceInv
            <4>2. \A i \in 1..Len(queue') : queue'[i].by = u => i = Len(queue) + 1
                BY <1>2, <4>1
            <4>3. Len(queue) + 1 \in 1..Len(queue')
                BY <1>2
            <4> QED
                BY <1>2, <1>3, <2>1, <2>3, <2>4, <3>1, <4>1, <4>2, <4>3 DEF PlaceInv
        <3>2. CASE u # t
            <4>1. \A i \in 1..Len(queue') : queue'[i].by = u =>
                    i \in 1..Len(queue) /\ queue'[i] = queue[i]
                BY <1>2, <2>4, <3>2
            <4>2. \A i \in 1..Len(queue) : i \in 1..Len(queue') /\ queue'[i] = queue[i]
                BY <1>2
            <4> QED
                BY <1>3, <2>1, <2>2, <2>3, <3>2, <4>1, <4>2 DEF PlaceInv
        <3> QED
            BY <3>1, <3>2
    <2>6. AnswerInv(u)'
        BY <1>3, <2>1, <2>2, <2>3 DEF AnswerInv, PlaceInv, Clear
    <2>7. AgeInv(u)'
        BY <1>3, <2>1, <2>2, <2>3 DEF AgeInv
    <2> QED
        BY <2>1, <2>5, <2>6, <2>7
<1> QED
    BY <1>4, <1>5 DEF IInv

-----------------------------------------------------------------------------
(* The event loop: commands *)

LEMMA TakenFacts ==
    ASSUME IInv, queue # <<>>, queue' = Tail(queue), NEW t, t = Head(queue).by
    PROVE  /\ t \in Task /\ Head(queue).kind \in Kind
           /\ queue' \in Seq(Command) /\ Len(queue') <= Capacity
           /\ at[t] \in {"wait", "gone"} /\ Clear(t)
           /\ at[t] = "wait" => Head(queue).kind = op[t]
           /\ \A i \in 1..Len(queue') :
                i + 1 \in 1..Len(queue) /\ queue'[i] = queue[i + 1] /\ queue'[i].by # t
           /\ \A u \in Task : \A i \in 1..Len(queue) : u # t /\ queue[i].by = u =>
                i - 1 \in 1..Len(queue') /\ queue'[i - 1].by = u
<1>1. queue \in Seq(Command) /\ Len(queue) <= Capacity
    BY DEF IInv, TypeOK, Command
<1>2. /\ Len(queue) \in Nat /\ Len(queue) >= 1
      /\ Head(queue) = queue[1] /\ Head(queue) \in Command
      /\ queue' \in Seq(Command) /\ Len(queue') = Len(queue) - 1
      /\ \A i \in 1..Len(queue) - 1 : queue'[i] = queue[i + 1]
    BY <1>1, TailFacts
<1>3. t \in Task /\ Head(queue).kind \in Kind
    BY <1>2 DEF Command
<1>4. 1 \in 1..Len(queue) /\ queue[1].by = t
    BY <1>2
<1>5. /\ at[t] \in {"wait", "gone"} /\ Clear(t)
      /\ at[t] = "wait" => queue[1].kind = op[t]
      /\ \A j \in 1..Len(queue) : queue[j].by = t => 1 = j
    BY <1>3, <1>4 DEF IInv, PlaceInv
<1>6. \A i \in 1..Len(queue') :
        i + 1 \in 1..Len(queue) /\ queue'[i] = queue[i + 1] /\ queue'[i].by # t
    BY <1>2, <1>5
<1>7. \A u \in Task : \A i \in 1..Len(queue) : u # t /\ queue[i].by = u =>
        i - 1 \in 1..Len(queue') /\ queue'[i - 1].by = u
    <2> SUFFICES ASSUME NEW u \in Task, NEW i \in 1..Len(queue), u # t, queue[i].by = u
                 PROVE  i - 1 \in 1..Len(queue') /\ queue'[i - 1].by = u
        OBVIOUS
    <2>1. i # 1
        BY <1>4
    <2>2. i - 1 \in 1..Len(queue) - 1 /\ (i - 1) + 1 = i
        BY <1>2, <2>1
    <2> QED
        BY <1>2, <2>2
<1>8. Len(queue') <= Capacity
    BY <1>1, <1>2, NetNodeAssumption
<1> QED
    BY <1>2, <1>3, <1>5, <1>6, <1>7, <1>8

\* A command of another task is taken: nothing changes for u.
LEMMA OtherCommand ==
    ASSUME IInv, NEW u \in Task, UNCHANGED events,
           query'[u] = query[u], u \in pendingPut' <=> u \in pendingPut,
           pendingGet'[u] = pendingGet[u], at'[u] = at[u], op'[u] = op[u],
           reply'[u] = reply[u], found'[u] = found[u], age'[u] = age[u],
           wake'[u] = wake[u], left'[u] = left[u],
           queue # <<>>, queue' = Tail(queue), u # Head(queue).by
    PROVE  QueryInv(u)' /\ PlaceInv(u)' /\ AnswerInv(u)' /\ AgeInv(u)'
<1>1. /\ Clear(u)' <=> Clear(u)
      /\ Reported(u)' = Reported(u)
      /\ QueryInv(u)'
    BY SameNet DEF IInv
<1>2. PlaceInv(u) /\ AnswerInv(u) /\ AgeInv(u)
    BY DEF IInv
<1>3. /\ \A i \in 1..Len(queue') : i + 1 \in 1..Len(queue) /\ queue'[i] = queue[i + 1]
      /\ \A i \in 1..Len(queue) : queue[i].by = u =>
            i - 1 \in 1..Len(queue') /\ queue'[i - 1].by = u
    BY TakenFacts
<1>4. PlaceInv(u)'
    <2>1. (\E i \in 1..Len(queue) : queue[i].by = u) => \E i \in 1..Len(queue') : queue'[i].by = u
        BY <1>3
    <2>2. (\A i \in 1..Len(queue) : queue[i].by # u) => \A i \in 1..Len(queue') : queue'[i].by # u
        BY <1>3
    <2>3. ASSUME NEW i \in 1..Len(queue'), queue'[i].by = u
          PROVE  /\ Clear(u)'
                 /\ at'[u] = "wait" => queue'[i].kind = op'[u]
                 /\ \A j \in 1..Len(queue') : queue'[j].by = u => i = j
        BY <1>1, <1>2, <1>3, <2>3 DEF PlaceInv
    <2> QED
        BY <1>1, <1>2, <2>1, <2>2, <2>3 DEF PlaceInv
<1>5. AnswerInv(u)'
    BY <1>1, <1>2 DEF AnswerInv
<1>6. AgeInv(u)'
    BY <1>1, <1>2 DEF AgeInv
<1> QED
    BY <1>1, <1>4, <1>5, <1>6

\* A query starts for t: for a put, or for a get with nothing found yet.
LEMMA StartInv ==
    ASSUME IInv, queue # <<>>, queue' = Tail(queue), NEW t, t = Head(queue).by,
           NEW k \in {"get", "put"}, k = Head(queue).kind,
           StartQuery(t, k), UNCHANGED <<op, age, wake, todo, events>>,
           pendingPut' = IF k = "put" THEN pendingPut \cup {t} ELSE pendingPut,
           pendingGet' = IF k = "get" THEN [pendingGet EXCEPT ![t] = {{}}] ELSE pendingGet
    PROVE  IInv'
<1>1. /\ t \in Task /\ queue' \in Seq(Command) /\ Len(queue') <= Capacity
      /\ at[t] \in {"wait", "gone"} /\ Clear(t)
      /\ at[t] = "wait" => k = op[t]
      /\ \A i \in 1..Len(queue') : queue'[i].by # t
    BY TakenFacts
<1>2. /\ query' = [query EXCEPT ![t] = k]
      /\ left' = [left EXCEPT ![t] = QueryTimeout]
      /\ count' = [count EXCEPT ![t] = 0]
      /\ UNCHANGED <<at, reply, found>>
    BY DEF StartQuery
<1>3. TypeOK'
    <2>1. /\ query' \in [Task -> {"none", "get", "put"}]
          /\ pendingPut' \subseteq Task
        BY <1>1, <1>2 DEF IInv, TypeOK
    <2>3. QueryTimeout \in 0..QueryTimeout /\ 0 \in 0..MaxFound
        BY NetNodeAssumption
    <2>4. left' \in [Task -> 0..QueryTimeout] /\ count' \in [Task -> 0..MaxFound]
        BY <1>1, <1>2, <2>3 DEF IInv, TypeOK
    <2>2. pendingGet' \in [Task -> {{}} \cup {{acc} : acc \in SUBSET Small}]
        <3>1. {{}} \in {{acc} : acc \in SUBSET Small}
            OBVIOUS
        <3> QED
            BY <1>1, <3>1 DEF IInv, TypeOK
    <2> QED
        BY <1>1, <1>2, <2>1, <2>2, <2>4 DEF IInv, TypeOK, Command
<1>4. ASSUME NEW u \in Task
      PROVE  QueryInv(u)' /\ PlaceInv(u)' /\ AnswerInv(u)' /\ AgeInv(u)'
    <2>1. CASE u # t
        <3>1. /\ query'[u] = query[u] /\ left'[u] = left[u]
              /\ u \in pendingPut' <=> u \in pendingPut
              /\ pendingGet'[u] = pendingGet[u]
            BY <1>2, <2>1 DEF IInv, TypeOK
        <3> QED
            BY <1>2, <2>1, <3>1, OtherCommand
    <2>2. CASE u = t
        <3>1. /\ query'[u] = k /\ left'[u] = QueryTimeout
              /\ u \in pendingPut' <=> query'[u] = "put"
              /\ pendingGet'[u] # {} <=> query'[u] = "get"
              /\ \A acc \in pendingGet'[u] : acc = {}
              /\ u \in pendingPut' \/ pendingGet'[u] # {}
            BY <1>1, <1>2, <2>2 DEF IInv, TypeOK, Clear
        <3>2. \A i \in 1..Len(events') : events'[i].id # u
            BY <1>1, <2>2 DEF Clear
        <3>3. Reported(u)' = {}
            BY <3>2 DEF Reported
        <3>4. QueryInv(u)'
            BY <3>1, <3>2 DEF QueryInv
        <3>5. PlaceInv(u)'
            BY <1>1, <1>2, <2>2, <3>1 DEF PlaceInv
        <3>6. AnswerInv(u)'
            <4>1. AnswerInv(u) /\ pendingGet[u] = {}
                BY <1>1, <2>2 DEF IInv, Clear
            <4> QED
                BY <1>1, <1>2, <2>2, <3>1, <3>3, <4>1 DEF AnswerInv
        <3>7. AgeInv(u)'
            <4>1. AgeInv(u) /\ age[u] \in Nat /\ Clear(u)
                BY <1>1, <2>2 DEF IInv, TypeOK
            <4>2. age[u] < ResolveTimeout + Pause
                BY <1>1, <2>2, <4>1, NetNodeAssumption DEF AgeInv
            <4>3. ~Clear(u)'
                BY <3>1 DEF Clear
            <4> QED
                BY <1>1, <1>2, <2>2, <3>1, <4>1, <4>2, <4>3, NetNodeAssumption DEF AgeInv
        <3> QED
            BY <3>4, <3>5, <3>6, <3>7
    <2> QED
        BY <2>1, <2>2
<1> QED
    BY <1>3, <1>4 DEF IInv

\* A command is answered on the spot.
LEMMA RespondInv ==
    ASSUME IInv, queue # <<>>, queue' = Tail(queue), NEW t, t = Head(queue).by,
           NEW r \in Other, Respond(t, {r}),
           UNCHANGED <<op, age, wake, todo, events, pendingPut, pendingGet,
                       query, left, found, count>>
    PROVE  IInv'
<1>1. /\ t \in Task /\ queue' \in Seq(Command) /\ Len(queue') <= Capacity
      /\ at[t] \in {"wait", "gone"} /\ Clear(t)
      /\ \A i \in 1..Len(queue') : queue'[i].by # t
    BY TakenFacts
<1>2. /\ at' \in [Task -> {"idle", "call", "wait", "answered", "pause", "gone"}]
      /\ reply' \in [Task -> SUBSET (Small \cup Other)]
      /\ \A u \in Task : u # t => at'[u] = at[u] /\ reply'[u] = reply[u]
      /\ at'[t] = IF at[t] = "wait" THEN "answered" ELSE "gone"
    <2>1. CASE at[t] = "wait"
        <3>1. /\ at' = [at EXCEPT ![t] = "answered"]
              /\ reply' = [reply EXCEPT ![t] = {r}]
            BY <2>1 DEF Respond
        <3> QED
            BY <1>1, <2>1, <3>1 DEF IInv, TypeOK
    <2>2. CASE at[t] # "wait"
        BY <1>1, <2>2 DEF Respond, IInv, TypeOK
    <2> QED
        BY <2>1, <2>2
<1>3. TypeOK'
    BY <1>1, <1>2 DEF IInv, TypeOK, Command
<1>4. ASSUME NEW u \in Task
      PROVE  QueryInv(u)' /\ PlaceInv(u)' /\ AnswerInv(u)' /\ AgeInv(u)'
    <2>1. CASE u # t
        BY <1>2, <2>1, OtherCommand
    <2>2. CASE u = t
        <3>1. Clear(u)' /\ QueryInv(u)'
            BY <1>1, <2>2, SameNet DEF IInv
        <3>2. AnswerInv(u) /\ AgeInv(u)
            BY DEF IInv
        <3>3. PlaceInv(u)'
            BY <1>1, <1>2, <2>2, <3>1 DEF PlaceInv
        <3>4. AnswerInv(u)'
            BY <1>1, <1>2, <2>2, <3>2 DEF AnswerInv
        <3>5. AgeInv(u)'
            BY <1>1, <1>2, <2>2, <3>2 DEF AgeInv
        <3> QED
            BY <3>1, <3>3, <3>4, <3>5
    <2> QED
        BY <2>1, <2>2
<1> QED
    BY <1>3, <1>4 DEF IInv

LEMMA CommandInv == IInv /\ handle_command => IInv'
<1> SUFFICES ASSUME IInv, handle_command PROVE IInv'
    OBVIOUS
<1> DEFINE c == Head(queue)
<1>1. queue # <<>> /\ queue' = Tail(queue) /\ UNCHANGED <<op, age, wake, todo, events>>
    BY DEF handle_command
<1>2. CASE c.kind = "get" /\ GetRecord(c.by)
    BY <1>1, <1>2, StartInv DEF GetRecord
<1>3. CASE c.kind = "put" /\ PutRecord(c.by)
    <2>1. CASE StartQuery(c.by, "put") /\ pendingPut' = pendingPut \cup {c.by}
        BY <1>1, <1>3, <2>1, StartInv DEF PutRecord
    <2>2. CASE Respond(c.by, {"err"}) /\ UNCHANGED <<pendingPut, kad>>
        BY <1>1, <1>3, <2>2, RespondInv DEF PutRecord, Other, kad
    <2> QED
        BY <1>3, <2>1, <2>2 DEF PutRecord
<1>4. CASE c.kind \in {"dial", "doctor"} /\ DialOrDoctor(c.by)
    BY <1>1, <1>4, RespondInv DEF DialOrDoctor, pending, kad
<1> QED
    BY <1>2, <1>3, <1>4 DEF handle_command

-----------------------------------------------------------------------------
(* kad and the event loop: events *)

\* Nothing changes for u, except that its events may have moved.
LEMMA OtherTask ==
    ASSUME IInv, NEW u \in Task, UNCHANGED queue,
           Clear(u)' <=> Clear(u), Reported(u)' = Reported(u),
           u \in pendingPut' <=> u \in pendingPut,
           pendingGet'[u] = pendingGet[u], at'[u] = at[u], op'[u] = op[u],
           reply'[u] = reply[u], found'[u] = found[u], age'[u] = age[u],
           wake'[u] = wake[u], left'[u] = left[u]
    PROVE  PlaceInv(u)' /\ AnswerInv(u)' /\ AgeInv(u)'
<1>1. PlaceInv(u) /\ AnswerInv(u) /\ AgeInv(u)
    BY DEF IInv
<1>2. PlaceInv(u)'
    BY <1>1 DEF PlaceInv
<1>3. AnswerInv(u)'
    BY <1>1 DEF AnswerInv
<1>4. AgeInv(u)'
    BY <1>1 DEF AgeInv
<1> QED
    BY <1>2, <1>3, <1>4

\* An event of another task arrives ...
LEMMA AppendOther ==
    ASSUME IInv, NEW u \in Task, NEW e \in Event, events' = Append(events, e), e.id # u,
           query'[u] = query[u], u \in pendingPut' <=> u \in pendingPut,
           pendingGet'[u] = pendingGet[u]
    PROVE  /\ Clear(u)' <=> Clear(u)
           /\ Reported(u)' = Reported(u)
           /\ QueryInv(u)'
<1>1. events \in Seq(Event)
    BY DEF IInv, TypeOK, Event
<1>2. /\ Len(events) \in Nat /\ Len(events') = Len(events) + 1
      /\ \A i \in 1..Len(events) : events'[i] = events[i]
      /\ events'[Len(events) + 1] = e
    BY <1>1, AppendFacts
<1>3. /\ \A i \in 1..Len(events') : events'[i].id = u =>
            i \in 1..Len(events) /\ events'[i] = events[i]
      /\ \A i \in 1..Len(events) : i \in 1..Len(events') /\ events'[i] = events[i]
    BY <1>2
<1>4. QueryInv(u)'
    <2>1. QueryInv(u)
        BY DEF IInv
    <2> QED
        BY <1>3, <2>1 DEF QueryInv
<1> QED
    BY <1>3, <1>4 DEF Clear, Reported

\* ... or is taken.
LEMMA TailOther ==
    ASSUME IInv, NEW u \in Task, events # <<>>, events' = Tail(events), Head(events).id # u,
           query'[u] = query[u], u \in pendingPut' <=> u \in pendingPut,
           pendingGet'[u] = pendingGet[u]
    PROVE  /\ Clear(u)' <=> Clear(u)
           /\ Reported(u)' = Reported(u)
           /\ QueryInv(u)'
<1>1. events \in Seq(Event)
    BY DEF IInv, TypeOK, Event
<1>2. /\ Len(events) \in Nat /\ Len(events) >= 1
      /\ Head(events) = events[1]
      /\ Len(events') = Len(events) - 1
      /\ \A i \in 1..Len(events) - 1 : events'[i] = events[i + 1]
    BY <1>1, TailFacts
<1>3. \A i \in 1..Len(events') : i + 1 \in 1..Len(events) /\ events'[i] = events[i + 1]
    BY <1>2
<1>4. \A i \in 1..Len(events) : events[i].id = u =>
        i - 1 \in 1..Len(events') /\ events'[i - 1] = events[i]
    <2> SUFFICES ASSUME NEW i \in 1..Len(events), events[i].id = u
                 PROVE  i - 1 \in 1..Len(events') /\ events'[i - 1] = events[i]
        OBVIOUS
    <2>1. i # 1
        BY <1>2
    <2>2. i - 1 \in 1..Len(events) - 1 /\ (i - 1) + 1 = i
        BY <1>2, <2>1
    <2> QED
        BY <1>2, <2>2
<1>5. QueryInv(u)'
    <2>1. QueryInv(u)
        BY DEF IInv
    <2>2. ASSUME NEW K
          PROVE  (\E i \in 1..Len(events') : events'[i].id = u /\ events'[i].kind \in K)
                    <=> \E i \in 1..Len(events) : events[i].id = u /\ events[i].kind \in K
        <3>1. ASSUME NEW i \in 1..Len(events'), events'[i].id = u /\ events'[i].kind \in K
              PROVE  \E j \in 1..Len(events) : events[j].id = u /\ events[j].kind \in K
            BY <1>3, <3>1
        <3>2. ASSUME NEW i \in 1..Len(events), events[i].id = u /\ events[i].kind \in K
              PROVE  \E j \in 1..Len(events') : events'[j].id = u /\ events'[j].kind \in K
            BY <1>4, <3>2
        <3> QED
            BY <3>1, <3>2
    <2>4. /\ (\E i \in 1..Len(events') : events'[i].id = u /\ events'[i].kind \in {"put"})
                <=> \E i \in 1..Len(events) : events[i].id = u /\ events[i].kind \in {"put"}
          /\ (\E i \in 1..Len(events') : events'[i].id = u /\ events'[i].kind \in {"get", "failed"})
                <=> \E i \in 1..Len(events) : events[i].id = u /\ events[i].kind \in {"get", "failed"}
        BY <2>2
    <2>3. ASSUME NEW i \in 1..Len(events'), events'[i].id = u
          PROVE  \/ events'[i].kind = "found" /\ pendingGet'[u] # {}
                 \/ /\ events'[i].kind # "found" /\ events'[i].value \in Other /\ query'[u] = "none"
                    /\ \A j \in 1..Len(events') : events'[j].id = u => j <= i
        <3>1. i + 1 \in 1..Len(events) /\ events[i + 1] = events'[i]
            BY <1>3
        <3>2. CASE events[i + 1].kind = "found"
            BY <2>1, <2>3, <3>1, <3>2 DEF QueryInv
        <3>3. CASE events[i + 1].kind # "found"
            <4>1. \A j \in 1..Len(events) : events[j].id = u => j <= i + 1
                BY <2>1, <2>3, <3>1, <3>3 DEF QueryInv
            <4>2. \A j \in 1..Len(events') : events'[j].id = u => j <= i
                BY <1>3, <4>1
            <4> QED
                BY <2>1, <2>3, <3>1, <3>3, <4>2 DEF QueryInv
        <3> QED
            BY <3>2, <3>3
    <2> QED
        BY <2>1, <2>3, <2>4 DEF QueryInv
<1>6. Clear(u)' <=> Clear(u)
    BY <1>3, <1>4 DEF Clear
<1>7. Reported(u)' = Reported(u)
    BY <1>3, <1>4 DEF Reported
<1> QED
    BY <1>5, <1>6, <1>7

\* A task that is not clear waits or is gone, and has no command in the channel.
LEMMA NotClear ==
    ASSUME IInv, NEW t \in Task, ~Clear(t)
    PROVE  at[t] \in {"wait", "gone"} /\ \A i \in 1..Len(queue) : queue[i].by # t
BY DEF IInv, PlaceInv

\* While a query runs, the events it has had are records found.
LEMMA Running ==
    ASSUME IInv, NEW t \in Task, query[t] # "none"
    PROVE  /\ \A i \in 1..Len(events) : events[i].id = t => events[i].kind = "found"
           /\ t \in pendingPut <=> query[t] = "put"
           /\ pendingGet[t] # {} <=> query[t] = "get"
           /\ ~Clear(t)
<1>1. QueryInv(t)
    BY DEF IInv
<1>2. \A i \in 1..Len(events) : events[i].id = t => events[i].kind = "found"
    BY <1>1 DEF QueryInv
<1> QED
    BY <1>1, <1>2 DEF QueryInv, Clear

LEMMA FindInv ==
    ASSUME IInv, NEW t \in Task, NEW v \in Small \cup Huge, FindRecord(t, v)
    PROVE  IInv'
<1> DEFINE e == [id |-> t, kind |-> "found", value |-> v]
<1>1. /\ query[t] = "get" /\ count[t] < MaxFound
      /\ events' = Append(events, e)
      /\ count' = [count EXCEPT ![t] = @ + 1]
      /\ found' = IF at[t] = "wait" /\ v \in Small
                  THEN [found EXCEPT ![t] = @ \cup {v}] ELSE found
      /\ UNCHANGED <<at, op, reply, age, wake, todo, queue, pendingPut, pendingGet, query, left>>
    BY DEF FindRecord, Emit, callers, pending
<1>2. e \in Event /\ events \in Seq(Event) /\ e.id = t /\ e.kind = "found" /\ e.value = v
    BY DEF Event, IInv, TypeOK
<1> HIDE DEF e
<1>3. /\ events' \in Seq(Event)
      /\ Len(events) \in Nat /\ Len(events') = Len(events) + 1
      /\ \A i \in 1..Len(events) : events'[i] = events[i]
      /\ events'[Len(events) + 1] = e
    BY <1>1, <1>2, AppendFacts
<1>4. TypeOK'
    <2>1. count' \in [Task -> 0..MaxFound]
        BY <1>1, NetNodeAssumption DEF IInv, TypeOK
    <2>2. found' \in [Task -> SUBSET Small]
        BY <1>1 DEF IInv, TypeOK
    <2> QED
        BY <1>1, <1>3, <2>1, <2>2 DEF IInv, TypeOK, Event
<1>5. ASSUME NEW u \in Task
      PROVE  QueryInv(u)' /\ PlaceInv(u)' /\ AnswerInv(u)' /\ AgeInv(u)'
    <2>1. CASE u # t
        <3>2. found'[u] = found[u]
            BY <1>1, <2>1 DEF IInv, TypeOK
        <3>3. Clear(u)' <=> Clear(u)
            BY <1>1, <1>2, <2>1, AppendOther
        <3>4. Reported(u)' = Reported(u) /\ QueryInv(u)'
            BY <1>1, <1>2, <2>1, AppendOther
        <3> QED
            BY <1>1, <3>2, <3>3, <3>4, OtherTask
    <2>2. CASE u = t
        <3>1. /\ \A i \in 1..Len(events) : events[i].id = t => events[i].kind = "found"
              /\ t \notin pendingPut /\ pendingGet[t] # {} /\ ~Clear(t)
            BY <1>1, Running
        <3>2. \A i \in 1..Len(events') : events'[i].id = t => events'[i].kind = "found"
            BY <1>2, <1>3, <3>1
        <3>3. QueryInv(u)'
            BY <1>1, <2>2, <3>1, <3>2 DEF QueryInv
        <3>4. at[t] \in {"wait", "gone"} /\ \A i \in 1..Len(queue) : queue[i].by # t
            BY <3>1, NotClear
        <3>5. ~Clear(t)'
            BY <1>1 DEF Clear
        <3>6. PlaceInv(u)'
            BY <1>1, <2>2, <3>1, <3>4 DEF PlaceInv
        <3>7. Reported(t)' = Reported(t) \cup ({v} \cap Small)
            <4>1. \A i \in 1..Len(events') : i \in 1..Len(events) \/ i = Len(events) + 1
                BY <1>3
            <4>2. Len(events) + 1 \in 1..Len(events') /\ \A i \in 1..Len(events) : i \in 1..Len(events')
                BY <1>3
            <4> QED
                BY <1>2, <1>3, <4>1, <4>2 DEF Reported
        <3>8. AnswerInv(u)'
            <4>1. AnswerInv(t)
                BY DEF IInv
            <4>2. at[t] = "wait" => found'[t] = found[t] \cup ({v} \cap Small)
                BY <1>1 DEF IInv, TypeOK
            <4> QED
                BY <1>1, <2>2, <3>1, <3>4, <3>7, <4>1, <4>2 DEF AnswerInv
        <3>9. AgeInv(u)'
            <4>1. AgeInv(t)
                BY DEF IInv
            <4> QED
                BY <1>1, <2>2, <3>4, <3>5, <4>1 DEF AgeInv
        <3> QED
            BY <3>3, <3>6, <3>8, <3>9
    <2> QED
        BY <2>1, <2>2
<1> QED
    BY <1>4, <1>5 DEF IInv

LEMMA EndInv ==
    ASSUME IInv, NEW t \in Task, NEW r \in Other, EndQuery(t, r)
    PROVE  IInv'
<1> DEFINE k == IF query[t] = "get" /\ r = "err" THEN "failed" ELSE query[t]
           e == [id |-> t, kind |-> k, value |-> r]
<1>1. /\ query[t] # "none"
      /\ events' = Append(events, e)
      /\ query' = [query EXCEPT ![t] = "none"]
      /\ left' = [left EXCEPT ![t] = 0]
      /\ count' = [count EXCEPT ![t] = 0]
      /\ UNCHANGED <<at, op, reply, age, wake, todo, queue, pendingPut, pendingGet, found>>
    BY DEF EndQuery, Emit, callers, pending
<1>2. /\ query[t] \in {"get", "put"}
      /\ query[t] = "put" => k = "put"
      /\ query[t] = "get" => k \in {"get", "failed"}
    BY <1>1 DEF IInv, TypeOK
<1> HIDE DEF k
<1>3. e \in Event /\ events \in Seq(Event) /\ e.id = t /\ e.kind = k /\ e.value = r
    BY <1>2 DEF Event, IInv, TypeOK
<1> HIDE DEF e
<1>4. /\ events' \in Seq(Event)
      /\ Len(events) \in Nat /\ Len(events') = Len(events) + 1
      /\ \A i \in 1..Len(events) : events'[i] = events[i]
      /\ events'[Len(events) + 1] = e
    BY <1>1, <1>3, AppendFacts
<1>5. TypeOK'
    <2>1. 0 \in 0..MaxFound /\ 0 \in 0..QueryTimeout
        BY NetNodeAssumption
    <2>2. count' \in [Task -> 0..MaxFound] /\ left' \in [Task -> 0..QueryTimeout]
        BY <1>1, <2>1 DEF IInv, TypeOK
    <2>3. query' \in [Task -> {"none", "get", "put"}]
        BY <1>1 DEF IInv, TypeOK
    <2> QED
        BY <1>1, <1>4, <2>2, <2>3 DEF IInv, TypeOK, Event
<1>6. ASSUME NEW u \in Task
      PROVE  QueryInv(u)' /\ PlaceInv(u)' /\ AnswerInv(u)' /\ AgeInv(u)'
    <2>1. CASE u # t
        <3>1. query'[u] = query[u] /\ left'[u] = left[u]
            BY <1>1, <2>1 DEF IInv, TypeOK
        <3>2. Clear(u)' <=> Clear(u)
            BY <1>1, <1>3, <2>1, <3>1, AppendOther
        <3>3. Reported(u)' = Reported(u) /\ QueryInv(u)'
            BY <1>1, <1>3, <2>1, <3>1, AppendOther
        <3> QED
            BY <1>1, <3>1, <3>2, <3>3, OtherTask
    <2>2. CASE u = t
        <3>1. /\ \A i \in 1..Len(events) : events[i].id = t => events[i].kind = "found"
              /\ t \in pendingPut <=> query[t] = "put"
              /\ pendingGet[t] # {} <=> query[t] = "get"
              /\ ~Clear(t)
            BY <1>1, Running
        <3>2. query'[t] = "none" /\ left'[t] = 0
            BY <1>1 DEF IInv, TypeOK
        <3>3. /\ \A i \in 1..Len(events') : i <= Len(events) + 1
              /\ Len(events) + 1 \in 1..Len(events')
              /\ \A i \in 1..Len(events') : events'[i].id = t =>
                    events'[i].kind = "found" \/ i = Len(events) + 1
            BY <1>4, <3>1
        <3>4. \A i \in 1..Len(events') : events'[i].id = t /\ i # Len(events) + 1 =>
                    query[t] = "get"
            <4>1. QueryInv(t)
                BY DEF IInv
            <4> QED
                BY <1>4, <3>1, <4>1 DEF QueryInv
        <3>5. QueryInv(u)'
            BY <1>1, <1>2, <1>3, <1>4, <2>2, <3>1, <3>2, <3>3, <3>4 DEF QueryInv
        <3>6. at[t] \in {"wait", "gone"} /\ \A i \in 1..Len(queue) : queue[i].by # t
            BY <3>1, NotClear
        <3>7. ~Clear(t)'
            BY <1>3, <1>4, <3>3 DEF Clear
        <3>8. PlaceInv(u)'
            <4>1. t \in pendingPut \/ pendingGet[t] # {}
                BY <1>2, <3>1
            <4> QED
                BY <1>1, <2>2, <3>6, <4>1 DEF PlaceInv
        <3>9. Reported(t)' = Reported(t)
            <4>1. \A i \in 1..Len(events') : events'[i].kind = "found" => i \in 1..Len(events)
                BY <1>2, <1>3, <1>4
            <4>2. \A i \in 1..Len(events) : i \in 1..Len(events')
                BY <1>4
            <4> QED
                BY <1>4, <4>1, <4>2 DEF Reported
        <3>10. AnswerInv(u)'
            <4>1. AnswerInv(t)
                BY DEF IInv
            <4> QED
                BY <1>1, <2>2, <3>9, <4>1 DEF AnswerInv
        <3>11. AgeInv(u)'
            <4>1. AgeInv(t) /\ age[t] \in Nat /\ left[t] \in Nat
                BY DEF IInv, TypeOK
            <4> QED
                BY <1>1, <2>2, <3>2, <3>6, <3>7, <4>1, NetNodeAssumption DEF AgeInv
        <3> QED
            BY <3>5, <3>8, <3>10, <3>11
    <2> QED
        BY <2>1, <2>2
<1> QED
    BY <1>5, <1>6 DEF IInv

-----------------------------------------------------------------------------
(* The event loop: results of queries *)

LEMMA HeadFacts ==
    ASSUME IInv, events # <<>>, events' = Tail(events)
    PROVE  /\ Head(events) = events[1] /\ Head(events) \in Event
           /\ Len(events) \in Nat /\ 1 \in 1..Len(events)
           /\ events' \in Seq(Event)
           /\ \A i \in 1..Len(events') : i + 1 \in 1..Len(events) /\ events'[i] = events[i + 1]
           /\ \A i \in 1..Len(events) : i # 1 =>
                i - 1 \in 1..Len(events') /\ events'[i - 1] = events[i]
<1>1. events \in Seq(Event)
    BY DEF IInv, TypeOK, Event
<1>2. /\ Len(events) \in Nat /\ Len(events) >= 1
      /\ Head(events) = events[1] /\ Head(events) \in Event
      /\ events' \in Seq(Event) /\ Len(events') = Len(events) - 1
      /\ \A i \in 1..Len(events) - 1 : events'[i] = events[i + 1]
    BY <1>1, TailFacts
<1>3. \A i \in 1..Len(events) : i # 1 =>
        i - 1 \in 1..Len(events') /\ events'[i - 1] = events[i]
    <2> SUFFICES ASSUME NEW i \in 1..Len(events), i # 1
                 PROVE  i - 1 \in 1..Len(events') /\ events'[i - 1] = events[i]
        OBVIOUS
    <2>1. i - 1 \in 1..Len(events) - 1 /\ (i - 1) + 1 = i
        BY <1>2
    <2> QED
        BY <1>2, <2>1
<1> QED
    BY <1>2, <1>3

\* The last event of a query comes to the loop: nothing but the entry is left of it,
\* and the entry holds all that the query has found.
LEMMA LastFacts ==
    ASSUME IInv, events # <<>>, events' = Tail(events),
           Head(events).kind # "found", NEW t, t = Head(events).id
    PROVE  /\ t \in Task /\ Head(events).value \in Other /\ query[t] = "none"
           /\ \A i \in 1..Len(events') : events'[i].id # t
           /\ Head(events).kind = "put" => t \in pendingPut /\ pendingGet[t] = {}
           /\ Head(events).kind # "put" => t \notin pendingPut /\ pendingGet[t] # {}
           /\ at[t] \in {"wait", "gone"}
           /\ \A i \in 1..Len(queue) : queue[i].by # t
           /\ at[t] = "wait" => \A acc \in pendingGet[t] : found[t] = acc
<1> DEFINE e == Head(events)
<1>1. /\ e = events[1] /\ e \in Event /\ 1 \in 1..Len(events)
      /\ \A i \in 1..Len(events') : i + 1 \in 1..Len(events) /\ events'[i] = events[i + 1]
    BY HeadFacts
<1>2. t \in Task /\ e.kind \in {"put", "get", "failed"}
    BY <1>1 DEF Event
<1>3. QueryInv(t) /\ AnswerInv(t)
    BY <1>2 DEF IInv
<1>4. /\ e.value \in Other /\ query[t] = "none"
      /\ \A j \in 1..Len(events) : events[j].id = t => j <= 1
    BY <1>1, <1>3 DEF QueryInv
<1>5. \A j \in 1..Len(events) : events[j].id = t => j = 1
    BY <1>4, HeadFacts
<1>6. \A i \in 1..Len(events') : events'[i].id # t
    BY <1>1, <1>5, HeadFacts
<1>7. /\ e.kind = "put" => t \in pendingPut /\ pendingGet[t] = {}
      /\ e.kind # "put" => t \notin pendingPut /\ pendingGet[t] # {}
    BY <1>1, <1>2, <1>3, <1>4, <1>5 DEF QueryInv
<1>8. ~Clear(t)
    BY <1>1 DEF Clear
<1>9. Reported(t) = {}
    BY <1>1, <1>5 DEF Reported
<1>10. at[t] = "wait" => \A acc \in pendingGet[t] : found[t] = acc
    <2>1. at[t] = "wait" => \A acc \in pendingGet[t] : found[t] = acc \cup {}
        BY <1>3, <1>9 DEF AnswerInv
    <2>2. \A acc : acc \cup {} = acc
        OBVIOUS
    <2> QED
        BY <2>1, <2>2
<1>11. at[t] \in {"wait", "gone"} /\ \A i \in 1..Len(queue) : queue[i].by # t
    BY <1>2, <1>8, NotClear
<1> QED
    BY <1>2, <1>4, <1>6, <1>7, <1>10, <1>11

\* It is answered, and its entry removed.
LEMMA LastInv ==
    ASSUME IInv, events # <<>>, events' = Tail(events), NEW t, t = Head(events).id,
           Head(events).kind # "found",
           NEW r \in SUBSET (Small \cup Other), Respond(t, r),
           pendingPut' = pendingPut \ {t},
           pendingGet' = [pendingGet EXCEPT ![t] = {}],
           UNCHANGED <<op, age, wake, todo, queue, query, left, found, count>>
    PROVE  IInv'
<1>1. /\ t \in Task /\ query[t] = "none"
      /\ \A i \in 1..Len(events') : events'[i].id # t
      /\ at[t] \in {"wait", "gone"}
      /\ \A i \in 1..Len(queue) : queue[i].by # t
    BY LastFacts
<1>2. /\ at' \in [Task -> {"idle", "call", "wait", "answered", "pause", "gone"}]
      /\ reply' \in [Task -> SUBSET (Small \cup Other)]
      /\ \A u \in Task : u # t => at'[u] = at[u] /\ reply'[u] = reply[u]
      /\ at'[t] = IF at[t] = "wait" THEN "answered" ELSE "gone"
    <2>1. CASE at[t] = "wait"
        <3>1. /\ at' = [at EXCEPT ![t] = "answered"]
              /\ reply' = [reply EXCEPT ![t] = r]
            BY <2>1 DEF Respond
        <3> QED
            BY <1>1, <2>1, <3>1 DEF IInv, TypeOK
    <2>2. CASE at[t] # "wait"
        BY <1>1, <2>2 DEF Respond, IInv, TypeOK
    <2> QED
        BY <2>1, <2>2
<1>3. TypeOK'
    <2>1. events' \in Seq(Event)
        BY HeadFacts
    <2>2. pendingGet' \in [Task -> {{}} \cup {{acc} : acc \in SUBSET Small}] /\ pendingPut' \subseteq Task
        BY DEF IInv, TypeOK
    <2> QED
        BY <1>2, <2>1, <2>2 DEF IInv, TypeOK, Event
<1>4. ASSUME NEW u \in Task
      PROVE  QueryInv(u)' /\ PlaceInv(u)' /\ AnswerInv(u)' /\ AgeInv(u)'
    <2>1. CASE u # t
        <3>1. /\ u \in pendingPut' <=> u \in pendingPut
              /\ pendingGet'[u] = pendingGet[u]
            BY <2>1 DEF IInv, TypeOK
        <3>2. Clear(u)' <=> Clear(u)
            BY <2>1, <3>1, TailOther
        <3>3. Reported(u)' = Reported(u) /\ QueryInv(u)'
            BY <2>1, <3>1, TailOther
        <3> QED
            BY <1>2, <2>1, <3>1, <3>2, <3>3, OtherTask
    <2>2. CASE u = t
        <3>1. t \notin pendingPut' /\ pendingGet'[t] = {} /\ query'[t] = "none"
            BY <1>1 DEF IInv, TypeOK
        <3>2. Clear(t)' /\ QueryInv(t)'
            BY <1>1, <3>1 DEF Clear, QueryInv
        <3>3. PlaceInv(t)'
            BY <1>1, <1>2, <3>2 DEF PlaceInv
        <3>4. AnswerInv(t)'
            BY <1>1, <1>2, <3>1 DEF AnswerInv
        <3>5. AgeInv(t)'
            <4>1. AgeInv(t)
                BY <1>1 DEF IInv
            <4> QED
                BY <1>1, <1>2, <4>1 DEF AgeInv
        <3> QED
            BY <2>2, <3>2, <3>3, <3>4, <3>5
    <2> QED
        BY <2>1, <2>2
<1> QED
    BY <1>3, <1>4 DEF IInv

\* A record is put with the others, unless it is oversized.
LEMMA FoundInv ==
    ASSUME IInv, events # <<>>, events' = Tail(events), NEW e, e = Head(events),
           e.kind = "found", FoundRecord(e),
           UNCHANGED <<op, age, wake, todo, queue, query, left, found, count>>
    PROVE  IInv'
<1> DEFINE t == e.id
           v == e.value
<1>1. /\ e = events[1] /\ e \in Event /\ 1 \in 1..Len(events) /\ events' \in Seq(Event)
      /\ \A i \in 1..Len(events') : i + 1 \in 1..Len(events) /\ events'[i] = events[i + 1]
      /\ \A i \in 1..Len(events) : i # 1 =>
            i - 1 \in 1..Len(events') /\ events'[i - 1] = events[i]
    BY HeadFacts
<1>2. t \in Task
    BY <1>1 DEF Event
<1>3. QueryInv(t) /\ PlaceInv(t) /\ AnswerInv(t) /\ AgeInv(t)
    BY <1>2 DEF IInv
<1>4. UNCHANGED <<at, reply, pendingPut>>
    BY DEF FoundRecord
<1>5. PICK acc \in SUBSET Small : pendingGet[t] = {acc}
    <2>1. pendingGet[t] # {}
        BY <1>1, <1>3 DEF QueryInv
    <2>2. pendingGet[t] \in {{}} \cup {{a} : a \in SUBSET Small}
        BY <1>2 DEF IInv, TypeOK
    <2> QED
        BY <2>1, <2>2
<1>6. pendingGet' = [pendingGet EXCEPT ![t] = {acc \cup ({v} \cap Small)}]
    <2>1. CASE v \in Small
        <3>1. pendingGet' = [pendingGet EXCEPT ![t] = {a \cup {v} : a \in pendingGet[t]}]
            BY <2>1 DEF FoundRecord
        <3>2. {a \cup {v} : a \in pendingGet[t]} = {acc \cup ({v} \cap Small)}
            BY <1>5, <2>1
        <3> QED
            BY <3>1, <3>2
    <2>2. CASE v \notin Small
        <3>1. acc \cup ({v} \cap Small) = acc
            BY <2>2
        <3>2. pendingGet' = pendingGet
            BY <2>2 DEF FoundRecord
        <3> QED
            BY <1>2, <1>5, <3>1, <3>2 DEF IInv, TypeOK
    <2> QED
        BY <2>1, <2>2
<1>7. TypeOK'
    <2>1. acc \cup ({v} \cap Small) \in SUBSET Small
        OBVIOUS
    <2>2. {acc \cup ({v} \cap Small)} \in {{}} \cup {{a} : a \in SUBSET Small}
        BY <2>1
    <2>3. pendingGet' \in [Task -> {{}} \cup {{a} : a \in SUBSET Small}]
        BY <1>2, <1>6, <2>2 DEF IInv, TypeOK
    <2> QED
        BY <1>1, <1>4, <2>3 DEF IInv, TypeOK, Event
<1>8. ASSUME NEW u \in Task
      PROVE  QueryInv(u)' /\ PlaceInv(u)' /\ AnswerInv(u)' /\ AgeInv(u)'
    <2>1. CASE u # t
        <3>1. pendingGet'[u] = pendingGet[u]
            BY <1>6, <2>1 DEF IInv, TypeOK
        <3>2. Clear(u)' <=> Clear(u)
            BY <1>4, <2>1, <3>1, TailOther
        <3>3. Reported(u)' = Reported(u) /\ QueryInv(u)'
            BY <1>4, <2>1, <3>1, TailOther
        <3> QED
            BY <1>4, <2>1, <3>1, <3>2, <3>3, OtherTask
    <2>2. CASE u = t
        <3>1. pendingGet'[t] = {acc \cup ({v} \cap Small)}
            BY <1>2, <1>6 DEF IInv, TypeOK
        <3>2. pendingGet[t] # {} /\ pendingGet'[t] # {} /\ ~Clear(t) /\ ~Clear(t)'
            BY <1>5, <3>1 DEF Clear
        <3>3. QueryInv(t)'
            <4>1. ASSUME NEW K, "found" \notin K
                  PROVE  (\E i \in 1..Len(events') : events'[i].id = t /\ events'[i].kind \in K)
                            <=> \E i \in 1..Len(events) : events[i].id = t /\ events[i].kind \in K
                <5>1. ASSUME NEW i \in 1..Len(events'), events'[i].id = t /\ events'[i].kind \in K
                      PROVE  \E j \in 1..Len(events) : events[j].id = t /\ events[j].kind \in K
                    BY <1>1, <5>1
                <5>2. ASSUME NEW i \in 1..Len(events), events[i].id = t /\ events[i].kind \in K
                      PROVE  \E j \in 1..Len(events') : events'[j].id = t /\ events'[j].kind \in K
                    BY <1>1, <4>1, <5>2
                <5> QED
                    BY <5>1, <5>2
            <4>2. "found" \notin {"put"} /\ "found" \notin {"get", "failed"}
                OBVIOUS
            <4>3. /\ (\E i \in 1..Len(events') : events'[i].id = t /\ events'[i].kind \in {"put"})
                        <=> \E i \in 1..Len(events) : events[i].id = t /\ events[i].kind \in {"put"}
                  /\ (\E i \in 1..Len(events') : events'[i].id = t /\ events'[i].kind \in {"get", "failed"})
                        <=> \E i \in 1..Len(events) : events[i].id = t /\ events[i].kind \in {"get", "failed"}
                BY <4>1, <4>2
            <4>4. ASSUME NEW i \in 1..Len(events'), events'[i].id = t
                  PROVE  \/ events'[i].kind = "found"
                         \/ /\ events'[i].kind # "found" /\ events'[i].value \in Other /\ query[t] = "none"
                            /\ \A j \in 1..Len(events') : events'[j].id = t => j <= i
                <5>1. i + 1 \in 1..Len(events) /\ events[i + 1] = events'[i]
                    BY <1>1
                <5>2. CASE events'[i].kind # "found"
                    <6>1. /\ events'[i].value \in Other /\ query[t] = "none"
                          /\ \A j \in 1..Len(events) : events[j].id = t => j <= i + 1
                        BY <1>3, <4>4, <5>1, <5>2 DEF QueryInv
                    <6>2. \A j \in 1..Len(events') : events'[j].id = t => j <= i
                        BY <1>1, <6>1
                    <6> QED
                        BY <5>2, <6>1, <6>2
                <5> QED
                    BY <5>2
            <4> QED
                BY <1>3, <1>4, <3>2, <4>3, <4>4 DEF QueryInv
        <3>4. at[t] \in {"wait", "gone"} /\ \A i \in 1..Len(queue) : queue[i].by # t
            BY <1>2, <3>2, NotClear
        <3>5. PlaceInv(t)'
            BY <1>4, <3>2, <3>4 DEF PlaceInv
        <3>6. Reported(t) = Reported(t)' \cup ({v} \cap Small)
            <4>1. ASSUME NEW w \in Reported(t)
                  PROVE  w \in Reported(t)' \cup ({v} \cap Small)
                <5>1. PICK i \in 1..Len(events) :
                        events[i].id = t /\ events[i].kind = "found" /\ events[i].value = w
                    BY <4>1 DEF Reported
                <5>2. w \in Small
                    BY <4>1 DEF Reported
                <5>3. CASE i = 1
                    BY <1>1, <5>1, <5>2, <5>3
                <5>4. CASE i # 1
                    BY <1>1, <5>1, <5>2, <5>4 DEF Reported
                <5> QED
                    BY <5>3, <5>4
            <4>2. ASSUME NEW w \in Reported(t)' PROVE w \in Reported(t)
                BY <1>1, <4>2 DEF Reported
            <4>3. {v} \cap Small \subseteq Reported(t)
                BY <1>1 DEF Reported
            <4> QED
                BY <4>1, <4>2, <4>3
        <3>7. AnswerInv(t)'
            <4>1. at[t] = "wait" => found[t] = (acc \cup ({v} \cap Small)) \cup Reported(t)'
                BY <1>3, <1>5, <3>6 DEF AnswerInv
            <4> QED
                BY <1>3, <1>4, <3>1, <3>2, <3>4, <4>1 DEF AnswerInv
        <3>8. AgeInv(t)'
            BY <1>3, <1>4, <3>2, <3>4 DEF AgeInv
        <3> QED
            BY <2>2, <3>3, <3>5, <3>7, <3>8
    <2> QED
        BY <2>1, <2>2
<1> QED
    BY <1>7, <1>8 DEF IInv

LEMMA ResultInv == IInv /\ handle_kad_result => IInv'
<1> SUFFICES ASSUME IInv, handle_kad_result PROVE IInv'
    OBVIOUS
<1> DEFINE e == Head(events)
           t == e.id
<1>1. /\ events # <<>> /\ events' = Tail(events)
      /\ UNCHANGED <<op, age, wake, todo, queue, query, left, found, count>>
    BY DEF handle_kad_result, kad
<1>2. CASE e.kind = "put" /\ PutDone(e)
    <2>1. t \in Task /\ e.value \in Other /\ t \in pendingPut /\ pendingGet[t] = {}
        BY <1>1, <1>2, LastFacts
    <2>2. Respond(t, {e.value}) /\ pendingPut' = pendingPut \ {t} /\ pendingGet' = pendingGet
        BY <1>2, <2>1 DEF PutDone
    <2>3. pendingGet' = [pendingGet EXCEPT ![t] = {}]
        BY <2>1, <2>2 DEF IInv, TypeOK
    <2>4. {e.value} \in SUBSET (Small \cup Other) /\ e.kind # "found"
        BY <1>2, <2>1
    <2> QED
        BY <1>1, <2>2, <2>3, <2>4, LastInv
<1>3. CASE e.kind \in {"get", "failed"} /\ GetDone(e)
    <2>1. t \in Task /\ t \notin pendingPut /\ pendingGet[t] # {} /\ e.kind # "found"
        BY <1>1, <1>3, LastFacts
    <2>2. PICK acc \in pendingGet[t] : Respond(t, acc)
        BY <1>3, <2>1 DEF GetDone
    <2>3. acc \in SUBSET (Small \cup Other)
        <3>1. pendingGet[t] \in {{}} \cup {{a} : a \in SUBSET Small}
            BY <2>1 DEF IInv, TypeOK
        <3>2. PICK a \in SUBSET Small : pendingGet[t] = {a}
            BY <2>1, <3>1
        <3> QED
            BY <2>2, <3>2
    <2>4. pendingGet' = [pendingGet EXCEPT ![t] = {}] /\ pendingPut' = pendingPut \ {t}
        BY <1>3, <2>1 DEF GetDone
    <2> QED
        BY <1>1, <2>1, <2>2, <2>3, <2>4, LastInv
<1>4. CASE e.kind = "found" /\ FoundRecord(e)
    BY <1>1, <1>4, FoundInv
<1> QED
    BY <1>2, <1>3, <1>4 DEF handle_kad_result

-----------------------------------------------------------------------------
(* The callers *)

LEMMA RequestInv ==
    ASSUME IInv, NEW t \in Task, NEW k \in Kind, Request(t, k),
           NEW g \in {0, age[t]}, age' = [age EXCEPT ![t] = g],
           NEW n \in 0..MaxAddrs, todo' = [todo EXCEPT ![t] = n], UNCHANGED wake,
           at[t] \notin {"wait", "gone"},
           t \in Resolver => k \in {"get", "dial"},
           t \in Publisher => k \in {"doctor", "put"},
           t \notin Resolver \/ k # "get" => g = 0,
           g < ResolveTimeout + Pause
    PROVE  IInv'
<1>1. /\ wake[t] \in 0..Pause /\ wake' = [wake EXCEPT ![t] = wake[t]]
      /\ g \in Nat
    BY DEF IInv, TypeOK
<1>2. /\ UNCHANGED <<queue, pendingPut, pendingGet, query, left, events, count>>
      /\ at' = [at EXCEPT ![t] = "call"] /\ op' = [op EXCEPT ![t] = k]
      /\ reply' = [reply EXCEPT ![t] = {}] /\ found' = [found EXCEPT ![t] = {}]
    BY DEF Request, pending
<1>3. \E a \in {"call", "idle", "pause", "gone"} : a = "call"
    OBVIOUS
<1> QED
    BY <1>1, <1>2, <1>3, CallerStep

LEMMA RestInv ==
    ASSUME IInv, NEW t \in Task, NEW where \in {"idle", "pause"}, NEW w \in 0..Pause,
           Rest(t, where, w), NEW g \in {0, age[t]}, age' = [age EXCEPT ![t] = g],
           at[t] = "answered",
           where = "idle" \/ t \notin Resolver \/ op[t] # "get" => g = 0,
           t \in Resolver /\ where = "pause" => op[t] = "get" /\ g + w < ResolveTimeout + Pause
    PROVE  IInv'
<1>1. /\ todo[t] \in 0..MaxAddrs /\ todo' = [todo EXCEPT ![t] = todo[t]]
      /\ op[t] \in Kind /\ op' = [op EXCEPT ![t] = op[t]]
      /\ g \in Nat
    BY DEF IInv, TypeOK, Rest
<1>2. /\ UNCHANGED <<queue, pendingPut, pendingGet, query, left, events, count>>
      /\ at' = [at EXCEPT ![t] = where] /\ wake' = [wake EXCEPT ![t] = w]
      /\ reply' = [reply EXCEPT ![t] = {}] /\ found' = [found EXCEPT ![t] = {}]
    BY DEF Rest, pending
<1>3. AgeInv(t)
    BY DEF IInv
<1> QED
    BY <1>1, <1>2, <1>3, CallerStep DEF AgeInv

LEMMA AbortInv ==
    ASSUME IInv, NEW t \in Task, Abort(t)
    PROVE  IInv'
<1>1. /\ op[t] \in Kind /\ op' = [op EXCEPT ![t] = op[t]]
      /\ 0 \in 0..MaxAddrs /\ 0 \in 0..Pause
    BY NetNodeAssumption DEF IInv, TypeOK, Abort
<1>2. /\ UNCHANGED <<queue, pendingPut, pendingGet, query, left, events, count>>
      /\ at' = [at EXCEPT ![t] = "gone"] /\ wake' = [wake EXCEPT ![t] = 0]
      /\ reply' = [reply EXCEPT ![t] = {}] /\ found' = [found EXCEPT ![t] = {}]
      /\ age' = [age EXCEPT ![t] = 0] /\ todo' = [todo EXCEPT ![t] = 0]
    BY DEF Abort, pending
<1>3. AgeInv(t)
    BY DEF IInv
<1> QED
    BY <1>1, <1>2, <1>3, CallerStep DEF AgeInv

\* What a task's age, role and request have to do with each other.
LEMMA CallerFacts ==
    ASSUME IInv, NEW t \in Task
    PROVE  /\ age[t] \in Nat /\ (age' = age => age' = [age EXCEPT ![t] = age[t]])
           /\ todo[t] \in 0..MaxAddrs /\ (todo' = todo => todo' = [todo EXCEPT ![t] = todo[t]])
           /\ op[t] \in {"get", "dial"} => t \in Resolver /\ t \notin Publisher
           /\ op[t] \in {"doctor", "put"} => t \notin Resolver /\ age[t] = 0
           /\ op[t] = "dial" => age[t] = 0
           /\ t \in Publisher => t \notin Resolver /\ age[t] = 0
           /\ t \notin Publisher => t \in Resolver
           /\ t \in Resolver /\ at[t] = "pause" => age[t] + wake[t] < ResolveTimeout + Pause
           /\ 0 < ResolveTimeout + Pause /\ 0 \in 0..Pause /\ Pause \in 0..Pause
           /\ 0 \in 0..MaxAddrs
<1>1. AgeInv(t)
    BY DEF IInv
<1>2. /\ age[t] \in Nat /\ (age' = age => age' = [age EXCEPT ![t] = age[t]])
      /\ todo[t] \in 0..MaxAddrs /\ (todo' = todo => todo' = [todo EXCEPT ![t] = todo[t]])
    BY DEF IInv, TypeOK
<1>3. t \in Resolver \/ t \in Publisher
    BY DEF Task
<1>4. ~(t \in Resolver /\ t \in Publisher)
    BY NetNodeAssumption
<1>5. 0 < ResolveTimeout + Pause /\ 0 \in 0..Pause /\ Pause \in 0..Pause /\ 0 \in 0..MaxAddrs
    BY NetNodeAssumption
<1> QED
    BY <1>1, <1>2, <1>3, <1>4, <1>5 DEF AgeInv

LEMMA StartCallInv ==
    ASSUME IInv, NEW t \in Task, Resolve(t) \/ Round(t)
    PROVE  IInv'
<1>1. CASE Resolve(t)
    <2>1. /\ t \in Resolver /\ t \notin Publisher /\ at[t] = "idle" /\ Request(t, "get")
          /\ age' = [age EXCEPT ![t] = 0] /\ wake' = wake /\ todo' = todo
        BY <1>1, NetNodeAssumption DEF Resolve
    <2> QED
        BY <2>1, CallerFacts, RequestInv DEF Kind
<1>2. CASE Round(t)
    <2>1. /\ t \in Publisher /\ at[t] = "idle" /\ Request(t, "doctor")
          /\ age' = age /\ wake' = wake /\ todo' = todo
        BY <1>2 DEF Round
    <2>2. t \notin Resolver /\ age[t] = 0 /\ age' = [age EXCEPT ![t] = 0]
        BY <2>1, CallerFacts
    <2> QED
        BY <2>1, <2>2, CallerFacts, RequestInv DEF Kind
<1> QED
    BY <1>1, <1>2

LEMMA ProceedInv ==
    ASSUME IInv, NEW t \in Task, Proceed(t)
    PROVE  IInv'
<1>1. ASSUME NEW n \in 0..MaxAddrs, Establish(t, n) PROVE IInv'
    <2>1. op[t] = "get" /\ at[t] = "answered" /\ age' = [age EXCEPT ![t] = 0]
        BY <1>1 DEF Establish, Answered
    <2>2. CASE n > 0 /\ Request(t, "dial") /\ todo' = [todo EXCEPT ![t] = n - 1] /\ UNCHANGED wake
        <3>1. n - 1 \in 0..MaxAddrs
            BY <2>2, NetNodeAssumption
        <3> QED
            BY <2>1, <2>2, <3>1, CallerFacts, RequestInv DEF Kind
    <2>3. CASE n = 0 /\ Rest(t, "idle", 0)
        BY <2>1, <2>3, CallerFacts, RestInv
    <2> QED
        BY <1>1, <2>2, <2>3 DEF Establish
<1>2. CASE Dialled(t)
    <2>1. op[t] = "dial" /\ at[t] = "answered" /\ age[t] = 0 /\ age' = [age EXCEPT ![t] = 0]
        BY <1>2, CallerFacts DEF Dialled, Answered
    <2>2. CASE todo[t] > 0 /\ Request(t, "dial") /\ todo' = [todo EXCEPT ![t] = @ - 1] /\ UNCHANGED wake
        <3>1. todo' = [todo EXCEPT ![t] = todo[t] - 1]
            BY <2>2
        <3>2. todo[t] \in 0..MaxAddrs
            BY CallerFacts
        <3>3. todo[t] - 1 \in 0..MaxAddrs
            BY <2>2, <3>2, NetNodeAssumption
        <3> QED
            BY <2>1, <2>2, <3>1, <3>3, CallerFacts, RequestInv DEF Kind
    <2>3. CASE todo[t] = 0 /\ Rest(t, "idle", 0)
        BY <2>1, <2>3, CallerFacts, RestInv
    <2> QED
        BY <1>2, <2>2, <2>3 DEF Dialled
<1>3. CASE ResolveFails(t)
    <2>1. /\ at[t] = "answered" /\ age' = [age EXCEPT ![t] = 0] /\ Rest(t, "idle", 0)
        BY <1>3 DEF ResolveFails, Answered
    <2> QED
        BY <2>1, CallerFacts, RestInv
<1>4. CASE Retry(t)
    <2>1. /\ op[t] = "get" /\ at[t] = "answered" /\ age' = age
          /\ Rest(t, "pause", Pause) /\ age[t] < ResolveTimeout
        BY <1>4 DEF Retry, Answered
    <2>2. t \in Resolver /\ age' = [age EXCEPT ![t] = age[t]]
        BY <2>1, CallerFacts
    <2>3. age[t] + Pause < ResolveTimeout + Pause
        BY <2>1, CallerFacts, NetNodeAssumption
    <2> QED
        BY <2>1, <2>2, <2>3, CallerFacts, RestInv
<1>5. CASE Gathered(t)
    <2>1. op[t] = "doctor" /\ at[t] = "answered" /\ age' = age
        BY <1>5 DEF Gathered, Answered
    <2>2. t \notin Resolver /\ age[t] = 0 /\ age' = [age EXCEPT ![t] = 0]
        BY <2>1, CallerFacts
    <2>3. CASE Request(t, "put") /\ UNCHANGED <<wake, todo>>
        BY <2>1, <2>2, <2>3, CallerFacts, RequestInv DEF Kind
    <2>4. CASE Rest(t, "pause", Pause)
        BY <2>1, <2>2, <2>4, CallerFacts, RestInv
    <2> QED
        BY <1>5, <2>3, <2>4 DEF Gathered
<1>6. CASE Published(t)
    <2>1. op[t] = "put" /\ at[t] = "answered" /\ age' = age /\ Rest(t, "pause", Pause)
        BY <1>6 DEF Published, Answered
    <2>2. t \notin Resolver /\ age[t] = 0 /\ age' = [age EXCEPT ![t] = 0]
        BY <2>1, CallerFacts
    <2> QED
        BY <2>1, <2>2, CallerFacts, RestInv
<1>7. CASE Wake(t)
    <2>1. at[t] = "pause" /\ wake[t] = 0 /\ age' = age /\ wake' = wake /\ todo' = todo
        BY <1>7 DEF Wake
    <2>2. age' = [age EXCEPT ![t] = age[t]]
        BY <2>1, CallerFacts
    <2>3. CASE t \in Resolver
        <3>1. Request(t, "get")
            BY <1>7, <2>3 DEF Wake
        <3>2. age[t] < ResolveTimeout + Pause
            BY <2>1, <2>3, CallerFacts
        <3>3. t \notin Publisher
            BY <2>3, NetNodeAssumption
        <3> QED
            BY <2>1, <2>2, <2>3, <3>1, <3>2, <3>3, CallerFacts, RequestInv DEF Kind
    <2>4. CASE t \notin Resolver
        <3>1. Request(t, "doctor") /\ age[t] = 0
            BY <1>7, <2>4, CallerFacts DEF Wake
        <3> QED
            BY <2>1, <2>2, <2>4, <3>1, CallerFacts, RequestInv DEF Kind
    <2> QED
        BY <2>3, <2>4
<1> QED
    BY <1>1, <1>2, <1>3, <1>4, <1>5, <1>6, <1>7 DEF Proceed

-----------------------------------------------------------------------------
(* Time *)

\* Time passes only when every request that is open waits for a query.
LEMMA TickInv == IInv /\ Tick => IInv'
<1> SUFFICES ASSUME IInv, Tick PROVE IInv'
    OBVIOUS
<1>1. /\ queue = <<>> /\ events = <<>>
      /\ \A t \in Task :
            /\ at[t] \notin {"call", "answered"}
            /\ query[t] # "none" => left[t] > 0
            /\ at[t] = "pause" => wake[t] > 0
      /\ age' = [t \in Task |-> IF Resolving(t) THEN age[t] + 1 ELSE age[t]]
      /\ wake' = [t \in Task |-> IF at[t] = "pause" THEN wake[t] - 1 ELSE wake[t]]
      /\ left' = [t \in Task |-> IF query[t] # "none" THEN left[t] - 1 ELSE left[t]]
      /\ UNCHANGED <<at, op, reply, todo, queue, pendingPut, pendingGet, query, events, found, count>>
    BY DEF Tick, Quiet, pending
<1>2. ASSUME NEW u \in Task
      PROVE  age[u] \in Nat /\ wake[u] \in 0..Pause /\ left[u] \in 0..QueryTimeout
    BY DEF IInv, TypeOK
<1>3. TypeOK'
    <2>1. age' \in [Task -> Nat]
        BY <1>1, <1>2
    <2>2. wake' \in [Task -> 0..Pause]
        BY <1>1, <1>2, NetNodeAssumption
    <2>3. left' \in [Task -> 0..QueryTimeout]
        BY <1>1, <1>2, NetNodeAssumption
    <2> QED
        BY <1>1, <2>1, <2>2, <2>3 DEF IInv, TypeOK
<1>4. ASSUME NEW u \in Task
      PROVE  QueryInv(u)' /\ PlaceInv(u)' /\ AnswerInv(u)' /\ AgeInv(u)'
    <2>1. Clear(u)' <=> Clear(u)
        BY <1>1, SameNet
    <2>2. Reported(u)' = Reported(u) /\ QueryInv(u)'
        BY <1>1, SameNet DEF IInv
    <2>3. QueryInv(u) /\ PlaceInv(u) /\ AnswerInv(u) /\ AgeInv(u)
        BY DEF IInv
    <2>4. PlaceInv(u)'
        BY <1>1, <2>1, <2>3 DEF PlaceInv
    <2>5. AnswerInv(u)'
        BY <1>1, <2>2, <2>3 DEF AnswerInv
    <2>6. at[u] = "wait" => query[u] # "none"
        <3>1. Len(queue) = 0 /\ Len(events) = 0
            BY <1>1
        <3> QED
            BY <2>3, <3>1 DEF PlaceInv, QueryInv
    <2>7. at[u] = "wait" => ~Clear(u)
        BY <2>6 DEF Clear
    <2>8. /\ age'[u] = IF Resolving(u) THEN age[u] + 1 ELSE age[u]
          /\ wake'[u] = IF at[u] = "pause" THEN wake[u] - 1 ELSE wake[u]
          /\ left'[u] = IF query[u] # "none" THEN left[u] - 1 ELSE left[u]
        BY <1>1
    <2>9. AgeInv(u)'
        <3>1. CASE ~Resolving(u)
            <4>1. age'[u] = age[u] /\ age[u] = 0
                BY <2>3, <2>8, <3>1 DEF AgeInv, Resolving
            <4>2. age'[u] + left'[u] < ResolveTimeout + Pause + QueryTimeout
                BY <1>2, <1>3, <4>1, NetNodeAssumption DEF TypeOK
            <4>3. ~(u \in Resolver /\ at[u] = "pause")
                BY <2>3, <3>1 DEF AgeInv, Resolving
            <4> QED
                BY <1>1, <2>1, <2>3, <4>1, <4>2, <4>3, NetNodeAssumption DEF AgeInv
        <3>2. CASE Resolving(u) /\ at[u] = "pause"
            <4>1. age'[u] = age[u] + 1 /\ wake'[u] = wake[u] - 1
                BY <2>8, <3>2
            <4>2. age'[u] + wake'[u] < ResolveTimeout + Pause
                BY <1>2, <2>3, <3>2, <4>1, NetNodeAssumption DEF AgeInv, Resolving
            <4>3. age'[u] \in Nat /\ wake'[u] \in 0..Pause /\ left'[u] \in 0..QueryTimeout
                BY <1>3 DEF TypeOK
            <4>4. age'[u] + left'[u] < ResolveTimeout + Pause + QueryTimeout
                BY <4>2, <4>3, NetNodeAssumption
            <4> QED
                BY <1>1, <2>3, <3>2, <4>2, <4>4 DEF AgeInv, Resolving
        <3>3. CASE Resolving(u) /\ at[u] = "wait"
            <4>1. age'[u] = age[u] + 1 /\ left'[u] = left[u] - 1
                BY <2>6, <2>8, <3>3
            <4>2. age'[u] + left'[u] < ResolveTimeout + Pause + QueryTimeout
                BY <1>2, <2>3, <4>1, NetNodeAssumption DEF AgeInv
            <4> QED
                BY <1>1, <2>1, <2>3, <2>7, <3>3, <4>2 DEF AgeInv, Resolving
        <3>4. Resolving(u) => at[u] \in {"pause", "wait"}
            BY <1>1 DEF Resolving, IInv, TypeOK
        <3> QED
            BY <3>1, <3>2, <3>3, <3>4
    <2> QED
        BY <2>2, <2>4, <2>5, <2>9
<1> QED
    BY <1>3, <1>4 DEF IInv

-----------------------------------------------------------------------------

LEMMA NextInv == IInv /\ [Next]_vars => IInv'
<1> SUFFICES ASSUME IInv, [Next]_vars PROVE IInv'
    OBVIOUS
<1>1. CASE UNCHANGED vars
    <2>1. TypeOK'
        BY <1>1 DEF vars, IInv, TypeOK
    <2>2. ASSUME NEW u \in Task
          PROVE  QueryInv(u)' /\ PlaceInv(u)' /\ AnswerInv(u)' /\ AgeInv(u)'
        BY <1>1 DEF vars, IInv, QueryInv, PlaceInv, AnswerInv, AgeInv, Clear, Reported
    <2> QED
        BY <2>1, <2>2 DEF IInv
<1>2. CASE Loop
    BY <1>2, CommandInv, ResultInv DEF Loop
<1>3. CASE Tick
    BY <1>3, TickInv
<1>4. ASSUME NEW t \in Task,
             \/ Resolve(t) \/ Round(t) \/ Enqueue(t) \/ Proceed(t) \/ Abort(t)
             \/ \E v \in Small \cup Huge : FindRecord(t, v)
             \/ \E r \in Other : EndQuery(t, r)
      PROVE  IInv'
    BY <1>4, StartCallInv, EnqueueInv, ProceedInv, AbortInv, FindInv, EndInv
<1> QED
    BY <1>1, <1>2, <1>3, <1>4 DEF Next

LEMMA InvHolds == Spec => []IInv
BY InitInv, NextInv, PTL DEF Spec

-----------------------------------------------------------------------------
(* Theorems *)

\* Type correctness.  (NetHandle, run and the maps of crates/net/src/node.rs)
THEOREM TypeCorrect == Spec => []TypeOK
<1>1. IInv => TypeOK
    BY DEF IInv
<1> QED
    BY <1>1, InvHolds, PTL

\* Every entry of pending_put and pending_get belongs to a query that runs or whose
\* last event the loop is about to see, however many callers there are and
\* whichever of them are aborted.
THEOREM NoEntryLeaks == Spec => []NoLeak
<1>1. IInv => NoLeak
    <2> SUFFICES ASSUME IInv PROVE NoLeak
        OBVIOUS
    <2> QED
        BY DEF IInv, QueryInv, NoLeak
<1> QED
    BY <1>1, InvHolds, PTL

\* A call of resolve lasts less than RESOLVE_TIMEOUT, a pause and a query, whatever
\* these are and whatever the other tasks ask of the loop meanwhile.
THEOREM ResolveIsBounded == Spec => []ResolveBounded
<1>1. IInv => ResolveBounded
    <2> SUFFICES ASSUME IInv, NEW t \in Resolver
                 PROVE  age[t] < ResolveTimeout + Pause + QueryTimeout
        BY DEF ResolveBounded
    <2>1. t \in Task
        BY DEF Task
    <2>2. age[t] \in Nat /\ left[t] \in Nat
        BY <2>1, NetNodeAssumption DEF IInv, TypeOK
    <2>3. age[t] + left[t] < ResolveTimeout + Pause + QueryTimeout
        BY <2>1 DEF IInv, AgeInv
    <2> QED
        BY <2>2, <2>3, NetNodeAssumption
<1> QED
    BY <1>1, InvHolds, PTL

-----------------------------------------------------------------------------
(* Every step is a step of Requests *)

Calls == [t \in Task |-> CallOf(t)]
Place == {"idle", "call", "wait", "answered", "pause", "gone"}

LEMMA CallCases ==
    ASSUME NEW t
    PROVE  /\ at[t] \in {"idle", "pause"} => CallOf(t) = "none"
           /\ at[t] \in {"call", "wait"} => CallOf(t) = "open"
           /\ at[t] = "answered" => CallOf(t) = "answered"
           /\ at[t] = "gone" => CallOf(t) = "gone"
BY DEF CallOf

LEMMA CallCasesNext ==
    ASSUME NEW t
    PROVE  /\ at'[t] \in {"idle", "pause"} => CallOf(t)' = "none"
           /\ at'[t] \in {"call", "wait"} => CallOf(t)' = "open"
           /\ at'[t] = "answered" => CallOf(t)' = "answered"
           /\ at'[t] = "gone" => CallOf(t)' = "gone"
BY DEF CallOf

\* A task goes somewhere, and the calls of the others are what they were.
LEMMA SetFacts ==
    ASSUME NEW t \in Task, NEW a, at \in [Task -> Place], at' = [at EXCEPT ![t] = a],
           NEW c, CallOf(t)' = c,
           NEW o, found' = [found EXCEPT ![t] = o],
           NEW r, reply' = [reply EXCEPT ![t] = r]
    PROVE  R!Set(t, c, o, r)
<1>1. \A u \in Task : u # t => CallOf(u)' = CallOf(u)
    BY DEF CallOf
<1>2. Calls' = [Calls EXCEPT ![t] = c]
    BY <1>1 DEF Calls
<1> QED
    BY <1>2 DEF Calls, R!Set

LEMMA AbsInit == Init => R!Init
BY CallCases DEF Init, R!Init, Kind

LEMMA RequestStep ==
    ASSUME IInv, NEW t \in Task, at[t] \in {"idle", "pause", "answered"},
           NEW k \in Kind, Request(t, k)
    PROVE  R!Next
<1>1. /\ at \in [Task -> Place] /\ at' = [at EXCEPT ![t] = "call"] /\ at'[t] = "call"
      /\ op' = [op EXCEPT ![t] = k]
      /\ found' = [found EXCEPT ![t] = {}] /\ reply' = [reply EXCEPT ![t] = {}]
    BY DEF Request, IInv, TypeOK, Place
<1>2. Calls[t] \in {"none", "answered"} /\ CallOf(t)' = "open"
    BY <1>1, CallCases, CallCasesNext DEF Calls
<1>3. R!Set(t, "open", {}, {})
    BY <1>1, <1>2, SetFacts
<1>4. R!Call(t, k)
    BY <1>1, <1>2, <1>3 DEF Calls, R!Call
<1> QED
    BY <1>4 DEF R!Next

LEMMA RestStep ==
    ASSUME IInv, NEW t \in Task, at[t] = "answered",
           NEW where \in {"idle", "pause"}, NEW w, Rest(t, where, w)
    PROVE  R!Next
<1>1. /\ at \in [Task -> Place] /\ at' = [at EXCEPT ![t] = where] /\ at'[t] = where
      /\ op' = op
      /\ found' = [found EXCEPT ![t] = {}] /\ reply' = [reply EXCEPT ![t] = {}]
    BY DEF Rest, IInv, TypeOK, Place
<1>2. Calls[t] = "answered" /\ CallOf(t)' = "none"
    BY <1>1, CallCases, CallCasesNext DEF Calls
<1>3. R!Set(t, "none", {}, {})
    BY <1>1, <1>2, SetFacts
<1>4. R!Return(t)
    BY <1>1, <1>2, <1>3 DEF Calls, R!Return
<1> QED
    BY <1>4 DEF R!Next

LEMMA AbortStep ==
    ASSUME IInv, NEW t \in Task, Abort(t)
    PROVE  R!Next
<1>1. /\ at \in [Task -> Place] /\ at' = [at EXCEPT ![t] = "gone"] /\ at'[t] = "gone"
      /\ op' = op
      /\ found' = [found EXCEPT ![t] = {}] /\ reply' = [reply EXCEPT ![t] = {}]
    BY DEF Abort, IInv, TypeOK, Place
<1>2. at[t] \in {"idle", "call", "wait", "answered", "pause"}
    BY DEF Abort, IInv, TypeOK
<1>3. Calls[t] # "gone" /\ CallOf(t)' = "gone"
    BY <1>1, <1>2, CallCases, CallCasesNext DEF Calls
<1>4. R!Set(t, "gone", {}, {})
    BY <1>1, <1>3, SetFacts
<1>5. R!Leave(t)
    BY <1>1, <1>3, <1>4 DEF Calls, R!Leave
<1> QED
    BY <1>5 DEF R!Next

\* Whoever asks sees nothing of what happens inside.
LEMMA HiddenStep ==
    ASSUME UNCHANGED <<op, found, reply>>, \A t \in Task : CallOf(t)' = CallOf(t)
    PROVE  UNCHANGED R!vars
<1>1. Calls' = Calls
    BY DEF Calls
<1> QED
    BY <1>1 DEF Calls, R!vars

LEMMA SameCalls ==
    ASSUME UNCHANGED <<at, op, found, reply>>
    PROVE  UNCHANGED R!vars
<1>1. \A t \in Task : CallOf(t)' = CallOf(t)
    BY DEF CallOf
<1> QED
    BY <1>1, HiddenStep

LEMMA EnqueueStep ==
    ASSUME IInv, NEW t \in Task, Enqueue(t)
    PROVE  UNCHANGED R!vars
<1>1. /\ at[t] = "call" /\ at' = [at EXCEPT ![t] = "wait"] /\ at'[t] = "wait"
      /\ UNCHANGED <<op, found, reply>>
    BY DEF Enqueue, kad, IInv, TypeOK
<1>2. CallOf(t)' = CallOf(t)
    BY <1>1, CallCases, CallCasesNext
<1>3. \A u \in Task : u # t => CallOf(u)' = CallOf(u)
    BY <1>1 DEF CallOf, IInv, TypeOK
<1> QED
    BY <1>1, <1>2, <1>3, HiddenStep

\* A record comes in for a task that waits, or the task is gone.
LEMMA FindStep ==
    ASSUME IInv, NEW t \in Task, NEW v, FindRecord(t, v)
    PROVE  [R!Next]_R!vars
<1>1. query[t] = "get" /\ UNCHANGED <<at, op, reply>>
    BY DEF FindRecord, callers
<1>2. CASE at[t] = "wait" /\ v \in Small
    <2>1. QueryInv(t) /\ AnswerInv(t)
        BY DEF IInv
    <2>2. op[t] = "get" /\ reply[t] = {}
        BY <1>1, <1>2, <2>1 DEF QueryInv, AnswerInv
    <2>3. found' = [found EXCEPT ![t] = found[t] \cup {v}]
        BY <1>2 DEF FindRecord
    <2>4. /\ at \in [Task -> Place] /\ at' = [at EXCEPT ![t] = "wait"] /\ at'[t] = "wait"
          /\ reply' = [reply EXCEPT ![t] = {}]
        BY <1>1, <1>2, <2>2 DEF IInv, TypeOK, Place
    <2>5. Calls[t] = "open" /\ CallOf(t)' = "open"
        BY <1>2, <2>4, CallCases, CallCasesNext DEF Calls
    <2>6. R!Set(t, "open", found[t] \cup {v}, {})
        BY <2>3, <2>4, <2>5, SetFacts
    <2>7. R!Offer(t, v)
        BY <1>1, <2>2, <2>5, <2>6 DEF Calls, R!Offer
    <2> QED
        BY <1>2, <2>7 DEF R!Next
<1>3. CASE ~(at[t] = "wait" /\ v \in Small)
    <2>1. found' = found
        BY <1>3 DEF FindRecord
    <2> QED
        BY <1>1, <2>1, SameCalls
<1> QED
    BY <1>2, <1>3

\* A task that waits is given its answer: for a get all that was found.
LEMMA AnswerStep ==
    ASSUME IInv, NEW t \in Task, NEW r, Respond(t, r), UNCHANGED <<op, found>>,
           at[t] = "wait" => \/ op[t] = "get" /\ r = found[t]
                             \/ op[t] # "get" /\ found[t] = {} /\ r \in {{o} : o \in Other}
    PROVE  [R!Next]_R!vars
<1>1. CASE at[t] = "wait"
    <2>1. /\ at \in [Task -> Place] /\ at' = [at EXCEPT ![t] = "answered"] /\ at'[t] = "answered"
          /\ reply' = [reply EXCEPT ![t] = r]
          /\ found' = [found EXCEPT ![t] = found[t]]
        BY <1>1 DEF Respond, IInv, TypeOK, Place
    <2>2. Calls[t] = "open" /\ CallOf(t)' = "answered"
        BY <1>1, <2>1, CallCases, CallCasesNext DEF Calls
    <2>3. R!Set(t, "answered", found[t], r)
        BY <2>1, <2>2, SetFacts
    <2>4. R!Answer(t)
        BY <1>1, <2>2, <2>3 DEF Calls, R!Answer
    <2> QED
        BY <2>4 DEF R!Next
<1>2. CASE at[t] # "wait"
    <2>1. UNCHANGED <<at, reply>>
        BY <1>2 DEF Respond
    <2> QED
        BY <2>1, SameCalls
<1> QED
    BY <1>1, <1>2

LEMMA CommandStep ==
    ASSUME IInv, handle_command
    PROVE  [R!Next]_R!vars
<1> DEFINE c == Head(queue)
           t == c.by
<1>1. queue # <<>> /\ queue' = Tail(queue) /\ op' = op
    BY DEF handle_command
<1>2. t \in Task /\ Clear(t) /\ (at[t] = "wait" => c.kind = op[t])
    BY <1>1, TakenFacts
<1>3. at[t] = "wait" => found[t] = {}
    BY <1>2 DEF IInv, AnswerInv, Clear
<1>4. ASSUME NEW k, StartQuery(t, k) PROVE [R!Next]_R!vars
    BY <1>1, <1>4, SameCalls DEF StartQuery
<1>5. ASSUME NEW r \in Other, Respond(t, {r}), UNCHANGED kad, c.kind # "get"
      PROVE  [R!Next]_R!vars
    <2>1. found' = found
        BY <1>5 DEF kad
    <2>2. at[t] = "wait" => op[t] # "get" /\ found[t] = {} /\ {r} \in {{o} : o \in Other}
        BY <1>2, <1>3, <1>5
    <2> QED
        BY <1>1, <1>2, <1>5, <2>1, <2>2, AnswerStep
<1>6. CASE c.kind = "put" /\ PutRecord(c.by)
    <2>1. "err" \in Other
        BY DEF Other
    <2> QED
        BY <1>4, <1>5, <1>6, <2>1 DEF PutRecord
<1>7. CASE c.kind = "get" /\ GetRecord(c.by)
    BY <1>4, <1>7 DEF GetRecord
<1>8. CASE c.kind \in {"dial", "doctor"} /\ DialOrDoctor(c.by)
    BY <1>5, <1>8 DEF DialOrDoctor
<1> QED
    BY <1>6, <1>7, <1>8 DEF handle_command

LEMMA ResultStep ==
    ASSUME IInv, handle_kad_result
    PROVE  [R!Next]_R!vars
<1> DEFINE e == Head(events)
           t == e.id
<1>1. events # <<>> /\ events' = Tail(events) /\ UNCHANGED <<op, found>>
    BY DEF handle_kad_result, kad
<1>2. CASE e.kind = "put" /\ PutDone(e)
    <2>1. t \in Task /\ e.value \in Other /\ t \in pendingPut /\ pendingGet[t] = {}
        BY <1>1, <1>2, LastFacts
    <2>2. Respond(t, {e.value})
        BY <1>2, <2>1 DEF PutDone
    <2>3. at[t] = "wait" => op[t] = "put" /\ found[t] = {}
        BY <2>1 DEF IInv, AnswerInv
    <2>4. {e.value} \in {{o} : o \in Other}
        BY <2>1
    <2> QED
        BY <1>1, <2>1, <2>2, <2>3, <2>4, AnswerStep
<1>3. CASE e.kind \in {"get", "failed"} /\ GetDone(e)
    <2>1. /\ t \in Task /\ pendingGet[t] # {}
          /\ at[t] = "wait" => \A acc \in pendingGet[t] : found[t] = acc
        BY <1>1, <1>3, LastFacts
    <2>2. PICK acc \in pendingGet[t] : Respond(t, acc)
        BY <1>3, <2>1 DEF GetDone
    <2>3. at[t] = "wait" => op[t] = "get" /\ acc = found[t]
        BY <2>1, <2>2 DEF IInv, AnswerInv
    <2> QED
        BY <1>1, <2>1, <2>2, <2>3, AnswerStep
<1>4. CASE e.kind = "found" /\ FoundRecord(e)
    BY <1>1, <1>4, SameCalls DEF FoundRecord
<1> QED
    BY <1>2, <1>3, <1>4 DEF handle_kad_result

LEMMA ProceedStep ==
    ASSUME IInv, NEW t \in Task, Proceed(t)
    PROVE  R!Next
<1>1. ASSUME NEW k \in Kind, Request(t, k), at[t] \in {"pause", "answered"} PROVE R!Next
    BY <1>1, RequestStep
<1>2. ASSUME NEW where \in {"idle", "pause"}, NEW w, Rest(t, where, w), at[t] = "answered"
      PROVE  R!Next
    BY <1>2, RestStep
<1>3. {"get", "put", "dial", "doctor"} \subseteq Kind
    BY DEF Kind
<1>4. ASSUME NEW n \in 0..MaxAddrs, Establish(t, n) PROVE R!Next
    BY <1>1, <1>2, <1>3, <1>4 DEF Establish, Answered
<1>5. CASE Dialled(t)
    BY <1>1, <1>2, <1>3, <1>5 DEF Dialled, Answered
<1>6. CASE ResolveFails(t) \/ Retry(t) \/ Published(t)
    BY <1>2, <1>6 DEF ResolveFails, Retry, Published, Answered
<1>7. CASE Gathered(t)
    BY <1>1, <1>2, <1>3, <1>7 DEF Gathered, Answered
<1>8. CASE Wake(t)
    BY <1>1, <1>3, <1>8 DEF Wake
<1> QED
    BY <1>4, <1>5, <1>6, <1>7, <1>8 DEF Proceed

LEMMA AbsNext == IInv /\ [Next]_vars => [R!Next]_R!vars
<1> SUFFICES ASSUME IInv, [Next]_vars PROVE [R!Next]_R!vars
    OBVIOUS
<1>1. CASE UNCHANGED vars
    BY <1>1, SameCalls DEF vars
<1>2. CASE Loop
    BY <1>2, CommandStep, ResultStep DEF Loop
<1>3. CASE Tick
    BY <1>3, SameCalls DEF Tick
<1>4. ASSUME NEW t \in Task,
             \/ Resolve(t) \/ Round(t) \/ Enqueue(t) \/ Proceed(t) \/ Abort(t)
             \/ \E v \in Small \cup Huge : FindRecord(t, v)
             \/ \E r \in Other : EndQuery(t, r)
      PROVE  [R!Next]_R!vars
    <2>1. CASE Resolve(t) \/ Round(t)
        BY <2>1, RequestStep DEF Resolve, Round, Kind
    <2>2. CASE \E r \in Other : EndQuery(t, r)
        BY <2>2, SameCalls DEF EndQuery, callers
    <2> QED
        BY <1>4, <2>1, <2>2, EnqueueStep, ProceedStep, AbortStep, FindStep
<1> QED
    BY <1>1, <1>2, <1>3, <1>4 DEF Next

\* Whatever the tasks, the records and the capacity are, the network task does
\* nothing that Requests does not allow: no request is answered twice, none with
\* another's answer, and a get with all that its query found.  (handle_command and
\* handle_kad_result of crates/net/src/node.rs)
THEOREM StepsImplement == Spec => ImplementsSteps
<1>1. Init => R!Init
    BY AbsInit
<1>2. IInv /\ [Next]_vars => [R!Next]_R!vars
    BY AbsNext
<1> QED
    BY <1>1, <1>2, InvHolds, PTL DEF Spec, ImplementsSteps
=============================================================================
