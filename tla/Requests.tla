------------------------------ MODULE Requests ------------------------------
(***************************************************************************)
(* What the network task promises to those who hold a handle of it         *)
(* (NetHandle in crates/net/src/node.rs): every request is answered, once, *)
(* and a get is answered with all the records of acceptable size that the  *)
(* network has come up with for it, no more and no less.  NetNode is shown *)
(* to implement this.                                                      *)
(***************************************************************************)

CONSTANTS
    Task,    \* those who hold a handle
    Value,   \* records of acceptable size
    Kind,    \* kinds of requests, "get" among them
    Other    \* answers to the requests that are no gets

VARIABLES
    call,     \* [Task -> "none", "open", "answered" or "gone"]
    kind,     \* [Task -> kind of its last request]
    offered,  \* [Task -> records the network has come up with]
    answer    \* [Task -> the answer: records, or {an answer of Other}]

vars == <<call, kind, offered, answer>>

Init ==
    /\ call = [t \in Task |-> "none"]
    /\ kind \in [Task -> Kind]
    /\ offered = [t \in Task |-> {}]
    /\ answer = [t \in Task |-> {}]

Set(t, c, o, a) ==
    /\ call' = [call EXCEPT ![t] = c]
    /\ offered' = [offered EXCEPT ![t] = o]
    /\ answer' = [answer EXCEPT ![t] = a]

\* A request is made, perhaps right upon the answer to the one before it.
Call(t, k) ==
    /\ call[t] \in {"none", "answered"}
    /\ kind' = [kind EXCEPT ![t] = k]
    /\ Set(t, "open", {}, {})

Offer(t, v) ==
    /\ call[t] = "open" /\ kind[t] = "get"
    /\ Set(t, "open", offered[t] \cup {v}, {})
    /\ UNCHANGED kind

Answer(t) ==
    /\ call[t] = "open"
    /\ \/ kind[t] = "get" /\ Set(t, "answered", offered[t], offered[t])
       \/ kind[t] # "get" /\ \E o \in Other : Set(t, "answered", {}, {o})
    /\ UNCHANGED kind

Return(t) ==
    /\ call[t] = "answered"
    /\ Set(t, "none", {}, {})
    /\ UNCHANGED kind

\* The task is gone, with or without a request of its own open.
Leave(t) ==
    /\ call[t] # "gone"
    /\ Set(t, "gone", {}, {})
    /\ UNCHANGED kind

Next ==
    \E t \in Task :
        \/ \E k \in Kind : Call(t, k)
        \/ \E v \in Value : Offer(t, v)
        \/ Answer(t) \/ Return(t) \/ Leave(t)

\* No request stays open forever.
Spec == Init /\ [][Next]_vars /\ \A t \in Task : WF_vars(Answer(t))
=============================================================================
