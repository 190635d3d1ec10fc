---------------------------- MODULE LauncherProofs --------------------------
(***************************************************************************)
(* Proofs about Launcher: a game never has two agents of its own, for any  *)
(* number of games on a configuration directory and any number of agents   *)
(* they launch.                                                            *)
(***************************************************************************)
EXTENDS Launcher, TLAPS

-----------------------------------------------------------------------------

LEMMA InitInv == Init => IInv
BY DEF Init, IInv, TypeOK, ChildInv, Alive, Place, SettingUp

\* The profile may be anything that it can be: no conjunct looks into it.
ProfileOK(p) == p \in [{"key", "length"} -> {"none", "torn", "whole"}]

\* Steps of ensureRunning that only move the game along; past the check on the
\* child they come from a place past it.
LEMMA MoveInv ==
    ASSUME IInv, NEW j \in Jvm, NEW step \in Place \ {"setup", "wait"},
           Goto(j, step),
           step \in SettingUp \cup {"launch"} => at[j] \in SettingUp,
           game' \in [Jvm -> BOOLEAN], ProfileOK(profile'),
           UNCHANGED <<process, agent, by, keyring, control>>
    PROVE  IInv'
<1>1. at' \in [Jvm -> Place] /\ at'[j] = step /\ \A k \in Jvm : k # j => at'[k] = at[k]
    BY DEF IInv, TypeOK, Goto
<1>2. TypeOK'
    BY <1>1 DEF IInv, TypeOK, ProfileOK, Place
<1>3. ChildInv'
    BY <1>1 DEF IInv, ChildInv
<1> QED
    BY <1>2, <1>3 DEF IInv

\* The check on the child is what the last part of ChildInv stands on.
LEMMA CheckChildInv ==
    ASSUME IInv, NEW j \in Jvm, CheckChild(j)
    PROVE  IInv'
<1>1. TypeOK'
    BY DEF IInv, TypeOK, CheckChild, Goto, Place, SettingUp
<1>2. at'[j] \in SettingUp \cup {"launch"} => \A p \in process[j] : agent[p] \notin Alive
    BY DEF IInv, TypeOK, CheckChild, Goto, SettingUp
<1>3. \A p \in Pid : by[p] = {j} /\ agent[p] \in Alive => p \in process[j]
    BY DEF IInv, ChildInv
<1>4. \A k \in Jvm : k # j => at'[k] = at[k]
    BY DEF IInv, TypeOK, CheckChild, Goto
<1>5. ChildInv'
    BY <1>2, <1>3, <1>4 DEF IInv, ChildInv, CheckChild
<1> QED
    BY <1>1, <1>5 DEF IInv

LEMMA LaunchInv ==
    ASSUME IInv, NEW j \in Jvm, NEW p \in Pid, Launch(j, p)
    PROVE  IInv'
<1>1. /\ at' = [at EXCEPT ![j] = "wait"]
      /\ process' = [process EXCEPT ![j] = {p}]
      /\ agent' = [agent EXCEPT ![p] = "booting"]
      /\ by' = [by EXCEPT ![p] = {j}]
      /\ agent[p] = "none" /\ by[p] = {} /\ at[j] = "launch"
    BY DEF Launch, IsNext, Goto, IInv, ChildInv
<1>2. TypeOK'
    <2>1. at' \in [Jvm -> Place] /\ process' \in [Jvm -> SUBSET Pid]
        BY <1>1 DEF IInv, TypeOK, Place
    <2>2. agent' \in [Pid -> {"none", "dead"} \cup Alive] /\ by' \in [Pid -> SUBSET Jvm]
        BY <1>1 DEF IInv, TypeOK, Alive
    <2>3. ASSUME NEW k \in Jvm, at'[k] = "wait" PROVE \E q \in process'[k] : by'[q] = {k}
        <3>1. CASE k = j
            BY <1>1, <3>1 DEF IInv, TypeOK
        <3>2. CASE k # j
            <4>1. PICK q \in process[k] : by[q] = {k}
                BY <1>1, <2>3, <3>2 DEF IInv, TypeOK
            <4> QED
                BY <1>1, <3>2, <4>1 DEF IInv, TypeOK
        <3> QED
            BY <3>1, <3>2
    <2> QED
        BY <2>1, <2>2, <2>3 DEF IInv, TypeOK, Launch
<1>3. \A q \in Pid : by[q] = {j} => agent[q] \notin Alive
    BY <1>1 DEF IInv, ChildInv
<1>4. ChildInv'
    <2>1. \A q \in Pid : q # p => by'[q] = by[q] /\ agent'[q] = agent[q]
        BY <1>1 DEF IInv, TypeOK
    <2>2. by'[p] = {j} /\ agent'[p] = "booting" /\ process'[j] = {p} /\ at'[j] = "wait"
        BY <1>1 DEF IInv, TypeOK
    <2>3. \A k \in Jvm : k # j => process'[k] = process[k] /\ at'[k] = at[k]
        BY <1>1 DEF IInv, TypeOK
    <2> QED
        BY <1>3, <2>1, <2>2, <2>3 DEF IInv, ChildInv, Alive, SettingUp
<1> QED
    BY <1>2, <1>4 DEF IInv

\* Steps after which no agent is alive that was not alive before.
LEMMA AgentInv ==
    ASSUME IInv, UNCHANGED <<process, by, keyring, profile>>,
           agent' \in [Pid -> {"none", "dead"} \cup Alive],
           \A p \in Pid : /\ agent'[p] = "none" <=> agent[p] = "none"
                          /\ agent'[p] \in Alive => agent[p] \in Alive,
           at' \in [Jvm -> Place],
           \A j \in Jvm : at'[j] \in {at[j], "out"},
           game' \in [Jvm -> BOOLEAN],
           control' \in SUBSET (Pid \cup {Torn})
    PROVE  IInv'
<1>1. TypeOK'
    BY DEF IInv, TypeOK
<1>2. ChildInv'
    BY DEF IInv, ChildInv, SettingUp
<1> QED
    BY <1>1, <1>2 DEF IInv

LEMMA NextInv == IInv /\ [Next]_vars => IInv'
<1> SUFFICES ASSUME IInv, [Next]_vars PROVE IInv'
    OBVIOUS
<1>1. ASSUME NEW j \in Jvm,
             \/ Enter(j) \/ PingOk(j) \/ PingFails(j) \/ SetupFails(j)
             \/ NameOk(j) \/ NameFails(j) \/ InitRefused(j) \/ InitChecks(j)
             \/ EndWait(j) \/ Crash(j)
      PROVE  IInv'
    <2>1. PICK step \in {"out", "ping", "child", "init", "key", "launch"} :
            /\ Goto(j, step)
            /\ step \in SettingUp \cup {"launch"} => at[j] \in SettingUp
        BY <1>1 DEF Enter, PingOk, PingFails, SetupFails, NameOk, NameFails,
                    InitRefused, InitChecks, EndWait, Crash, SettingUp
    <2>2. step \in Place \ {"setup", "wait"}
        BY DEF Place, SettingUp
    <2>3. /\ game' \in [Jvm -> BOOLEAN]
          /\ UNCHANGED <<process, agent, by, keyring, profile, control>>
        BY <1>1 DEF Enter, PingOk, PingFails, SetupFails, NameOk, NameFails,
                    InitRefused, InitChecks, EndWait, Crash, IInv, TypeOK
    <2>4. ProfileOK(profile')
        BY <2>3 DEF IInv, TypeOK, ProfileOK
    <2> QED
        BY <2>1, <2>2, <2>3, <2>4, MoveInv
<1>2. ASSUME NEW j \in Jvm,
             StoreKey(j) \/ FillKey(j) \/ EmptyLength(j) \/ FillLength(j)
      PROVE  IInv'
    <2>1. PICK from \in SettingUp, step \in {"keyfile", "length", "lengthfile", "launch"},
               part \in {"key", "length"}, content \in {"torn", "whole"} :
            Saves(j, from, step, part, content)
        BY <1>2 DEF StoreKey, FillKey, EmptyLength, FillLength, SettingUp
    <2>2. /\ Goto(j, step) /\ at[j] \in SettingUp
          /\ UNCHANGED <<game, process, agent, by, keyring, control>>
        BY <2>1 DEF Saves
    <2>3. ProfileOK(profile')
        BY <2>1 DEF Saves, IInv, TypeOK, ProfileOK
    <2>4. step \in Place \ {"setup", "wait"} /\ game' \in [Jvm -> BOOLEAN]
        BY <2>2 DEF Place, SettingUp, IInv, TypeOK
    <2> QED
        BY <2>2, <2>3, <2>4, MoveInv
<1>3. ASSUME NEW j \in Jvm, Exit(j) PROVE IInv'
    <2>1. at' = [at EXCEPT ![j] = "out"]
        BY <1>3 DEF Exit, Goto
    <2>2. /\ agent' \in [Pid -> {"none", "dead"} \cup Alive]
          /\ \A p \in Pid : /\ agent'[p] = "none" <=> agent[p] = "none"
                            /\ agent'[p] \in Alive => agent[p] \in Alive
        BY <1>3 DEF Exit, IInv, TypeOK, Alive
    <2>3. game' \in [Jvm -> BOOLEAN] /\ UNCHANGED <<process, by, keyring, profile, control>>
        BY <1>3 DEF Exit, IInv, TypeOK
    <2>4. /\ at' \in [Jvm -> Place]
          /\ \A k \in Jvm : at'[k] \in {at[k], "out"}
        BY <2>1 DEF IInv, TypeOK, Place
    <2>5. control' \in SUBSET (Pid \cup {Torn})
        BY <2>3 DEF IInv, TypeOK
    <2> QED
        BY <2>2, <2>3, <2>4, <2>5, AgentInv
<1>4. ASSUME NEW p \in Pid,
             Boot(p) \/ ShutDown(p) \/ Die(p)
      PROVE  IInv'
    <2>1. /\ agent[p] \in Alive
          /\ \E s \in {"loaded", "writing", "up", "dead"} : agent' = [agent EXCEPT ![p] = s]
          /\ control' \in SUBSET (Pid \cup {Torn})
          /\ UNCHANGED <<gameVars, by, keyring, profile>>
        BY <1>4 DEF Boot, Load, TruncateControl, WriteControl, ShutDown, Die, IInv, TypeOK, Alive
    <2>2. /\ agent' \in [Pid -> {"none", "dead"} \cup Alive]
          /\ \A q \in Pid : /\ agent'[q] = "none" <=> agent[q] = "none"
                            /\ agent'[q] \in Alive => agent[q] \in Alive
        BY <2>1 DEF IInv, TypeOK, Alive
    <2>3. /\ game' \in [Jvm -> BOOLEAN] /\ UNCHANGED <<process, by, keyring, profile>>
          /\ at' \in [Jvm -> Place]
          /\ \A j \in Jvm : at'[j] \in {at[j], "out"}
        BY <2>1 DEF IInv, TypeOK, gameVars
    <2> QED
        BY <2>1, <2>2, <2>3, AgentInv
<1>5. CASE UNCHANGED vars
    BY <1>5 DEF vars, IInv, TypeOK, ChildInv
<1> QED
    BY <1>1, <1>2, <1>3, <1>4, <1>5, CheckChildInv, LaunchInv DEF Next, Proceed

LEMMA InvHolds == Spec => []IInv
BY InitInv, NextInv, PTL DEF Spec

-----------------------------------------------------------------------------

\* The states of games, agents and control.json keep their types, and a game that
\* waits for an agent knows the one it has launched.
THEOREM TypeCorrect == Spec => []TypeOK
<1>1. IInv => TypeOK
    BY DEF IInv
<1> QED
    BY <1>1, InvHolds, PTL

\* ensureRunning never leaves a game with two live agents of its own, whatever
\* happens to control.json and however many games share it.
THEOREM OneAgentPerGame == Spec => []OneChild
<1>1. IInv => OneChild
    <2> SUFFICES ASSUME IInv, NEW p \in Pid, NEW q \in Pid,
                        agent[p] \in Alive, agent[q] \in Alive, by[p] = by[q]
                 PROVE  p = q
        BY DEF OneChild
    <2>1. PICK j \in Jvm : by[p] = {j}
        BY DEF IInv, ChildInv, Alive
    <2>2. process[j] = {p} /\ process[j] = {q}
        BY <2>1 DEF IInv, ChildInv
    <2> QED
        BY <2>2
<1> QED
    BY <1>1, InvHolds, PTL
=============================================================================
