----------------------------- MODULE InitProofs -----------------------------
(***************************************************************************)
(* Proofs about Keystore and InitCommand: what init reported is loaded,    *)
(* forget forgets, racing inits end with one of their identities, and a    *)
(* search for a vanity key is for the keystore no more than the generation *)
(* of a key - for any number of commands, secrets, lengths and threads.    *)
(***************************************************************************)
EXTENDS InitCommand, TLAPS, FiniteSetTheorems

-----------------------------------------------------------------------------
(* Types *)

\* The stores take at most one secret and one length from what an init saves.
LEMMA ImageType ==
    ASSUME NEW n \in AtMost(Id)
    PROVE  /\ {i.secret : i \in n} \in AtMost(Secret)
           /\ {i.len : i \in n} \in AtMost(Lens)
<1>1. CASE n = {}
  BY <1>1 DEF AtMost
<1>2. ASSUME NEW i \in Id, n = {i} PROVE {j.secret : j \in n} = {i.secret} /\ {j.len : j \in n} = {i.len}
  BY <1>2
<1>3. \A i \in Id : i.secret \in Secret /\ i.len \in Lens
  BY DEF Id
<1> QED BY <1>1, <1>2, <1>3 DEF AtMost

LEMMA LeaveType ==
    ASSUME TypeOK, NEW p \in Proc, Leave(p)
    PROVE  /\ pc' \in [Proc -> Steps]
           /\ force' \in [Proc -> BOOLEAN]
           /\ new' \in [Proc -> AtMost(Id)]
           /\ alone' \in [Proc -> BOOLEAN]
           /\ linked' \subseteq Proc
BY DEF TypeOK, Leave, Goto, Steps, AtMost

LEMMA GotoType ==
    ASSUME TypeOK, NEW p \in Proc, NEW s \in Steps, Goto(p, s)
    PROVE  pc' \in [Proc -> Steps]
BY DEF TypeOK, Goto

\* A step of the command that p runs.
Command(p) ==
    \/ \E forced \in BOOLEAN : StartInit(p, forced)
    \/ \E s \in Secret, len \in Lens : Generate(p, s, len)
    \/ Abandon(p) \/ CheckAgain(p) \/ SaveRefused(p)
    \/ StoreSecret(p) \/ FillFile(p) \/ UnlinkFile(p)
    \/ TruncateMeta(p) \/ WriteMeta(p)
    \/ StartForget(p) \/ WipeKeyring(p) \/ WipeFile(p) \/ WipeMeta(p)
    \/ EndForget(p)
    \/ Die(p)

LEMMA TypeStep == TypeOK /\ [Next]_vars => TypeOK'
<1> SUFFICES ASSUME TypeOK, [Next]_vars PROVE TypeOK'
  OBVIOUS
<1> USE DEF TypeOK, stores, history
<1>1. CASE UNCHANGED vars
  BY <1>1 DEF vars
<1>2. CASE Unlock \/ Lock
  BY <1>2 DEF Unlock, Lock
<1> SUFFICES ASSUME NEW p \in Proc, Command(p) PROVE TypeOK'
  BY <1>1, <1>2, Zenon DEF Next, Command
<1>3. ASSUME NEW forced \in BOOLEAN, StartInit(p, forced) PROVE TypeOK'
  <2>1. pc' \in [Proc -> Steps]
    BY <1>3, GotoType DEF StartInit, Steps
  <2> QED BY <1>3, <2>1 DEF StartInit
<1>4. ASSUME NEW s \in Secret, NEW len \in Lens, Generate(p, s, len) PROVE TypeOK'
  <2>1. pc' \in [Proc -> Steps]
    BY <1>4, GotoType DEF Generate, Steps
  <2>2. {[secret |-> s, len |-> len]} \in AtMost(Id)
    BY DEF AtMost, Id
  <2> QED BY <1>4, <2>1, <2>2 DEF Generate
<1>5. CASE Abandon(p) \/ SaveRefused(p) \/ EndForget(p)
  BY <1>5, LeaveType DEF Abandon, SaveRefused, EndForget
<1>6. CASE Die(p)
  BY <1>6, LeaveType DEF Die, AtMost
<1>7. CASE CheckAgain(p)
  <2>1. pc' \in [Proc -> Steps]
    BY <1>7, GotoType DEF CheckAgain, Steps
  <2>2. alone' \in [Proc -> BOOLEAN]
    BY <1>7 DEF CheckAgain, Overlap
  <2>3. told' \in AtMost(Id) /\ reported' \in AtMost(SUBSET Id)
    BY <1>7 DEF CheckAgain, AtMost
  <2> QED BY <1>7, <2>1, <2>2, <2>3 DEF CheckAgain
<1>8. CASE StoreSecret(p)
  <2>1. pc' \in [Proc -> Steps]
    BY <1>8, GotoType DEF StoreSecret, OpenFile, Steps
  <2>2. keyring' \in AtMost(Secret)
    BY <1>8, ImageType DEF StoreSecret, OpenFile
  <2>3. file' \in {{Torn}} \cup AtMost(Secret)
    BY <1>8 DEF StoreSecret, OpenFile
  <2>4. linked' \subseteq Proc
    BY <1>8 DEF StoreSecret, OpenFile
  <2> QED BY <1>8, <2>1, <2>2, <2>3, <2>4 DEF StoreSecret
<1>9. CASE FillFile(p)
  <2>1. pc' \in [Proc -> Steps]
    BY <1>9, GotoType DEF FillFile, Steps
  <2>2. file' \in {{Torn}} \cup AtMost(Secret)
    BY <1>9, ImageType DEF FillFile
  <2> QED BY <1>9, <2>1, <2>2 DEF FillFile
<1>10. CASE UnlinkFile(p)
  <2>1. pc' \in [Proc -> Steps]
    BY <1>10, GotoType DEF UnlinkFile, Steps
  <2>2. file' \in {{Torn}} \cup AtMost(Secret)
    BY <1>10 DEF UnlinkFile, AtMost
  <2> QED BY <1>10, <2>1, <2>2 DEF UnlinkFile
<1>11. CASE TruncateMeta(p)
  <2>1. pc' \in [Proc -> Steps]
    BY <1>11, GotoType DEF TruncateMeta, Steps
  <2> QED BY <1>11, <2>1 DEF TruncateMeta
<1>12. CASE WriteMeta(p)
  <2>1. meta' \in AtMost(Lens)
    BY <1>12, ImageType DEF WriteMeta
  <2>2. told' \in AtMost(Id)
    BY <1>12 DEF WriteMeta, AtMost
  <2>3. reported' \in AtMost(SUBSET Id)
    <3>1. CASE reported = {}
      BY <1>12, <3>1 DEF WriteMeta, AtMost
    <3>2. ASSUME NEW r \in SUBSET Id, reported = {r} PROVE reported' \in AtMost(SUBSET Id)
      <4>1. reported' = {r \cup new[p]}
        BY <1>12, <3>2 DEF WriteMeta
      <4>2. r \cup new[p] \in SUBSET Id
        BY DEF AtMost
      <4> QED BY <4>1, <4>2 DEF AtMost
    <3> QED BY <3>1, <3>2 DEF AtMost
  <2> QED BY <1>12, <2>1, <2>2, <2>3, LeaveType DEF WriteMeta
<1>13. CASE StartForget(p)
  <2>1. pc' \in [Proc -> Steps]
    BY <1>13, GotoType DEF StartForget, Steps
  <2>2. alone' \in [Proc -> BOOLEAN]
    BY <1>13 DEF StartForget, Overlap
  <2>3. told' \in AtMost(Id) /\ reported' \in AtMost(SUBSET Id)
    BY <1>13 DEF StartForget, AtMost
  <2> QED BY <1>13, <2>1, <2>2, <2>3 DEF StartForget
<1>14. CASE WipeKeyring(p)
  <2>1. pc' \in [Proc -> Steps]
    BY <1>14, GotoType DEF WipeKeyring, Steps
  <2>2. keyring' \in AtMost(Secret)
    BY <1>14 DEF WipeKeyring, AtMost
  <2> QED BY <1>14, <2>1, <2>2 DEF WipeKeyring
<1>15. CASE WipeFile(p)
  <2>1. pc' \in [Proc -> Steps]
    BY <1>15, GotoType DEF WipeFile, Steps
  <2>2. file' \in {{Torn}} \cup AtMost(Secret)
    BY <1>15 DEF WipeFile, AtMost
  <2> QED BY <1>15, <2>1, <2>2 DEF WipeFile
<1>16. CASE WipeMeta(p)
  <2>1. pc' \in [Proc -> Steps]
    BY <1>16, GotoType DEF WipeMeta, Steps
  <2>2. meta' \in {{Torn}} \cup AtMost(Lens)
    BY <1>16 DEF WipeMeta, AtMost
  <2> QED BY <1>16, <2>1, <2>2 DEF WipeMeta
<1> QED
  BY <1>3, <1>4, <1>5, <1>6, <1>7, <1>8, <1>9, <1>10, <1>11, <1>12, <1>13, <1>14, <1>15, <1>16, Zenon
  DEF Command

-----------------------------------------------------------------------------
(* The keystore: one lemma per part of the invariant *)

\* The keyring is written in reach only, and a secret in it stays in reach.
LEMMA LockStep == ~MayFail /\ TypeOK /\ LockInv /\ [Next]_vars => LockInv'
<1> SUFFICES ASSUME ~MayFail, TypeOK, LockInv, [Next]_vars PROVE LockInv'
  OBVIOUS
<1> USE DEF LockInv, stores
<1>1. CASE UNCHANGED vars
  BY <1>1 DEF vars
<1>2. CASE Unlock \/ Lock
  BY <1>2 DEF Unlock, Lock
<1>3. ASSUME NEW p \in Proc, Command(p) PROVE LockInv'
  <2>1. CASE StoreSecret(p)
    BY <2>1 DEF StoreSecret, OpenFile
  <2>2. CASE WipeKeyring(p)
    BY <2>2 DEF WipeKeyring
  <2>3. CASE UNCHANGED <<backend, keyring>>
    BY <2>3
  <2> QED
    BY <1>3, <2>1, <2>2, <2>3
    DEF Command, StartInit, Generate, Abandon, CheckAgain, SaveRefused, FillFile, UnlinkFile,
        TruncateMeta, WriteMeta, StartForget, WipeFile, WipeMeta, EndForget, Die
<1> QED BY <1>1, <1>2, <1>3, Zenon DEF Next, Command

\* A key is thrown away when its command is over only.
LEMMA NewStep == TypeOK /\ NewInv /\ [Next]_vars => NewInv'
<1> SUFFICES ASSUME TypeOK, NewInv, [Next]_vars PROVE NewInv'
  OBVIOUS
<1> USE DEF NewInv, TypeOK
<1>1. CASE UNCHANGED vars
  BY <1>1 DEF vars
<1>2. CASE Unlock \/ Lock
  BY <1>2 DEF Unlock, Lock
<1>3. ASSUME NEW p \in Proc, Command(p) PROVE NewInv'
  <2>1. ASSUME NEW s \in Secret, NEW len \in Lens, Generate(p, s, len) PROVE NewInv'
    BY <2>1 DEF Generate, Goto
  <2>2. CASE Leave(p)
    BY <2>2 DEF Leave, Goto
  <2>3. ASSUME UNCHANGED new, NEW s \in {"generate", "wipe", "wipefile", "wipemeta", "forgot"}, Goto(p, s)
        PROVE  NewInv'
    BY <2>3 DEF Goto
  <2>4. ASSUME UNCHANGED new, NEW s \in Steps, Goto(p, s),
               pc[p] \in {"save", "store", "fill", "unlink", "meta", "report"}
        PROVE  NewInv'
    BY <2>4 DEF Goto
  <2> QED
    BY <1>3, <2>1, <2>2, <2>3, <2>4
    DEF Command, StartInit, Abandon, CheckAgain, SaveRefused, StoreSecret, OpenFile, FillFile, UnlinkFile,
        TruncateMeta, WriteMeta, StartForget, WipeKeyring, WipeFile, WipeMeta, EndForget, Die, Steps
<1> QED BY <1>1, <1>2, <1>3, Zenon DEF Next, Command

\* Who starts to change the stores marks everyone who is at it.
LEMMA AloneStep == TypeOK /\ AloneInv /\ [Next]_vars => AloneInv'
<1> SUFFICES ASSUME TypeOK, AloneInv, [Next]_vars PROVE AloneInv'
  OBVIOUS
<1> USE DEF AloneInv, TypeOK, Changing
<1>1. CASE UNCHANGED vars
  BY <1>1 DEF vars
<1>2. CASE Unlock \/ Lock
  BY <1>2 DEF Unlock, Lock, history
<1>3. ASSUME NEW p \in Proc, Command(p) PROVE AloneInv'
  <2>1. CASE Leave(p)
    BY <2>1 DEF Leave, Goto
  <2>2. ASSUME NEW s \in Steps, Goto(p, s), Overlap(p) PROVE AloneInv'
    BY <2>2 DEF Goto, Overlap
  <2>3. ASSUME UNCHANGED alone, NEW s \in {"generate", "save"}, Goto(p, s) PROVE AloneInv'
    BY <2>3 DEF Goto
  <2>4. ASSUME UNCHANGED alone, NEW s \in Steps, Goto(p, s), p \in Changing PROVE AloneInv'
    BY <2>4 DEF Goto
  <2> QED
    BY <1>3, <2>1, <2>2, <2>3, <2>4
    DEF Command, StartInit, Generate, Abandon, CheckAgain, SaveRefused, StoreSecret, OpenFile, FillFile, UnlinkFile,
        TruncateMeta, WriteMeta, StartForget, WipeKeyring, WipeFile, WipeMeta, EndForget, Die, Steps, history
<1> QED BY <1>1, <1>2, <1>3, Zenon DEF Next, Command

\* What a step of p's command does to another command q, and to the stores when p
\* is not changing them.
LEMMA Bystander ==
    ASSUME TypeOK, NEW p \in Proc, Command(p), NEW q \in Proc, q # p
    PROVE  /\ pc'[q] = pc[q] /\ force'[q] = force[q] /\ new'[q] = new[q]
           /\ alone'[q] => alone[q]
<1> USE DEF TypeOK, Goto, history
<1>1. CASE Leave(p)
  BY <1>1 DEF Leave
<1>2. ASSUME NEW s \in Steps, Goto(p, s), Overlap(p), UNCHANGED <<force, new>>
      PROVE  /\ pc'[q] = pc[q] /\ force'[q] = force[q] /\ new'[q] = new[q]
             /\ alone'[q] => alone[q]
  BY <1>2 DEF Overlap
<1>3. ASSUME NEW s \in Steps, Goto(p, s), UNCHANGED <<alone, force, new>>
      PROVE  /\ pc'[q] = pc[q] /\ force'[q] = force[q] /\ new'[q] = new[q]
             /\ alone'[q] => alone[q]
  BY <1>3
<1>4. ASSUME NEW forced \in BOOLEAN, StartInit(p, forced)
      PROVE  /\ pc'[q] = pc[q] /\ force'[q] = force[q] /\ new'[q] = new[q]
             /\ alone'[q] => alone[q]
  BY <1>4 DEF StartInit
<1>5. ASSUME NEW s \in Secret, NEW len \in Lens, Generate(p, s, len)
      PROVE  /\ pc'[q] = pc[q] /\ force'[q] = force[q] /\ new'[q] = new[q]
             /\ alone'[q] => alone[q]
  BY <1>5 DEF Generate
<1> QED
  BY <1>1, <1>2, <1>3, <1>4, <1>5
  DEF Command, Abandon, CheckAgain, SaveRefused, StoreSecret, OpenFile, FillFile, UnlinkFile,
      TruncateMeta, WriteMeta, StartForget, WipeKeyring, WipeFile, WipeMeta, EndForget, Die, Steps

\* A command that has not got to its save, or its wipe, leaves the stores alone.
LEMMA OnlyChanging ==
    ASSUME TypeOK, NEW p \in Proc, Command(p), p \notin Changing
    PROVE  UNCHANGED <<backend, keyring, file, meta>>
BY DEF Changing, Command, StartInit, Generate, Abandon, CheckAgain, SaveRefused, StoreSecret, OpenFile,
       FillFile, UnlinkFile, TruncateMeta, WriteMeta, StartForget, WipeKeyring, WipeFile, WipeMeta,
       EndForget, Die, stores

\* Only who unlinks the key file takes it away from another one that has it open.
LEMMA LinkedKept ==
    ASSUME TypeOK, NEW p \in Proc, Command(p), ~UnlinkFile(p), ~WipeFile(p),
           NEW q \in linked, q # p
    PROVE  q \in linked'
BY DEF Command, StartInit, Generate, Abandon, CheckAgain, SaveRefused, StoreSecret, OpenFile,
       FillFile, TruncateMeta, WriteMeta, StartForget, WipeKeyring, WipeMeta,
       EndForget, Die, Leave

\* The others do not touch the stores during a save that nobody overlaps.
LEMMA SaveStep ==
    ~MayFail /\ KeystoreAssumption /\ TypeOK /\ LockInv /\ NewInv /\ AloneInv /\ SaveInv /\ [Next]_vars => SaveInv'
<1> SUFFICES ASSUME ~MayFail, KeystoreAssumption, TypeOK, LockInv, NewInv, AloneInv, SaveInv, [Next]_vars
             PROVE  SaveInv'
  OBVIOUS
<1>1. CASE UNCHANGED vars
  BY <1>1 DEF vars, SaveInv, InPlace
<1>2. CASE Unlock \/ Lock
  BY <1>2 DEF Unlock, Lock, history, SaveInv, InPlace
<1>3. ASSUME NEW p \in Proc, Command(p) PROVE SaveInv'
  <2> DEFINE Stage(q) ==
        alone[q] =>
          /\ pc[q] = "store" /\ ~force[q] => keyring = {} /\ file = {}
          /\ pc[q] = "fill" => keyring = {} /\ file = {Torn} /\ q \in linked
          /\ pc[q] = "unlink" => \E i \in new[q] : keyring = {i.secret}
          /\ pc[q] \in {"meta", "report"} =>
                \E i \in new[q] : keyring = {i.secret} \/ (keyring = {} /\ file = {i.secret})
  <2>1. \A q \in Proc : Stage(q)
    BY DEF SaveInv, InPlace
  <2>2. SUFFICES ASSUME NEW q \in Proc PROVE Stage(q)'
    BY DEF SaveInv, InPlace
  <2>3. CASE q # p
    <3>1. /\ pc'[q] = pc[q] /\ force'[q] = force[q] /\ new'[q] = new[q]
          /\ alone'[q] => alone[q]
      BY <1>3, <2>3, Bystander
    <3>2. CASE p \in Changing
      BY <2>3, <3>1, <3>2 DEF AloneInv, Changing
    <3>3. CASE p \notin Changing
      <4>1. UNCHANGED <<keyring, file>>
        BY <1>3, <3>3, OnlyChanging
      <4>2. q \in linked => q \in linked'
        BY <1>3, <2>3, <3>3, LinkedKept DEF Changing, UnlinkFile, WipeFile
      <4> QED BY <2>1, <3>1, <4>1, <4>2
    <3> QED BY <3>2, <3>3
  <2>4. CASE q = p
    <3> SUFFICES Stage(p)'
      BY <2>4
    <3> USE DEF TypeOK, Goto
    <3>1. ASSUME NEW s \in Steps, s \notin {"store", "fill", "unlink", "meta", "report"}, Goto(p, s)
          PROVE  Stage(p)'
      BY <3>1
    <3>2. CASE CheckAgain(p)
      BY <3>2 DEF CheckAgain, exists, keyring_load, LockInv, stores
    <3>n. ASSUME pc[p] \in {"store", "fill", "unlink", "meta", "report"}
          PROVE  \E i \in Id : new[p] = {i}
      BY <3>n DEF NewInv, AtMost
    <3>3. CASE StoreSecret(p)
      <4>1. PICK i \in Id : new[p] = {i}
        BY <3>3, <3>n DEF StoreSecret, OpenFile
      <4> QED BY <3>3, <4>1 DEF StoreSecret, OpenFile, LockInv
    <3>4. CASE FillFile(p)
      <4>1. PICK i \in Id : new[p] = {i}
        BY <3>4, <3>n DEF FillFile
      <4> QED BY <3>4, <4>1, <2>1 DEF FillFile, history
    <3>5. CASE UnlinkFile(p)
      BY <3>5, <2>1 DEF UnlinkFile, history
    <3>6. CASE TruncateMeta(p)
      BY <3>6, <2>1 DEF TruncateMeta, history
    <3> QED
      BY <1>3, <3>1, <3>2, <3>3, <3>4, <3>5, <3>6
      DEF Command, StartInit, Generate, Abandon, SaveRefused, WriteMeta, StartForget,
          WipeKeyring, WipeFile, WipeMeta, EndForget, Die, Leave, Steps
  <2> QED BY <2>3, <2>4
<1> QED BY <1>1, <1>2, <1>3, Zenon DEF Next, Command

\* Nor do they during a forget that nobody overlaps.
LEMMA ForgetStep ==
    ~MayFail /\ TypeOK /\ LockInv /\ AloneInv /\ ForgetInv /\ [Next]_vars => ForgetInv'
<1> SUFFICES ASSUME ~MayFail, TypeOK, LockInv, AloneInv, ForgetInv, [Next]_vars PROVE ForgetInv'
  OBVIOUS
<1>1. CASE UNCHANGED vars
  BY <1>1 DEF vars, ForgetInv
<1>2. CASE Unlock \/ Lock
  BY <1>2 DEF Unlock, Lock, history, ForgetInv
<1>3. ASSUME NEW p \in Proc, Command(p) PROVE ForgetInv'
  <2>1. SUFFICES ASSUME NEW q \in Proc, alone'[q]
                 PROVE  /\ pc'[q] \in {"wipefile", "wipemeta", "forgot"} => keyring' = {}
                        /\ pc'[q] \in {"wipemeta", "forgot"} => file' = {}
    BY DEF ForgetInv
  <2>2. CASE q # p
    <3>1. pc'[q] = pc[q] /\ alone[q]
      BY <1>3, <2>1, <2>2, Bystander
    <3>2. CASE p \in Changing
      BY <2>2, <3>1, <3>2 DEF AloneInv, Changing
    <3>3. CASE p \notin Changing
      <4>1. UNCHANGED <<keyring, file>>
        BY <1>3, <3>3, OnlyChanging
      <4> QED BY <3>1, <4>1 DEF ForgetInv
    <3> QED BY <3>2, <3>3
  <2>3. CASE q = p
    <3> USE DEF TypeOK, Goto
    <3>1. ASSUME NEW s \in Steps, s \notin {"wipefile", "wipemeta", "forgot"}, Goto(p, s)
          PROVE  pc'[p] \notin {"wipefile", "wipemeta", "forgot"}
      BY <3>1
    <3>2. CASE WipeKeyring(p)
      BY <2>3, <3>2 DEF WipeKeyring, LockInv
    <3>3. CASE WipeFile(p)
      BY <2>1, <2>3, <3>3 DEF WipeFile, ForgetInv, history
    <3>4. CASE WipeMeta(p)
      BY <2>1, <2>3, <3>4 DEF WipeMeta, ForgetInv, history
    <3> QED
      BY <1>3, <2>3, <3>1, <3>2, <3>3, <3>4
      DEF Command, StartInit, Generate, Abandon, CheckAgain, SaveRefused, StoreSecret, OpenFile, FillFile,
          UnlinkFile, TruncateMeta, WriteMeta, StartForget, EndForget, Die, Leave, Steps
  <2> QED BY <2>2, <2>3
<1> QED BY <1>1, <1>2, <1>3, Zenon DEF Next, Command

\* A save without --force cannot begin while a report stands: exists is true.
LEMMA ToldStep ==
    TypeOK /\ LockInv /\ NewInv /\ AloneInv /\ SaveInv /\ ToldInv /\ [Next]_vars => ToldInv'
<1> SUFFICES ASSUME TypeOK, LockInv, NewInv, AloneInv, SaveInv, ToldInv, [Next]_vars PROVE ToldInv'
  OBVIOUS
<1>1. CASE UNCHANGED vars
  BY <1>1 DEF vars, ToldInv, Changing
<1>2. CASE Unlock \/ Lock
  BY <1>2 DEF Unlock, Lock, history, ToldInv, Changing
<1>3. ASSUME NEW p \in Proc, Command(p) PROVE ToldInv'
  <2>1. CASE WriteMeta(p)
    <3>1. PICK i \in Id : new[p] = {i}
      BY <2>1 DEF WriteMeta, NewInv, TypeOK, AtMost
    <3>2. SUFFICES ASSUME alone[p]
                   PROVE  /\ Changing' = {}
                          /\ keyring = {i.secret} \/ (keyring = {} /\ file = {i.secret})
                          /\ meta' = {i.len}
      BY <2>1, <3>1 DEF WriteMeta, ToldInv
    <3>3. Changing' = {}
      <4>1. p \in Changing
        BY <2>1 DEF WriteMeta, Changing
      <4>2. \A q \in Changing : q = p
        BY <3>2, <4>1 DEF AloneInv
      <4>3. pc' = [pc EXCEPT ![p] = "idle"]
        BY <2>1 DEF WriteMeta, Leave, Goto
      <4> QED BY <4>2, <4>3 DEF Changing, TypeOK
    <3>4. keyring = {i.secret} \/ (keyring = {} /\ file = {i.secret})
      BY <2>1, <3>1, <3>2 DEF WriteMeta, SaveInv, InPlace
    <3>5. meta' = {i.len}
      BY <2>1, <3>1 DEF WriteMeta
    <3> QED BY <3>3, <3>4, <3>5
  <2>3. ASSUME ~WriteMeta(p), NEW t \in told'
        PROVE  /\ Changing' = {}
               /\ keyring' = {t.secret} \/ (keyring' = {} /\ file' = {t.secret})
               /\ meta' = {t.len}
    <3>1. t \in told
      BY <1>3, <2>3
      DEF Command, StartInit, Generate, Abandon, CheckAgain, SaveRefused, StoreSecret, OpenFile, FillFile,
          UnlinkFile, TruncateMeta, StartForget, WipeKeyring, WipeFile, WipeMeta, EndForget, Die, history
    <3>2. p \notin Changing
      BY <3>1 DEF ToldInv
    <3>3. UNCHANGED <<backend, keyring, file, meta>>
      BY <1>3, <3>2, OnlyChanging
    <3>4. exists
      BY <3>1 DEF ToldInv, exists, keyring_load, LockInv
    <3>5. pc'[p] \in {"idle", "generate", "save"}
      BY <1>3, <2>3, <3>2, <3>4
      DEF Changing, Command, StartInit, Generate, Abandon, CheckAgain, SaveRefused, StoreSecret, OpenFile, FillFile,
          UnlinkFile, TruncateMeta, StartForget, WipeKeyring, WipeFile, WipeMeta, EndForget, Die,
          Leave, Goto, TypeOK
    <3>6. \A q \in Proc : q # p => pc'[q] = pc[q]
      BY <1>3, Bystander
    <3>7. Changing' = {}
      BY <3>1, <3>5, <3>6 DEF ToldInv, Changing
    <3> QED BY <3>1, <3>3, <3>7 DEF ToldInv
  <2> QED BY <2>1, <2>3 DEF ToldInv
<1> QED BY <1>1, <1>2, <1>3, Zenon DEF Next, Command

\* A secret keeps its owner when inits stay at the steps, or report.
LEMMA OwnedKeeps ==
    ASSUME NEW s, NEW r, NEW t, NEW steps, Owned(s, r, steps), r \subseteq t,
           \A q \in Proc : pc[q] \in steps =>
               new[q] \subseteq t \/ (pc'[q] \in steps /\ new'[q] = new[q])
    PROVE  Owned(s, t, steps)'
<1>1. PICK i \in Id : i.secret = s /\ (i \in r \/ \E q \in Proc : pc[q] \in steps /\ i \in new[q])
  BY DEF Owned
<1>2. CASE i \in r
  BY <1>1, <1>2 DEF Owned
<1>3. ASSUME NEW q \in Proc, pc[q] \in steps, i \in new[q] PROVE Owned(s, t, steps)'
  BY <1>1, <1>3 DEF Owned
<1> QED BY <1>1, <1>2, <1>3

\* Racing inits: the last secret stored has an owner, who has reported or will.
LEMMA RaceStep ==
    ~MayFail /\ KeystoreAssumption /\ TypeOK /\ LockInv /\ NewInv /\ RaceInv /\ [Next]_vars => RaceInv'
<1> SUFFICES ASSUME ~MayFail, KeystoreAssumption, TypeOK, LockInv, NewInv, RaceInv, [Next]_vars
             PROVE  RaceInv'
  OBVIOUS
<1>1. CASE UNCHANGED vars
  BY <1>1 DEF vars, RaceInv, Owned
<1>2. CASE Unlock \/ Lock
  BY <1>2 DEF Unlock, Lock, history, RaceInv, Owned
<1>3. ASSUME NEW p \in Proc, Command(p) PROVE RaceInv'
  <2> DEFINE Calm == \A q \in Proc : pc[q] \notin {"wipe", "wipefile", "wipemeta", "forgot"}
             InRing(r) == \A s \in keyring : Owned(s, r, {"unlink", "meta", "report"})
             InFile(r) ==
                 /\ \A q \in Proc : pc[q] # "unlink" /\ (pc[q] = "fill" => q \in linked)
                 /\ r # {} \/ (\E q \in Proc : pc[q] \in {"fill", "meta", "report"}) => file # {}
                 /\ Torn \in file => \E q \in Proc : pc[q] = "fill"
                 /\ \A s \in file \cap Secret : Owned(s, r, {"meta", "report"})
             Race(r) == Calm /\ InRing(r) /\ (keyring = {} => InFile(r))
  <2>1. SUFFICES ASSUME NEW t \in reported' PROVE Race(t)'
    BY DEF RaceInv
  <2>2. PICK r \in reported :
            IF WriteMeta(p) THEN t = r \cup new[p] ELSE t = r
    BY <1>3, <2>1
    DEF Command, StartInit, Generate, Abandon, CheckAgain, SaveRefused, StoreSecret, OpenFile, FillFile,
        UnlinkFile, TruncateMeta, WriteMeta, StartForget, WipeKeyring, WipeFile, WipeMeta, EndForget,
        Die, history
  <2>3. Race(r)
    BY DEF RaceInv
  <2> HIDE DEF Race
  <2>4. \A q \in Proc : q # p => pc'[q] = pc[q] /\ new'[q] = new[q]
    BY <1>3, Bystander
  <2>5. ~StartForget(p) /\ ~Die(p)
    BY <2>1 DEF StartForget, Die
  <2>6. ~WipeKeyring(p) /\ ~WipeFile(p) /\ ~WipeMeta(p) /\ ~EndForget(p)
    BY <2>3 DEF Race, WipeKeyring, WipeFile, WipeMeta, EndForget
  <2>l. ASSUME ~UnlinkFile(p), NEW q \in Proc, q # p, q \in linked PROVE q \in linked'
    BY <1>3, <2>l, <2>6, LinkedKept
  <2>8. Calm'
    BY <1>3, <2>3, <2>4, <2>5, <2>6
    DEF Race, Command, StartInit, Generate, Abandon, CheckAgain, SaveRefused, StoreSecret, OpenFile, FillFile,
        UnlinkFile, TruncateMeta, WriteMeta, Leave, Goto, TypeOK
  <2>9. ASSUME pc[p] \in {"idle", "generate", "save"}, pc'[p] \in {"idle", "generate", "save", "store"},
               UNCHANGED <<keyring, file>>, t = r, ~UnlinkFile(p)
        PROVE  Race(t)'
    <3>1. InRing(t)'
      BY <2>3, <2>4, <2>9, OwnedKeeps DEF Race
    <3>2. keyring = {} => InFile(t)'
      <4> SUFFICES ASSUME keyring = {} PROVE InFile(t)'
        OBVIOUS
      <4>1. \A s \in file \cap Secret : Owned(s, t, {"meta", "report"})'
        BY <2>3, <2>4, <2>9, OwnedKeeps DEF Race
      <4>2. \A q \in Proc : pc'[q] # "unlink" /\ (pc'[q] = "fill" => q \in linked')
        BY <2>3, <2>4, <2>l, <2>9 DEF Race
      <4> QED BY <2>3, <2>4, <2>9, <4>1, <4>2 DEF Race
    <3> QED BY <2>8, <2>9, <3>1, <3>2 DEF Race
  <2>10. CASE StoreSecret(p)
    <3>1. PICK i \in Id : new[p] = {i}
      BY <2>10 DEF StoreSecret, OpenFile, NewInv, TypeOK, AtMost
    <3>2. t = r /\ new' = new
      BY <2>2, <2>10 DEF StoreSecret, OpenFile, WriteMeta
    <3>3. CASE keyring' = {i.secret} /\ pc'[p] = "unlink"
      <4>1. Owned(i.secret, t, {"unlink", "meta", "report"})'
        BY <3>1, <3>2, <3>3 DEF Owned
      <4> QED BY <2>8, <3>3, <4>1 DEF Race
    <3>4. CASE keyring = {} /\ OpenFile(p)
      <4>1. /\ keyring = {} /\ keyring' = {} /\ file' = {Torn} /\ pc'[p] = "fill"
            /\ p \in linked' /\ ~UnlinkFile(p)
        BY <2>10, <3>4 DEF StoreSecret, OpenFile, UnlinkFile, Goto, TypeOK
      <4>2. \A q \in Proc : pc'[q] # "unlink" /\ (pc'[q] = "fill" => q \in linked')
        BY <2>3, <2>4, <2>l, <4>1 DEF Race
      <4> QED BY <2>8, <4>1, <4>2 DEF Race, KeystoreAssumption
    <3> QED BY <2>10, <3>1, <3>3, <3>4 DEF StoreSecret, LockInv, Goto, TypeOK
  <2>11. CASE FillFile(p)
    <3>1. PICK i \in Id : new[p] = {i}
      BY <2>11 DEF FillFile, NewInv, TypeOK, AtMost
    <3>2. /\ t = r /\ new' = new /\ keyring' = keyring /\ pc[p] = "fill" /\ pc'[p] = "meta"
          /\ ~UnlinkFile(p)
      BY <2>2, <2>11 DEF FillFile, UnlinkFile, WriteMeta, Goto, TypeOK
    <3>3. InRing(t)'
      BY <2>3, <2>4, <3>2, OwnedKeeps DEF Race
    <3>4. ASSUME keyring = {} PROVE InFile(t)'
      <4>1. file' = {i.secret}
        BY <2>3, <2>11, <3>1, <3>2, <3>4 DEF Race, FillFile
      <4>2. Owned(i.secret, t, {"meta", "report"})'
        BY <3>1, <3>2 DEF Owned
      <4>3. \A q \in Proc : pc'[q] # "unlink" /\ (pc'[q] = "fill" => q \in linked')
        BY <2>3, <2>4, <2>l, <3>2, <3>4 DEF Race
      <4>4. Torn \notin file'
        BY <4>1 DEF KeystoreAssumption, Id
      <4> QED BY <4>1, <4>2, <4>3, <4>4
    <3> QED BY <2>8, <3>2, <3>3, <3>4 DEF Race
  <2>12. CASE UnlinkFile(p)
    <3>1. t = r /\ new' = new /\ keyring' = keyring /\ pc[p] = "unlink" /\ pc'[p] = "meta"
      BY <2>2, <2>12 DEF UnlinkFile, WriteMeta, Goto, TypeOK
    <3>2. keyring # {}
      BY <2>3, <3>1 DEF Race
    <3>3. InRing(t)'
      BY <2>3, <2>4, <3>1, OwnedKeeps DEF Race
    <3> QED BY <2>8, <3>1, <3>2, <3>3 DEF Race
  <2>13. CASE TruncateMeta(p) \/ WriteMeta(p)
    <3>1. /\ r \subseteq t /\ UNCHANGED <<keyring, file>> /\ pc[p] \in {"meta", "report"}
          /\ new[p] \subseteq t \/ (pc'[p] = "report" /\ new'[p] = new[p])
          /\ pc'[p] \in {"report", "idle"}
          /\ t = r \cup new[p] \/ t = r
          /\ ~UnlinkFile(p)
      BY <2>2, <2>13 DEF UnlinkFile, TruncateMeta, WriteMeta, Goto, TypeOK, Leave
    <3>2. InRing(t)'
      BY <2>3, <2>4, <3>1, OwnedKeeps DEF Race
    <3>3. ASSUME keyring = {} PROVE InFile(t)'
      <4>1. \A s \in file \cap Secret : Owned(s, t, {"meta", "report"})'
        BY <2>3, <2>4, <3>1, <3>3, OwnedKeeps DEF Race
      <4>2. file # {}
        BY <2>3, <3>1, <3>3 DEF Race
      <4>3. \A q \in Proc : pc'[q] # "unlink" /\ (pc'[q] = "fill" => q \in linked')
        BY <2>3, <2>4, <2>l, <3>1, <3>3 DEF Race
      <4> QED BY <2>3, <2>4, <3>1, <3>3, <4>1, <4>2, <4>3 DEF Race
    <3> QED BY <2>8, <3>1, <3>2, <3>3 DEF Race
  <2>14. CASE \/ \E forced \in BOOLEAN : StartInit(p, forced)
              \/ \E s \in Secret, len \in Lens : Generate(p, s, len)
              \/ Abandon(p) \/ CheckAgain(p) \/ SaveRefused(p)
    <3>1. pc[p] \in {"idle", "generate", "save"} /\ pc'[p] \in {"idle", "generate", "save", "store"}
      BY <2>14 DEF StartInit, Generate, Abandon, CheckAgain, SaveRefused, Leave, Goto, TypeOK
    <3>2. UNCHANGED <<keyring, file>>
      BY <2>14 DEF StartInit, Generate, Abandon, CheckAgain, SaveRefused, stores
    <3>3. t = r /\ ~UnlinkFile(p)
      BY <2>2, <3>1 DEF WriteMeta, UnlinkFile
    <3> QED BY <2>9, <3>1, <3>2, <3>3
  <2> QED BY <1>3, <2>5, <2>6, <2>10, <2>11, <2>12, <2>13, <2>14 DEF Command
<1> QED BY <1>1, <1>2, <1>3, Zenon DEF Next, Command

-----------------------------------------------------------------------------
(* The search *)

Done == {w \in Worker : worker[w] = "done"}

\* Threads can be counted.
LEMMA DoneFinite ==
    ASSUME VanityAssumption
    PROVE  /\ IsFiniteSet(Done) /\ Cardinality(Done) \in Nat
           /\ Cardinality(Worker) \in Nat /\ Cardinality(Done) <= Cardinality(Worker)
<1>1. Done \subseteq Worker /\ IsFiniteSet(Worker)
  BY DEF Done, VanityAssumption
<1> QED BY <1>1, FS_Subset, FS_CardinalityType

LEMMA DoneFinite2 ==
    ASSUME VanityAssumption
    PROVE  /\ IsFiniteSet(Done') /\ Cardinality(Done') \in Nat
           /\ Cardinality(Done') <= Cardinality(Worker)
<1>1. Done' \subseteq Worker /\ IsFiniteSet(Worker)
  BY DEF Done, VanityAssumption
<1> QED BY <1>1, FS_Subset, FS_CardinalityType

\* Grind counts as everyone does.
LEMMA SameCardinality == \A S : G!Cardinality(S) = Cardinality(S)
BY Zenon DEF G!Cardinality, Cardinality

GInv == G!TypeOK /\ SearchInv

\* The type of the parts of a search apart from the bound on the channel.
Parts ==
    /\ worker \in [Worker -> {"off", "check", "batch", "send", "done"}]
    /\ hold \in [Worker -> {{}} \cup {{k} : k \in Vanity}]
    /\ abort \in BOOLEAN
    /\ channel \in Seq(Vanity)
    /\ reporter \in {"off", "wait", "timeout", "joining", "returned"}
    /\ result \in {{}} \cup {{k} : k \in Vanity}
    /\ interrupted \in BOOLEAN

\* The bound on the channel follows from SearchInv.
LEMMA GInvParts ==
    ASSUME VanityAssumption
    PROVE  /\ GInv => Parts
           /\ Parts /\ SearchInv => GInv
<1>1. GInv => Parts
  BY DEF GInv, G!TypeOK, Parts
<1>2. Parts /\ SearchInv => GInv
  <2> SUFFICES ASSUME Parts, SearchInv PROVE Len(channel) <= Cardinality(Worker)
    BY SameCardinality, Zenon DEF GInv, G!TypeOK, Parts
  <2>1. Len(channel) \in Nat
    BY DEF Parts
  <2>2. Len(channel) <= Cardinality(Done)
    BY DEF SearchInv, Done
  <2> QED BY <2>1, <2>2, DoneFinite
<1> QED BY <1>1, <1>2

LEMMA GInvParts2 ==
    ASSUME VanityAssumption, Parts', SearchInv'
    PROVE  GInv'
<1>1. Len(channel') <= Cardinality(Worker)
  <2>1. Len(channel') \in Nat
    BY DEF Parts
  <2>2. Len(channel') <= Cardinality(Done')
    BY DEF SearchInv, Done
  <2> QED BY <2>1, <2>2, DoneFinite2, DoneFinite
<1> QED BY <1>1, SameCardinality, Zenon DEF GInv, G!TypeOK, Parts

LEMMA RestInv == VanityAssumption /\ G!Rest => GInv
<1> SUFFICES ASSUME VanityAssumption, G!Rest PROVE Parts /\ SearchInv
  BY GInvParts
<1>1. Parts
  <2>1. worker \in [Worker -> {"off", "check", "batch", "send", "done"}]
    BY DEF G!Rest
  <2>2. hold \in [Worker -> {{}} \cup {{k} : k \in Vanity}]
    BY DEF G!Rest
  <2>3. channel \in Seq(Vanity)
    BY DEF G!Rest
  <2> QED BY <2>1, <2>2, <2>3 DEF G!Rest, Parts
<1>2. SearchInv
  <2>1. Len(channel) = 0 /\ channel = <<>> /\ \A w \in Worker : worker[w] = "off"
    BY DEF G!Rest
  <2> QED BY <2>1, DoneFinite DEF SearchInv, Done
<1> QED BY <1>1, <1>2

\* The start and the end of a search empty the channel.
LEMMA TurnInv ==
    ASSUME VanityAssumption, GInv, G!Begin \/ G!Clear
    PROVE  GInv'
<1>1. Parts
  BY GInvParts
<1>2. channel' = <<>>
  BY DEF G!Begin, G!Clear, GInv, SearchInv
<1>3. Parts'
  <2>1. channel' \in Seq(Vanity)
    BY <1>2
  <2>2. CASE G!Begin
    BY <1>1, <2>1, <2>2 DEF G!Begin, Parts
  <2>3. CASE G!Clear
    <3>1. hold' \in [Worker -> {{}} \cup {{k} : k \in Vanity}]
      BY <2>3 DEF G!Clear
    <3> QED BY <2>1, <2>3, <3>1 DEF G!Clear, Parts
  <2> QED BY <2>2, <2>3
<1>4. SearchInv'
  <2>1. /\ Len(channel') = 0
        /\ reporter' = "off" => \A w \in Worker : worker'[w] = "off"
    BY <1>2 DEF G!Begin, G!Clear
  <2> QED BY <1>2, <2>1, DoneFinite2 DEF SearchInv, Done
<1> QED BY <1>3, <1>4, GInvParts2

\* A key is sent when a thread ends: the channel and the count grow together.
LEMMA WorkInv ==
    ASSUME VanityAssumption, GInv, NEW w \in Worker, G!Work(w)
    PROVE  GInv'
<1>1. /\ Parts /\ Len(channel) <= Cardinality(Done) /\ Len(channel) \in Nat
      /\ reporter = "off" => channel = <<>> /\ \A v \in Worker : worker[v] = "off"
  BY GInvParts DEF GInv, SearchInv, Done, Parts
<1> SUFFICES Parts' /\ Len(channel') <= Cardinality(Done') /\ reporter' # "off"
  BY GInvParts2 DEF SearchInv, Done
<1>2. worker[w] # "off" /\ reporter' = reporter
  BY DEF G!Work, G!Check, G!Miss, G!Hit, G!Send, G!At
<1>3. reporter' # "off"
  BY <1>1, <1>2
<1>4. CASE G!Check(w) \/ G!Miss(w) \/ \E k \in Vanity : G!Hit(w, k)
  <2>1. Parts'
    <3>1. CASE G!Check(w) \/ G!Miss(w)
      BY <1>1, <3>1 DEF G!Check, G!Miss, G!At, Parts
    <3>2. ASSUME NEW k \in Vanity, G!Hit(w, k) PROVE Parts'
      BY <1>1, <3>2 DEF G!Hit, G!At, Parts
    <3> QED BY <1>4, <3>1, <3>2
  <2>2. UNCHANGED channel
    BY <1>4 DEF G!Check, G!Miss, G!Hit
  <2>3. Done \subseteq Done'
    BY <1>1, <1>4 DEF G!Check, G!Miss, G!Hit, G!At, Parts, Done
  <2>4. Cardinality(Done) <= Cardinality(Done')
    BY <2>3, DoneFinite2, FS_Subset
  <2> QED BY <1>1, <2>1, <2>2, <2>4, <1>3, DoneFinite, DoneFinite2
<1>5. CASE G!Send(w)
  <2>1. PICK k \in Vanity : channel' = Append(channel, k)
    BY <1>1, <1>5 DEF G!Send, Parts
  <2>2. Parts' /\ Len(channel') = Len(channel) + 1
    BY <1>1, <1>5, <2>1 DEF G!Send, G!At, Parts
  <2>3. Done' = Done \cup {w} /\ w \notin Done
    BY <1>1, <1>5 DEF G!Send, G!At, Parts, Done
  <2>4. Cardinality(Done') = Cardinality(Done) + 1
    BY <2>3, DoneFinite, FS_AddElement
  <2> QED BY <1>1, <2>2, <2>4, <1>3, DoneFinite
<1> QED BY <1>4, <1>5 DEF G!Work

\* The reporter only takes keys out.
LEMMA ReportInv ==
    ASSUME VanityAssumption, GInv, G!Report \/ G!CtrlC
    PROVE  GInv'
<1>1. Parts /\ Len(channel) <= Cardinality(Done) /\ Len(channel) \in Nat
  BY GInvParts DEF GInv, SearchInv, Done, Parts
<1> SUFFICES Parts' /\ Len(channel') <= Cardinality(Done') /\ reporter' # "off"
  BY GInvParts2 DEF SearchInv, Done
<1>2. reporter' # "off" /\ Done' = Done
  BY DEF G!Report, G!CtrlC, G!Receive, G!TimeOut, G!CheckAbort, G!Disconnected, G!Join, Done
<1>3. CASE G!Receive
  <2>1. Head(channel) \in Vanity /\ Tail(channel) \in Seq(Vanity) /\ Len(Tail(channel)) = Len(channel) - 1
    BY <1>1, <1>3 DEF G!Receive, Parts
  <2>2. Parts'
    BY <1>1, <1>3, <2>1 DEF G!Receive, Parts
  <2> QED BY <1>1, <1>2, <1>3, <2>1, <2>2, DoneFinite DEF G!Receive
<1>4. CASE G!TimeOut \/ G!CheckAbort \/ G!Disconnected \/ G!Join \/ G!CtrlC
  <2>1. Parts' /\ channel' = channel
    BY <1>1, <1>4 DEF G!TimeOut, G!CheckAbort, G!Disconnected, G!Join, G!CtrlC, Parts
  <2> QED BY <1>1, <1>2, <2>1
<1> QED BY <1>3, <1>4 DEF G!Report

-----------------------------------------------------------------------------
(* The composition *)

CInv == TypeOK /\ GInv /\ grinder \in {{}} \cup {{p} : p \in Proc}

LEMMA CInitInv == VanityAssumption /\ CInit => CInv
<1> SUFFICES ASSUME VanityAssumption, CInit PROVE CInv
  OBVIOUS
<1>1. TypeOK
  BY DEF CInit, Init, TypeOK, AtMost, Steps
<1> QED BY <1>1, RestInv DEF CInit, CInv

\* What a step of the composition is to the keystore and to the search.
LEMMA Projection ==
    ASSUME VanityAssumption, CInv, [CNext]_allVars
    PROVE  /\ [Next]_vars
           /\ \/ UNCHANGED <<grinder, search>>
              \/ UNCHANGED grinder /\ (G!Report \/ G!CtrlC \/ \E w \in Worker : G!Work(w))
              \/ (\E p \in Proc : grinder' = {p}) /\ G!Begin
              \/ grinder' = {} /\ G!Clear
<1>1. CASE UNCHANGED allVars
  BY <1>1 DEF allVars
<1>2. CASE Reporting \/ Interrupt \/ \E w \in Worker : Working(w)
  BY <1>2 DEF Reporting, Interrupt, Working
<1>3. CASE Elsewhere
  BY <1>3, Zenon DEF Elsewhere, Next, Save, Forget
<1>4. ASSUME NEW p \in Proc, BeginGrind(p) \/ RefusePrefix(p) \/ GiveUp(p) \/ DieGrinding(p)
      PROVE  /\ [Next]_vars
             /\ \/ UNCHANGED <<grinder, search>>
                \/ (\E q \in Proc : grinder' = {q}) /\ G!Begin
                \/ grinder' = {} /\ G!Clear
  BY <1>4, Zenon DEF BeginGrind, RefusePrefix, GiveUp, DieGrinding, EndGrind, Next
<1>5. ASSUME NEW p \in Proc, NEW len \in Lens, UseKey(p, len)
      PROVE  [Next]_vars /\ grinder' = {} /\ G!Clear
  <2>1. PICK k \in result : Generate(p, k, len)
    BY <1>5 DEF UseKey
  <2>2. k \in Secret
    <3>1. result \in {{}} \cup {{v} : v \in Vanity} /\ Vanity \subseteq Secret
      BY GInvParts DEF CInv, Parts, VanityAssumption
    <3> QED BY <3>1
  <2> QED BY <1>5, <2>1, <2>2, Zenon DEF UseKey, EndGrind, Next
<1> QED BY <1>1, <1>2, <1>3, <1>4, <1>5, Zenon DEF CNext

\* Types, here and after every step.
LEMMA CStep == VanityAssumption /\ CInv /\ [CNext]_allVars => CInv'
<1> SUFFICES ASSUME VanityAssumption, CInv, [CNext]_allVars PROVE CInv'
  OBVIOUS
<1>1. TypeOK'
  BY Projection, TypeStep DEF CInv
<1>2. CASE UNCHANGED <<grinder, search>>
  <2>1. GInv'
    BY <1>2 DEF CInv, GInv, G!TypeOK, SearchInv, search
  <2> QED BY <1>1, <1>2, <2>1 DEF CInv
<1>3. CASE UNCHANGED grinder /\ (G!Report \/ G!CtrlC \/ \E w \in Worker : G!Work(w))
  <2>1. GInv'
    BY <1>3, WorkInv, ReportInv DEF CInv
  <2> QED BY <1>1, <1>3, <2>1 DEF CInv
<1>4. CASE (\E p \in Proc : grinder' = {p}) /\ G!Begin
  <2>1. GInv'
    BY <1>4, TurnInv DEF CInv
  <2> QED BY <1>1, <1>4, <2>1 DEF CInv
<1>5. CASE grinder' = {} /\ G!Clear
  <2>1. GInv'
    BY <1>5, TurnInv DEF CInv
  <2> QED BY <1>1, <1>5, <2>1 DEF CInv
<1> QED BY <1>2, <1>3, <1>4, <1>5, Projection

\* The composition keeps its types and takes steps of the keystore.
LEMMA CSpecInv == CSpec => []CInv /\ Init /\ [][Next]_vars
<1>1. CInit => CInv
  BY CInitInv, VanityAssumption
<1>2. CInv /\ [CNext]_allVars => CInv'
  BY CStep, VanityAssumption
<1>3. CInv /\ [CNext]_allVars => [Next]_vars
  BY Projection, VanityAssumption
<1>4. CInit => Init
  BY DEF CInit
<1>5. CSpec => CInit /\ [][CNext]_allVars
  BY PTL DEF CSpec
<1> QED BY <1>1, <1>2, <1>3, <1>4, <1>5, PTL

\* InitCommand implements Keystore: init with a vanity search does nothing to the
\* profile that Keystore, where a key appears in one step, does not allow.  However
\* the threads, the reporter and Ctrl-C interleave, the key handed on is a secret
\* that no init has had, and a search without a key ends as an init that was
\* abandoned.  (cmd_init around grind)
THEOREM SearchIsGenerate == CSpec => Spec
BY CSpecInv, PTL DEF Spec

\* The types of the stores, of the commands and of the search, among them that the
\* channel never holds more keys than there are threads.
THEOREM TypeCorrect == CSpec => []CTypeOK
<1>1. CInv => CTypeOK
  BY DEF CInv, CTypeOK, GInv
<1> QED BY <1>1, CSpecInv, PTL

LEMMA InitInv == Init => IInv
<1> SUFFICES ASSUME Init PROVE IInv
  OBVIOUS
<1>1. TypeOK
  BY DEF Init, TypeOK, AtMost, Steps
<1>2. \A p \in Proc : pc[p] = "idle"
  BY DEF Init
<1>3. RaceInv
  BY <1>2 DEF Init, RaceInv
<1> QED
  BY <1>1, <1>2, <1>3
  DEF Init, IInv, LockInv, NewInv, AloneInv, Changing, SaveInv, ForgetInv, ToldInv

LEMMA StepInv == ~MayFail /\ IInv /\ [Next]_vars => IInv'
BY TypeStep, LockStep, NewStep, AloneStep, SaveStep, ForgetStep, ToldStep, RaceStep,
   KeystoreAssumption, Zenon
DEF IInv

LEMMA SpecInv == ASSUME ~MayFail PROVE CSpec => []IInv
<1>1. IInv /\ [Next]_vars => IInv'
  BY StepInv
<1> QED BY <1>1, InitInv, CSpecInv, PTL

\* What init reported is what later commands load, for any number of processes,
\* secrets, lengths and threads, if a keyring that holds the secret stays in
\* reach.  (save, load, load_keyid_len)
THEOREM ReportedIsLoaded == ASSUME ~MayFail PROVE CSpec => []InitSticks
<1>1. IInv => InitSticks
  <2> SUFFICES ASSUME IInv, NEW t \in told PROVE Loaded = {t}
    BY DEF InitSticks
  <2>1. t \in Id
    BY DEF IInv, TypeOK, AtMost
  <2>2. t.secret \in Secret /\ t.len \in Lens /\ t = [secret |-> t.secret, len |-> t.len]
    BY <2>1 DEF Id
  <2>3. load = {t.secret}
    BY <2>2 DEF IInv, ToldInv, LockInv, load, keyring_load
  <2>4. load_keyid_len = {t.len}
    BY <2>2 DEF IInv, ToldInv, load_keyid_len
  <2>5. Loaded = {[secret |-> t.secret, len |-> t.len]}
    BY <2>3, <2>4 DEF Loaded
  <2> QED BY <2>2, <2>5
<1> QED BY <1>1, SpecInv, PTL

\* Once forget has reported and no other command overlapped it, neither store
\* holds the secret.  (forget)
THEOREM ForgottenIsGone == ASSUME ~MayFail PROVE CSpec => []ForgetForgets
<1>1. IInv => ForgetForgets
  BY DEF IInv, ForgetInv, ForgetForgets
<1> QED BY <1>1, SpecInv, PTL

\* However many inits race on a profile, when they are through one of the
\* identities they reported is the one that loads.  (exists and save)
THEOREM RacersAgree == ASSUME ~MayFail PROVE CSpec => []RacingInits
<1>1. IInv => RacingInits
  <2> SUFFICES ASSUME IInv, NEW r \in reported, \A p \in Proc : pc[p] = "idle", r # {}
               PROVE  \E i \in r : load = {i.secret}
    BY DEF RacingInits
  <2>1. RaceInv /\ TypeOK /\ LockInv
    BY DEF IInv
  <2>2. CASE keyring # {}
    <3>1. PICK s \in Secret : keyring = {s}
      BY <2>1, <2>2 DEF TypeOK, AtMost
    <3>2. PICK i \in Id : i.secret = s /\ i \in r
      BY <2>1, <3>1 DEF RaceInv, Owned
    <3> QED BY <2>1, <3>1, <3>2 DEF load, keyring_load, LockInv
  <2>3. CASE keyring = {}
    <3>1. file # {} /\ Torn \notin file
      BY <2>1, <2>3 DEF RaceInv
    <3>2. PICK s \in Secret : file = {s}
      BY <2>1, <3>1 DEF TypeOK, AtMost
    <3>3. PICK i \in Id : i.secret = s /\ i \in r
      BY <2>1, <2>3, <3>2 DEF RaceInv, Owned
    <3> QED BY <2>3, <3>2, <3>3 DEF load, keyring_load
  <2> QED BY <2>2, <2>3
<1> QED BY <1>1, SpecInv, PTL

\* init without --force never replaces an identity that commands can load, unless
\* another command changes the stores during its save.  (exists, in cmd_init and
\* save)
THEOREM InitNeverClobbers == ASSUME ~MayFail PROVE CSpec => NeverClobbers
<1> DEFINE Kept == \A p \in Proc : pc[p] \in {"store", "fill"} /\ ~force[p] /\ alone[p] /\ load # {}
                      => load' = load
<1>1. IInv => Kept
  <2> SUFFICES ASSUME IInv, NEW p \in Proc, pc[p] \in {"store", "fill"}, ~force[p], alone[p]
               PROVE  load = {}
    OBVIOUS
  <2>1. keyring = {} /\ (file = {} \/ file = {Torn})
    BY DEF IInv, SaveInv
  <2> QED BY <2>1, KeystoreAssumption DEF load, keyring_load, KeystoreAssumption
<1>2. CSpec => [][Kept]_vars
  BY <1>1, SpecInv, PTL
<1> QED BY <1>2 DEF NeverClobbers
=============================================================================
