------------------------------ MODULE Keystore ------------------------------
(***************************************************************************)
(* The identity of a profile on disk: crates/cli/src/keystore.rs, and the  *)
(* commands of main.rs that use it (init, forget, and the ones that load   *)
(* the identity).  Three places hold state: the OS keyring, the key file   *)
(* and the file with the keyid length; each of them is changed by a step of*)
(* its own, and a command may die, or a write fail, between any two steps. *)
(*                                                                         *)
(* The keyring backend may be out of reach (no Secret Service, locked): an *)
(* entry is then neither read, written nor deleted.  In reach, it may still*)
(* refuse to take a secret.                                                *)
(***************************************************************************)
EXTENDS Integers, FiniteSets

CONSTANTS
    Proc,         \* processes that run commands on the profile
    Secret,       \* 32-byte secrets; each is generated once
    Lens,         \* keyid lengths that check_keyid_len accepts
    DefaultLen,   \* DEFAULT_KEYID_LEN
    Torn,         \* content of a file that was emptied and not yet written
    MayFail       \* whether a keyring that holds the secret may fail: go out of
                  \* reach, or refuse to replace or to delete it

ASSUME KeystoreAssumption ==
    /\ IsFiniteSet(Secret)
    /\ DefaultLen \in Lens
    /\ MayFail \in BOOLEAN
    /\ Torn \notin Secret /\ Torn \notin Lens

VARIABLES
    backend,   \* the keyring is in reach
    keyring,   \* its entry for the profile: {} or {secret}
    file,      \* identity.key: {} if absent, {Torn} while incomplete, {secret}
    linked,    \* the processes whose open key file is the one in the directory
    meta,      \* keyid_len: {} if absent, {Torn} while incomplete, {len}
    pc,        \* [Proc -> step of the command it runs]
    force,     \* [Proc -> --force of its init]
    new,       \* [Proc -> what its init is saving: {} or {[secret, len]}]
    used,      \* secrets that have been generated
    told,      \* history: what the last init reported whose save no other
               \* command overlapped, until a forced save or forget starts
    alone,     \* history: [Proc -> no other command has overlapped its save]
    reported   \* history: everything inits reported, as long as all saves are
               \* without --force and no command has died: {} or {set}

stores == <<backend, keyring, file, meta>>
history == <<told, alone, reported>>
vars == <<backend, keyring, file, linked, meta, pc, force, new, used, told, alone, reported>>

Id == [secret : Secret, len : Lens]

Init ==
    /\ backend \in BOOLEAN
    /\ keyring = {} /\ file = {} /\ linked = {} /\ meta = {}
    /\ pc = [p \in Proc |-> "idle"]
    /\ force = [p \in Proc |-> FALSE]
    /\ new = [p \in Proc |-> {}]
    /\ used = {}
    /\ told = {}
    /\ alone = [p \in Proc |-> TRUE]
    /\ reported = {{}}

\* The keyring comes into reach, or goes out of it.
Unlock ==
    /\ ~backend
    /\ backend' = TRUE
    /\ UNCHANGED <<keyring, file, linked, meta, pc, force, new, used, history>>

Lock ==
    /\ backend
    /\ MayFail \/ keyring = {}
    /\ backend' = FALSE
    /\ UNCHANGED <<keyring, file, linked, meta, pc, force, new, used, history>>

-----------------------------------------------------------------------------
(* Reading *)

keyring_load == IF backend THEN keyring ELSE {}

\* A slip: the file counts first.
load_file_first ==
    IF file # {} THEN file \cap Secret ELSE keyring_load

\* The keyring first, then the file; a file that is not 32 bytes long is an
\* error, and so is the absence of both.
load == IF keyring_load # {} THEN keyring_load ELSE file \cap Secret

load_keyid_len == IF meta = {} THEN {DefaultLen} ELSE meta \cap Lens

\* Any file counts, whatever is in it.
exists == keyring_load # {} \/ file # {}

\* The identity and length that `name', `publish' and `agent' work with.
Loaded == {[secret |-> s, len |-> l] : s \in load, l \in load_keyid_len}

-----------------------------------------------------------------------------
(* init *)

Goto(p, step) == pc' = [pc EXCEPT ![p] = step]

\* The command is over.
Leave(p) ==
    /\ Goto(p, "idle")
    /\ force' = [force EXCEPT ![p] = FALSE]
    /\ new' = [new EXCEPT ![p] = {}]
    /\ alone' = [alone EXCEPT ![p] = TRUE]
    /\ linked' = linked \ {p}

\* The commands that are changing the stores.
Changing == {p \in Proc : pc[p] \notin {"idle", "generate", "save"}}

\* p starts to change the stores: it and the others at it are not alone.
Overlap(p) ==
    alone' = [q \in Proc |-> IF q = p THEN Changing = {}
                             ELSE alone[q] /\ q \notin Changing]

\* cmd_init: an identity that exists is refused unless forced.
StartInit(p, forced) ==
    /\ pc[p] = "idle"
    /\ ~exists \/ forced
    /\ force' = [force EXCEPT ![p] = forced]
    /\ Goto(p, "generate")
    /\ UNCHANGED <<stores, linked, new, used, history>>

\* A key is generated, which takes its time with a vanity prefix (Grind).
Generate(p, s, len) ==
    /\ pc[p] = "generate"
    /\ s \notin used
    /\ new' = [new EXCEPT ![p] = {[secret |-> s, len |-> len]}]
    /\ used' = used \cup {s}
    /\ Goto(p, "save")
    /\ UNCHANGED <<stores, linked, force, history>>

\* The search for a vanity prefix came back without a key.
Abandon(p) ==
    /\ pc[p] = "generate"
    /\ Leave(p)
    /\ UNCHANGED <<stores, used, told, reported>>

\* A slip: what cmd_init saw before the key was generated is relied on.
CheckOnce(p) ==
    /\ pc[p] = "save"
    /\ Goto(p, "store")
    /\ Overlap(p)
    /\ told' = IF force[p] THEN {} ELSE told
    /\ reported' = IF force[p] THEN {} ELSE reported
    /\ UNCHANGED <<stores, linked, force, new, used>>

\* save() looks again, for generating the key may have taken long.
CheckAgain(p) ==
    /\ pc[p] = "save"
    /\ ~exists \/ force[p]
    /\ Goto(p, "store")
    /\ Overlap(p)
    /\ told' = IF force[p] THEN {} ELSE told
    /\ reported' = IF force[p] THEN {} ELSE reported
    /\ UNCHANGED <<stores, linked, force, new, used>>

\* A slip: a save that is refused cleans up the key file.
SaveRefusedCleansUp(p) ==
    /\ pc[p] = "save"
    /\ exists /\ ~force[p]
    /\ file' = {}
    /\ Leave(p)
    /\ UNCHANGED <<backend, keyring, meta, used, told, reported>>

\* An identity has appeared meanwhile: the new key is thrown away.
SaveRefused(p) ==
    /\ pc[p] = "save"
    /\ exists /\ ~force[p]
    /\ Leave(p)
    /\ UNCHANGED <<stores, used, told, reported>>

\* A key file is created or emptied.
OpenFile(p) ==
    /\ file' = {Torn} /\ linked' = linked \cup {p}
    /\ Goto(p, "fill")
    /\ UNCHANGED keyring

\* A slip: the entry is put in place before the secret is there.
StoreEarly(p) ==
    /\ pc[p] = "store"
    /\ \/ backend /\ keyring' = {Torn} /\ Goto(p, "unlink") /\ UNCHANGED <<file, linked>>
       \/ ~backend /\ OpenFile(p)
    /\ UNCHANGED <<backend, meta, force, new, used, history>>

\* The secret goes to the keyring or, if that fails, to a key file.
StoreSecret(p) ==
    /\ pc[p] = "store"
    /\ \/ /\ backend
          /\ keyring' = {i.secret : i \in new[p]}
          /\ Goto(p, "unlink")
          /\ UNCHANGED <<file, linked>>
       \/ /\ backend => MayFail \/ keyring = {}
          /\ OpenFile(p)
    /\ UNCHANGED <<backend, meta, force, new, used, history>>

\* If the file has been unlinked since it was opened, the bytes go with it.
FillFile(p) ==
    /\ pc[p] = "fill"
    /\ file' = IF p \in linked THEN {i.secret : i \in new[p]} ELSE file
    /\ linked' = linked \ {p}
    /\ Goto(p, "meta")
    /\ UNCHANGED <<backend, keyring, meta, force, new, used, history>>

\* With the secret in the keyring a key file is removed; that it may fail is
\* ignored.
UnlinkFile(p) ==
    /\ pc[p] = "unlink"
    /\ file' \in {{}, file}
    /\ linked' = IF file' = {} THEN {} ELSE linked
    /\ Goto(p, "meta")
    /\ UNCHANGED <<backend, keyring, meta, force, new, used, history>>

TruncateMeta(p) ==
    /\ pc[p] = "meta"
    /\ meta' = {Torn}
    /\ Goto(p, "report")
    /\ UNCHANGED <<backend, keyring, file, linked, force, new, used, history>>

\* The length is written and the new name reported.
WriteMeta(p) ==
    /\ pc[p] = "report"
    /\ meta' = {i.len : i \in new[p]}
    /\ told' = IF alone[p] THEN new[p] ELSE {}
    /\ reported' = {r \cup new[p] : r \in reported}
    /\ Leave(p)
    /\ UNCHANGED <<backend, keyring, file, used>>

-----------------------------------------------------------------------------
(* forget *)

StartForget(p) ==
    /\ pc[p] = "idle"
    /\ Goto(p, "wipe")
    /\ Overlap(p)
    /\ told' = {}
    /\ reported' = {}
    /\ UNCHANGED <<stores, linked, force, new, used>>

\* A failure to delete the entry is ignored.
WipeKeyring(p) ==
    /\ pc[p] = "wipe"
    /\ \/ backend /\ keyring' = {}
       \/ (backend => MayFail) /\ UNCHANGED keyring
    /\ Goto(p, "wipefile")
    /\ UNCHANGED <<backend, file, linked, meta, force, new, used, history>>

\* A slip: the key file is looked for only when the keyring had nothing.
WipeFileUnlessKeyring(p) ==
    /\ pc[p] = "wipefile"
    /\ IF backend THEN UNCHANGED <<file, linked>> ELSE file' = {} /\ linked' = {}
    /\ Goto(p, "wipemeta")
    /\ UNCHANGED <<backend, keyring, meta, force, new, used, history>>

WipeFile(p) ==
    /\ pc[p] = "wipefile"
    /\ file' = {} /\ linked' = {}
    /\ Goto(p, "wipemeta")
    /\ UNCHANGED <<backend, keyring, meta, force, new, used, history>>

\* A failure to remove the length is ignored.
WipeMeta(p) ==
    /\ pc[p] = "wipemeta"
    /\ meta' \in {{}, meta}
    /\ Goto(p, "forgot")
    /\ UNCHANGED <<backend, keyring, file, linked, force, new, used, history>>

\* The command has reported what it removed.
EndForget(p) ==
    /\ pc[p] = "forgot"
    /\ Leave(p)
    /\ UNCHANGED <<stores, used, told, reported>>

\* A write fails, or the process is killed: what is done stays done.
Die(p) ==
    /\ pc[p] # "idle"
    /\ Leave(p)
    /\ reported' = {}
    /\ UNCHANGED <<stores, used, told>>

-----------------------------------------------------------------------------

Next ==
    \/ Unlock \/ Lock
    \/ \E p \in Proc :
        \/ \E forced \in BOOLEAN : StartInit(p, forced)
        \/ \E s \in Secret, len \in Lens : Generate(p, s, len)
        \/ Abandon(p) \/ CheckAgain(p) \/ SaveRefused(p)
        \/ StoreSecret(p) \/ FillFile(p) \/ UnlinkFile(p)
        \/ TruncateMeta(p) \/ WriteMeta(p)
        \/ StartForget(p) \/ WipeKeyring(p) \/ WipeFile(p) \/ WipeMeta(p)
        \/ EndForget(p)
        \/ Die(p)

Spec == Init /\ [][Next]_vars

-----------------------------------------------------------------------------
(* Properties *)

\* At most one member of S.
AtMost(S) == {{}} \cup {{x} : x \in S}

Steps == {"idle", "generate", "save", "store", "fill", "unlink", "meta", "report",
          "wipe", "wipefile", "wipemeta", "forgot"}

\* Type invariant: each store holds at most one thing, and what save() puts into
\* the keyring is a whole secret.
TypeOK ==
    /\ backend \in BOOLEAN
    /\ keyring \in AtMost(Secret)
    /\ file \in {{Torn}} \cup AtMost(Secret)
    /\ linked \subseteq Proc
    /\ meta \in {{Torn}} \cup AtMost(Lens)
    /\ pc \in [Proc -> Steps]
    /\ force \in [Proc -> BOOLEAN]
    /\ new \in [Proc -> AtMost(Id)]
    /\ used \subseteq Secret
    /\ told \in AtMost(Id)
    /\ alone \in [Proc -> BOOLEAN]
    /\ reported \in AtMost(SUBSET Id)

\* What init reported is what later commands load - key and keyid length, from
\* whichever of the two stores holds it, whatever commands died since and
\* whatever they left half done before, however many inits were generating keys
\* when it was saved - until a forced save or forget starts, unless another
\* command was changing the stores during that save.  (save, load, load_keyid_len)
InitSticks == \A t \in told : Loaded = {t}

\* Inits that race (two games that are run for the first time) may overwrite
\* each other, but when they are all through, an identity is there and it is one
\* of those that were reported.  (exists and save, which are not atomic)
RacingInits ==
    \A r \in reported :
        (\A p \in Proc : pc[p] = "idle") /\ r # {} => \E i \in r : load = {i.secret}

\* init without --force never replaces an identity that commands can load, be it
\* one that appeared while the key was generated, unless another command is
\* changing the stores during its save.  (exists, called by cmd_init and save)
NeverClobbers ==
    [][\A p \in Proc : pc[p] \in {"store", "fill"} /\ ~force[p] /\ alone[p] /\ load # {}
          => load' = load]_vars

\* Once forget has reported, no copy of the secret is left in either store,
\* unless another command overlapped it.
ForgetForgets ==
    (\E p \in Proc : pc[p] = "forgot" /\ alone[p]) => keyring = {} /\ file = {}

\* The comment on exists(): an identity is found in the keyring or the file "so
\* `init` won't clobber it".  Read as: while what an init reported stands, an init
\* without --force never gets commands to work under another identity, the
\* keyring in reach or not.
NeverAnotherIdentity ==
    \A p \in Proc, t \in told :
        pc[p] \in {"meta", "report"} /\ ~force[p] => load \subseteq {t.secret}

-----------------------------------------------------------------------------
(* What the properties rest on: an inductive invariant, for a keyring that   *)
(* does not fail while it holds the secret.                                  *)

\* The secret is in reach of the steps that have to find it.
LockInv == keyring # {} => backend

\* An init has its key from the moment it is generated.
NewInv ==
    \A p \in Proc :
        pc[p] \in {"save", "store", "fill", "unlink", "meta", "report"} => new[p] # {}

\* A command that still counts as alone is the only one that changes the stores.
AloneInv == \A p, q \in Changing : alone[p] => q = p

\* The secret that p is saving is the one that commands load.
InPlace(p) ==
    \E i \in new[p] : keyring = {i.secret} \/ (keyring = {} /\ file = {i.secret})

\* How far a save has come that nobody overlapped.
SaveInv ==
    \A p \in Proc : alone[p] =>
        /\ pc[p] = "store" /\ ~force[p] => keyring = {} /\ file = {}
        /\ pc[p] = "fill" => keyring = {} /\ file = {Torn} /\ p \in linked
        /\ pc[p] = "unlink" => \E i \in new[p] : keyring = {i.secret}
        /\ pc[p] \in {"meta", "report"} => InPlace(p)

\* How far a forget has come that nobody overlapped.
ForgetInv ==
    \A p \in Proc : alone[p] =>
        /\ pc[p] \in {"wipefile", "wipemeta", "forgot"} => keyring = {}
        /\ pc[p] \in {"wipemeta", "forgot"} => file = {}

\* While a report stands, what it said is in the stores and nobody is changing
\* them: the next one to try finds the identity.
ToldInv ==
    \A t \in told :
        /\ Changing = {}
        /\ keyring = {t.secret} \/ (keyring = {} /\ file = {t.secret})
        /\ meta = {t.len}

\* s was reported, or is the key of an init that is at one of the steps.
Owned(s, r, steps) ==
    \E i \in Id :
        /\ i.secret = s
        /\ i \in r \/ \E p \in Proc : pc[p] \in steps /\ i \in new[p]

\* As long as only inits without --force run, a secret in the keyring is there to
\* stay and belongs to one of them; without one a key file that an init has
\* created is never unlinked, and an incomplete one is being filled.
RaceInv ==
    \A r \in reported :
        /\ \A p \in Proc : pc[p] \notin {"wipe", "wipefile", "wipemeta", "forgot"}
        /\ \A s \in keyring : Owned(s, r, {"unlink", "meta", "report"})
        /\ keyring = {} =>
            /\ \A p \in Proc : pc[p] # "unlink" /\ (pc[p] = "fill" => p \in linked)
            /\ r # {} \/ (\E p \in Proc : pc[p] \in {"fill", "meta", "report"}) => file # {}
            /\ Torn \in file => \E p \in Proc : pc[p] = "fill"
            /\ \A s \in file \cap Secret : Owned(s, r, {"meta", "report"})

IInv ==
    /\ TypeOK /\ LockInv /\ NewInv /\ AloneInv
    /\ SaveInv /\ ForgetInv /\ ToldInv /\ RaceInv
=============================================================================
