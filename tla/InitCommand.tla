---------------------------- MODULE InitCommand -----------------------------
(***************************************************************************)
(* init with a vanity prefix: the keystore (Keystore) together with the    *)
(* search for a key (Grind), which cmd_init of crates/cli/src/main.rs runs *)
(* between its check that no identity exists and the save of the new one.  *)
(* The search takes minutes, so other commands run on the profile          *)
(* meanwhile.  One search is on at a time.                                 *)
(***************************************************************************)
EXTENDS Keystore, Sequences

CONSTANTS Worker,   \* threads of a search
          Vanity,   \* the secrets whose keyid starts with the prefix
          Wanting,  \* processes whose init has a prefix to search for
          PrefixLen, PrefixBase32,   \* its length, and whether it is base32
          MaxKeyidLen                \* MAX_KEYID_LEN

ASSUME VanityAssumption ==
    /\ IsFiniteSet(Worker)
    /\ Vanity \subseteq Secret /\ Wanting \subseteq Proc
    /\ PrefixLen \in Nat /\ PrefixBase32 \in BOOLEAN /\ MaxKeyidLen \in Nat

VARIABLES grinder,   \* the process whose search is on: {} or {process}
          worker, hold, abort, channel, reporter, result, interrupted

G == INSTANCE Grind WITH Key <- Vanity

search == <<worker, hold, abort, channel, reporter, result, interrupted>>
allVars == <<vars, grinder, search>>

CInit == Init /\ grinder = {} /\ G!Rest

\* The checks on a prefix.
validate(len) ==
    /\ PrefixLen # 0 /\ PrefixBase32
    /\ PrefixLen <= len /\ PrefixLen <= MaxKeyidLen

\* cmd_init has a prefix to search for.
BeginGrind(p) ==
    /\ p \in Wanting /\ \E len \in Lens : validate(len)
    /\ pc[p] = "generate" /\ grinder = {}
    /\ grinder' = {p}
    /\ G!Begin
    /\ UNCHANGED vars

\* A prefix that no keyid of the wanted length can start with is refused.
RefusePrefix(p) ==
    /\ p \in Wanting \ grinder /\ \E len \in Lens : ~validate(len)
    /\ Abandon(p)
    /\ UNCHANGED <<grinder, search>>

\* A step of a thread; the keys it tries are fresh.
Working(w) == G!Work(w) /\ hold'[w] \cap used = {} /\ UNCHANGED <<vars, grinder>>

Reporting == G!Report /\ UNCHANGED <<vars, grinder>>

Interrupt == G!CtrlC /\ UNCHANGED <<vars, grinder>>

\* The search is over and its state goes with it.
EndGrind == grinder' = {} /\ G!Clear

\* A key has been found: cmd_init goes on to save it.
UseKey(p, len) ==
    /\ p \in grinder /\ reporter = "returned" /\ validate(len)
    /\ \E k \in result : Generate(p, k, len)
    /\ EndGrind

\* "vanity grinding aborted"
GiveUp(p) ==
    /\ p \in grinder /\ reporter = "returned" /\ result = {}
    /\ Abandon(p)
    /\ EndGrind

\* The process is killed, and its threads with it.
DieGrinding(p) ==
    /\ p \in grinder
    /\ Die(p)
    /\ EndGrind

\* The steps of Keystore that have nothing to do with a search.
Save(p) ==
    \/ CheckAgain(p) \/ SaveRefused(p)
    \/ StoreSecret(p) \/ FillFile(p) \/ UnlinkFile(p)
    \/ TruncateMeta(p) \/ WriteMeta(p)

Forget(p) ==
    StartForget(p) \/ WipeKeyring(p) \/ WipeFile(p) \/ WipeMeta(p) \/ EndForget(p)

Elsewhere ==
    /\ \/ Unlock \/ Lock
       \/ \E p \in Proc :
            \/ \E forced \in BOOLEAN : StartInit(p, forced)
            \/ Save(p) \/ Forget(p)
       \/ \E p \in Proc \ grinder :
            \/ \E s \in Secret \ Vanity, len \in Lens : Generate(p, s, len)
            \/ Die(p)
    /\ UNCHANGED <<grinder, search>>

CNext ==
    \/ Reporting \/ Interrupt \/ Elsewhere
    \/ \E w \in Worker : Working(w)
    \/ \E p \in Proc :
        \/ BeginGrind(p) \/ RefusePrefix(p) \/ GiveUp(p) \/ DieGrinding(p)
        \/ \E len \in Lens : UseKey(p, len)

\* The threads of a search run, cmd_init goes on when it returns, and a save
\* goes through its steps.
CSpec ==
    /\ CInit /\ [][CNext]_allVars
    /\ WF_allVars(Reporting)
    /\ \A w \in Worker : WF_allVars(Working(w))
    /\ \A p \in Proc :
        /\ WF_allVars(GiveUp(p) \/ \E len \in Lens : UseKey(p, len))
        /\ WF_allVars(Save(p) /\ UNCHANGED <<grinder, search>>)

-----------------------------------------------------------------------------
(* Properties *)

\* Type invariant of the composition.
CTypeOK == TypeOK /\ G!TypeOK /\ grinder \in {{}} \cup {{p} : p \in Proc}

\* Once its search is told to stop - by Ctrl-C or because a key was found - an
\* init ends: every thread sees the flag, the reporter returns, and the key is
\* saved, refused or there was none.  (abort, polled by the threads and by the
\* reporter, and the disconnection of the channel)
InterruptEnds == \A p \in Proc : (p \in grinder /\ abort) ~> pc[p] = "idle"

-----------------------------------------------------------------------------
(* What the type of a search rests on. *)

\* A key in the channel was sent by a thread that has ended since, and before a
\* search is on there is none and no thread runs.
SearchInv ==
    /\ Len(channel) <= Cardinality({w \in Worker : worker[w] = "done"})
    /\ reporter = "off" => channel = <<>> /\ \A w \in Worker : worker[w] = "off"
=============================================================================
