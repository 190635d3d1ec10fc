------------------------------ MODULE MCAgent -------------------------------
(* Agent with the keyids k and j of two publishers and a vanity label v.  The *)
(* texts spell the names v.k and j in two ways each; the others are no names: *)
(* a word that is too short for a keyid, another suffix, too many labels.     *)
EXTENDS Agent, TLC

CONSTANTS c1, c2, here, there, p1, p2, p3, k, j, v

MCLength == k :> 3 @@ j :> 3 @@ v :> 1 @@ "" :> 0 @@ "minecraft" :> 9
MCKeyid == here :> (3 :> k) @@ there :> (3 :> j)
MCPeerOf == k :> here @@ j :> there

Lower(w) == [word |-> w, capitals |-> FALSE]
Upper(w) == [word |-> w, capitals |-> TRUE]
Given(ls) == [blanks |-> FALSE, labels |-> ls]

MCTyped ==
    {Given(<<Lower(v), Lower(k), Lower("minecraft")>>),
     [blanks |-> TRUE, labels |-> <<Upper(v), Lower(k), Upper("minecraft")>>],
     Given(<<Lower(j), Lower("minecraft")>>),
     Given(<<Lower(""), Lower(j), Lower("minecraft")>>),
     Given(<<Lower(k), Lower(v), Lower("minecraft")>>),
     Given(<<Lower(k), Lower(j)>>),
     Given(<<Lower(v), Lower(v), Lower(k), Lower("minecraft")>>)}
=============================================================================
