------------------------------- MODULE MCGroups -------------------------------
(* A small instance of groups and registry for TLC.                         *)
EXTENDS GroupMessagingProperties, TLC

CONSTANTS cfo, legal, sales, tax, t1, t2, t3, t4, t5, team, board, k, cfo1, cfo2, own, none

MCFirstThread == (cfo :> t1) @@ (legal :> t2) @@ (sales :> t3)
MCFirstOwner == team :> cfo
MCFirstMembers == team :> {legal, sales}
MCSender == (cfo1 :> cfo) @@ (cfo2 :> cfo)
MCGroupCall == {[from |-> cfo, group |-> team, key |-> k],
                [from |-> cfo, group |-> team, key |-> NoKey]}
MCSymmetry == Permutations({cfo1, cfo2}) \cup Permutations({t4, t5})
=============================================================================
