----------------------------- MODULE MCAdmission -----------------------------
(* Small instances of admission for TLC.                                    *)
EXTENDS AdmissionProperties, TLC

CONSTANTS cfo, legal, sales, cfo1, cfo2, legal1, sales1, k, x, y

MCAgent == {cfo, legal, sales}
MCProc == {cfo1, cfo2, legal1, sales1}
MCSender == (cfo1 :> cfo) @@ (cfo2 :> cfo) @@ (legal1 :> legal) @@ (sales1 :> sales)

\* Admitted beside the keyed calls of the same sender to the same recipient.
Notice == [from |-> cfo, ask |-> FALSE, to |-> legal, body |-> x, key |-> NoKey]

AskOf(a, b) == [from |-> a, ask |-> TRUE, to |-> b, body |-> x, key |-> NoKey]
Keyed(isAsk, b) == [from |-> cfo, ask |-> isAsk, to |-> legal, body |-> b, key |-> k]

MCCall == {Keyed(TRUE, x), Keyed(FALSE, y), Notice,
           AskOf(legal, sales), AskOf(sales, cfo)}

MCSymmetry == Permutations({cfo1, cfo2})
=============================================================================
