---------------------------- MODULE MCDeferreds ----------------------------
(* Deferreds for the model checker: d1 has a canceller, d2 and d3 are alike. *)
EXTENDS Deferreds, TLC

CONSTANTS d1, d2, d3

MCDeferred == {d1, d2, d3}
MCCancellable == {d1}
MCMaxAdds == (d1 :> 2) @@ (d2 :> 1) @@ (d3 :> 1)

Alike == Permutations({d2, d3})
=============================================================================
