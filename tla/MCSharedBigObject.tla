------------------------- MODULE MCSharedBigObject -------------------------
(* Small instances of SharedBigObject. *)
EXTENDS SharedBigObject, TLC

RangesOf3 == {<<0, 3>>, <<1, 3>>, <<2, 3>>, <<0, 2>>}
Starts2 == {<<0, 2>>, <<1, 2>>}
Halves4 == {<<0, 4>>, <<2, 4>>}

Symmetry == Permutations(Rq)
=============================================================================
