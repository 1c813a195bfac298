--------------------------- MODULE MCCorrections ---------------------------
(***************************************************************************)
(* Small instances of Corrections for TLC.                                 *)
(***************************************************************************)
EXTENDS Corrections, TLC

CONSTANTS row1, row2, c1, c2

Stock    == [b \in Rows |-> 1]
Single   == {<<row1>>}
Selected == {<<row1, row2>>, <<row1, row1>>}
UpDown   == {-1, 2}

Line(row, delta) == [row |-> row, delta |-> delta]

(* A row twice, in both orders, and two rows. *)
SomeInputs ==
    {<<Line(row1, -1), Line(row1, 2)>>, <<Line(row1, 2), Line(row1, -1)>>,
     <<Line(row1, 2), Line(row2, -1)>>}

AllInputs == UNION {[1..n -> [row : Rows, delta : Deltas]] : n \in 1..2}

ClientSymmetry == Permutations({c1, c2})
=============================================================================
