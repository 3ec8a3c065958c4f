------------------------------ MODULE MCIntake ------------------------------
(* Small instances of Intake for TLC. *)
EXTENDS Intake, TLC

(* The third version has no name in its second row.                         *)
TwoRows == 0 :> <<>> @@ 1 :> <<"a", "b">> @@ 2 :> <<"c">> @@ 3 :> <<>>

(* The third content has the size of the first: a file written first and    *)
(* third keeps its size, one written three times has it back.               *)
BackAgain == <<1, 2, 1>>
=============================================================================
