----------------------------- MODULE MCFrontend -----------------------------
(* Values for the runs of the gantry frontend: a rail of a few counts.     *)
EXTENDS Frontend

At(x, y) == [ a \in AxisId |-> IF a = "X" THEN x ELSE y ]
Two   == {At(0, 1), At(1, 0)}
Three == Two \cup {At(1, 2)}
Rail  == -1 .. 2
=============================================================================
