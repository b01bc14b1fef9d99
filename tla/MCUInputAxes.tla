---------------------------- MODULE MCUInputAxes ----------------------------
(* Small instances of UInputAxes. *)
EXTENDS UInputAxes, TLC

CONSTANTS x1, black

MCValues == {0, 1}

(* Of these two types only XBOX has the pressure of a button as an axis. *)
MCAxesOf == [type \in Types |-> IF type = "XBOX" THEN Axes ELSE Axes \ {black}]

(* Button 1 shifts nothing, button 2 shifts both axes, button 3 the stick.  *)
MCShifted == {<<Unknown, x1>>, <<2, x1>>, <<3, x1>>, <<Unknown, black>>, <<2, black>>}

(* Button 1 is an ordinary button, button 2 shifts the axis. *)
MCOneShifts == {<<Unknown, x1>>, <<2, x1>>}
=============================================================================
