---------------------- MODULE MCUInputMessageProcessor ----------------------
(* Small instances of UInputMessageProcessor with four buttons of the enum,  *)
(* renumbered in its order.                                                  *)
EXTENDS UInputMessageProcessor, TLC

CONSTANTS fire, jump, menu

GUIDE == 1
A == 2
B == 3
LB == 4

(* Two configurations that share the key "fire". In the first, LB and B     *)
(* both shift A, and A shifts B.                                             *)
MCBound ==
  [c \in Configs |->
     IF c = 0 THEN {<<0, A>>, <<LB, A>>, <<B, A>>, <<0, B>>, <<A, B>>, <<0, LB>>}
              ELSE {<<0, A>>, <<0, GUIDE>>, <<LB, GUIDE>>}]
MCKeysOf ==
  [c \in Configs |-> [e \in Bound[c] |->
     CASE e[1] = LB       -> {jump}
       [] e = <<A, B>>    -> {fire, jump}
       [] e = <<0, LB>>   -> {menu}
       [] OTHER           -> {fire}]]
MCButtonsOf ==
  [t \in Types |-> CASE t = "XBOX360" -> <<LB, GUIDE, A, B>>
                     [] t = "PS3USB"  -> <<GUIDE, A, B, LB>>
                     [] t = "XBOX"    -> <<A, B, LB>>]
MCUnmodified == [c \in Configs |-> [H \in SUBSET Buttons |-> H]]
=============================================================================
