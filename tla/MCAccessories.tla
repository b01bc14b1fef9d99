--------------------------- MODULE MCAccessories ---------------------------
(* A chatpad with two modifiers and a key of each sort, beside a headset.    *)
EXTENDS Accessories

Setup(with, no_init, chunks, dump) ==
  [chatpad |-> with, no_init |-> no_init, known |-> TRUE, chunks |-> chunks, dump |-> dump]
MCSetups ==
  {Setup(TRUE, FALSE, 0, FALSE), Setup(TRUE, TRUE, 2, TRUE), Setup(FALSE, FALSE, 3, TRUE),
   [Setup(TRUE, TRUE, 0, FALSE) EXCEPT !.known = FALSE]}

MCReports == {{}, {"shift"}, {"shift", "green"}, {"green", "q"}, {"q", "gap"}}
=============================================================================
