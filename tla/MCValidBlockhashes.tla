------------------------- MODULE MCValidBlockhashes -------------------------
(* ValidBlockhashes over seven short days, initialised in any second of a day. *)
EXTENDS ValidBlockhashes

MCGenesisTimes == 7..12
=============================================================================
