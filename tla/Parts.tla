-------------------------------- MODULE Parts --------------------------------
(* Parts of the program that share no state are composed side by side: part,  *)
(* chosen at the start, says whose behaviour this is.                          *)
VARIABLE part
=============================================================================
