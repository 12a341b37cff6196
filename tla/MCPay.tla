------------------------------- MODULE MCPay -------------------------------
(***************************************************************************)
(* The monthly card and the smallest price of Pay.xls, with its presents   *)
(* and rewards that differ; the card lasts one day, so that it may run out *)
(* between two purchases.                                                  *)
(***************************************************************************)
EXTENDS Pay

MCPrices  == {6, 25}
MCPresent == (6 :> <<60, 30, 0>>)
=============================================================================
