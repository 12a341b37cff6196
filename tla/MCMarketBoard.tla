--------------------------- MODULE MCMarketBoard ---------------------------
(***************************************************************************)
(* One item and up to two cargos of up to two goods at one price, for two  *)
(* roles of two servers that one process serves.                           *)
(***************************************************************************)
EXTENDS MarketBoard

CONSTANTS r1, r2, potion

MCRoles     == {r1, r2}
MCSids      == {7, 8}
MCServer    == [r \in MCRoles |-> IF r = r1 THEN 7 ELSE 8]
MCPrimary   == [s \in MCSids |-> 7]
MCItems     == {potion}
MCPercents  == {80}
MCHows      == {"buy", "buy_all", "batch_buy"}
=============================================================================
