--------------------------- MODULE MCMarketTrade ---------------------------
(***************************************************************************)
(* A seller and a buyer on servers of their own.                           *)
(***************************************************************************)
EXTENDS MarketTrade

CONSTANTS r1, r2, potion

MCRoles    == {r1, r2}
MCSids     == {7, 8}
MCServer   == [r \in MCRoles |-> IF r = r1 THEN 7 ELSE 8]
MCItems    == {potion}
MCPercents == {80, 120}
MCHows     == {"buy", "buy_all", "batch_buy"}
MCSingle   == {"buy"}
MCSole     == {80}
MCGoods    == [r \in MCRoles |-> IF r = r1 THEN 2 ELSE 0]
MCCapacity == [r \in MCRoles |-> IF r = r1 THEN 2 ELSE 1]
MCCoins    == [r \in MCRoles |-> IF r = r1 THEN 0 ELSE 25]
=============================================================================
