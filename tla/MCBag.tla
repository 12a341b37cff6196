------------------------------- MODULE MCBag -------------------------------
(* As in the tables (extras/xls/Item.json, SoldierQualityOccu.json): kind 1 is
   a book that soldiers wear, without a limit to its stacks; kind 2 a pack that
   stacks, here by two.  A pack holds a book, and two books make a pack.        *)
EXTENDS Bag

Books == {1, 2}
Stacks == <<0, 2>>
Packs == [i \in {2} |-> [id |-> 1, count |-> 1]]
Recipe == [id |-> 1, count |-> 2]
Result == [id |-> 2, count |-> 1]
Prices == <<1, 1>>
Worn == [s \in Soldier |-> 1]
=============================================================================
