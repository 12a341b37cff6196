-------------------------------- MODULE Bag --------------------------------
(* The bags of one role on the game server (so_game/item_imp.cpp), with the
   part of coin_imp.cpp that gives and takes items, the skill books of the
   soldiers (equip_imp.cpp, soldier_imp.cpp) and the goods that go up for
   auction (market_pro.cpp).  A bag is a vector of pieces; a piece is named by
   its guid within its bag, and placed by its index.

   The handlers run one after the other on the logic thread.  What is hard is
   what a long sequence of them does to guids, indices and sums.               *)
EXTENDS Naturals, SequencesExt, FiniteSetsExt

CONSTANTS
    Kind,       \* ids of items; those of SkillBook (type 3) also move to the soldiers' bag
    SkillBook,
    Stack,      \* theItemExt: how many of a kind fill a slot, 0 when any number does
    Opens,      \* theItemOpenExt: the kinds that are opened by using them, and what is in one
    Material,   \* theItemMergeExt, one recipe: the items it takes ...
    Product,    \* ... and gives
    Price,      \* pitem->coin, what a piece of a kind is sold and bought back for
    Soldier,
    Wants,      \* theSoldierQualityOccuExt: the book a soldier may wear
    Slots,      \* theBagCountExt: the size of the common bag
    MaxMoney,   \* BASE_MAX_VALUE
    MaxGive,    \* bound: items given, taken or used by one request
    MaxHeld,    \* bound: items held when more are given
    MaxSold,    \* bound: pieces in the redeem bag, and indices there, when more are sold
    MaxResold   \* bound: coins for goods that were in the redeem bag already, when more are sold

NoSoldier == 0  \* soldier_guid of a piece that nobody wears

ASSUME BagAssumption ==
    /\ Kind \subseteq Nat /\ SkillBook \subseteq Kind
    /\ Stack \in [Kind -> Nat] /\ Price \in [Kind -> Nat]
    /\ DOMAIN Opens \subseteq Kind
    /\ \A i \in DOMAIN Opens : Opens[i].id \in Kind /\ Opens[i].count \in Nat
    /\ Material \in [id : Kind, count : Nat] /\ Product \in [id : Kind, count : Nat]
    /\ NoSoldier \notin Soldier /\ Wants \in [Soldier -> Kind]
    /\ {Slots, MaxMoney, MaxGive, MaxHeld, MaxSold, MaxResold} \subseteq Nat

VARIABLES
    bags,       \* user->data.item_map: kBagFuncCommon, kBagFuncRedeem, kBagFuncSoldierEquipSkill
    money,      \* user->data.coin.money
    spilt,      \* history: money that sales were worth and that found no room
    resold      \* history: money that sales were worth and whose goods were in the redeem bag before

vars == <<bags, money, spilt, resold>>

BagType == {"common", "redeem", "skill"}
Flag == {0, 1}  \* kCoinFlagBind

-----------------------------------------------------------------------------
(* Reading the bags.                                                          *)

At(list, guid) == SelectInSeq(list, LAMBDA item : item.guid = guid)

GetIndex(list) == Min(0..Len(list) \ {list[k].index : k \in DOMAIN list})

Guids(b) == UNION {{b[t][k].guid : k \in DOMAIN b[t]} : t \in BagType}

GetGuid_common(b) ==
    LET used == {b.common[k].guid : k \in DOMAIN b.common}
    IN Min(1..(Cardinality(used) + 1) \ used)

GetGuid(b) == Min(1..(Cardinality(Guids(b)) + 1) \ Guids(b))

\* GetItemBagDel: where a kind is looked for, in this order.
GetItemBagDel(i) == IF i \in SkillBook THEN <<"common", "skill">> ELSE <<"common">>

\* GetItemBagMoves: where a kind may be moved to.
GetItemBagMoves(i) == ToSet(GetItemBagDel(i)) \union {"redeem"}

CountIn(list, kinds, flags) ==
    FoldLeft(LAMBDA sum, item : sum + IF item.id \in kinds /\ item.bind \in flags THEN item.count ELSE 0, 0, list)

GetItemCount(b, i) ==
    FoldLeft(LAMBDA sum, t : sum + CountIn(b[t], {i}, Flag), 0, GetItemBagDel(i))

GetItemCountNotFlag(b, i) ==
    FoldLeft(LAMBDA sum, t : sum + CountIn(b[t], {i}, {0}), 0, GetItemBagDel(i))

\* The room in the stacks of a kind, whatever their flags.
GetItemStackableCount(list, i) ==
    FoldLeft(LAMBDA sum, item : sum + IF item.id = i /\ Stack[i] > item.count THEN Stack[i] - item.count ELSE 0, 0, list)

FreeSlots(list) == IF Slots > Len(list) THEN Slots - Len(list) ELSE 0

GetItemSpace(list, i) == GetItemStackableCount(list, i) + FreeSlots(list) * Max({Stack[i], 1})

CanSuperposition_unbound(item1, item2) ==
    /\ item1.id = item2.id
    /\ item1.soldier = item2.soldier
    /\ item2.count < Stack[item1.id] \/ Stack[item1.id] = 0

CanSuperposition(item1, item2) ==
    /\ item1.id = item2.id
    /\ item1.soldier = item2.soldier
    /\ item2.count < Stack[item1.id] \/ Stack[item1.id] = 0
    /\ item1.bind = item2.bind

-----------------------------------------------------------------------------
(* Giving.                                                                    *)

\* One stack is topped up.  The stack is filled before the difference is
\* taken, so that `count -= stackable - iter->count` takes nothing from what is left.
TopUp(acc, item, i) ==
    IF acc.left = 0 \/ ~CanSuperposition([id |-> i, bind |-> acc.bind, soldier |-> NoSoldier], item)
    THEN [acc EXCEPT !.list = Append(@, item)]
    ELSE IF Stack[i] # 0 /\ item.count + acc.left > Stack[i]
    THEN [acc EXCEPT !.list = Append(@, [item EXCEPT !.count = Stack[i]])]
    ELSE [acc EXCEPT !.list = Append(@, [item EXCEPT !.count = @ + acc.left]), !.left = 0]

\* One free slot is filled; what finds no slot is dropped.
FillSlot(acc, i) ==
    IF acc.left = 0 \/ FreeSlots(acc.b.common) = 0 THEN acc
    ELSE LET n == IF Stack[i] = 0 THEN acc.left ELSE Min({acc.left, Stack[i]})
             piece == [guid |-> GetGuid(acc.b), id |-> i, bind |-> acc.bind, count |-> n,
                       index |-> GetIndex(acc.b.common), soldier |-> NoSoldier]
         IN [acc EXCEPT !.b.common = Append(@, piece), !.left = @ - n]

AddItem(b, i, n, bind) ==
    LET topped == IF Stack[i] = 1 THEN [list |-> b.common, left |-> n, bind |-> bind]
                  ELSE FoldLeft(LAMBDA acc, item : TopUp(acc, item, i), [list |-> <<>>, left |-> n, bind |-> bind], b.common)
    IN FoldLeft(LAMBDA acc, k : FillSlot(acc, i),
                [b |-> [b EXCEPT !.common = topped.list], left |-> topped.left, bind |-> bind],
                [k \in 1..Slots |-> k]).b

\* coin::give: what exceeds the space is cut off.
give(b, i, n, bind) == AddItem(b, i, Min({n, GetItemSpace(b.common, i)}), bind)

check_give_slots(b, i, n) ==
    LET per == Max({Stack[i], 1})
        room == IF per > 1 THEN GetItemStackableCount(b.common, i) ELSE 0
    IN \/ room >= n /\ n <= GetItemSpace(b.common, i)
       \/ room < n /\ (n - room) \div per <= FreeSlots(b.common)

\* coin::check_give of one coin.
check_give(b, i, n) ==
    LET per == Max({Stack[i], 1})
        room == IF per > 1 THEN GetItemStackableCount(b.common, i) ELSE 0
    IN \/ room >= n /\ n <= GetItemSpace(b.common, i)
       \/ /\ room < n
          /\ (n - room + per - 1) \div per <= FreeSlots(b.common)
          /\ n - room <= GetItemSpace(b.common, i)

-----------------------------------------------------------------------------
(* Taking.                                                                    *)

DelItemByGuid(list, guid, n) ==
    LET k == At(list, guid) IN
    CASE k = 0 -> list
      [] k # 0 /\ (n = 0 \/ list[k].count <= n) -> RemoveAt(list, k)
      [] OTHER -> [list EXCEPT ![k].count = @ - n]

\* The copies that DelItemById and DelItemByIdNotFlag collect, with their bags.
ToDelete(b, i, flags) ==
    FlattenSeq([t \in 1..Len(GetItemBagDel(i)) |->
        LET bag == GetItemBagDel(i)[t]
            found == SelectSeq(b[bag], LAMBDA item : item.id = i /\ item.bind \in flags)
        IN [k \in 1..Len(found) |-> [bag |-> bag, guid |-> found[k].guid, count |-> found[k].count]]])

\* item_del_sort compares due times, which are equal: std::sort may leave the
\* copies in any order (it keeps theirs when there are at most 16).
Orders(list) == {[k \in 1..Len(list) |-> list[p[k]]] : p \in Permutations(1..Len(list))}

Deleted(b, order, n) ==
    FoldLeft(LAMBDA acc, del :
                 IF acc.left = 0 THEN acc
                 ELSE LET m == Min({del.count, acc.left})
                      IN [b |-> [acc.b EXCEPT ![del.bag] = DelItemByGuid(@, del.guid, m)], left |-> acc.left - m],
             [b |-> b, left |-> n], order).b

DelItemById(b, i, n) == {Deleted(b, order, n) : order \in Orders(ToDelete(b, i, Flag))}

DelItemByIdNotFlag_any(b, i, n) == {Deleted(b, order, n) : order \in Orders(ToDelete(b, i, Flag))}

DelItemByIdNotFlag(b, i, n) == {Deleted(b, order, n) : order \in Orders(ToDelete(b, i, {0}))}

\* coin::check_take and coin::take: what DelItemById may leave.
check_take(b, i, n) == GetItemCount(b, i) >= n

take(b, i, n) == IF n = 0 THEN {b} ELSE DelItemById(b, i, n)

-----------------------------------------------------------------------------
(* Moving, sorting and selling.                                               *)

\* MoveItem to a place that is free: its callers name no other.
MoveItem(b, src, guid, dst, index, soldier) ==
    LET k == At(b[src], guid)
        item == [b[src][k] EXCEPT !.index = index, !.soldier = soldier]
    IN [b EXCEPT ![src] = RemoveAt(@, k), ![dst] = Append(@, item)]

CanMove(b, src, guid, dst) == dst \in GetItemBagMoves(b[src][At(b[src], guid)].id)

\* The loop of SortItem: a piece is added to the last one if that has room and
\* the piece is not itself a full stack.
Stacked(list) ==
    FoldLeft(LAMBDA out, item :
                 IF out = <<>> \/ ~CanSuperposition(Last(out), item) \/ Last(out).count >= Stack[item.id]
                 THEN Append(out, item)
                 ELSE IF Last(out).count + item.count <= Stack[item.id]
                 THEN [out EXCEPT ![Len(out)].count = @ + item.count]
                 ELSE Append([out EXCEPT ![Len(out)].count = Stack[item.id]],
                             [item EXCEPT !.count = Last(out).count + item.count - Stack[item.id]]),
             <<>>, list)

\* Item_GreaterItem orders by kind, then by flags.
Sorted(list) ==
    {order \in Orders(list) : \A k \in 1..(Len(order) - 1) :
        \/ order[k].id < order[k + 1].id
        \/ order[k].id = order[k + 1].id /\ order[k].bind <= order[k + 1].bind}

Reindexed(list) == [k \in 1..Len(list) |-> [list[k] EXCEPT !.index = k - 1]]

SortItem(b, t) == {[b EXCEPT ![t] = Reindexed(Stacked(order))] : order \in Sorted(b[t])}

LastIndex(list) == Max({0} \union {list[j].index : j \in DOMAIN list})

\* A part of a piece is sold as a copy of the piece, guid and all.  The bag is
\* the client's choice: within the redeem bag a whole piece gets a new index, and
\* where the vector moves to take in the copy of a part, the piece is no longer
\* where the count is subtracted (item_imp.cpp:1050).
SellItem(b, t, guid, n) ==
    LET k == At(b[t], guid)
        index == LastIndex(b.redeem) + 1
        Sold(c) == [c EXCEPT !.redeem = Append(@, [b[t][k] EXCEPT !.count = n, !.index = index])]
        rest == [b EXCEPT ![t][k].count = @ - n]
    IN CASE n = b[t][k].count /\ t = "redeem" -> {[b EXCEPT !.redeem[k].index = index]}
         [] n = b[t][k].count /\ t # "redeem" -> {MoveItem(b, t, guid, "redeem", index, NoSoldier)}
         [] n # b[t][k].count -> {Sold(rest)} \union IF t = "redeem" THEN {Sold(b)} ELSE {}

Redeem(b, guid) == MoveItem(b, "redeem", guid, "common", GetIndex(b.common), NoSoldier)

\* The book is taken off its stack, or moved when it is the last.
EquipSkill(b, guid, soldier) ==
    LET k == At(b.common, guid) IN
    IF b.common[k].count > 1
    THEN [b EXCEPT !.common[k].count = @ - 1,
                   !.skill = Append(@, [b.common[k] EXCEPT !.index = GetIndex(b.skill), !.guid = GetGuid(b),
                                                           !.soldier = soldier, !.count = 1])]
    ELSE IF CanMove(b, "common", guid, "skill") THEN MoveItem(b, "common", guid, "skill", 0, soldier)
    ELSE b

\* The rewards are given first, one use at a time, while they find room.
Opened(b, i, n) ==
    FoldLeft(LAMBDA acc, k :
                 IF acc.stop \/ ~check_give(acc.b, Opens[i].id, Opens[i].count) THEN [acc EXCEPT !.stop = TRUE]
                 ELSE [acc EXCEPT !.b = give(@, Opens[i].id, Opens[i].count, 0), !.used = @ + 1],
             [b |-> b, used |-> 0, stop |-> FALSE], [k \in 1..n |-> k])

-----------------------------------------------------------------------------
(* The handlers.                                                              *)

Held(b) == FoldLeft(LAMBDA sum, t : sum + CountIn(b[t], Kind, Flag), 0, <<"common", "redeem", "skill">>)

Init ==
    /\ bags = [t \in BagType |-> <<>>]
    /\ money = 0 /\ spilt = 0 /\ resold = 0

\* Any of the many callers of coin::give; most look at check_give first.
Give(i, n, bind) ==
    /\ Held(bags) + n <= MaxHeld
    /\ bags' = give(bags, i, n, bind)
    /\ UNCHANGED <<money, spilt, resold>>

\* Any of the callers of coin::check_take and coin::take.
Take(i, n) ==
    /\ check_take(bags, i, n)
    /\ bags' \in take(bags, i, n)
    /\ UNCHANGED <<money, spilt, resold>>

PQMarketCargoUp(i, n) ==
    /\ GetItemCountNotFlag(bags, i) >= n
    /\ bags' \in DelItemByIdNotFlag(bags, i, n)
    /\ UNCHANGED <<money, spilt, resold>>

PQItemSell(t, guid, n) ==
    /\ Len(bags.redeem) < MaxSold /\ LastIndex(bags.redeem) < MaxSold
    /\ t = "redeem" => resold < MaxResold /\ Held(bags) + n <= MaxHeld
    /\ At(bags[t], guid) # 0
    /\ LET item == bags[t][At(bags[t], guid)]
           worth == Price[item.id] * n
           got == Min({worth, MaxMoney - money})
       IN /\ item.count >= n /\ worth # 0
          /\ bags' \in SellItem(bags, t, guid, n)
          /\ money' = money + got
          /\ spilt' = spilt + worth - got
          /\ resold' = IF t = "redeem" /\ Held(bags') = Held(bags) THEN resold + worth ELSE resold

PQItemRedeem(guid) ==
    /\ At(bags.redeem, guid) # 0
    /\ LET item == bags.redeem[At(bags.redeem, guid)] IN
          /\ money >= Price[item.id] * item.count
          /\ FreeSlots(bags.common) # 0
          /\ bags' = Redeem(bags, guid)
          /\ money' = money - Price[item.id] * item.count
    /\ UNCHANGED <<spilt, resold>>

PQItemSort(t) ==
    /\ bags' \in SortItem(bags, t)
    /\ UNCHANGED <<money, spilt, resold>>

PQItemEquipSkill(guid, soldier) ==
    /\ At(bags.common, guid) # 0
    /\ \A k \in DOMAIN bags.skill : bags.skill[k].soldier # soldier
    /\ bags.common[At(bags.common, guid)].id = Wants[soldier]
    /\ bags' = EquipSkill(bags, guid, soldier)
    /\ UNCHANGED <<money, spilt, resold>>

\* The soldier rises in quality and the book it wears is used up.
PQSoldierQualityUp(soldier) ==
    LET k == SelectInSeq(bags.skill, LAMBDA item : item.soldier = soldier) IN
    /\ k # 0
    /\ bags' = [bags EXCEPT !.skill = DelItemByGuid(@, bags.skill[k].guid, 1)]
    /\ UNCHANGED <<money, spilt, resold>>

PQItemUse(guid, n) ==
    /\ At(bags.common, guid) # 0
    /\ LET i == bags.common[At(bags.common, guid)].id IN
          /\ i \in DOMAIN Opens
          /\ check_take(bags, i, n)
          /\ LET done == Opened(bags, i, n) IN bags' \in take(done.b, i, done.used)
    /\ UNCHANGED <<money, spilt, resold>>

\* The material is taken before the product is given, for which room was not looked for.
PQItemMerge(n) ==
    /\ check_take(bags, Material.id, Material.count * n)
    /\ \E b \in take(bags, Material.id, Material.count * n) : bags' = give(b, Product.id, Product.count * n, 0)
    /\ UNCHANGED <<money, spilt, resold>>

Number == 1..MaxGive

Next ==
    \/ \E i \in Kind, n \in Number, bind \in Flag : Give(i, n, bind)
    \/ \E i \in Kind, n \in Number : Take(i, n) \/ PQMarketCargoUp(i, n)
    \/ \E guid \in Guids(bags), n \in Number : PQItemUse(guid, n) \/ \E t \in BagType : PQItemSell(t, guid, n)
    \/ \E guid \in Guids(bags) : PQItemRedeem(guid)
    \/ \E t \in BagType : PQItemSort(t)
    \/ \E guid \in Guids(bags), soldier \in Soldier : PQItemEquipSkill(guid, soldier)
    \/ \E soldier \in Soldier : PQSoldierQualityUp(soldier)
    \/ \E n \in Number : PQItemMerge(n)

Spec == Init /\ [][Next]_vars

-----------------------------------------------------------------------------
(* Properties.                                                                *)

Item == [guid : Nat, id : Kind, bind : Flag, count : Nat \ {0}, index : Nat, soldier : Soldier \union {NoSoldier}]

(* Types: no piece is empty, the purse is within its limit.                   *)
TypeOK ==
    /\ DOMAIN bags = BagType
    /\ \A t \in BagType : \A k \in DOMAIN bags[t] : bags[t][k] \in Item
    /\ money \in 0..MaxMoney
    /\ {spilt, resold} \subseteq Nat

Pieces(t) == {bags[t][k] : k \in DOMAIN bags[t]}

(* Whatever was given, sold, bought back, sorted, worn and used up before, the
   places of a bag are not taken twice and not exceeded, no stack is over its
   limit (item_imp.cpp:393, :731, :1061), a soldier wears one book, and pieces
   that share a guid, as the parts of a sale do (:1039), are of one kind and
   equally bound, so that a request that names one never reaches goods of another. *)
Laid ==
    /\ TypeOK
    /\ \A t \in BagType : \A j, k \in DOMAIN bags[t] :
        j # k => <<bags[t][j].index, bags[t][j].soldier>> # <<bags[t][k].index, bags[t][k].soldier>>
    /\ Len(bags.common) <= Slots
    /\ \A t \in BagType : \A item \in Pieces(t) :
        /\ Stack[item.id] = 0 \/ item.count <= Stack[item.id]
        /\ (item.soldier # NoSoldier) = (t = "skill")
    /\ \A soldier \in Soldier : Cardinality({k \in DOMAIN bags.skill : bags.skill[k].soldier = soldier}) <= 1
    /\ \A t, u \in BagType : \A item1 \in Pieces(t), item2 \in Pieces(u) :
        item1.guid = item2.guid => item1.id = item2.id /\ item1.bind = item2.bind

\* How many there are of a kind, bound and not.
Goods(b) ==
    FoldLeft(LAMBDA sum, item : [sum EXCEPT ![item.id, item.bind] = @ + item.count],
             [i \in Kind, bind \in Flag |-> 0], b.common \o b.redeem \o b.skill)

(* Sorting, selling, buying back and wearing neither make nor lose goods, and do
   not unbind them (:980, :1061, :1115, equip_imp.cpp:213), but for the sale of a
   part within the redeem bag (:1050).  Over any number of sales, parts of sales
   and sorts of the redeem bag, the coins a role got are what its redeem bag is
   worth, but for those its purse had no room for, and those it was paid for
   goods that it sold out of the redeem bag itself, again and again (:768).       *)
Conserved ==
    LET goods == Goods(bags)
        Again(item, n) == [goods EXCEPT ![item.id, item.bind] = @ + n]
    IN /\ \A t \in BagType : \A b \in SortItem(bags, t) : Goods(b) = goods
       /\ \A t \in BagType : \A item \in {bags[t][At(bags[t], g)] : g \in {p.guid : p \in Pieces(t)}} :
           \A n \in 1..item.count : \A b \in SellItem(bags, t, item.guid, n) :
               Goods(b) = goods \/ (t = "redeem" /\ n < item.count /\ Goods(b) = Again(item, n))
       /\ \A item \in Pieces("common"), soldier \in Soldier : Goods(EquipSkill(bags, item.guid, soldier)) = goods
       /\ \A item \in Pieces("redeem") : Goods(Redeem(bags, item.guid)) = goods
       /\ money + spilt = resold + FoldLeft(LAMBDA sum, item : sum + Price[item.id] * item.count, 0, bags.redeem)

Twins(i) ==
    \E t \in ToSet(GetItemBagDel(i)) : \E j, k \in DOMAIN bags[t] :
        j # k /\ bags[t][j].id = i /\ bags[t][j].guid = bags[t][k].guid

Without(b, c, i, n) ==
    \A j \in Kind : \E m \in 0..n : GetItemCount(b, j) = GetItemCount(c, j) + m /\ (j # i => m = 0) /\ (j = i /\ ~Twins(i) => m = n)

(* What check_take promised is taken: never more than was asked for, never of
   another kind, never bound goods when those are not for sale, and all of it
   unless two pieces of a bag share a guid, when the order std::sort leaves them
   in decides which one is found (:557, :612, market_pro.cpp:119).                *)
TakesExactly ==
    \A i \in Kind, n \in Number :
        /\ GetItemCount(bags, i) >= n => \A b \in DelItemById(bags, i, n) : Without(bags, b, i, n)
        /\ GetItemCountNotFlag(bags, i) >= n =>
               \A b \in DelItemByIdNotFlag(bags, i, n) : Without(bags, b, i, n) /\ Goods(b)[i, 1] = Goods(bags)[i, 1]

(* What check_give found room for arrives in full (coin_imp.cpp:251), unless
   part of that room is in stacks bound otherwise, and it is never more than
   what was asked for and the room there was in the stacks that were topped up,
   which AddItem does not subtract (item_imp.cpp:433).                            *)
GivesInFull ==
    \A i \in Kind, n \in Number, bind \in Flag :
        (check_give(bags, i, n) /\ \A item \in Pieces("common") : item.id = i => item.bind = bind) =>
            LET more == Goods(give(bags, i, n, bind))[i, bind] - Goods(bags)[i, bind]
            IN n <= more /\ more <= n + GetItemStackableCount(bags.common, i)

(* A soldier that rises in quality uses up the book it wears, and no other
   soldier's (soldier_imp.cpp:859): item.seq:78 calls the guid, by which the book
   is named, "惟一标识" (unique identifier).                                      *)
OwnBook ==
    \A k \in DOMAIN bags.skill :
        LET left == DelItemByGuid(bags.skill, bags.skill[k].guid, 1)
        IN \A j \in DOMAIN left : left[j].soldier # bags.skill[k].soldier

=============================================================================
