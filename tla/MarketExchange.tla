--------------------------- MODULE MarketExchange ---------------------------
(***************************************************************************)
(* What the auction promises its players, whatever servers, links and      *)
(* queues lie between them: goods change hands for the price they are      *)
(* offered at, go back to their owner, or stay where they are.  A lost     *)
(* message may destroy goods or coins; it never creates any.  Goods that   *)
(* find the bag full are gone.  A purchase that names a cargo more than    *)
(* once may be granted more goods than there are, and what is left of the  *)
(* cargo, or made of it, is anybody's guess; the buyer pays for what it    *)
(* gets, and nobody else loses anything by it.                             *)
(***************************************************************************)
EXTENDS Integers, FiniteSetsExt

CONSTANTS Roles, Percents, Value

VARIABLES
  held,   \* [Roles -> Nat]: goods a role owns and does not offer
  shelf,  \* [Roles \X Percents -> Nat]: goods a role offers at a percentage
  coins,  \* [Roles -> Nat]: coins a role can spend or will get back
  full,   \* roles whose bag is full
  oversold, \* purchases granted of more than there is
  lossy   \* a message has been lost

vars == <<held, shelf, coins, full, oversold, lossy>>

Total(f) == MapThenSumSet(LAMBDA x : f[x], DOMAIN f)
Offered(s, r) == MapThenSumSet(LAMBDA p : s[<<r, p>>], Percents)

Init ==
  /\ held \in [Roles -> Nat] /\ coins \in [Roles -> Nat]
  /\ shelf = [x \in Roles \X Percents |-> 0]
  /\ full \subseteq Roles /\ oversold = 0
  /\ lossy = FALSE

Offer(r, p) ==
  /\ \E n \in 1..held[r] : /\ held' = [held EXCEPT ![r] = @ - n]
                           /\ shelf' = [shelf EXCEPT ![<<r, p>>] = @ + n]
  /\ UNCHANGED <<coins, oversold, lossy>>

Reprice(r) ==
  /\ Offered(shelf', r) = Offered(shelf, r)
  /\ \A x \in DOMAIN shelf : x[1] # r => shelf'[x] = shelf[x]
  /\ UNCHANGED <<held, coins, oversold, lossy>>

\* r takes goods off the shelf, of one seller or of several, and pays what
\* they are offered at, rounded down by less than a coin for each.
Trade(r) ==
  LET taken == [x \in DOMAIN shelf |-> shelf[x] - shelf'[x]]
      worth == MapThenSumSet(LAMBDA x : Value * taken[x] * x[2], DOMAIN shelf)
      price == coins[r] - coins'[r]
  IN /\ \A x \in DOMAIN shelf : taken[x] >= 0
     /\ Total(taken) > 0
     /\ held' = [held EXCEPT ![r] = @ + Total(taken)]
     /\ 100 * price \in worth - 100 * Total(taken) + 1 .. worth
     /\ \A s \in Roles \ {r} : coins'[s] = coins[s]
     /\ UNCHANGED <<oversold, lossy>>

\* Goods leave the shelf for their owners.
Return ==
  /\ \A x \in DOMAIN shelf : shelf'[x] <= shelf[x]
  /\ \A r \in Roles : held'[r] + Offered(shelf', r) = held[r] + Offered(shelf, r)
  /\ UNCHANGED <<coins, oversold, lossy>>

\* r is given more than its bag takes.
Spill(r) ==
  /\ r \in full'
  /\ held'[r] < held[r] /\ \A s \in Roles \ {r} : held'[s] = held[s]
  /\ UNCHANGED <<shelf, coins, oversold, lossy>>

\* r is granted goods that there are not.
Oversell(r) ==
  LET got   == held'[r] - held[r]
      price == coins[r] - coins'[r]
  IN /\ oversold' = oversold + 1
     /\ \A s \in Roles \ {r} : held'[s] = held[s] /\ coins'[s] = coins[s]
     /\ got >= 0 /\ price >= 0
     /\ ~lossy' => /\ 100 * price <= Value * Max(Percents) * got
                   /\ 100 * price >= (Value * Min(Percents) - 99) * got
     /\ lossy => lossy'

Lose ==
  /\ lossy' /\ UNCHANGED oversold
  /\ Total(held') + Total(shelf') <= Total(held) + Total(shelf)
  /\ \A r \in Roles : coins'[r] <= coins[r]

Next ==
  \/ \E r \in Roles : Reprice(r) \/ Trade(r) \/ Spill(r) \/ Oversell(r) \/ \E p \in Percents : Offer(r, p)
  \/ Return \/ Lose

Spec == Init /\ [][Next]_vars
=============================================================================
