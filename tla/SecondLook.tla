------------------------------- MODULE SecondLook -------------------------------
(*****************************************************************************)
(* secondLook.ts and repriceAgingLeads: an hourly sweep lowers the price of  *)
(* leads that age unsold.  It selects at most maxPerRun rows that can still  *)
(* move, in order of their last repricing, and writes them one by one, each  *)
(* only if the row still looks as it did.  Buyers and moderators write the   *)
(* same rows in between, and a sweep may overlap the next one on another     *)
(* pod.  Money is in cents, percentages are whole numbers.                   *)
(*****************************************************************************)
EXTENDS Integers, FiniteSets

CONSTANTS
  Leads,      \* ids, numbers: the lower one was created first
  Sticker,    \* Sticker[l]: the price at ingest
  Floor,      \* floorPct, the percentage of the sticker price that is always left
  MinPrice,   \* minPriceDollars in cents, 0 when not configured
  Limit,      \* maxPerRun
  Sweepers,   \* sweeps that may overlap
  Contested,  \* bound: the leads that are bought, removed or quarantined
  MaxFlips,   \* bound: how often a lead is quarantined or released
  NONE

ASSUME SecondLookAssumption ==
  /\ Leads \subseteq Nat /\ IsFiniteSet(Leads)
  /\ Sticker \in [Leads -> Nat]
  /\ Floor \in 1..100 /\ MinPrice \in Nat
  /\ Limit \in Nat \ {0} /\ MaxFlips \in Nat
  /\ Contested \subseteq Leads
  /\ NONE \notin Nat

VARIABLES
  lead,   \* rows of leads: price, originalPrice, repricedAt (0 is null), sold, removed,
          \* frozen (flagged or dncFlagged)
  tier,   \* tier[l]: the age of l in multiples of freshHours, 3 for all older ones
  sweep,  \* sweep[w]: its time, and the rows it selected and has not come to
  flips   \* flips[l]: how often l was quarantined or released

vars == << lead, tier, sweep, flips >>

-------------------------------------------------------------------------------
(* The decay ladder.                                                         *)

Least(a, b) == IF a <= b THEN a ELSE b
Most(a, b) == IF a >= b THEN a ELSE b

TIER_DISCOUNTS == << 0, 15, 30 >>

\* The discount of a tier, capped by the floor; the last tier is the floor.
Discount(t) == IF t = 3 THEN 100 - Floor ELSE Least(TIER_DISCOUNTS[t + 1], 100 - Floor)

\* What tierPriceFraction leaves of a basis: cents times a hundred, not rounded.
SettledAt(basis, t) == basis * (100 - Discount(t))

\* secondLookQuote: both floors, then cents rounded half up.
Quote(basis, t) ==
  LET least == Most(SettledAt(basis, t), basis * Floor)
      floored == IF least < 100 * MinPrice THEN Least(100 * MinPrice, 100 * basis) ELSE least
  IN  IF t = 0 THEN basis ELSE (floored + 50) \div 100

\* Seeded fault of Basis: the discount is taken from the discounted price.
BasisCurrent(row) == row.price

\* originalPrice ?? price
Basis(row) == IF row.originalPrice = NONE THEN row.price ELSE row.originalPrice

OnOffer(row) == ~row.sold /\ ~row.removed /\ ~row.frozen

-------------------------------------------------------------------------------
Fresh(l) == [price |-> Sticker[l], originalPrice |-> NONE, repricedAt |-> 0,
             sold |-> FALSE, removed |-> FALSE, frozen |-> FALSE]

Idle == [now |-> 0, rows |-> {}]

Init ==
  /\ lead = [l \in Leads |-> Fresh(l)]
  /\ tier = [l \in Leads |-> 0]
  /\ sweep = [w \in Sweepers |-> Idle]
  /\ flips = [l \in Leads |-> 0]

Ages(l) ==
  /\ tier[l] < 3
  /\ tier' = [tier EXCEPT ![l] = @ + 1]
  /\ UNCHANGED << lead, sweep, flips >>

\* Seeded fault of MaxPerRun: one row too many.
OneMore == Limit + 1

\* LIMIT
MaxPerRun == Limit

\* Seeded fault of Movable: every aged row is selected, settled or not.
AllAged == {l \in Leads : tier[l] > 0 /\ OnOffer(lead[l])}

\* The candidates of the sweep: on offer, aged, and priced above what their tier settles at.
Movable ==
  {l \in Leads : /\ tier[l] > 0 /\ OnOffer(lead[l])
                 /\ 100 * lead[l].price > SettledAt(Basis(lead[l]), tier[l])}

\* ORDER BY repricedAt NULLS FIRST, createdAt
Before(l, m) ==
  \/ lead[l].repricedAt < lead[m].repricedAt
  \/ lead[l].repricedAt = lead[m].repricedAt /\ l < m

\* A sweep starts: the first rows in that order, as many as the limit admits.
Scan(w) ==
  LET first == {l \in Movable : Cardinality({m \in Movable : Before(m, l)}) < MaxPerRun} IN
  /\ sweep[w] = Idle /\ first # {}
  /\ \E last \in {lead[l].repricedAt : l \in Leads} :
       /\ \A l \in Leads : lead[l].repricedAt <= last
       /\ sweep' = [sweep EXCEPT ![w] =
            [now |-> last + 1,
             rows |-> {[lead |-> l, tier |-> tier[l], row |-> lead[l]] : l \in first}]]
  /\ UNCHANGED << lead, tier, flips >>

\* Seeded fault of Unmoved: the update asserts the price and the quarantine only.
UnmovedButSold(l, row) == ~lead[l].frozen /\ lead[l].price = row.price

\* What the UPDATE asserts again of the row that was read.
Unmoved(l, row) == ~lead[l].sold /\ ~lead[l].frozen /\ lead[l].price = row.price

RestOf(w, r) ==
  LET rest == sweep[w].rows \ {r} IN
  sweep' = [sweep EXCEPT ![w] = IF rest = {} THEN Idle ELSE [now |-> sweep[w].now, rows |-> rest]]

\* One row: computeReprice on what was read, then the compare-and-swap.
Reprice(w, r) ==
  LET price == Quote(Basis(r.row), r.tier) IN
  /\ r \in sweep[w].rows
  /\ IF price < r.row.price /\ Unmoved(r.lead, r.row)
     THEN lead' = [lead EXCEPT ![r.lead].price = price,
                               ![r.lead].originalPrice = Basis(r.row),
                               ![r.lead].repricedAt = sweep[w].now]
     ELSE UNCHANGED lead
  /\ RestOf(w, r)
  /\ UNCHANGED << tier, flips >>

\* The UPDATE of one row fails; the sweep goes on.
RepriceFails(w, r) ==
  /\ r \in sweep[w].rows
  /\ RestOf(w, r)
  /\ UNCHANGED << lead, tier, flips >>

\* The pod dies in the middle of its sweep.
Crash(w) ==
  /\ sweep[w] # Idle
  /\ sweep' = [sweep EXCEPT ![w] = Idle]
  /\ UNCHANGED << lead, tier, flips >>

-------------------------------------------------------------------------------
(* The other writers.                                                        *)

\* purchaseLead, as far as the lead's row goes; the order takes its price.
PurchaseLead(l) ==
  /\ l \in Contested /\ ~lead[l].sold /\ ~lead[l].removed
  /\ lead' = [lead EXCEPT ![l].sold = TRUE]
  /\ UNCHANGED << tier, sweep, flips >>

RemoveLead(l) ==
  /\ l \in Contested /\ ~lead[l].removed
  /\ lead' = [lead EXCEPT ![l].removed = TRUE]
  /\ UNCHANGED << tier, sweep, flips >>

\* flagLead, and the DNC checks: quarantined or released.
Quarantine(l) ==
  /\ l \in Contested /\ flips[l] < MaxFlips
  /\ lead' = [lead EXCEPT ![l].frozen = ~@]
  /\ flips' = [flips EXCEPT ![l] = @ + 1]
  /\ UNCHANGED << tier, sweep >>

-------------------------------------------------------------------------------
RepriceAny(l) == \E w \in Sweepers : \E r \in sweep[w].rows : r.lead = l /\ Reprice(w, r)

Next ==
  \/ \E l \in Leads : Ages(l) \/ PurchaseLead(l) \/ RemoveLead(l) \/ Quarantine(l)
  \/ \E w \in Sweepers : Scan(w) \/ Crash(w)
  \/ \E w \in Sweepers : \E r \in sweep[w].rows : Reprice(w, r) \/ RepriceFails(w, r)

\* The cron fires every hour, and neither does every sweep die nor every UPDATE of a
\* row fail.
Fairness ==
  /\ \A w \in Sweepers : SF_vars(Scan(w))
  /\ \A l \in Leads : SF_vars(RepriceAny(l))

Spec == Init /\ [][Next]_vars /\ Fairness

-------------------------------------------------------------------------------
(* Properties.                                                               *)

LeadRow == [price : Nat, originalPrice : Nat \cup {NONE}, repricedAt : Nat,
            sold : BOOLEAN, removed : BOOLEAN, frozen : BOOLEAN]

SelectedRow == [lead : Leads, tier : 1..3, row : LeadRow]

\* Every variable holds a value of its type, and a sweep never selects more rows than
\* its limit.
TypeOK ==
  /\ lead \in [Leads -> LeadRow]
  /\ tier \in [Leads -> 0..3]
  /\ sweep \in [Sweepers -> [now : Nat, rows : SUBSET SelectedRow]]
  /\ \A w \in Sweepers : Cardinality(sweep[w].rows) <= Limit
  /\ flips \in [Leads -> 0..MaxFlips]

\* The price of a lead is always one of its ladder's: the sticker price, or what some
\* tier it has already reached asks of the STICKER price, so repeated and overlapping
\* sweeps never compound discounts, never run ahead of the lead's age and never
\* pass below the floor by more than the rounding to a cent; the price it started
\* from is not forgotten.
PriceOnLadder ==
  \A l \in Leads :
    /\ \E t \in 0..tier[l] : lead[l].price = Quote(Sticker[l], t)
    /\ 100 * lead[l].price + 50 > Floor * Sticker[l]
    /\ lead[l].originalPrice = (IF lead[l].repricedAt = 0 THEN NONE ELSE Sticker[l])

\* Prices only fall, and never of a lead that is sold or quarantined at that moment: a
\* sweep overtaken by a younger one does not raise a price again, a sold lead keeps the
\* price its order took, and a quarantined one is "frozen" (storage.ts:800), whatever
\* the sweep read before it wrote.  A lead removed since may still fall: the update
\* does not look at it.
FallsOnlyOnOffer ==
  [][\A l \in Leads : /\ lead'[l].price <= lead[l].price
                      /\ lead[l].sold \/ lead[l].frozen => lead'[l].price = lead[l].price]_vars

\* Rows on offer that a sweep selects and cannot lower: priced above what their tier settles
\* at, but not above the price of the tier, which was rounded up to a cent or raised to
\* the minimum.
Stuck ==
  {l \in Leads : /\ OnOffer(lead[l])
                 /\ 100 * lead[l].price > SettledAt(Sticker[l], tier[l])
                 /\ lead[l].price <= Quote(Sticker[l], tier[l])}

\* "A large settled backlog can never consume the LIMIT budget and starve leads that
\* just crossed a tier" (storage.ts:844), as far as it is so: every lead that stays on
\* offer gets the price of its tier, unless again and again there are enough stuck rows
\* to fill the limit.  Settled rows that are not stuck never starve a lead, however many.
DecayReachesEveryLead ==
  \/ \A l \in Leads : []<>(OnOffer(lead[l]) => lead[l].price <= Quote(Sticker[l], tier[l]))
  \/ []<>(Cardinality(Stuck) >= Limit)

=================================================================================
