------------------------------- MODULE CronProofs -------------------------------
(*****************************************************************************)
(* Proofs about CronLock, the lock a background job runs under, and about    *)
(* SecondLook, the job that has most to lose from it.  The lock promises one *)
(* pod at a time only until the pool closes a connection under a run, so the *)
(* prices of SecondLook are proved for sweeps that overlap in any way.       *)
(*****************************************************************************)
EXTENDS CronLock, SecondLook, FiniteSetTheorems, TLAPS

-------------------------------------------------------------------------------
(* CronLock: for any number of pods, connections and runs, and whatever      *)
(* session an unlock reaches, runs on different pods never overlap as long   *)
(* as the pool has closed no connection under a run.                         *)

\* Why the lock holds although unlocks may go astray: every run took the lock on
\* the session that holds it, and that session's count covers all runs.  An unlock
\* that reaches the session gives back one of the counts, at the end of one run.
CountCoversRuns ==
  orphaned \/ /\ \A r \in runs : r.conn = holder
              /\ Cardinality(runs) <= count

CronInv == CronTypeOK /\ IsFiniteSet(runs) /\ CountCoversRuns

\* The invariant holds initially.
LEMMA CronInitially == CronInit => CronInv
<1>. SUFFICES ASSUME CronInit PROVE CronInv
  OBVIOUS
<1>1. IsFiniteSet({}) /\ Cardinality({}) = 0 BY FS_EmptySet
<1>2. CronTypeOK BY DEF CronInit, CronTypeOK
<1>3. CountCoversRuns BY <1>1 DEF CronInit, CountCoversRuns
<1>. QED BY <1>1, <1>2, <1>3 DEF CronInit, CronInv

\* A connection is opened, used or given back: no lock and no run changes.
LEMMA TrafficKeepsInv ==
  ASSUME CronInv, NEW c \in Conns, Connect(c) \/ Use(c) \/ Return(c)
  PROVE  CronInv'
BY DEF CronInv, CronTypeOK, CountCoversRuns, Connect, Use, Return

\* A run starts on the session that holds the lock, or on a free lock, and then no
\* run was in progress.
LEMMA TickKeepsInv ==
  ASSUME CronInv, NEW c \in Conns, Tick(c)
  PROVE  CronInv'
<1>. USE DEF CronInv
<1>1. PICK id \in 1..MaxRuns : runs' = runs \cup {[conn |-> c, id |-> id]}
  BY DEF Tick
<1>2. IsFiniteSet(runs') /\ Cardinality(runs') <= Cardinality(runs) + 1
  <2>1. Cardinality(runs) \in Nat BY FS_CardinalityType
  <2>. DEFINE run == [conn |-> c, id |-> id]
  <2>2. IsFiniteSet(runs \cup {run})
        /\ Cardinality(runs \cup {run}) \in {Cardinality(runs), Cardinality(runs) + 1}
    <3>. HIDE DEF run
    <3>. QED BY FS_AddElement
  <2>. QED BY <1>1, <2>1, <2>2
<1>3. CronTypeOK'
  BY <1>1, CronAssumption DEF Tick, CronTypeOK, Conns
<1>4. ASSUME ~orphaned' PROVE /\ \A r \in runs' : r.conn = holder'
                              /\ Cardinality(runs') <= count'
  <2>1. ~orphaned BY <1>4 DEF Tick
  <2>2. CASE holder = c
    BY <1>1, <1>2, <2>1, <2>2, FS_CardinalityType DEF Tick, CronTypeOK, CountCoversRuns
  <2>3. CASE holder = NoConn
    <3>1. count = 0 BY <2>3 DEF CronTypeOK
    <3>2. runs = {}
      BY <2>1, <3>1, FS_EmptySet, FS_CardinalityType DEF CountCoversRuns
    <3>3. holder' = c /\ count' = 1
      BY <2>3, CronAssumption DEF Tick
    <3>4. Cardinality(runs) = 0 BY <3>2, FS_EmptySet
    <3>. QED BY <1>1, <1>2, <3>2, <3>3, <3>4, FS_CardinalityType
  <2>. QED BY <2>2, <2>3 DEF Tick, MayLock
<1>. QED BY <1>2, <1>3, <1>4 DEF CountCoversRuns

\* A run ends.  Wherever the unlock goes, the count drops by at most the one run.
LEMMA FinishKeepsInv ==
  ASSUME CronInv, NEW r \in runs, NEW c \in Conns, Finish(r, c)
  PROVE  CronInv'
<1>. USE DEF CronInv
<1>1. runs' = runs \ {r} BY DEF Finish
<1>2. IsFiniteSet(runs') /\ Cardinality(runs') = Cardinality(runs) - 1
  BY <1>1, FS_RemoveElement
<1>3. CronTypeOK'
  <2>1. orphaned' \in BOOLEAN /\ strayed' \in BOOLEAN
    BY DEF Finish, Unlock, CronTypeOK
  <2>2. UNCHANGED << open, busy >> BY DEF Finish
  <2>3. CASE c = holder
    <3>1. c # NoConn BY CronAssumption
    <3>2. count \in Nat /\ count # 0 BY <2>3, <3>1 DEF CronTypeOK
    <3>3. count' = count - 1 /\ holder' = (IF count = 1 THEN NoConn ELSE holder)
      BY <2>3 DEF Finish, Unlock
    <3>. QED BY <1>1, <2>1, <2>2, <2>3, <3>1, <3>2, <3>3 DEF CronTypeOK
  <2>4. CASE c # holder
    <3>1. UNCHANGED << holder, count >> BY <2>4 DEF Finish, Unlock
    <3>. QED BY <1>1, <2>1, <2>2, <3>1 DEF CronTypeOK
  <2>. QED BY <2>3, <2>4
<1>4. ASSUME ~orphaned' PROVE /\ \A q \in runs' : q.conn = holder'
                              /\ Cardinality(runs') <= count'
  <2>1. /\ \A q \in runs : q.conn = holder
        /\ Cardinality(runs) <= count
    BY <1>4 DEF Finish, CountCoversRuns
  <2>2. Cardinality(runs) \in Nat /\ count \in Nat
    BY FS_CardinalityType DEF CronTypeOK
  <2>3. CASE c = holder /\ count = 1
    <3>1. count' = 0 BY <2>3 DEF Finish, Unlock
    <3>2. Cardinality(runs') = 0
      BY <1>2, <2>1, <2>2, <2>3, FS_CardinalityType
    <3>3. runs' = {} BY <1>2, <3>2, FS_EmptySet
    <3>. QED BY <3>1, <3>2, <3>3
  <2>4. CASE c = holder /\ count # 1
    BY <1>1, <1>2, <2>1, <2>2, <2>4 DEF Finish, Unlock
  <2>5. CASE c # holder
    BY <1>1, <1>2, <2>1, <2>2, <2>5 DEF Finish, Unlock
  <2>. QED BY <2>3, <2>4, <2>5
<1>. QED BY <1>2, <1>3, <1>4 DEF CountCoversRuns

\* A connection is closed: when it held the lock, either no run was in progress or
\* the closing is recorded in orphaned.
LEMMA CloseIdleKeepsInv ==
  ASSUME CronInv, NEW c \in Conns, CloseIdle(c)
  PROVE  CronInv'
<1>. USE DEF CronInv
<1>1. CronTypeOK'
  <2>1. orphaned' \in BOOLEAN /\ strayed' \in BOOLEAN
    BY DEF CloseIdle, ReleaseLocksOf, CronTypeOK
  <2>2. open' = open \ {c} /\ busy' = busy /\ c \notin busy /\ runs' = runs BY DEF CloseIdle
  <2>3. CASE holder = c
    <3>1. holder' = NoConn /\ count' = 0 BY <2>3 DEF CloseIdle, ReleaseLocksOf
    <3>. QED BY <2>1, <2>2, <3>1 DEF CronTypeOK
  <2>4. CASE holder # c
    <3>1. holder' = holder /\ count' = count BY <2>4 DEF CloseIdle, ReleaseLocksOf
    <3>. QED BY <2>1, <2>2, <2>4, <3>1 DEF CronTypeOK
  <2>. QED BY <2>3, <2>4
<1>2. ASSUME ~orphaned' PROVE /\ \A q \in runs' : q.conn = holder'
                              /\ Cardinality(runs') <= count'
  <2>1. /\ ~orphaned
        /\ \A q \in runs : q.conn # c
        /\ runs' = runs
    BY <1>2 DEF CloseIdle
  <2>2. CASE holder = c
    <3>1. runs = {} BY <2>1, <2>2 DEF CountCoversRuns
    <3>2. count' = 0 BY <2>2 DEF CloseIdle, ReleaseLocksOf
    <3>. QED BY <2>1, <3>1, <3>2, FS_EmptySet
  <2>3. CASE holder # c
    BY <2>1, <2>3 DEF CloseIdle, ReleaseLocksOf, CountCoversRuns
  <2>. QED BY <2>2, <2>3
<1>. QED BY <1>1, <1>2 DEF CountCoversRuns, CloseIdle

\* A pod dies: if it held the lock, all runs were its own and are gone too.
LEMMA PodDiesKeepsInv ==
  ASSUME CronInv, NEW p \in Pods, PodDies(p)
  PROVE  CronInv'
<1>. USE DEF CronInv
<1>. DEFINE lost == {p} \X (1..PoolSize)
<1>1. \A c \in Conns : c \in lost <=> PodOf(c) = p
  BY DEF Conns, PodOf
<1>2. runs' \subseteq runs BY DEF PodDies
<1>3. IsFiniteSet(runs') /\ Cardinality(runs') <= Cardinality(runs)
  BY <1>2, FS_Subset
<1>4. CronTypeOK'
  <2>1. orphaned' \in BOOLEAN /\ strayed' \in BOOLEAN
    BY DEF PodDies, ReleaseLocksOf, CronTypeOK
  <2>2. open' \subseteq Conns /\ busy' \subseteq open' BY DEF PodDies, CronTypeOK
  <2>3. runs' \subseteq [conn : Conns, id : 1..MaxRuns] BY <1>2 DEF CronTypeOK
  <2>4. CASE holder \in lost
    <3>1. holder' = NoConn /\ count' = 0 BY <2>4 DEF PodDies, ReleaseLocksOf
    <3>. QED BY <2>1, <2>2, <2>3, <3>1 DEF CronTypeOK
  <2>5. CASE holder \notin lost
    <3>1. holder' = holder /\ count' = count BY <2>5 DEF PodDies, ReleaseLocksOf
    <3>2. holder' \in open' \cup {NoConn}
      BY <1>1, <2>5, <3>1 DEF PodDies, CronTypeOK
    <3>. QED BY <2>1, <2>2, <2>3, <3>1, <3>2 DEF CronTypeOK
  <2>. QED BY <2>4, <2>5
<1>5. ASSUME ~orphaned' PROVE /\ \A q \in runs' : q.conn = holder'
                              /\ Cardinality(runs') <= count'
  <2>1. /\ \A q \in runs : q.conn = holder
        /\ Cardinality(runs) <= count
    BY <1>5 DEF PodDies, CountCoversRuns
  <2>2. CASE holder \in lost
    <3>1. \A q \in runs : PodOf(q.conn) = p
      BY <1>1, <2>1, <2>2 DEF CronTypeOK
    <3>2. runs' = {} BY <3>1 DEF PodDies, RunsOn
    <3>3. count' = 0 BY <2>2 DEF PodDies, ReleaseLocksOf
    <3>. QED BY <3>2, <3>3, FS_EmptySet
  <2>3. CASE holder \notin lost
    BY <1>2, <1>3, <2>1, <2>3, FS_CardinalityType DEF PodDies, ReleaseLocksOf, CronTypeOK
  <2>. QED BY <2>2, <2>3
<1>. QED BY <1>3, <1>4, <1>5 DEF CountCoversRuns

\* Every step keeps the invariant.
LEMMA CronStepsKeepInv == CronInv /\ [CronNext]_cronVars => CronInv'
<1>. SUFFICES ASSUME CronInv, [CronNext]_cronVars PROVE CronInv'
  OBVIOUS
<1>1. CASE CronNext
  BY <1>1, TrafficKeepsInv, TickKeepsInv, FinishKeepsInv, CloseIdleKeepsInv, PodDiesKeepsInv
  DEF CronNext
<1>2. CASE UNCHANGED cronVars
  BY <1>2 DEF cronVars, CronInv, CronTypeOK, CountCoversRuns
<1>. QED BY <1>1, <1>2

\* Every variable keeps its type, and only an open connection holds the lock.
THEOREM CronTypeCorrect == CronSpec => []CronTypeOK
<1>1. CronInv => CronTypeOK BY DEF CronInv
<1>. QED BY <1>1, CronInitially, CronStepsKeepInv, PTL DEF CronSpec

\* Runs of a job never overlap across pods as long as no run outlives the pool's
\* idle timeout, for any number of pods, connections and overlapping runs.
THEOREM CronOnePodAtATime == CronSpec => []OnePodAtATime
<1>1. CronInv => OnePodAtATime BY DEF CronInv, CountCoversRuns, OnePodAtATime
<1>. QED BY <1>1, CronInitially, CronStepsKeepInv, PTL DEF CronSpec

-------------------------------------------------------------------------------
(* SecondLook: for any leads, sticker prices, floor, minimum price, limit    *)
(* and number of overlapping sweeps.                                         *)

\* What a quote is computed from is the sticker price, in every row and in every copy
\* a sweep has of one; so discounts do not compound.
BasisIsSticker ==
  /\ \A l \in Leads : Basis(lead[l]) = Sticker[l]
  /\ \A w \in Sweepers : \A r \in sweep[w].rows : Basis(r.row) = Sticker[r.lead]

\* The tier of a selected row was reached, and the time of a sweep under way is not 0,
\* which would read as "never repriced".
SelectedAged ==
  \A w \in Sweepers :
    /\ sweep[w].rows # {} => sweep[w].now > 0
    /\ IsFiniteSet(sweep[w].rows)
    /\ \A r \in sweep[w].rows : r.tier <= tier[r.lead]

LadderInv == TypeOK /\ PriceOnLadder /\ BasisIsSticker /\ SelectedAged

\* A discount is a percentage that leaves the floor.
LEMMA DiscountBounds ==
  ASSUME NEW t \in 0..3
  PROVE  /\ Discount(t) \in 0..100
         /\ Discount(t) <= 100 - Floor
BY SecondLookAssumption DEF Discount, TIER_DISCOUNTS, Least

\* A quote is a price in cents, below the floor by the rounding to a cent at most.
LEMMA QuoteBounds ==
  ASSUME NEW basis \in Nat, NEW t \in 0..3
  PROVE  /\ Quote(basis, t) \in Nat
         /\ 100 * Quote(basis, t) + 50 > Floor * basis
<1>. DEFINE settled == basis * (100 - Discount(t))
            floor == basis * Floor
            whole == 100 * basis
            wish == 100 * MinPrice
<1>1. settled \in Nat
  <2>1. 100 - Discount(t) \in Nat BY DiscountBounds
  <2>. QED BY <2>1
<1>2. floor \in Nat /\ whole \in Nat /\ wish \in Nat BY SecondLookAssumption
<1>3. floor <= whole
  <2>1. 100 - Floor \in Nat BY SecondLookAssumption
  <2>2. basis * (100 - Floor) \in Nat BY <2>1
  <2>3. basis * (100 - Floor) = whole - floor BY SecondLookAssumption
  <2>. QED BY <1>2, <2>2, <2>3
<1>4. Floor * basis = floor BY SecondLookAssumption
<1>. DEFINE least == IF settled >= floor THEN settled ELSE floor
            floored == IF least < wish THEN IF wish <= whole THEN wish ELSE whole ELSE least
<1>5. Quote(basis, t) = IF t = 0 THEN basis ELSE (floored + 50) \div 100
  BY DEF Quote, SettledAt, Most, Least
<1>. HIDE DEF settled, floor, whole, wish
<1>6. floored \in Nat /\ floored >= floor BY <1>1, <1>2, <1>3
<1>. HIDE DEF floored
<1>7. /\ (floored + 50) \div 100 \in Nat
      /\ 100 * ((floored + 50) \div 100) + 50 > floor
  BY <1>2, <1>6
<1>8. 100 * basis + 50 > floor BY <1>2, <1>3 DEF whole
<1>. QED BY <1>4, <1>5, <1>7, <1>8

-------------------------------------------------------------------------------
(* The selection of a sweep.                                                 *)

\* The first rows of a finite set of leads in the order of the scan are not more than
\* the limit: each has a rank of its own, below the limit.
LEMMA SelectionLimited ==
  ASSUME TypeOK, NEW S \in SUBSET Leads,
         NEW first, first = {l \in S : Cardinality({m \in S : Before(m, l)}) < Limit}
  PROVE  IsFiniteSet(first) /\ Cardinality(first) <= Limit
<1>. DEFINE Earlier(l) == {m \in S : Before(m, l)}
            Rank == [l \in first |-> Cardinality(Earlier(l))]
<1>1. IsFiniteSet(S) BY SecondLookAssumption, FS_Subset
<1>2. IsFiniteSet(first) /\ Cardinality(first) \in Nat BY <1>1, FS_Subset, FS_CardinalityType
<1>3. ASSUME NEW l \in S PROVE IsFiniteSet(Earlier(l)) /\ Cardinality(Earlier(l)) \in Nat
  BY <1>1, FS_Subset, FS_CardinalityType
<1>4. ASSUME NEW l \in S, NEW m \in S, Before(l, m)
      PROVE  Cardinality(Earlier(l)) < Cardinality(Earlier(m))
  <2>1. \A k \in S : lead[k].repricedAt \in Nat /\ k \in Nat
    BY SecondLookAssumption DEF TypeOK, LeadRow
  <2>2. Earlier(l) \subseteq Earlier(m) BY <1>4, <2>1 DEF Before
  <2>3. l \in Earlier(m) /\ l \notin Earlier(l) BY <1>4, <2>1 DEF Before
  <2>4. Earlier(l) # Earlier(m) BY <2>3
  <2>5. /\ IsFiniteSet(Earlier(m)) /\ Cardinality(Earlier(m)) \in Nat
        /\ Cardinality(Earlier(l)) \in Nat
    BY <1>3
  <2>. DEFINE lower == Earlier(l)
              upper == Earlier(m)
  <2>6. lower \in SUBSET upper BY <2>2
  <2>. HIDE DEF lower, upper
  <2>7. Cardinality(lower) <= Cardinality(upper) /\ Cardinality(lower) # Cardinality(upper)
    BY <2>4, <2>5, <2>6, FS_Subset DEF lower, upper
  <2>. QED BY <2>5, <2>7 DEF lower, upper
<1>5. ASSUME NEW l \in S, NEW m \in S, l # m PROVE Before(l, m) \/ Before(m, l)
  BY <1>5, SecondLookAssumption DEF TypeOK, LeadRow, Before
<1>6. Rank \in [first -> 0..(Limit - 1)]
  <2>1. ASSUME NEW l \in first PROVE Cardinality(Earlier(l)) \in 0..(Limit - 1)
    <3>1. Cardinality(Earlier(l)) \in Nat BY <1>3
    <3>2. Cardinality(Earlier(l)) < Limit OBVIOUS
    <3>. HIDE DEF Earlier
    <3>. QED BY <3>1, <3>2, SecondLookAssumption
  <2>. HIDE DEF Earlier
  <2>. QED BY <2>1
<1>7. IsFiniteSet(0..(Limit - 1)) /\ Cardinality(0..(Limit - 1)) = Limit
  BY FS_Interval, SecondLookAssumption
<1>8. ASSUME NEW l \in first, NEW m \in first, l # m PROVE Rank[l] # Rank[m]
  <2>1. Rank[l] < Rank[m] \/ Rank[m] < Rank[l] BY <1>4, <1>5, <1>8
  <2>2. Rank[l] \in Nat /\ Rank[m] \in Nat BY <1>3
  <2>. QED BY <2>1, <2>2
<1>9. ~(Limit < Cardinality(first))
  <2>. HIDE DEF Rank
  <2>. QED BY <1>2, <1>6, <1>7, <1>8, FS_PigeonHole
<1>. QED BY <1>2, <1>9, SecondLookAssumption

-------------------------------------------------------------------------------
(* The steps.                                                                *)

\* The invariant holds initially: every lead is for sale at its sticker price.
LEMMA LadderInitially == Init => LadderInv
<1>. SUFFICES ASSUME Init PROVE LadderInv
  OBVIOUS
<1>. USE SecondLookAssumption
<1>1. IsFiniteSet({}) /\ Cardinality({}) = 0 BY FS_EmptySet
<1>2. TypeOK
  <2>1. lead \in [Leads -> LeadRow] BY DEF Init, Fresh, LeadRow
  <2>2. /\ sweep \in [Sweepers -> [now : Nat, rows : SUBSET SelectedRow]]
        /\ \A w \in Sweepers : Cardinality(sweep[w].rows) <= Limit
    <3>1. \A w \in Sweepers : sweep[w] = Idle BY DEF Init
    <3>2. Idle \in [now : Nat, rows : SUBSET SelectedRow] /\ Cardinality(Idle.rows) <= Limit
      BY <1>1 DEF Idle
    <3>3. sweep \in [Sweepers -> [now : Nat, rows : SUBSET SelectedRow]]
      BY <3>2 DEF Init
    <3>. QED BY <3>1, <3>2, <3>3
  <2>. QED BY <2>1, <2>2 DEF Init, TypeOK
<1>3. PriceOnLadder
  <2>. SUFFICES ASSUME NEW l \in Leads
       PROVE /\ \E t \in 0..tier[l] : lead[l].price = Quote(Sticker[l], t)
             /\ 100 * lead[l].price + 50 > Floor * Sticker[l]
             /\ lead[l].originalPrice = (IF lead[l].repricedAt = 0 THEN NONE ELSE Sticker[l])
    BY DEF PriceOnLadder
  <2>1. Quote(Sticker[l], 0) = Sticker[l] BY DEF Quote
  <2>2. 100 * Sticker[l] + 50 > Floor * Sticker[l] BY <2>1, QuoteBounds
  <2>. QED BY <2>1, <2>2 DEF Init, Fresh
<1>4. BasisIsSticker BY DEF Init, BasisIsSticker, Basis, Fresh, Idle
<1>5. SelectedAged BY <1>1 DEF Init, SelectedAged, Idle
<1>. QED BY <1>2, <1>3, <1>4, <1>5 DEF LadderInv

\* A step that leaves a lead its price, the price it started from and the time of its
\* last repricing, and does not make it younger, keeps what the invariant says of leads.
LEMMA PricesKept ==
  ASSUME LadderInv, TypeOK',
         \A l \in Leads : /\ lead'[l].price = lead[l].price
                          /\ lead'[l].originalPrice = lead[l].originalPrice
                          /\ lead'[l].repricedAt = lead[l].repricedAt
                          /\ tier[l] <= tier'[l]
  PROVE  PriceOnLadder' /\ (\A l \in Leads : Basis(lead'[l]) = Sticker[l])
<1>1. ASSUME NEW l \in Leads
      PROVE  /\ \E t \in 0..tier'[l] : lead'[l].price = Quote(Sticker[l], t)
             /\ 100 * lead'[l].price + 50 > Floor * Sticker[l]
             /\ lead'[l].originalPrice = (IF lead'[l].repricedAt = 0 THEN NONE ELSE Sticker[l])
             /\ Basis(lead'[l]) = Sticker[l]
  <2>1. PICK t \in 0..tier[l] : lead[l].price = Quote(Sticker[l], t)
    BY DEF LadderInv, PriceOnLadder
  <2>2. t \in 0..tier'[l] BY DEF LadderInv, TypeOK
  <2>3. /\ 100 * lead[l].price + 50 > Floor * Sticker[l]
        /\ lead[l].originalPrice = (IF lead[l].repricedAt = 0 THEN NONE ELSE Sticker[l])
        /\ Basis(lead[l]) = Sticker[l]
    BY DEF LadderInv, PriceOnLadder, BasisIsSticker
  <2>4. Basis(lead'[l]) = Basis(lead[l]) BY DEF Basis
  <2>. QED BY <2>1, <2>2, <2>3, <2>4
<1>. QED BY <1>1 DEF PriceOnLadder

\* A step that leaves the sweeps alone and makes no lead younger keeps what the
\* invariant says of them.
LEMMA SweepsKept ==
  ASSUME LadderInv, TypeOK', sweep' = sweep,
         \A l \in Leads : tier[l] <= tier'[l]
  PROVE  /\ SelectedAged'
         /\ \A w \in Sweepers : \A r \in sweep'[w].rows : Basis(r.row) = Sticker[r.lead]
<1>1. ASSUME NEW w \in Sweepers, NEW r \in sweep[w].rows PROVE r.tier <= tier'[r.lead]
  <2>1. r.lead \in Leads /\ r.tier \in Nat BY DEF LadderInv, TypeOK, SelectedRow
  <2>. QED BY <2>1 DEF LadderInv, TypeOK, SelectedAged
<1>. QED BY <1>1 DEF LadderInv, SelectedAged, BasisIsSticker

\* A step that drops rows of one sweep, if any.
LEMMA RestKeepsSweeps ==
  ASSUME LadderInv, NEW w \in Sweepers, NEW rest \in SUBSET sweep[w].rows, tier' = tier,
         sweep' = [sweep EXCEPT ![w] = IF rest = {} THEN Idle
                                       ELSE [now |-> sweep[w].now, rows |-> rest]]
  PROVE  /\ sweep' \in [Sweepers -> [now : Nat, rows : SUBSET SelectedRow]]
         /\ \A v \in Sweepers : Cardinality(sweep'[v].rows) <= Limit
         /\ SelectedAged'
         /\ \A v \in Sweepers : \A r \in sweep'[v].rows : Basis(r.row) = Sticker[r.lead]
<1>. DEFINE rows == sweep[w].rows
<1>1. sweep[w] \in [now : Nat, rows : SUBSET SelectedRow] /\ IsFiniteSet(rows)
      /\ Cardinality(rows) <= Limit
  BY DEF LadderInv, TypeOK, SelectedAged
<1>2. /\ IsFiniteSet(rest) /\ Cardinality(rest) <= Limit
      /\ IsFiniteSet({}) /\ Cardinality({}) <= Limit
  BY <1>1, FS_Subset, FS_EmptySet, FS_CardinalityType, SecondLookAssumption
<1>3. /\ sweep'[w].rows = rest
      /\ rest # {} => sweep'[w].now = sweep[w].now
      /\ sweep'[w] \in [now : Nat, rows : SUBSET SelectedRow]
  BY <1>1 DEF LadderInv, TypeOK, Idle
<1>4. \A v \in Sweepers : v # w => sweep'[v] = sweep[v] BY DEF LadderInv, TypeOK
<1>5. sweep' \in [Sweepers -> [now : Nat, rows : SUBSET SelectedRow]]
  BY <1>3, <1>4 DEF LadderInv, TypeOK
<1>6. \A v \in Sweepers : Cardinality(sweep'[v].rows) <= Limit
  BY <1>2, <1>3, <1>4 DEF LadderInv, TypeOK
<1>7. SelectedAged'
  BY <1>2, <1>3, <1>4 DEF LadderInv, SelectedAged
<1>8. \A v \in Sweepers : \A r \in sweep'[v].rows : Basis(r.row) = Sticker[r.lead]
  BY <1>3, <1>4 DEF LadderInv, BasisIsSticker
<1>. QED BY <1>5, <1>6, <1>7, <1>8

\* Age, a purchase, a removal and a quarantine change no price.
LEMMA OthersKeepLadder ==
  ASSUME LadderInv, NEW l \in Leads,
         Ages(l) \/ PurchaseLead(l) \/ RemoveLead(l) \/ Quarantine(l)
  PROVE  LadderInv'
<1>1. CASE Ages(l)
  <2>1. TypeOK' BY <1>1 DEF Ages, LadderInv, TypeOK
  <2>2. \A m \in Leads : tier[m] <= tier'[m] BY <1>1 DEF Ages, LadderInv, TypeOK
  <2>. QED BY <1>1, <2>1, <2>2, PricesKept, SweepsKept DEF Ages, LadderInv, BasisIsSticker
<1>2. CASE PurchaseLead(l)
  <2>1. TypeOK' BY <1>2 DEF PurchaseLead, LadderInv, TypeOK, LeadRow
  <2>2. \A m \in Leads : /\ lead'[m].price = lead[m].price
                         /\ lead'[m].originalPrice = lead[m].originalPrice
                         /\ lead'[m].repricedAt = lead[m].repricedAt
                         /\ tier[m] <= tier'[m]
    BY <1>2 DEF PurchaseLead, LadderInv, TypeOK, LeadRow
  <2>. QED BY <1>2, <2>1, <2>2, PricesKept, SweepsKept DEF PurchaseLead, LadderInv, BasisIsSticker
<1>3. CASE RemoveLead(l)
  <2>1. TypeOK' BY <1>3 DEF RemoveLead, LadderInv, TypeOK, LeadRow
  <2>2. \A m \in Leads : /\ lead'[m].price = lead[m].price
                         /\ lead'[m].originalPrice = lead[m].originalPrice
                         /\ lead'[m].repricedAt = lead[m].repricedAt
                         /\ tier[m] <= tier'[m]
    BY <1>3 DEF RemoveLead, LadderInv, TypeOK, LeadRow
  <2>. QED BY <1>3, <2>1, <2>2, PricesKept, SweepsKept DEF RemoveLead, LadderInv, BasisIsSticker
<1>4. CASE Quarantine(l)
  <2>1. TypeOK'
    <3>1. lead' \in [Leads -> LeadRow] BY <1>4 DEF Quarantine, LadderInv, TypeOK, LeadRow
    <3>2. flips' \in [Leads -> 0..MaxFlips]
      BY <1>4, SecondLookAssumption DEF Quarantine, LadderInv, TypeOK
    <3>. QED BY <1>4, <3>1, <3>2 DEF Quarantine, LadderInv, TypeOK
  <2>2. \A m \in Leads : /\ lead'[m].price = lead[m].price
                         /\ lead'[m].originalPrice = lead[m].originalPrice
                         /\ lead'[m].repricedAt = lead[m].repricedAt
                         /\ tier[m] <= tier'[m]
    BY <1>4 DEF Quarantine, LadderInv, TypeOK, LeadRow
  <2>. QED BY <1>4, <2>1, <2>2, PricesKept, SweepsKept DEF Quarantine, LadderInv, BasisIsSticker
<1>. QED BY <1>1, <1>2, <1>3, <1>4

\* The scan selects leads that are aged, as they are, and no more than its limit.
LEMMA ScanKeepsLadder ==
  ASSUME LadderInv, NEW w \in Sweepers, Scan(w)
  PROVE  LadderInv'
<1>. DEFINE first == {l \in Movable : Cardinality({m \in Movable : Before(m, l)}) < Limit}
            Copy(l) == [lead |-> l, tier |-> tier[l], row |-> lead[l]]
            rows == {Copy(l) : l \in first}
<1>1. PICK last \in {lead[l].repricedAt : l \in Leads} :
        sweep' = [sweep EXCEPT ![w] = [now |-> last + 1, rows |-> rows]]
  BY DEF Scan, MaxPerRun
<1>2. last \in Nat BY DEF LadderInv, TypeOK, LeadRow
<1>3. first \subseteq Movable /\ Movable \subseteq Leads BY DEF Movable
<1>4. IsFiniteSet(first) /\ Cardinality(first) <= Limit
  BY <1>3, SelectionLimited DEF LadderInv
<1>5. \A l \in first : l \in Leads /\ tier[l] \in 1..3
  BY <1>3 DEF Movable, LadderInv, TypeOK
<1>. HIDE DEF first
<1>6. IsFiniteSet(rows) /\ Cardinality(rows) <= Limit
  <2>1. Cardinality(first) \in Nat BY <1>4, FS_CardinalityType
  <2>2. IsFiniteSet(rows) /\ Cardinality(rows) <= Cardinality(first)
    <3>. DEFINE copy == [l \in first |-> Copy(l)]
    <3>1. copy \in Surjection(first, rows) BY DEF Surjection
    <3>. HIDE DEF copy, rows
    <3>. QED BY <1>4, <3>1, FS_Surjection
  <2>. QED BY <1>4, <2>1, <2>2, FS_CardinalityType, SecondLookAssumption
<1>7. ASSUME NEW l \in first
      PROVE  Copy(l) \in SelectedRow /\ Copy(l).tier <= tier[Copy(l).lead]
             /\ Basis(Copy(l).row) = Sticker[Copy(l).lead]
  BY <1>5 DEF LadderInv, TypeOK, BasisIsSticker, SelectedRow
<1>8. /\ sweep'[w].rows = rows /\ sweep'[w].now = last + 1
      /\ \A v \in Sweepers : v # w => sweep'[v] = sweep[v]
  BY <1>1 DEF LadderInv, TypeOK
<1>9. sweep' \in [Sweepers -> [now : Nat, rows : SUBSET SelectedRow]]
  <2>1. rows \in SUBSET SelectedRow BY <1>7
  <2>. HIDE DEF rows
  <2>. QED BY <1>1, <1>2, <2>1 DEF LadderInv, TypeOK
<1>10. TypeOK'
  <2>. HIDE DEF rows
  <2>1. \A v \in Sweepers : Cardinality(sweep'[v].rows) <= Limit
    BY <1>6, <1>8 DEF LadderInv, TypeOK
  <2>. QED BY <1>9, <2>1 DEF Scan, LadderInv, TypeOK
<1>11. SelectedAged'
  <2>1. \A r \in rows : r.tier <= tier[r.lead] BY <1>7
  <2>. HIDE DEF rows
  <2>2. tier' = tier /\ last + 1 > 0 BY <1>2 DEF Scan
  <2>. QED BY <1>6, <1>8, <2>1, <2>2 DEF LadderInv, SelectedAged
<1>12. BasisIsSticker'
  <2>1. \A r \in rows : Basis(r.row) = Sticker[r.lead] BY <1>7
  <2>. HIDE DEF rows
  <2>2. lead' = lead BY DEF Scan
  <2>3. \A v \in Sweepers : \A r \in sweep'[v].rows : Basis(r.row) = Sticker[r.lead]
    BY <1>8, <2>1 DEF LadderInv, BasisIsSticker
  <2>. QED BY <2>2, <2>3 DEF LadderInv, BasisIsSticker
<1>13. PriceOnLadder' BY DEF Scan, LadderInv, PriceOnLadder
<1>. QED BY <1>10, <1>11, <1>12, <1>13 DEF LadderInv

\* One row is written: its price is what a tier the lead has reached asks of the
\* sticker price, for that is what the copy's basis is, however old the copy.
LEMMA RepriceKeepsLadder ==
  ASSUME LadderInv, NEW w \in Sweepers, NEW r \in sweep[w].rows, Reprice(w, r)
  PROVE  LadderInv'
<1>. DEFINE rest == sweep[w].rows \ {r}
            l == r.lead
            price == Quote(Basis(r.row), r.tier)
<1>1. /\ r \in SelectedRow /\ l \in Leads /\ r.tier \in 1..3
      /\ sweep[w].now \in Nat /\ sweep[w].now > 0
  BY DEF LadderInv, TypeOK, SelectedAged, SelectedRow
<1>2. rest \in SUBSET sweep[w].rows OBVIOUS
<1>3. /\ sweep' = [sweep EXCEPT ![w] = IF rest = {} THEN Idle
                                       ELSE [now |-> sweep[w].now, rows |-> rest]]
      /\ tier' = tier /\ flips' = flips
  BY DEF Reprice, RestOf
<1>4. /\ sweep' \in [Sweepers -> [now : Nat, rows : SUBSET SelectedRow]]
      /\ \A v \in Sweepers : Cardinality(sweep'[v].rows) <= Limit
      /\ SelectedAged'
      /\ \A v \in Sweepers : \A q \in sweep'[v].rows : Basis(q.row) = Sticker[q.lead]
  <2>. HIDE DEF rest
  <2>. QED BY <1>2, <1>3, RestKeepsSweeps
<1>5. CASE price < r.row.price /\ Unmoved(l, r.row)
  <2>1. Basis(r.row) = Sticker[l] BY DEF LadderInv, BasisIsSticker
  <2>2. Sticker[l] \in Nat BY <1>1, SecondLookAssumption
  <2>3. price \in Nat /\ 100 * price + 50 > Floor * Sticker[l]
    <3>1. r.tier \in 0..3 BY <1>1
    <3>2. /\ Quote(Sticker[l], r.tier) \in Nat
          /\ 100 * Quote(Sticker[l], r.tier) + 50 > Floor * Sticker[l]
      BY <2>2, <3>1, QuoteBounds
    <3>. QED BY <2>1, <3>2
  <2>4. lead' = [lead EXCEPT ![l].price = price,
                             ![l].originalPrice = Basis(r.row),
                             ![l].repricedAt = sweep[w].now]
    BY <1>5 DEF Reprice
  <2>5. price = Quote(Sticker[l], r.tier) BY <2>1
  <2>6. r.tier \in 0..tier'[l]
    BY <1>1, <1>3 DEF LadderInv, TypeOK, SelectedAged
  <2>. HIDE DEF price, l
  <2>7. /\ lead'[l].price = price /\ lead'[l].originalPrice = Sticker[l]
        /\ lead'[l].repricedAt = sweep[w].now
        /\ \A m \in Leads : m # l => lead'[m] = lead[m]
    BY <1>1, <2>1, <2>4 DEF LadderInv, TypeOK, LeadRow
  <2>8. lead' \in [Leads -> LeadRow]
    <3>1. lead \in [Leads -> LeadRow] /\ lead[l] \in LeadRow
      BY <1>1 DEF LadderInv, TypeOK
    <3>2. lead'[l] \in LeadRow
      <4>1. lead'[l] = [lead[l] EXCEPT !.price = price, !.originalPrice = Basis(r.row),
                                       !.repricedAt = sweep[w].now]
        BY <1>1, <2>4, <3>1
      <4>. QED BY <1>1, <2>1, <2>2, <2>3, <3>1, <4>1 DEF LeadRow
    <3>3. lead' = [lead EXCEPT ![l] = lead'[l]] BY <2>4, <3>1
    <3>. QED BY <3>1, <3>2, <3>3
  <2>9. TypeOK' BY <1>3, <1>4, <2>8 DEF LadderInv, TypeOK
  <2>10. PriceOnLadder'
    <3>. SUFFICES ASSUME NEW m \in Leads
         PROVE /\ \E t \in 0..tier'[m] : lead'[m].price = Quote(Sticker[m], t)
               /\ 100 * lead'[m].price + 50 > Floor * Sticker[m]
               /\ lead'[m].originalPrice = (IF lead'[m].repricedAt = 0 THEN NONE ELSE Sticker[m])
      BY DEF PriceOnLadder
    <3>1. CASE m = l
      <4>1. \E t \in 0..tier'[m] : lead'[m].price = Quote(Sticker[m], t)
        BY <2>5, <2>6, <2>7, <3>1
      <4>. QED BY <1>1, <2>3, <2>7, <3>1, <4>1
    <3>2. CASE m # l
      BY <1>3, <2>7, <3>2 DEF LadderInv, PriceOnLadder
    <3>. QED BY <3>1, <3>2
  <2>11. ASSUME NEW m \in Leads PROVE Basis(lead'[m]) = Sticker[m]
    <3>1. CASE m = l BY <2>2, <2>7, <3>1, SecondLookAssumption DEF Basis
    <3>2. CASE m # l
      <4>1. lead'[m] = lead[m] BY <2>7, <3>2
      <4>. QED BY <4>1 DEF LadderInv, BasisIsSticker
    <3>. QED BY <3>1, <3>2
  <2>. QED BY <1>4, <2>9, <2>10, <2>11 DEF LadderInv, BasisIsSticker
<1>6. CASE ~(price < r.row.price /\ Unmoved(l, r.row))
  <2>1. lead' = lead BY <1>6 DEF Reprice
  <2>2. TypeOK' BY <1>3, <1>4, <2>1 DEF LadderInv, TypeOK
  <2>3. PriceOnLadder' BY <1>3, <2>1 DEF LadderInv, PriceOnLadder
  <2>. QED BY <1>4, <2>1, <2>2, <2>3 DEF LadderInv, BasisIsSticker
<1>. QED BY <1>5, <1>6

\* A row's UPDATE fails, or the pod dies: the sweep forgets rows, no lead changes.
LEMMA FailuresKeepLadder ==
  ASSUME LadderInv, NEW w \in Sweepers,
         Crash(w) \/ \E r \in sweep[w].rows : RepriceFails(w, r)
  PROVE  LadderInv'
<1>1. PICK rest \in SUBSET sweep[w].rows :
        sweep' = [sweep EXCEPT ![w] = IF rest = {} THEN Idle
                                      ELSE [now |-> sweep[w].now, rows |-> rest]]
  <2>1. CASE Crash(w)
    <3>. DEFINE rest == {}
    <3>1. rest \in SUBSET sweep[w].rows OBVIOUS
    <3>2. sweep' = [sweep EXCEPT ![w] = IF rest = {} THEN Idle
                                        ELSE [now |-> sweep[w].now, rows |-> rest]]
      BY <2>1 DEF Crash
    <3>. QED BY <3>1, <3>2
  <2>2. ASSUME NEW r \in sweep[w].rows, RepriceFails(w, r)
        PROVE  \E rest \in SUBSET sweep[w].rows :
                 sweep' = [sweep EXCEPT ![w] = IF rest = {} THEN Idle
                                               ELSE [now |-> sweep[w].now, rows |-> rest]]
    <3>. DEFINE rest == sweep[w].rows \ {r}
    <3>1. rest \in SUBSET sweep[w].rows OBVIOUS
    <3>2. sweep' = [sweep EXCEPT ![w] = IF rest = {} THEN Idle
                                        ELSE [now |-> sweep[w].now, rows |-> rest]]
      BY <2>2 DEF RepriceFails, RestOf
    <3>. HIDE DEF rest
    <3>. QED BY <3>1, <3>2
  <2>. QED BY <2>1, <2>2
<1>2. lead' = lead /\ tier' = tier /\ flips' = flips BY DEF Crash, RepriceFails
<1>3. /\ sweep' \in [Sweepers -> [now : Nat, rows : SUBSET SelectedRow]]
      /\ \A v \in Sweepers : Cardinality(sweep'[v].rows) <= Limit
      /\ SelectedAged'
      /\ \A v \in Sweepers : \A q \in sweep'[v].rows : Basis(q.row) = Sticker[q.lead]
  BY <1>1, <1>2, RestKeepsSweeps
<1>4. TypeOK' BY <1>2, <1>3 DEF LadderInv, TypeOK
<1>5. PriceOnLadder' BY <1>2 DEF LadderInv, PriceOnLadder
<1>. QED BY <1>2, <1>3, <1>4, <1>5 DEF LadderInv, BasisIsSticker

\* Every step keeps the invariant.
LEMMA LadderStep == LadderInv /\ [Next]_vars => LadderInv'
<1>. SUFFICES ASSUME LadderInv, [Next]_vars PROVE LadderInv'
  OBVIOUS
<1>1. CASE Next
  BY <1>1, OthersKeepLadder, ScanKeepsLadder, RepriceKeepsLadder, FailuresKeepLadder DEF Next
<1>2. CASE UNCHANGED vars
  <2>1. TypeOK' BY <1>2 DEF vars, LadderInv, TypeOK
  <2>2. PriceOnLadder' BY <1>2 DEF vars, LadderInv, PriceOnLadder
  <2>3. BasisIsSticker' BY <1>2 DEF vars, LadderInv, BasisIsSticker
  <2>4. SelectedAged' BY <1>2 DEF vars, LadderInv, SelectedAged
  <2>. QED BY <2>1, <2>2, <2>3, <2>4 DEF LadderInv
<1>. QED BY <1>1, <1>2

\* A write lowers the price of a lead that is neither sold nor quarantined, since the
\* update asserts the price it read and both flags; nothing else writes a price.
LEMMA StepFalls ==
  LadderInv /\ [Next]_vars =>
    \A l \in Leads : /\ lead'[l].price <= lead[l].price
                     /\ lead[l].sold \/ lead[l].frozen => lead'[l].price = lead[l].price
<1>. SUFFICES ASSUME LadderInv, [Next]_vars, NEW l \in Leads
     PROVE  /\ lead'[l].price <= lead[l].price
            /\ lead[l].sold \/ lead[l].frozen => lead'[l].price = lead[l].price
  OBVIOUS
<1>1. lead \in [Leads -> LeadRow] /\ lead[l].price \in Nat BY DEF LadderInv, TypeOK, LeadRow
<1>2. ASSUME lead'[l].price = lead[l].price
      PROVE  /\ lead'[l].price <= lead[l].price
             /\ lead[l].sold \/ lead[l].frozen => lead'[l].price = lead[l].price
  BY <1>1, <1>2
<1>3. ASSUME NEW m \in Leads, Ages(m) \/ PurchaseLead(m) \/ RemoveLead(m) \/ Quarantine(m)
      PROVE  lead'[l].price = lead[l].price
  BY <1>1, <1>3 DEF Ages, PurchaseLead, RemoveLead, Quarantine, LeadRow
<1>4. ASSUME NEW w \in Sweepers, NEW r \in sweep[w].rows, Reprice(w, r)
      PROVE  /\ lead'[l].price <= lead[l].price
             /\ lead[l].sold \/ lead[l].frozen => lead'[l].price = lead[l].price
  <2>. DEFINE price == Quote(Basis(r.row), r.tier)
  <2>1. r.lead \in Leads /\ r.tier \in 1..3 BY DEF LadderInv, TypeOK, SelectedRow
  <2>2. price \in Nat
    <3>1. Basis(r.row) \in Nat
      BY <2>1, SecondLookAssumption DEF LadderInv, BasisIsSticker
    <3>2. r.tier \in 0..3 BY <2>1
    <3>. QED BY <3>1, <3>2, QuoteBounds
  <2>3. CASE price < r.row.price /\ Unmoved(r.lead, r.row)
    <3>1. lead' = [lead EXCEPT ![r.lead].price = price,
                               ![r.lead].originalPrice = Basis(r.row),
                               ![r.lead].repricedAt = sweep[w].now]
      BY <1>4, <2>3 DEF Reprice
    <3>. HIDE DEF price
    <3>2. CASE l = r.lead
      <4>1. lead'[l].price = price BY <1>1, <2>1, <3>1, <3>2 DEF LeadRow
      <4>. QED BY <1>1, <2>2, <2>3, <3>2, <4>1 DEF Unmoved
    <3>3. CASE l # r.lead
      <4>1. lead'[l] = lead[l] BY <1>1, <3>1, <3>3
      <4>. QED BY <1>1, <4>1
    <3>. QED BY <3>2, <3>3
  <2>4. CASE ~(price < r.row.price /\ Unmoved(r.lead, r.row))
    <3>1. lead' = lead BY <1>4, <2>4 DEF Reprice
    <3>. QED BY <1>1, <3>1
  <2>. QED BY <2>3, <2>4
<1>5. ASSUME NEW w \in Sweepers, Scan(w) \/ Crash(w) \/ \E r \in sweep[w].rows : RepriceFails(w, r)
      PROVE  lead'[l].price = lead[l].price
  BY <1>5 DEF Scan, Crash, RepriceFails
<1>6. CASE UNCHANGED vars BY <1>1, <1>6 DEF vars
<1>. QED BY <1>2, <1>3, <1>4, <1>5, <1>6 DEF Next

\* Every variable keeps its type, and no sweep selects more rows than its limit.
THEOREM SecondLookTypeCorrect == Spec => []TypeOK
<1>1. LadderInv => TypeOK BY DEF LadderInv
<1>. QED BY <1>1, LadderInitially, LadderStep, PTL DEF Spec

\* Whatever sweeps overlap, crash or fail, a price is the sticker price or what a tier
\* the lead has reached asks of it, and not below the floor by more than the rounding.
THEOREM SecondLookOnLadder == Spec => []PriceOnLadder
<1>1. LadderInv => PriceOnLadder BY DEF LadderInv
<1>. QED BY <1>1, LadderInitially, LadderStep, PTL DEF Spec

\* Prices only fall, and never of a sold or a quarantined lead.
THEOREM SecondLookOnlyFalls == Spec => FallsOnlyOnOffer
<1>1. LadderInv /\ [Next]_vars =>
        [\A l \in Leads : /\ lead'[l].price <= lead[l].price
                          /\ lead[l].sold \/ lead[l].frozen => lead'[l].price = lead[l].price]_vars
  BY StepFalls
<1>. QED BY <1>1, LadderInitially, LadderStep, PTL DEF Spec, FallsOnlyOnOffer

=================================================================================
