------------------------------- MODULE TcpaProofs -------------------------------
(*****************************************************************************)
(* Proofs about TcpaClaims: for any number of policies, claims and requests, *)
(* whatever the limits, what is paid stays within them, resolved claims are  *)
(* final and the organisation is never uninsured.                            *)
(*****************************************************************************)
EXTENDS TcpaClaims, SumProofs

-------------------------------------------------------------------------------
(* The invariant.                                                            *)

Locked == {"deny", "policy", "siblings", "pay"}

\* A claim's row lock has one holder, and the claim stays open for it.
OneClaimHolder ==
  \A a, b \in Admins :
    /\ resolving[a].pc \in Locked => claims[resolving[a].claim].status = "open"
    /\ /\ resolving[a].pc \in Locked /\ resolving[b].pc \in Locked
       /\ resolving[a].claim = resolving[b].claim
       => a = b

\* A policy's row lock has one holder among the resolutions.
OnePolicyHolder ==
  \A a, b \in Admins :
    /\ resolving[a].pc \in {"siblings", "pay"} /\ resolving[b].pc \in {"siblings", "pay"}
    /\ claims[resolving[a].claim].policy = claims[resolving[b].claim].policy
    => a = b

-------------------------------------------------------------------------------
(* The amounts that are added up.                                            *)

RawClaim == [policy : Nat, status : {"open", "approved", "denied"}, paid : Nat]

\* PaidBeside of a given sequence of claims.
PaidOf(c, p, k) ==
  [i \in 1..Len(c) |-> IF c[i].policy = p /\ c[i].status = "approved" /\ i # k
                       THEN c[i].paid ELSE 0]

\* Why the aggregate check is sound although the sum was read by an earlier
\* statement: under the policy's lock, what was read is still what is paid.
SumIsCurrent ==
  \A a \in Admins :
    resolving[a].pc = "pay" =>
      resolving[a].already =
        Total(PaidOf(claims, claims[resolving[a].claim].policy, resolving[a].claim))

\* AggregateNeverExceeded in terms of PaidOf.
WithinLimits ==
  \A p \in PolicyIds :
    /\ Total(PaidOf(claims, p, 0)) <= policies[p].aggregate
    /\ \A k \in ClaimIds : claims[k].policy = p => claims[k].paid <= policies[p].perClaim

TcpaInv == TypeOK /\ OneClaimHolder /\ OnePolicyHolder /\ SumIsCurrent /\ WithinLimits

\* The claims are claims, and the amounts a sequence of naturals.
LEMMA ClaimsAreRaw ==
  ASSUME TypeOK
  PROVE  claims \in Seq(RawClaim)
<1>1. ClaimType \subseteq RawClaim
  BY DEF TypeOK, ClaimType, RawClaim, PolicyIds
<1>. QED BY <1>1 DEF TypeOK

LEMMA PaidOfType ==
  ASSUME NEW c \in Seq(RawClaim), NEW p, NEW k
  PROVE  /\ PaidOf(c, p, k) \in Seq(Nat)
         /\ PaidOf(c, p, k) \in Seq(Int)
         /\ Len(PaidOf(c, p, k)) = Len(c)
         /\ Total(PaidOf(c, p, k)) \in Nat
<1>1. \A i \in 1..Len(c) : c[i].paid \in Nat
  <2>1. \A i \in 1..Len(c) : c[i] \in RawClaim OBVIOUS
  <2>. QED BY <2>1 DEF RawClaim
<1>2. PaidOf(c, p, k) \in [1..Len(c) -> Nat] BY <1>1 DEF PaidOf
<1>3. Len(c) \in Nat OBVIOUS
<1>4. PaidOf(c, p, k) \in Seq(Nat) BY <1>2, <1>3
<1>5. Len(PaidOf(c, p, k)) = Len(c) BY <1>3, <1>4 DEF PaidOf
<1>6. PaidOf(c, p, k) \in Seq(Int) BY <1>2, <1>3
<1>. QED BY <1>4, <1>5, <1>6, TotalNat

\* A claim that is filed adds nothing.
LEMMA PaidOfAppend ==
  ASSUME NEW c \in Seq(RawClaim), NEW p, NEW k, NEW r \in RawClaim, r.status = "open"
  PROVE  Total(PaidOf(Append(c, r), p, k)) = Total(PaidOf(c, p, k))
<1>. DEFINE s == PaidOf(c, p, k)
            d == Append(c, r)
            t == PaidOf(d, p, k)
<1>1. d \in Seq(RawClaim) /\ Len(d) = Len(c) + 1 /\ Len(c) \in Nat
      /\ d[Len(c) + 1] = r /\ \A i \in 1..Len(c) : d[i] = c[i]
  OBVIOUS
<1>2. s \in Seq(Int) /\ Len(s) = Len(c) BY PaidOfType
<1>. HIDE DEF d
<1>3. t \in Seq(Int) /\ Len(t) = Len(c) + 1 BY <1>1, PaidOfType
<1>4. t = Append(s, 0)
  <2>1. \A i \in 1..Len(c) : t[i] = s[i] BY <1>1 DEF PaidOf
  <2>2. t[Len(c) + 1] = 0 BY <1>1 DEF PaidOf
  <2>. HIDE DEF s, t
  <2>. QED BY <1>1, <1>2, <1>3, <2>1, <2>2
<1>. HIDE DEF s, t
<1>5. Total(t) = Total(s) BY <1>2, <1>4, TotalAppendZero
<1>. QED BY <1>5 DEF s, t, d

\* A change of a claim that counts neither before nor after it changes nothing.
LEMMA PaidOfUnchanged ==
  ASSUME NEW c \in Seq(RawClaim), NEW d \in Seq(RawClaim), Len(c) = Len(d),
         NEW p, NEW k, NEW j \in 1..Len(c),
         \A i \in 1..Len(c) : i # j => d[i] = c[i],
         \/ j = k
         \/ c[j].policy # p /\ d[j].policy # p
         \/ c[j].status # "approved" /\ d[j].status # "approved"
  PROVE  PaidOf(d, p, k) = PaidOf(c, p, k)
BY DEF PaidOf

-------------------------------------------------------------------------------
(* Types.                                                                    *)

\* Rows are added and updated, never removed.
RowsStay == Len(policies) <= Len(policies') /\ Len(claims) <= Len(claims')

\* A state with more rows in which the requests are where they were, but for one of
\* them, has the types if the tables have them.
LEMMA TypesGrow ==
  ASSUME TypeOK, RowsStay, policies' \in Seq(PolicyType), claims' \in Seq(ClaimType)'
  PROVE  /\ PolicyIds \subseteq PolicyIds' /\ ClaimIds \subseteq ClaimIds'
         /\ \A a \in Admins : resolving[a] \in ResolvingType'
         /\ \A o \in Owners : creating[o] \in CreatingType'
         /\ \A g \in Agents : filing[g] \in FilingType'
<1>1. Len(policies) \in Nat /\ Len(policies') \in Nat BY DEF TypeOK
<1>2. Len(claims) \in Nat /\ Len(claims') \in Nat BY DEF TypeOK
<1>3. PolicyIds \subseteq PolicyIds' /\ ClaimIds \subseteq ClaimIds'
  BY <1>1, <1>2 DEF RowsStay, PolicyIds, ClaimIds
<1>4. ASSUME NEW a \in Admins PROVE resolving[a] \in ResolvingType'
  BY <1>3 DEF TypeOK, ResolvingType
<1>5. ASSUME NEW o \in Owners PROVE creating[o] \in CreatingType'
  BY <1>3 DEF TypeOK, CreatingType
<1>6. ASSUME NEW g \in Agents PROVE filing[g] \in FilingType'
  BY <1>3 DEF TypeOK, FilingType
<1>. QED BY <1>3, <1>4, <1>5, <1>6

\* The types of a state that differs in the tables and in one kind of request.
LEMMA TypesTogether ==
  ASSUME TypeOK, RowsStay, policies' \in Seq(PolicyType), claims' \in Seq(ClaimType)',
         \/ resolving' = resolving
         \/ \E a \in Admins, r \in ResolvingType' : resolving' = [resolving EXCEPT ![a] = r],
         \/ creating' = creating
         \/ \E o \in Owners, r \in CreatingType' : creating' = [creating EXCEPT ![o] = r],
         \/ filing' = filing
         \/ \E g \in Agents, r \in FilingType' : filing' = [filing EXCEPT ![g] = r]
  PROVE  TypeOK'
<1>1. /\ \A a \in Admins : resolving[a] \in ResolvingType'
      /\ \A o \in Owners : creating[o] \in CreatingType'
      /\ \A g \in Agents : filing[g] \in FilingType'
  BY TypesGrow
<1>2. DOMAIN resolving' = Admins /\ \A a \in Admins : resolving'[a] \in ResolvingType'
  BY <1>1 DEF TypeOK
<1>3. DOMAIN creating' = Owners /\ \A o \in Owners : creating'[o] \in CreatingType'
  BY <1>1 DEF TypeOK
<1>4. DOMAIN filing' = Agents /\ \A g \in Agents : filing'[g] \in FilingType'
  BY <1>1 DEF TypeOK
<1>. QED BY <1>2, <1>3, <1>4 DEF TypeOK, PolicyType

\* The rows of tcpa_policies stay rows when some of them expire.
LEMMA ExpiredRowsType ==
  ASSUME TypeOK, NEW rows
  PROVE  LET s == [p \in PolicyIds |-> [policies[p] EXCEPT !.active = @ /\ p \notin rows]]
         IN  s \in Seq(PolicyType) /\ Len(s) = Len(policies)
<1>. DEFINE row(p) == [policies[p] EXCEPT !.active = @ /\ p \notin rows]
            s == [p \in PolicyIds |-> row(p)]
<1>1. Len(policies) \in Nat BY DEF TypeOK
<1>2. ASSUME NEW p \in PolicyIds PROVE row(p) \in PolicyType
  <2>1. policies[p] \in PolicyType BY DEF TypeOK, PolicyIds
  <2>2. DOMAIN policies[p] = {"active", "perClaim", "aggregate"} BY <2>1 DEF PolicyType
  <2>3. (policies[p].active /\ p \notin rows) \in BOOLEAN OBVIOUS
  <2>. QED BY <2>1, <2>3 DEF PolicyType
<1>. HIDE DEF row
<1>3. s \in [1..Len(policies) -> PolicyType] BY <1>2 DEF PolicyIds
<1>4. s \in Seq(PolicyType) BY <1>1, <1>3
<1>5. Len(s) = Len(policies) BY <1>1, <1>4 DEF PolicyIds
<1>. QED BY <1>4, <1>5 DEF row

LEMMA CreateKeepsTypes ==
  ASSUME TypeOK, NEW o \in Owners, CreatePolicy(o)
  PROVE  TypeOK' /\ RowsStay
<1>1. claims' = claims /\ resolving' = resolving /\ filing' = filing
  BY DEF CreatePolicy, StartExpire, Expire, InsertPolicy, CreateDies
<1>2. Len(claims') = Len(claims) /\ Len(claims) \in Nat /\ Len(policies) \in Nat
  BY <1>1 DEF TypeOK
<1>3. SUFFICES
        /\ policies' \in Seq(PolicyType) /\ Len(policies) <= Len(policies')
        /\ \E r \in CreatingType' : creating' = [creating EXCEPT ![o] = r]
  <2>1. RowsStay BY <1>2, <1>3 DEF RowsStay
  <2>2. PolicyIds \subseteq PolicyIds' BY <1>2, <1>3 DEF PolicyIds
  <2>3. claims' \in Seq(ClaimType)'
    <3>1. ClaimType \subseteq ClaimType' BY <2>2 DEF ClaimType
    <3>. QED BY <1>1, <3>1 DEF TypeOK
  <2>. QED BY <1>1, <1>3, <2>1, <2>3, TypesTogether
<1>4. CASE StartExpire(o)
  <2>1. policies' = policies BY <1>4 DEF StartExpire
  <2>. DEFINE r == [pc |-> "expire", rows |-> ActivePolicies]
  <2>2. r \in CreatingType' BY <2>1 DEF CreatingType, ActivePolicies, PolicyIds
  <2>3. creating' = [creating EXCEPT ![o] = r] BY <1>4 DEF StartExpire
  <2>4. policies' \in Seq(PolicyType) /\ Len(policies) <= Len(policies')
    BY <1>2, <2>1 DEF TypeOK
  <2>. QED BY <2>2, <2>3, <2>4
<1>5. CASE Expire(o)
  <2>1. policies' = policies BY <1>5 DEF Expire, AfterUpdate
  <2>. DEFINE r == [pc |-> "insert", rows |-> creating[o].rows \cap ActivePolicies]
  <2>2. r \in CreatingType' BY <2>1 DEF CreatingType, ActivePolicies, PolicyIds
  <2>3. creating' = [creating EXCEPT ![o] = r] BY <1>5 DEF Expire
  <2>4. policies' \in Seq(PolicyType) /\ Len(policies) <= Len(policies')
    BY <1>2, <2>1 DEF TypeOK
  <2>. QED BY <2>2, <2>3, <2>4
<1>6. CASE InsertPolicy(o)
  <2>. DEFINE s == [p \in PolicyIds |->
                      [policies[p] EXCEPT !.active = @ /\ p \notin creating[o].rows]]
  <2>1. PICK l \in Limits :
          policies' = Append(s,
            [active |-> TRUE, perClaim |-> l.perClaim, aggregate |-> l.aggregate])
    BY <1>6 DEF InsertPolicy
  <2>2. s \in Seq(PolicyType) /\ Len(s) = Len(policies) BY ExpiredRowsType
  <2>3. [active |-> TRUE, perClaim |-> l.perClaim, aggregate |-> l.aggregate] \in PolicyType
    BY TcpaAssumption DEF PolicyType
  <2>. HIDE DEF s
  <2>4. policies' \in Seq(PolicyType) /\ Len(policies') = Len(policies) + 1
    BY <2>1, <2>2, <2>3
  <2>5. Idle \in CreatingType' BY DEF CreatingType
  <2>6. creating' = [creating EXCEPT ![o] = Idle] BY <1>6 DEF InsertPolicy
  <2>7. Len(policies) <= Len(policies') BY <1>2, <2>4
  <2>. QED BY <2>4, <2>5, <2>6, <2>7
<1>7. CASE CreateDies(o)
  <2>1. Idle \in CreatingType' BY DEF CreatingType
  <2>2. creating' = [creating EXCEPT ![o] = Idle] /\ policies' = policies
    BY <1>7 DEF CreateDies
  <2>3. policies' \in Seq(PolicyType) /\ Len(policies) <= Len(policies')
    BY <1>2, <2>2 DEF TypeOK
  <2>. QED BY <2>1, <2>2, <2>3
<1>. QED BY <1>4, <1>5, <1>6, <1>7 DEF CreatePolicy

LEMMA FileKeepsTypes ==
  ASSUME TypeOK, NEW g \in Agents, FileClaim(g)
  PROVE  TypeOK' /\ RowsStay
<1>1. policies' = policies /\ resolving' = resolving /\ creating' = creating
  BY DEF FileClaim, ReadActivePolicy, InsertClaim, FileDies
<1>2. /\ Len(policies') = Len(policies) /\ Len(claims) \in Nat /\ Len(policies) \in Nat
      /\ policies' \in Seq(PolicyType) /\ PolicyIds' = PolicyIds
  BY <1>1 DEF TypeOK, PolicyIds
<1>3. SUFFICES
        /\ claims' \in Seq(ClaimType) /\ Len(claims) <= Len(claims')
        /\ \E r \in FilingType' : filing' = [filing EXCEPT ![g] = r]
  <2>1. RowsStay BY <1>2, <1>3 DEF RowsStay
  <2>2. claims' \in Seq(ClaimType)' BY <1>2, <1>3 DEF ClaimType
  <2>. QED BY <1>1, <1>2, <1>3, <2>1, <2>2, TypesTogether
<1>4. CASE ReadActivePolicy(g)
  <2>1. PICK p \in ActivePolicies :
          filing' = [filing EXCEPT ![g] = [pc |-> "insert", policy |-> p]]
    BY <1>4 DEF ReadActivePolicy, ActivePolicyForOrg
  <2>2. [pc |-> "insert", policy |-> p] \in FilingType'
    BY <1>2 DEF FilingType, ActivePolicies
  <2>3. claims' = claims BY <1>4 DEF ReadActivePolicy
  <2>4. claims' \in Seq(ClaimType) /\ Len(claims) <= Len(claims')
    BY <1>2, <2>3 DEF TypeOK
  <2>. QED BY <2>1, <2>2, <2>4
<1>5. CASE InsertClaim(g)
  <2>. DEFINE r == [policy |-> filing[g].policy, status |-> "open", paid |-> 0]
  <2>1. filing[g].policy \in PolicyIds
    BY <1>5 DEF InsertClaim, TypeOK, FilingType, Idle
  <2>2. r \in ClaimType BY <2>1 DEF ClaimType
  <2>3. claims' = Append(claims, r) BY <1>5 DEF InsertClaim
  <2>. HIDE DEF r
  <2>4. claims' \in Seq(ClaimType) /\ Len(claims) <= Len(claims')
    BY <1>2, <2>2, <2>3 DEF TypeOK
  <2>5. Idle \in FilingType' BY DEF FilingType
  <2>. QED BY <1>5, <2>4, <2>5 DEF InsertClaim
<1>6. CASE FileDies(g)
  <2>1. Idle \in FilingType' BY DEF FilingType
  <2>2. filing' = [filing EXCEPT ![g] = Idle] /\ claims' = claims
    BY <1>6 DEF FileDies
  <2>3. claims' \in Seq(ClaimType) /\ Len(claims) <= Len(claims')
    BY <1>2, <2>2 DEF TypeOK
  <2>. QED BY <2>1, <2>2, <2>3
<1>. QED BY <1>4, <1>5, <1>6 DEF FileClaim

\* A running resolution is one, and goes on as one.
LEMMA ResolvingRecord ==
  ASSUME TypeOK, NEW a \in Admins, resolving[a].pc # "idle"
  PROVE  /\ resolving[a].pc \in {"claim", "deny", "policy", "siblings", "pay"}
         /\ resolving[a].claim \in ClaimIds
         /\ resolving[a].amount \in Nat /\ resolving[a].already \in Nat
         /\ \A pc \in {"claim", "deny", "policy", "siblings", "pay"}, n \in Nat :
              /\ [resolving[a] EXCEPT !.pc = pc] \in ResolvingType
              /\ [resolving[a] EXCEPT !.pc = pc, !.already = n] \in ResolvingType
<1>1. resolving[a] \in
        [pc : {"claim", "deny", "policy", "siblings", "pay"}, claim : ClaimIds,
         action : {"approved", "denied"}, amount : Nat, already : Nat]
  BY DEF TypeOK, ResolvingType, Idle
<1>. QED BY <1>1 DEF ResolvingType

\* The claims with the status and the payout of one of them set.
Settled(k, st, n) == [claims EXCEPT ![k] = [@ EXCEPT !.status = st, !.paid = n]]

LEMMA SettledClaims ==
  ASSUME TypeOK, NEW k \in ClaimIds, NEW st \in {"open", "approved", "denied"}, NEW n \in Nat
  PROVE  /\ Settled(k, st, n) \in Seq(ClaimType) /\ Len(Settled(k, st, n)) = Len(claims)
         /\ \A i \in ClaimIds : i # k => Settled(k, st, n)[i] = claims[i]
         /\ Settled(k, st, n)[k].policy = claims[k].policy
         /\ Settled(k, st, n)[k].status = st /\ Settled(k, st, n)[k].paid = n
<1>. DEFINE r == [claims[k] EXCEPT !.status = st, !.paid = n]
            c == [claims EXCEPT ![k] = r]
<1>1. claims \in Seq(ClaimType) /\ claims[k] \in ClaimType BY DEF TypeOK, ClaimIds
<1>2. r \in ClaimType /\ r.policy = claims[k].policy /\ r.status = st /\ r.paid = n
  BY <1>1 DEF ClaimType
<1>3. Settled(k, st, n) = c BY DEF Settled
<1>. HIDE DEF r
<1>4. /\ c \in Seq(ClaimType) /\ Len(c) = Len(claims) /\ c[k] = r
      /\ \A i \in ClaimIds : i # k => c[i] = claims[i]
  BY <1>1, <1>2 DEF ClaimIds
<1>. QED BY <1>2, <1>3, <1>4

LEMMA ResolveKeepsTypes ==
  ASSUME TypeOK, NEW a \in Admins, ResolveClaim(a)
  PROVE  TypeOK' /\ RowsStay
<1>1. policies' = policies /\ filing' = filing /\ creating' = creating
  BY DEF ResolveClaim, Resolve, LockClaim, Deny, LockPolicy, ReadSiblings, Pay, ResolveDies
<1>2. /\ Len(policies') = Len(policies) /\ Len(claims) \in Nat /\ Len(policies) \in Nat
      /\ policies' \in Seq(PolicyType) /\ PolicyIds' = PolicyIds
  BY <1>1 DEF TypeOK, PolicyIds
<1>3. SUFFICES
        /\ claims' \in Seq(ClaimType) /\ Len(claims') = Len(claims)
        /\ \E r \in ResolvingType : resolving' = [resolving EXCEPT ![a] = r]
  <2>1. RowsStay BY <1>2, <1>3 DEF RowsStay
  <2>2. claims' \in Seq(ClaimType)' BY <1>2, <1>3 DEF ClaimType
  <2>3. ResolvingType' = ResolvingType BY <1>3 DEF ResolvingType, ClaimIds
  <2>. QED BY <1>1, <1>2, <1>3, <2>1, <2>2, <2>3, TypesTogether
<1>4. Idle \in ResolvingType BY DEF ResolvingType
<1>5. claims' = claims => claims' \in Seq(ClaimType) /\ Len(claims') = Len(claims)
  BY DEF TypeOK
<1>6. CASE Resolve(a)
  <2>1. PICK k \in ClaimIds, action \in {"approved", "denied"}, amount \in Amounts :
          resolving' = [resolving EXCEPT ![a] =
            [pc |-> "claim", claim |-> k, action |-> action, amount |-> amount,
             already |-> 0]]
    BY <1>6 DEF Resolve
  <2>2. [pc |-> "claim", claim |-> k, action |-> action, amount |-> amount,
         already |-> 0] \in ResolvingType
    BY TcpaAssumption DEF ResolvingType
  <2>3. claims' = claims BY <1>6 DEF Resolve
  <2>. QED BY <1>5, <2>1, <2>2, <2>3
<1>7. CASE LockClaim(a)
  <2>1. resolving[a].pc # "idle" /\ claims' = claims BY <1>7 DEF LockClaim
  <2>2. CASE claims[resolving[a].claim].status # "open"
    <3>1. resolving' = [resolving EXCEPT ![a] = Idle] BY <1>7, <2>2 DEF LockClaim
    <3>. QED BY <1>4, <1>5, <2>1, <3>1
  <2>3. CASE claims[resolving[a].claim].status = "open"
    <3>. DEFINE pc == IF resolving[a].action = "denied" THEN "deny" ELSE "policy"
    <3>1. resolving' = [resolving EXCEPT ![a] = [resolving[a] EXCEPT !.pc = pc]]
      BY <1>7, <2>3 DEF LockClaim
    <3>2. [resolving[a] EXCEPT !.pc = pc] \in ResolvingType
      <4>1. pc \in {"claim", "deny", "policy", "siblings", "pay"} OBVIOUS
      <4>. HIDE DEF pc
      <4>. QED BY <2>1, <4>1, ResolvingRecord
    <3>. QED BY <1>5, <2>1, <3>1, <3>2
  <2>. QED BY <2>2, <2>3
<1>8. CASE Deny(a)
  <2>1. resolving[a].pc # "idle" BY <1>8 DEF Deny
  <2>2. resolving[a].claim \in ClaimIds BY <2>1, ResolvingRecord
  <2>3. claims' \in Seq(ClaimType) /\ Len(claims') = Len(claims)
    <3>1. claims' = Settled(resolving[a].claim, "denied", 0) BY <1>8 DEF Deny, Settled
    <3>. QED BY <2>2, <3>1, SettledClaims
  <2>. QED BY <1>4, <1>8, <2>3 DEF Deny
<1>9. CASE LockPolicy(a)
  <2>1. resolving[a].pc # "idle" /\ claims' = claims
        /\ resolving' = [resolving EXCEPT ![a] = [resolving[a] EXCEPT !.pc = "siblings"]]
    BY <1>9 DEF LockPolicy
  <2>2. [resolving[a] EXCEPT !.pc = "siblings"] \in ResolvingType
    BY <2>1, ResolvingRecord
  <2>. QED BY <1>5, <2>1, <2>2
<1>10. CASE ReadSiblings(a)
  <2>. DEFINE k == resolving[a].claim
              n == Total(PaidBeside(claims[k].policy, k))
  <2>1. resolving[a].pc # "idle" /\ claims' = claims
        /\ resolving' =
             [resolving EXCEPT ![a] = [resolving[a] EXCEPT !.pc = "pay", !.already = n]]
    BY <1>10 DEF ReadSiblings
  <2>2. n \in Nat
    <3>1. PaidBeside(claims[k].policy, k) = PaidOf(claims, claims[k].policy, k)
      BY DEF PaidBeside, PaidOf, ClaimIds
    <3>. QED BY <3>1, ClaimsAreRaw, PaidOfType
  <2>. HIDE DEF n
  <2>3. [resolving[a] EXCEPT !.pc = "pay", !.already = n] \in ResolvingType
    BY <2>1, <2>2, ResolvingRecord
  <2>. QED BY <1>5, <2>1, <2>3
<1>11. CASE Pay(a)
  <2>. DEFINE k == resolving[a].claim
              payout == ClampClaimPayout(resolving[a].amount, policies[claims[k].policy].perClaim)
  <2>1. resolving[a].pc # "idle" BY <1>11 DEF Pay
  <2>2. k \in ClaimIds /\ resolving[a].amount \in Nat BY <2>1, ResolvingRecord
  <2>3. payout \in Nat
    <3>1. claims[k] \in ClaimType BY <2>2 DEF TypeOK, ClaimIds
    <3>2. claims[k].policy \in PolicyIds BY <3>1 DEF ClaimType
    <3>3. policies[claims[k].policy] \in PolicyType BY <3>2 DEF TypeOK, PolicyIds
    <3>. QED BY <2>2, <3>3 DEF PolicyType, ClampClaimPayout
  <2>4. claims' = claims \/ claims' = Settled(k, "approved", payout)
    BY <1>11 DEF Pay, Settled
  <2>. HIDE DEF payout, k
  <2>5. claims' \in Seq(ClaimType) /\ Len(claims') = Len(claims)
    BY <1>5, <2>2, <2>3, <2>4, SettledClaims
  <2>. QED BY <1>4, <1>11, <2>5 DEF Pay
<1>12. CASE ResolveDies(a)
  BY <1>4, <1>5, <1>12 DEF ResolveDies
<1>. QED BY <1>6, <1>7, <1>8, <1>9, <1>10, <1>11, <1>12 DEF ResolveClaim

-------------------------------------------------------------------------------
(* The invariant is kept.                                                    *)

LEMMA CreateKeepsInv ==
  ASSUME TcpaInv, NEW o \in Owners, CreatePolicy(o)
  PROVE  TcpaInv'
<1>1. TypeOK /\ TypeOK' /\ RowsStay BY CreateKeepsTypes DEF TcpaInv
<1>2. claims' = claims /\ resolving' = resolving
  BY DEF CreatePolicy, StartExpire, Expire, InsertPolicy, CreateDies
<1>3. OneClaimHolder' /\ OnePolicyHolder' /\ SumIsCurrent'
  BY <1>2 DEF TcpaInv, OneClaimHolder, OnePolicyHolder, SumIsCurrent
<1>4. WithinLimits'
  <2>1. CASE InsertPolicy(o)
    <3>. DEFINE s == [p \in PolicyIds |->
                        [policies[p] EXCEPT !.active = @ /\ p \notin creating[o].rows]]
    <3>1. PICK l \in Limits :
            policies' = Append(s,
              [active |-> TRUE, perClaim |-> l.perClaim, aggregate |-> l.aggregate])
      BY <2>1 DEF InsertPolicy
    <3>2. s \in Seq(PolicyType) /\ Len(s) = Len(policies) BY <1>1, ExpiredRowsType
    <3>3. \A p \in PolicyIds : /\ s[p].perClaim = policies[p].perClaim
                               /\ s[p].aggregate = policies[p].aggregate
      <4>1. \A p \in PolicyIds : policies[p] \in PolicyType BY <1>1 DEF TypeOK, PolicyIds
      <4>. QED BY <4>1 DEF PolicyType
    <3>. HIDE DEF s
    <3>4. Len(policies) \in Nat BY <1>1 DEF TypeOK
    <3>5. PolicyIds' = PolicyIds \cup {Len(policies) + 1}
      BY <3>1, <3>2, <3>4 DEF PolicyIds
    <3>6. \A p \in PolicyIds : policies'[p] = s[p] BY <3>1, <3>2, <3>4 DEF PolicyIds
    <3>7. policies'[Len(policies) + 1].aggregate \in Nat
      BY <3>1, <3>2, <3>4, TcpaAssumption
    <3>8. \A k \in ClaimIds : claims[k].policy # Len(policies) + 1
      <4>1. \A k \in ClaimIds : claims[k] \in ClaimType BY <1>1 DEF TypeOK, ClaimIds
      <4>. QED BY <4>1, <3>4 DEF ClaimType, PolicyIds
    <3>9. Total(PaidOf(claims, Len(policies) + 1, 0)) = 0
      <4>. DEFINE t == PaidOf(claims, Len(policies) + 1, 0)
      <4>1. t \in Seq(Int) /\ Len(t) = Len(claims) BY <1>1, ClaimsAreRaw, PaidOfType
      <4>2. \A i \in 1..Len(claims) : t[i] = 0 BY <3>8 DEF PaidOf, ClaimIds
      <4>. HIDE DEF t
      <4>3. Total(t) = 0 BY <4>1, <4>2, TotalZeros
      <4>. QED BY <4>3 DEF t
    <3>10. ASSUME NEW p \in PolicyIds'
           PROVE  /\ Total(PaidOf(claims, p, 0)) <= policies'[p].aggregate
                  /\ \A k \in ClaimIds :
                       claims[k].policy = p => claims[k].paid <= policies'[p].perClaim
      <4>1. CASE p \in PolicyIds
        BY <3>3, <3>6, <4>1 DEF TcpaInv, WithinLimits
      <4>2. CASE p = Len(policies) + 1
        BY <3>7, <3>8, <3>9, <4>2
      <4>. QED BY <3>5, <4>1, <4>2
    <3>11. ClaimIds' = ClaimIds BY <1>2 DEF ClaimIds
    <3>. QED BY <1>2, <3>10, <3>11 DEF WithinLimits
  <2>2. CASE policies' = policies
    <3>1. PolicyIds' = PolicyIds /\ ClaimIds' = ClaimIds
      BY <1>2, <2>2 DEF PolicyIds, ClaimIds
    <3>. QED BY <1>2, <2>2, <3>1 DEF TcpaInv, WithinLimits
  <2>. QED BY <2>1, <2>2 DEF CreatePolicy, StartExpire, Expire, AfterUpdate, CreateDies
<1>. QED BY <1>1, <1>3, <1>4 DEF TcpaInv

LEMMA FileKeepsInv ==
  ASSUME TcpaInv, NEW g \in Agents, FileClaim(g)
  PROVE  TcpaInv'
<1>1. TypeOK /\ TypeOK' /\ RowsStay BY FileKeepsTypes DEF TcpaInv
<1>2. policies' = policies /\ resolving' = resolving
  BY DEF FileClaim, ReadActivePolicy, InsertClaim, FileDies
<1>3. CASE claims' = claims
  <2>1. PolicyIds' = PolicyIds /\ ClaimIds' = ClaimIds
    BY <1>2, <1>3 DEF PolicyIds, ClaimIds
  <2>2. OneClaimHolder' /\ OnePolicyHolder' /\ SumIsCurrent'
    BY <1>2, <1>3 DEF TcpaInv, OneClaimHolder, OnePolicyHolder, SumIsCurrent
  <2>3. WithinLimits' BY <1>2, <1>3, <2>1 DEF TcpaInv, WithinLimits
  <2>. QED BY <1>1, <2>2, <2>3 DEF TcpaInv
<1>4. CASE InsertClaim(g)
  <2>. DEFINE r == [policy |-> filing[g].policy, status |-> "open", paid |-> 0]
  <2>1. claims' = Append(claims, r) BY <1>4 DEF InsertClaim
  <2>2. filing[g].policy \in PolicyIds BY <1>1, <1>4 DEF InsertClaim, TypeOK, FilingType, Idle
  <2>3. r \in RawClaim /\ r.status = "open" /\ r.paid = 0
    BY <2>2 DEF RawClaim, PolicyIds
  <2>. HIDE DEF r
  <2>4. claims \in Seq(RawClaim) /\ Len(claims) \in Nat BY <1>1, ClaimsAreRaw
  <2>5. /\ ClaimIds' = ClaimIds \cup {Len(claims) + 1} /\ claims'[Len(claims) + 1] = r
        /\ \A k \in ClaimIds : claims'[k] = claims[k]
    BY <2>1, <2>4 DEF ClaimIds
  <2>6. \A p, k : Total(PaidOf(claims', p, k)) = Total(PaidOf(claims, p, k))
    BY <2>1, <2>3, <2>4, PaidOfAppend
  <2>7. \A a \in Admins : resolving[a].pc # "idle" =>
          claims'[resolving[a].claim] = claims[resolving[a].claim]
    BY <1>1, <2>5, ResolvingRecord
  <2>8. OneClaimHolder' BY <1>2, <2>7 DEF TcpaInv, OneClaimHolder, Locked
  <2>9. OnePolicyHolder' BY <1>2, <2>7 DEF TcpaInv, OnePolicyHolder
  <2>10. SumIsCurrent'
    <3>1. SUFFICES ASSUME NEW a \in Admins, resolving[a].pc = "pay"
          PROVE resolving[a].already = Total(PaidOf(claims',
                  claims'[resolving[a].claim].policy, resolving[a].claim))
      BY <1>2 DEF SumIsCurrent
    <3>2. resolving[a].already = Total(PaidOf(claims,
                  claims[resolving[a].claim].policy, resolving[a].claim))
      BY <3>1 DEF TcpaInv, SumIsCurrent
    <3>. QED BY <2>6, <2>7, <3>1, <3>2
  <2>11. WithinLimits'
    <3>1. PolicyIds' = PolicyIds BY <1>2 DEF PolicyIds
    <3>2. \A p \in PolicyIds : policies[p].perClaim \in Nat
      <4>1. \A p \in PolicyIds : policies[p] \in PolicyType BY <1>1 DEF TypeOK, PolicyIds
      <4>. QED BY <4>1 DEF PolicyType
    <3>. QED BY <1>2, <2>3, <2>5, <2>6, <3>1, <3>2 DEF TcpaInv, WithinLimits
  <2>. QED BY <1>1, <2>8, <2>9, <2>10, <2>11 DEF TcpaInv
<1>. QED BY <1>3, <1>4 DEF FileClaim, ReadActivePolicy, FileDies

\* The steps of a resolution that leave the tables alone.
LEMMA ReadKeepsInv ==
  ASSUME TcpaInv, NEW a \in Admins, ResolveClaim(a), claims' = claims
  PROVE  TcpaInv'
<1>1. TypeOK /\ TypeOK' BY ResolveKeepsTypes DEF TcpaInv
<1>2. policies' = policies
  BY DEF ResolveClaim, Resolve, LockClaim, Deny, LockPolicy, ReadSiblings, Pay, ResolveDies
<1>3. WithinLimits'
  <2>1. PolicyIds' = PolicyIds /\ ClaimIds' = ClaimIds BY <1>2 DEF PolicyIds, ClaimIds
  <2>. QED BY <1>2, <2>1 DEF TcpaInv, WithinLimits
<1>4. \A b \in Admins : b # a => resolving'[b] = resolving[b]
  BY <1>1 DEF TypeOK, ResolveClaim, Resolve, LockClaim, Deny, LockPolicy, ReadSiblings,
         Pay, ResolveDies
<1>5. \A b \in Admins : b # a => resolving'[b] = resolving[b] /\ claims' = claims
  BY <1>4
<1>6. CASE resolving'[a].pc \in {"idle", "claim"}
  <2>1. OneClaimHolder' BY <1>5, <1>6 DEF TcpaInv, OneClaimHolder, Locked
  <2>2. OnePolicyHolder' BY <1>5, <1>6 DEF TcpaInv, OnePolicyHolder
  <2>3. SumIsCurrent' BY <1>5, <1>6 DEF TcpaInv, SumIsCurrent
  <2>. QED BY <1>1, <1>3, <2>1, <2>2, <2>3 DEF TcpaInv
<1>7. CASE LockClaim(a) /\ resolving'[a].pc \notin {"idle", "claim"}
  <2>. DEFINE k == resolving[a].claim
  <2>1. /\ claims[k].status = "open" /\ ClaimIsFree(k)
        /\ resolving'[a].claim = k /\ resolving'[a].pc \in {"deny", "policy"}
    BY <1>1, <1>7 DEF LockClaim, TypeOK, Idle, ResolvingType
  <2>2. \A b \in Admins : resolving[b].pc \in Locked => resolving[b].claim # k
    BY <2>1 DEF ClaimIsFree, HoldsClaim, Locked
  <2>3. OneClaimHolder' BY <1>5, <2>1, <2>2 DEF TcpaInv, OneClaimHolder
  <2>4. OnePolicyHolder' BY <1>5, <2>1 DEF TcpaInv, OnePolicyHolder
  <2>5. SumIsCurrent' BY <1>5, <2>1 DEF TcpaInv, SumIsCurrent
  <2>. QED BY <1>1, <1>3, <2>3, <2>4, <2>5 DEF TcpaInv
<1>8. CASE LockPolicy(a)
  <2>. DEFINE k == resolving[a].claim
  <2>1. /\ PolicyIsFree(claims[k].policy) /\ resolving[a].pc = "policy"
        /\ resolving'[a].claim = k /\ resolving'[a].pc = "siblings"
    BY <1>1, <1>8 DEF LockPolicy, TypeOK, Idle, ResolvingType
  <2>2. \A b \in Admins : resolving[b].pc \in {"siblings", "pay"} =>
          claims[resolving[b].claim].policy # claims[k].policy
    BY <2>1 DEF PolicyIsFree, HoldsPolicy
  <2>3. OneClaimHolder' BY <1>5, <2>1 DEF TcpaInv, OneClaimHolder, Locked
  <2>4. OnePolicyHolder' BY <1>5, <2>1, <2>2 DEF TcpaInv, OnePolicyHolder
  <2>5. SumIsCurrent' BY <1>5, <2>1 DEF TcpaInv, SumIsCurrent
  <2>. QED BY <1>1, <1>3, <2>3, <2>4, <2>5 DEF TcpaInv
<1>9. CASE ReadSiblings(a)
  <2>. DEFINE k == resolving[a].claim
              n == Total(PaidBeside(claims[k].policy, k))
  <2>1. /\ resolving[a].pc = "siblings" /\ resolving'[a].claim = k
        /\ resolving'[a].pc = "pay" /\ resolving'[a].already = n
    <3>1. resolving[a] \in
            [pc : {"claim", "deny", "policy", "siblings", "pay"}, claim : ClaimIds,
             action : {"approved", "denied"}, amount : Nat, already : Nat]
      BY <1>1, <1>9 DEF ReadSiblings, TypeOK, Idle, ResolvingType
    <3>2. resolving'[a] = [resolving[a] EXCEPT !.pc = "pay", !.already = n]
      BY <1>1, <1>9 DEF ReadSiblings, TypeOK
    <3>. HIDE DEF n
    <3>. QED BY <1>9, <3>1, <3>2 DEF ReadSiblings
  <2>2. n = Total(PaidOf(claims, claims[k].policy, k)) BY DEF PaidBeside, PaidOf, ClaimIds
  <2>. HIDE DEF n
  <2>3. OneClaimHolder' BY <1>5, <2>1 DEF TcpaInv, OneClaimHolder, Locked
  <2>4. OnePolicyHolder' BY <1>5, <2>1 DEF TcpaInv, OnePolicyHolder
  <2>5. SumIsCurrent' BY <1>5, <2>1, <2>2 DEF TcpaInv, SumIsCurrent
  <2>. QED BY <1>1, <1>3, <2>3, <2>4, <2>5 DEF TcpaInv
<1>10. CASE Deny(a) \/ Pay(a) \/ ResolveDies(a) \/ Resolve(a)
  <2>1. resolving'[a].pc \in {"idle", "claim"}
    BY <1>1, <1>10 DEF Deny, Pay, ResolveDies, Resolve, Idle, TypeOK
  <2>. QED BY <1>6, <2>1
<1>. QED BY <1>6, <1>7, <1>8, <1>9, <1>10 DEF ResolveClaim

\* A claim that its holder settles, with a payout that fits.
LEMMA SettleKeepsInv ==
  ASSUME TcpaInv, NEW a \in Admins, ResolveClaim(a),
         NEW st \in {"approved", "denied"}, NEW n \in Nat,
         resolving[a].pc \in {"deny", "pay"}, resolving' = [resolving EXCEPT ![a] = Idle],
         claims' = Settled(resolving[a].claim, st, n),
         st = "denied" => resolving[a].pc = "deny" /\ n = 0,
         LET policy == policies[claims[resolving[a].claim].policy]
         IN  st = "approved" => /\ resolving[a].pc = "pay"
                                /\ n <= policy.perClaim
                                /\ resolving[a].already + n <= policy.aggregate
  PROVE  TcpaInv'
<1>. DEFINE k == resolving[a].claim
            pk == claims[k].policy
<1>1. TypeOK /\ TypeOK' BY ResolveKeepsTypes DEF TcpaInv
<1>2. policies' = policies
  BY DEF ResolveClaim, Resolve, LockClaim, Deny, LockPolicy, ReadSiblings, Pay, ResolveDies
<1>3. k \in ClaimIds /\ resolving[a].already \in Nat BY <1>1, ResolvingRecord
<1>4. /\ Len(claims') = Len(claims) /\ ClaimIds' = ClaimIds /\ PolicyIds' = PolicyIds
      /\ \A i \in ClaimIds : i # k => claims'[i] = claims[i]
      /\ claims'[k].policy = pk /\ claims'[k].status = st /\ claims'[k].paid = n
  <2>1. claims' = Settled(k, st, n) /\ st \in {"open", "approved", "denied"} OBVIOUS
  <2>. HIDE DEF k
  <2>2. /\ Len(Settled(k, st, n)) = Len(claims)
        /\ \A i \in ClaimIds : i # k => Settled(k, st, n)[i] = claims[i]
        /\ Settled(k, st, n)[k].policy = claims[k].policy
        /\ Settled(k, st, n)[k].status = st /\ Settled(k, st, n)[k].paid = n
    BY <1>1, <1>3, <2>1, SettledClaims
  <2>3. Len(claims') = Len(claims) BY <2>1, <2>2
  <2>. QED BY <1>2, <2>1, <2>2, <2>3 DEF ClaimIds, PolicyIds
<1>5. claims \in Seq(RawClaim) /\ claims' \in Seq(RawClaim)
  <2>1. claims \in Seq(RawClaim) BY <1>1, ClaimsAreRaw
  <2>2. \A i \in ClaimIds : claims[i] \in RawClaim BY <2>1 DEF ClaimIds
  <2>3. claims' \in Seq(ClaimType)
    BY <1>1, <1>3, SettledClaims
  <2>4. ClaimType \subseteq RawClaim
    BY <1>1 DEF TypeOK, ClaimType, RawClaim, PolicyIds
  <2>. QED BY <2>1, <2>3, <2>4
<1>6. claims[k].status = "open" BY DEF TcpaInv, OneClaimHolder, Locked
<1>7. \A b \in Admins : b # a => resolving'[b] = resolving[b]
  BY <1>1 DEF TypeOK
<1>8. resolving'[a].pc = "idle" BY <1>1 DEF TypeOK, Idle
<1>9. \A b \in Admins : b # a /\ resolving[b].pc \in Locked => resolving[b].claim # k
  BY DEF TcpaInv, OneClaimHolder, Locked
<1>10. \A b \in Admins : resolving[b].pc # "idle" =>
         /\ resolving[b].claim \in ClaimIds
         /\ claims'[resolving[b].claim].policy = claims[resolving[b].claim].policy
  BY <1>1, <1>4, ResolvingRecord
<1>. HIDE DEF k, pk
<1>11. OneClaimHolder'
  <2>1. \A b \in Admins : resolving'[b].pc \in Locked =>
          /\ b # a /\ resolving'[b] = resolving[b] /\ resolving[b].claim \in ClaimIds
          /\ claims'[resolving[b].claim] = claims[resolving[b].claim]
    BY <1>4, <1>7, <1>8, <1>9, <1>10 DEF Locked
  <2>. QED BY <2>1 DEF TcpaInv, OneClaimHolder
<1>12. OnePolicyHolder'
  BY <1>7, <1>8, <1>10 DEF TcpaInv, OnePolicyHolder
<1>13. SumIsCurrent'
  <2>1. SUFFICES ASSUME NEW b \in Admins, b # a, resolving[b].pc = "pay"
        PROVE  resolving[b].already = Total(PaidOf(claims',
                 claims'[resolving[b].claim].policy, resolving[b].claim))
    BY <1>7, <1>8 DEF SumIsCurrent
  <2>. DEFINE j == resolving[b].claim
  <2>2. resolving[b].already = Total(PaidOf(claims, claims[j].policy, j))
    BY <2>1 DEF TcpaInv, SumIsCurrent
  <2>3. claims'[j].policy = claims[j].policy BY <1>10, <2>1
  <2>4. \/ st # "approved" \/ claims[j].policy # pk
    BY <2>1 DEF TcpaInv, OnePolicyHolder, k, pk
  <2>. HIDE DEF j
  <2>5. PaidOf(claims', claims[j].policy, j) = PaidOf(claims, claims[j].policy, j)
    <3>1. k \in 1..Len(claims) /\ Len(claims) = Len(claims')
          /\ \A i \in 1..Len(claims) : i # k => claims'[i] = claims[i]
      BY <1>3, <1>4 DEF ClaimIds
    <3>2. \/ claims[k].policy # claims[j].policy /\ claims'[k].policy # claims[j].policy
          \/ claims[k].status # "approved" /\ claims'[k].status # "approved"
      BY <1>4, <1>6, <2>4 DEF pk
    <3>. DEFINE q == claims[j].policy
    <3>3. claims \in Seq(RawClaim) /\ claims' \in Seq(RawClaim) BY <1>5
    <3>. HIDE DEF q
    <3>4. PaidOf(claims', q, j) = PaidOf(claims, q, j)
      BY <3>1, <3>2, <3>3, PaidOfUnchanged DEF q
    <3>. QED BY <3>4 DEF q
  <2>. QED BY <2>2, <2>3, <2>5 DEF j
<1>14. WithinLimits'
  <2>1. SUFFICES ASSUME NEW p \in PolicyIds
        PROVE  /\ Total(PaidOf(claims', p, 0)) <= policies[p].aggregate
               /\ \A i \in ClaimIds :
                    claims'[i].policy = p => claims'[i].paid <= policies[p].perClaim
    BY <1>2, <1>4 DEF WithinLimits
  <2>2. /\ Total(PaidOf(claims, p, 0)) <= policies[p].aggregate
        /\ \A i \in ClaimIds : claims[i].policy = p => claims[i].paid <= policies[p].perClaim
    BY DEF TcpaInv, WithinLimits
  <2>3. policies[p].perClaim \in Nat
    <3>1. policies[p] \in PolicyType BY <1>1 DEF TypeOK, PolicyIds
    <3>. QED BY <3>1 DEF PolicyType
  <2>4. \A i \in ClaimIds : claims'[i].policy = p => claims'[i].paid <= policies[p].perClaim
    BY <1>4, <2>2, <2>3 DEF k, pk
  <2>5. CASE p # pk \/ st = "denied"
    <3>1. PaidOf(claims', p, 0) = PaidOf(claims, p, 0)
      BY <1>3, <1>4, <1>5, <1>6, <2>5, PaidOfUnchanged DEF ClaimIds, pk
    <3>. QED BY <2>2, <2>4, <3>1
  <2>6. CASE p = pk /\ st = "approved"
    <3>. DEFINE s == PaidOf(claims, p, k)
                t == PaidOf(claims', p, 0)
    <3>1. resolving[a].already = Total(s) /\ resolving[a].already + n <= policies[p].aggregate
      BY <2>6 DEF TcpaInv, SumIsCurrent, k, pk
    <3>2. /\ s \in Seq(Int) /\ t \in Seq(Int) /\ Len(s) = Len(claims) /\ Len(t) = Len(claims)
          /\ Total(s) \in Nat
      BY <1>4, <1>5, PaidOfType
    <3>3. \A i \in 1..Len(claims) : i # k => t[i] = s[i]
      BY <1>4 DEF PaidOf, ClaimIds
    <3>4. s[k] = 0 /\ t[k] = n
      <4>1. k \in 1..Len(claims) /\ k # 0 BY <1>3 DEF ClaimIds
      <4>. QED BY <1>4, <2>6, <4>1 DEF PaidOf
    <3>. HIDE DEF s, t
    <3>5. Total(t) = Total(s) + t[k] - s[k]
      BY <1>3, <3>2, <3>3, TotalUpdate DEF ClaimIds
    <3>6. Total(t) <= policies[p].aggregate BY <3>1, <3>2, <3>4, <3>5
    <3>. QED BY <2>4, <3>6 DEF t
  <2>. QED BY <2>5, <2>6
<1>. QED BY <1>1, <1>11, <1>12, <1>13, <1>14 DEF TcpaInv

LEMMA ResolveKeepsInv ==
  ASSUME TcpaInv, NEW a \in Admins, ResolveClaim(a)
  PROVE  TcpaInv'
<1>1. CASE claims' = claims BY <1>1, ReadKeepsInv
<1>2. CASE Deny(a)
  <2>1. resolving[a].pc = "deny" /\ resolving' = [resolving EXCEPT ![a] = Idle]
        /\ claims' = Settled(resolving[a].claim, "denied", 0)
    BY <1>2 DEF Deny, Settled
  <2>. QED BY <2>1, SettleKeepsInv
<1>3. CASE Pay(a) /\ claims' # claims
  <2>. DEFINE policy == policies[claims[resolving[a].claim].policy]
              n == ClampClaimPayout(resolving[a].amount, policy.perClaim)
  <2>1. /\ resolving[a].pc = "pay" /\ resolving' = [resolving EXCEPT ![a] = Idle]
        /\ claims' = Settled(resolving[a].claim, "approved", n)
        /\ MayPay(n, resolving[a].already, policy)
    BY <1>3 DEF Pay, Settled
  <2>2. resolving[a].amount \in Nat /\ resolving[a].already \in Nat
    BY <2>1, ResolvingRecord DEF TcpaInv
  <2>3. policy \in PolicyType
    <3>1. resolving[a].claim \in ClaimIds BY <2>1, ResolvingRecord DEF TcpaInv
    <3>2. claims[resolving[a].claim] \in ClaimType BY <3>1 DEF TcpaInv, TypeOK, ClaimIds
    <3>. QED BY <3>2 DEF TcpaInv, TypeOK, ClaimType, PolicyIds
  <2>4. n \in Nat /\ n <= policy.perClaim
    BY <2>2, <2>3 DEF PolicyType, ClampClaimPayout
  <2>5. resolving[a].already + n <= policy.aggregate
    <3>1. policy.aggregate \in Nat BY <2>3 DEF PolicyType
    <3>. HIDE DEF n, policy
    <3>. QED BY <2>1, <2>2, <2>4, <3>1 DEF MayPay, WouldExceedAggregate
  <2>. HIDE DEF n
  <2>. QED BY <2>1, <2>4, <2>5, SettleKeepsInv
<1>. QED BY <1>1, <1>2, <1>3 DEF ResolveClaim, Resolve, LockClaim, LockPolicy, ReadSiblings,
                               ResolveDies

LEMMA InitInv == Init => TcpaInv
<1>. SUFFICES ASSUME Init PROVE TcpaInv OBVIOUS
<1>. USE DEF Init
<1>1. Len(policies) = 0 /\ Len(claims) = 0 OBVIOUS
<1>2. TypeOK
  BY DEF TypeOK, ResolvingType, CreatingType, FilingType
<1>3. OneClaimHolder /\ OnePolicyHolder /\ SumIsCurrent
  BY DEF OneClaimHolder, OnePolicyHolder, SumIsCurrent, Locked, Idle
<1>4. WithinLimits BY <1>1 DEF WithinLimits, PolicyIds
<1>. QED BY <1>2, <1>3, <1>4 DEF TcpaInv

LEMMA NextKeepsInv == TcpaInv /\ [Next]_vars => TcpaInv'
<1>. SUFFICES ASSUME TcpaInv, [Next]_vars PROVE TcpaInv' OBVIOUS
<1>1. CASE Next
  BY <1>1, CreateKeepsInv, FileKeepsInv, ResolveKeepsInv DEF Next
<1>2. CASE UNCHANGED vars
  BY <1>2 DEF vars, TcpaInv, TypeOK, OneClaimHolder, OnePolicyHolder, SumIsCurrent,
     WithinLimits, ClaimType, ResolvingType, CreatingType, FilingType, PolicyIds, ClaimIds
<1>. QED BY <1>1, <1>2

\* The invariant holds in every reachable state.
THEOREM TcpaInvariant == Spec => []TcpaInv
<1>. QED BY InitInv, NextKeepsInv, PTL DEF Spec

\* Every variable keeps its type, for any number of rows and requests.
THEOREM TcpaTypeCorrect == Spec => []TypeOK
<1>1. TcpaInv => TypeOK BY DEF TcpaInv
<1>. QED BY <1>1, TcpaInvariant, PTL

\* What is paid under a policy never exceeds its limits, however many admins resolve
\* its claims at the same time.
THEOREM TcpaLimitsHold == Spec => []AggregateNeverExceeded
<1>1. TcpaInv => AggregateNeverExceeded
  <2>1. \A p : Paid(p) = PaidOf(claims, p, 0) BY DEF Paid, PaidBeside, PaidOf, ClaimIds
  <2>. QED BY <2>1 DEF TcpaInv, WithinLimits, AggregateNeverExceeded
<1>. QED BY <1>1, TcpaInvariant, PTL

\* A resolved claim stays as it is, whoever else resolves it again.
THEOREM TcpaResolvedIsFinal == Spec => ResolvedIsFinal
<1>1. ASSUME TcpaInv, [Next]_vars, NEW k \in ClaimIds, claims[k].status # "open"
      PROVE  claims'[k] = claims[k]
  <2>1. TypeOK /\ Len(claims) \in Nat BY <1>1 DEF TcpaInv, TypeOK
  <2>2. CASE claims' = claims BY <2>2
  <2>3. ASSUME NEW g \in Agents, InsertClaim(g) PROVE claims'[k] = claims[k]
    <3>. DEFINE r == [policy |-> filing[g].policy, status |-> "open", paid |-> 0]
    <3>1. claims' = Append(claims, r) BY <2>3 DEF InsertClaim
    <3>2. claims \in Seq(RawClaim) /\ k \in 1..Len(claims)
      BY <1>1, <2>1, ClaimsAreRaw DEF ClaimIds
    <3>. HIDE DEF r
    <3>. QED BY <3>1, <3>2
  <2>4. ASSUME NEW a \in Admins, Deny(a) \/ Pay(a) PROVE claims'[k] = claims[k]
    <3>1. resolving[a].pc \in Locked BY <2>4 DEF Deny, Pay, Locked
    <3>2. k # resolving[a].claim BY <1>1, <3>1 DEF TcpaInv, OneClaimHolder
    <3>. QED BY <1>1, <2>1, <2>4, <3>2 DEF Deny, Pay, ClaimIds, TypeOK
  <2>. QED BY <1>1, <2>2, <2>3, <2>4
           DEF Next, vars, CreatePolicy, StartExpire, Expire, InsertPolicy, CreateDies,
               FileClaim, ReadActivePolicy, FileDies, ResolveClaim, Resolve, LockClaim,
               LockPolicy, ReadSiblings, ResolveDies
<1>2. TcpaInv /\ [Next]_vars =>
        [\A k \in ClaimIds : claims[k].status # "open" => claims'[k] = claims[k]]_vars
  BY <1>1
<1>. QED BY <1>2, TcpaInvariant, PTL DEF Spec, ResolvedIsFinal

\* From its first policy on, the organisation always has an active one.
THEOREM TcpaNeverUninsured == Spec => []NeverUninsured
<1>1. Init => NeverUninsured BY DEF Init, NeverUninsured
<1>2. TcpaInv /\ NeverUninsured /\ [Next]_vars => NeverUninsured'
  <2>. SUFFICES ASSUME TcpaInv, NeverUninsured, [Next]_vars PROVE NeverUninsured' OBVIOUS
  <2>1. CASE policies' = policies
    BY <2>1 DEF NeverUninsured, ActivePolicies, PolicyIds
  <2>2. ASSUME NEW o \in Owners, InsertPolicy(o) PROVE NeverUninsured'
    <3>. DEFINE s == [p \in PolicyIds |->
                        [policies[p] EXCEPT !.active = @ /\ p \notin creating[o].rows]]
    <3>1. PICK l \in Limits :
            policies' = Append(s,
              [active |-> TRUE, perClaim |-> l.perClaim, aggregate |-> l.aggregate])
      BY <2>2 DEF InsertPolicy
    <3>2. s \in Seq(PolicyType) /\ Len(s) = Len(policies) /\ Len(policies) \in Nat
      <4>1. TypeOK BY DEF TcpaInv
      <4>2. Len(policies) \in Nat BY <4>1 DEF TypeOK
      <4>. QED BY <4>1, <4>2, ExpiredRowsType
    <3>. HIDE DEF s
    <3>3. Len(policies') = Len(s) + 1 /\ policies'[Len(s) + 1].active = TRUE
      BY <3>1, <3>2
    <3>. QED BY <3>2, <3>3 DEF NeverUninsured, ActivePolicies, PolicyIds
  <2>. QED BY <2>1, <2>2
           DEF Next, vars, CreatePolicy, StartExpire, Expire, AfterUpdate, CreateDies,
               FileClaim, ReadActivePolicy, InsertClaim, FileDies, ResolveClaim, Resolve,
               LockClaim, Deny, LockPolicy, ReadSiblings, Pay, ResolveDies
<1>. QED BY <1>1, <1>2, TcpaInvariant, PTL DEF Spec

=================================================================================
