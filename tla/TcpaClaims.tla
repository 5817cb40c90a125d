------------------------------- MODULE TcpaClaims -------------------------------
(*****************************************************************************)
(* TCPA defence insurance of one organisation: policies, claims filed        *)
(* against the active policy, and their resolution by an admin.  The three   *)
(* transactions are opened up into their statements at READ COMMITTED: a row *)
(* lock is held from the statement that takes it to the end of the           *)
(* transaction, every statement reads what was committed when it started,    *)
(* and what a transaction writes is seen when it commits.                    *)
(*****************************************************************************)
EXTENDS Sums

CONSTANTS
  Admins,        \* resolve requests in flight at a time
  Owners,        \* create-policy requests in flight at a time
  Agents,        \* file-claim requests in flight at a time
  Limits,        \* the limits a policy may be created with
  Amounts,       \* the payouts an admin may ask for, in cents
  MaxPolicies, MaxClaims   \* bounds: rows of tcpa_policies and tcpa_claims

ASSUME TcpaAssumption ==
  /\ Limits \subseteq [perClaim : Nat, aggregate : Nat]
  /\ Amounts \subseteq Nat \ {0}
  /\ MaxPolicies \in Nat /\ MaxClaims \in Nat

VARIABLES
  policies,   \* tcpa_policies in the order of their ids
  claims,     \* tcpa_claims in the order of their ids
  resolving,  \* per admin, the running resolveTcpaClaim
  creating,   \* per owner, the running createTcpaPolicy
  filing      \* per agent, the running fileTcpaClaim

vars == << policies, claims, resolving, creating, filing >>

Idle == [pc |-> "idle"]

PolicyIds == 1..Len(policies)
ClaimIds == 1..Len(claims)

\* The policies with status 'active'.
ActivePolicies == {p \in PolicyIds : policies[p].active}

Init ==
  /\ policies = << >>
  /\ claims = << >>
  /\ resolving = [a \in Admins |-> Idle]
  /\ creating = [o \in Owners |-> Idle]
  /\ filing = [g \in Agents |-> Idle]

-------------------------------------------------------------------------------
(* Row locks.                                                                *)

\* A resolution that holds the row lock of its claim, and which claim that is.
HoldsClaim(a, k) ==
  resolving[a].pc \in {"deny", "policy", "siblings", "pay"} /\ resolving[a].claim = k

\* A resolution that holds the row lock of the policy of its claim.
HoldsPolicy(a, p) ==
  resolving[a].pc \in {"siblings", "pay"} /\ claims[resolving[a].claim].policy = p

\* A create-policy transaction that has updated the policy's row.
Expires(o, p) == creating[o].pc = "insert" /\ p \in creating[o].rows

\* Seeded fault of ClaimIsFree: the claim is read without FOR UPDATE.
ClaimReadUnlocked(k) == TRUE

\* FOR UPDATE on the claim is granted.
ClaimIsFree(k) == \A a \in Admins : ~HoldsClaim(a, k)

\* Seeded fault of PolicyIsFree: the policy is read without FOR UPDATE.
PolicyReadUnlocked(p) == TRUE

\* FOR UPDATE on the policy, or the lock of an UPDATE of it, is granted.
PolicyIsFree(p) ==
  /\ \A a \in Admins : ~HoldsPolicy(a, p)
  /\ \A o \in Owners : ~Expires(o, p)

-------------------------------------------------------------------------------
(* createTcpaPolicy.                                                         *)

\* The UPDATE that expires the active policies starts: it looks at the rows
\* committed by now.
StartExpire(o) ==
  /\ creating[o].pc = "idle"
  /\ creating' = [creating EXCEPT ![o] = [pc |-> "expire", rows |-> ActivePolicies]]
  /\ UNCHANGED << policies, claims, resolving, filing >>

\* Seeded fault of AfterUpdate: there is no transaction, the expiry is seen at once.
AfterUpdateAutocommitted(rows) ==
  [p \in PolicyIds |-> [policies[p] EXCEPT !.active = @ /\ p \notin rows]]

\* What others see of the table after the UPDATE and before the commit.
AfterUpdate(rows) == policies

\* The UPDATE has the locks of its rows; of a row changed meanwhile it looks at the
\* new version, and leaves it alone if that is active no more.
Expire(o) ==
  LET rows == creating[o].rows \cap ActivePolicies
  IN  /\ creating[o].pc = "expire"
      /\ \A p \in creating[o].rows : PolicyIsFree(p)
      /\ policies' = AfterUpdate(rows)
      /\ creating' = [creating EXCEPT ![o] = [pc |-> "insert", rows |-> rows]]
      /\ UNCHANGED << claims, resolving, filing >>

\* The INSERT and the commit: the old policies expire and the new one is active.
InsertPolicy(o) ==
  /\ creating[o].pc = "insert"
  /\ Len(policies) < MaxPolicies
  /\ \E l \in Limits :
       policies' = Append(
         [p \in PolicyIds |->
            [policies[p] EXCEPT !.active = @ /\ p \notin creating[o].rows]],
         [active |-> TRUE, perClaim |-> l.perClaim, aggregate |-> l.aggregate])
  /\ creating' = [creating EXCEPT ![o] = Idle]
  /\ UNCHANGED << claims, resolving, filing >>

\* The request dies with its pod or its connection: the transaction rolls back.
CreateDies(o) ==
  /\ creating[o].pc # "idle"
  /\ creating' = [creating EXCEPT ![o] = Idle]
  /\ UNCHANGED << policies, claims, resolving, filing >>

-------------------------------------------------------------------------------
(* fileTcpaClaim: a read and an insert, not in one transaction.              *)

\* The policies getActivePolicyForOrg may come back with.  It takes the one that
\* started last, and started_at is the start of the creating transaction, which for
\* policies created concurrently can be in either order.
ActivePolicyForOrg == ActivePolicies

\* Without an active policy the request ends here with an error.
ReadActivePolicy(g) ==
  /\ filing[g].pc = "idle"
  /\ \E p \in ActivePolicyForOrg :
       filing' = [filing EXCEPT ![g] = [pc |-> "insert", policy |-> p]]
  /\ UNCHANGED << policies, claims, resolving, creating >>

\* The INSERT checks the foreign key, which waits for a FOR UPDATE on the policy (not
\* for an UPDATE that leaves its key alone).
InsertClaim(g) ==
  /\ filing[g].pc = "insert"
  /\ Len(claims) < MaxClaims
  /\ \A a \in Admins : ~HoldsPolicy(a, filing[g].policy)
  /\ claims' = Append(claims,
       [policy |-> filing[g].policy, status |-> "open", paid |-> 0])
  /\ filing' = [filing EXCEPT ![g] = Idle]
  /\ UNCHANGED << policies, resolving, creating >>

FileDies(g) ==
  /\ filing[g].pc # "idle"
  /\ filing' = [filing EXCEPT ![g] = Idle]
  /\ UNCHANGED << policies, claims, resolving, creating >>

-------------------------------------------------------------------------------
(* resolveTcpaClaim.                                                         *)

\* The amounts that computeAggregatePaidCents adds up: what was paid on the
\* approved claims under p, but for the claim k.
PaidBeside(p, k) ==
  [i \in ClaimIds |-> IF claims[i].policy = p /\ claims[i].status = "approved" /\ i # k
                      THEN claims[i].paid ELSE 0]

\* What was paid on all approved claims under p.
Paid(p) == PaidBeside(p, 0)

\* clampClaimPayout.
ClampClaimPayout(requested, perClaimLimit) ==
  IF requested > perClaimLimit THEN perClaimLimit ELSE requested

\* wouldExceedAggregate.
WouldExceedAggregate(proposed, alreadyPaid, limit) == alreadyPaid + proposed > limit

\* An admin asks for a claim to be approved with a payout, or denied.
Resolve(a) ==
  /\ resolving[a].pc = "idle"
  /\ \E k \in ClaimIds, action \in {"approved", "denied"}, amount \in Amounts :
       resolving' = [resolving EXCEPT ![a] =
         [pc |-> "claim", claim |-> k, action |-> action, amount |-> amount,
          already |-> 0]]
  /\ UNCHANGED << policies, claims, creating, filing >>

\* The claim is read FOR UPDATE: one that is resolved is left as it is, whether the
\* call answers with it (the same action) or throws (the other one).
LockClaim(a) ==
  LET k == resolving[a].claim
  IN  /\ resolving[a].pc = "claim"
      /\ ClaimIsFree(k)
      /\ resolving' =
           IF claims[k].status # "open" THEN [resolving EXCEPT ![a] = Idle]
           ELSE [resolving EXCEPT ![a].pc =
                   IF resolving[a].action = "denied" THEN "deny" ELSE "policy"]
      /\ UNCHANGED << policies, claims, creating, filing >>

\* A denial is written and committed.
Deny(a) ==
  /\ resolving[a].pc = "deny"
  /\ claims' = [claims EXCEPT ![resolving[a].claim] =
                  [@ EXCEPT !.status = "denied", !.paid = 0]]
  /\ resolving' = [resolving EXCEPT ![a] = Idle]
  /\ UNCHANGED << policies, creating, filing >>

\* The policy is read FOR UPDATE.
LockPolicy(a) ==
  /\ resolving[a].pc = "policy"
  /\ PolicyIsFree(claims[resolving[a].claim].policy)
  /\ resolving' = [resolving EXCEPT ![a].pc = "siblings"]
  /\ UNCHANGED << policies, claims, creating, filing >>

\* The sibling claims are read and added up.
ReadSiblings(a) ==
  LET k == resolving[a].claim
  IN  /\ resolving[a].pc = "siblings"
      /\ resolving' = [resolving EXCEPT ![a] =
           [@ EXCEPT !.pc = "pay", !.already = Total(PaidBeside(claims[k].policy, k))]]
      /\ UNCHANGED << policies, claims, creating, filing >>

\* validateApprovedPayout lets the payout through.
MayPay(payout, already, policy) ==
  /\ payout > 0
  /\ ~WouldExceedAggregate(payout, already, policy.aggregate)

\* The payout is written and committed, or validateApprovedPayout throws and the
\* transaction rolls back.
Pay(a) ==
  LET k == resolving[a].claim
      policy == policies[claims[k].policy]
      payout == ClampClaimPayout(resolving[a].amount, policy.perClaim)
  IN  /\ resolving[a].pc = "pay"
      /\ claims' = IF MayPay(payout, resolving[a].already, policy)
                   THEN [claims EXCEPT ![k] =
                           [@ EXCEPT !.status = "approved", !.paid = payout]]
                   ELSE claims
      /\ resolving' = [resolving EXCEPT ![a] = Idle]
      /\ UNCHANGED << policies, creating, filing >>

\* The request dies: the transaction rolls back and its locks go.
ResolveDies(a) ==
  /\ resolving[a].pc # "idle"
  /\ resolving' = [resolving EXCEPT ![a] = Idle]
  /\ UNCHANGED << policies, claims, creating, filing >>

-------------------------------------------------------------------------------
CreatePolicy(o) == StartExpire(o) \/ Expire(o) \/ InsertPolicy(o) \/ CreateDies(o)

FileClaim(g) == ReadActivePolicy(g) \/ InsertClaim(g) \/ FileDies(g)

ResolveClaim(a) ==
  \/ Resolve(a) \/ LockClaim(a) \/ Deny(a) \/ LockPolicy(a)
  \/ ReadSiblings(a) \/ Pay(a) \/ ResolveDies(a)

Next ==
  \/ \E o \in Owners : CreatePolicy(o)
  \/ \E g \in Agents : FileClaim(g)
  \/ \E a \in Admins : ResolveClaim(a)

Spec == Init /\ [][Next]_vars

-------------------------------------------------------------------------------
(* Properties.                                                               *)

PolicyType == [active : BOOLEAN, perClaim : Nat, aggregate : Nat]

ClaimType ==
  [policy : PolicyIds, status : {"open", "approved", "denied"}, paid : Nat]

ResolvingType ==
  {Idle} \cup
  [pc : {"claim", "deny", "policy", "siblings", "pay"}, claim : ClaimIds,
   action : {"approved", "denied"}, amount : Nat, already : Nat]

CreatingType == {Idle} \cup [pc : {"expire", "insert"}, rows : SUBSET PolicyIds]

FilingType == {Idle} \cup [pc : {"insert"}, policy : PolicyIds]

\* Every variable holds a value of its type: a claim and the requests about it refer
\* to rows that exist.
TypeOK ==
  /\ policies \in Seq(PolicyType)
  /\ claims \in Seq(ClaimType)
  /\ DOMAIN resolving = Admins /\ \A a \in Admins : resolving[a] \in ResolvingType
  /\ DOMAIN creating = Owners /\ \A o \in Owners : creating[o] \in CreatingType
  /\ DOMAIN filing = Agents /\ \A g \in Agents : filing[g] \in FilingType

\* What is paid on the claims under a policy stays within its aggregate limit, also
\* when claims under it are approved at the same time, and within its limit for
\* each claim.
AggregateNeverExceeded ==
  \A p \in PolicyIds :
    /\ Total(Paid(p)) <= policies[p].aggregate
    /\ \A k \in ClaimIds : claims[k].policy = p => claims[k].paid <= policies[p].perClaim

\* A resolved claim is final: concurrent and repeated resolutions, of the same kind
\* or the other one, neither reopen it nor touch what was paid.
ResolvedIsFinal ==
  [][\A k \in ClaimIds : claims[k].status # "open" => claims'[k] = claims[k]]_vars

\* An organisation that has had a policy is never without an active one, at whatever
\* point the requests that renew it cross or die: a claim can always be filed.
NeverUninsured == policies # << >> => ActivePolicies # {}

=================================================================================
