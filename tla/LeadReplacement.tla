----------------------------- MODULE LeadReplacement ----------------------------
(*****************************************************************************)
(* Click-to-call and the trade-in credit it leads to: the dialer writes a    *)
(* row per call, Twilio reports on the call by callbacks that may be lost,   *)
(* repeated or late, and a lead whose calls all failed earns its buyer a     *)
(* credit of half the price, which the buyer redeems once.                   *)
(*****************************************************************************)
EXTENDS Integers, Sequences, FiniteSets

CONSTANTS
  Orders,        \* orders placed; a lead that was refunded can be sold again
  LeadOf,        \* the lead of an order
  Price,         \* its price in cents
  Dialers,       \* POST /api/dialer/call requests in flight at a time
  Checks,        \* check-replacement requests in flight at a time
  Redeemers,     \* redeem requests in flight at a time
  FailThreshold, \* BAD_CONTACT_FAIL_THRESHOLD
  MaxCalls       \* bound: rows of call_logs

ASSUME ReplacementAssumption ==
  /\ Price \in [Orders -> Nat]
  /\ DOMAIN LeadOf = Orders
  /\ FailThreshold \in Nat \ {0} /\ MaxCalls \in Nat

VARIABLES
  calls,      \* call_logs, in the order of their ids
  fate,       \* per call, what Twilio knows of it
  callbacks,  \* Twilio's status callbacks that are under way
  old,        \* orders placed more than REPLACEMENT_WINDOW_DAYS ago
  credits,    \* lead_tradein_credits, in the order of their ids
  dialing,    \* the running startCallForLead
  checking,   \* the running autoIssueReplacement
  redeeming   \* the running redeem requests

vars == << calls, fate, callbacks, old, credits, dialing, checking, redeeming >>

Leads == {LeadOf[o] : o \in Orders}

CallIds == 1..Len(calls)

CreditIds == 1..Len(credits)

Idle == [pc |-> "idle"]

Init ==
  /\ calls = << >>
  /\ fate = << >>
  /\ callbacks = {}
  /\ old = {}
  /\ credits = << >>
  /\ dialing = [d \in Dialers |-> Idle]
  /\ checking = [c \in Checks |-> Idle]
  /\ redeeming = [r \in Redeemers |-> Idle]

-------------------------------------------------------------------------------
(* startCallForLead.                                                         *)

\* The row is written before Twilio is asked.
LogCall(d, l) ==
  /\ dialing[d].pc = "idle"
  /\ Len(calls) < MaxCalls
  /\ calls' = Append(calls, [lead |-> l, sid |-> FALSE, status |-> "open"])
  /\ fate' = Append(fate, "unplaced")
  /\ dialing' = [dialing EXCEPT ![d] = [pc |-> "twilio", call |-> Len(calls) + 1]]
  /\ UNCHANGED << callbacks, old, credits, checking, redeeming >>

\* Twilio takes the call.
Place(d) ==
  /\ dialing[d].pc = "twilio"
  /\ fate' = [fate EXCEPT ![dialing[d].call] = "ringing"]
  /\ dialing' = [dialing EXCEPT ![d].pc = "sid"]
  /\ UNCHANGED << calls, callbacks, old, credits, checking, redeeming >>

\* The update with Twilio's id and status ("queued") of the call.
StoreSid(d) ==
  /\ dialing[d].pc = "sid"
  /\ calls' = [calls EXCEPT ![dialing[d].call] =
                 [@ EXCEPT !.sid = TRUE, !.status = "open"]]
  /\ dialing' = [dialing EXCEPT ![d] = Idle]
  /\ UNCHANGED << fate, callbacks, old, credits, checking, redeeming >>

\* Twilio refuses, or the update throws although the call is placed: the catch marks
\* the row as failed.
DialFails(d) ==
  /\ dialing[d].pc \in {"twilio", "sid"}
  /\ calls' = [calls EXCEPT ![dialing[d].call].status = "failed"]
  /\ dialing' = [dialing EXCEPT ![d] = Idle]
  /\ UNCHANGED << fate, callbacks, old, credits, checking, redeeming >>

\* The pod dies: the row stays as it is.
DialDies(d) ==
  /\ dialing[d].pc # "idle"
  /\ dialing' = [dialing EXCEPT ![d] = Idle]
  /\ UNCHANGED << calls, fate, callbacks, old, credits, checking, redeeming >>

-------------------------------------------------------------------------------
(* Twilio, and POST /api/dialer/webhook.                                     *)

\* Twilio reports that the phone rings ("ringing", "in-progress").
Rings(i) ==
  /\ fate[i] = "ringing"
  /\ callbacks' = callbacks \cup {[call |-> i, status |-> "open"]}
  /\ UNCHANGED << calls, fate, old, credits, dialing, checking, redeeming >>

\* The call ends and Twilio reports how: the consumer answered ("completed"), or did
\* not ("busy", "no-answer", "failed").
Ends(i, status) ==
  /\ fate[i] = "ringing"
  /\ fate' = [fate EXCEPT ![i] = status]
  /\ callbacks' = callbacks \cup {[call |-> i, status |-> status]}
  /\ UNCHANGED << calls, old, credits, dialing, checking, redeeming >>

\* The row the webhook finds for a callback, if the id was stored by then.
ReportedOn(m) == {i \in {m.call} : calls[i].sid}

\* The webhook overwrites the status, whichever it was; a callback whose row is not
\* found is acknowledged and forgotten.  Twilio may send the callback again.
Callback(m) ==
  /\ calls' = [i \in CallIds |-> IF i \in ReportedOn(m)
                                 THEN [calls[i] EXCEPT !.status = m.status]
                                 ELSE calls[i]]
  /\ \/ callbacks' = callbacks \ {m}
     \/ UNCHANGED callbacks
  /\ UNCHANGED << fate, old, credits, dialing, checking, redeeming >>

-------------------------------------------------------------------------------
(* autoIssueReplacement.                                                     *)

OrderAges(o) ==
  /\ o \notin old
  /\ old' = old \cup {o}
  /\ UNCHANGED << calls, fate, callbacks, credits, dialing, checking, redeeming >>

Credited(o) == \E k \in CreditIds : credits[k].order = o

\* computeCreditCents: half the price, rounded half up.
CreditCents(o) == (Price[o] + 1) \div 2

CallsWith(l, status) == {i \in CallIds : calls[i].lead = l /\ calls[i].status = status}

\* Seeded fault of BadContact: a call that is still under way counts as failed.
BadContactAtOnce(l) ==
  /\ CallsWith(l, "completed") = {}
  /\ Cardinality(CallsWith(l, "failed") \cup CallsWith(l, "open")) >= FailThreshold

\* detectBadContact comes to the verdict "bad".
BadContact(l) ==
  /\ CallsWith(l, "completed") = {}
  /\ Cardinality(CallsWith(l, "failed")) >= FailThreshold

\* Seeded fault of WorthACredit: the check for a credit of nothing is gone.
WorthAnyCredit(o) == TRUE

WorthACredit(o) == CreditCents(o) > 0

\* proposeReplacementCredit up to the window: no credit yet, and not too old.
Check(c, o) ==
  /\ checking[c].pc = "idle"
  /\ ~Credited(o) /\ o \notin old
  /\ checking' = [checking EXCEPT ![c] = [pc |-> "logs", order |-> o]]
  /\ UNCHANGED << calls, fate, callbacks, old, credits, dialing, redeeming >>

\* The call logs of the lead are read, whoever made the calls, and judged.
ReadLogs(c) ==
  LET o == checking[c].order
  IN  /\ checking[c].pc = "logs"
      /\ checking' = IF BadContact(LeadOf[o]) /\ WorthACredit(o)
                     THEN [checking EXCEPT ![c].pc = "issue"]
                     ELSE [checking EXCEPT ![c] = Idle]
      /\ UNCHANGED << calls, fate, callbacks, old, credits, dialing, redeeming >>

\* Seeded fault of MayInsertCredit: order_id is not unique.
MayAlwaysInsert(o) == TRUE

\* The UNIQUE constraint on order_id.
MayInsertCredit(o) == ~Credited(o)

\* createTradeInCredit; the loser of two checks gets a constraint violation.
Issue(c) ==
  LET o == checking[c].order
  IN  /\ checking[c].pc = "issue"
      /\ credits' = IF MayInsertCredit(o)
                    THEN Append(credits, [order |-> o, cents |-> CreditCents(o),
                                          status |-> "issued", expired |-> FALSE, uses |-> 0])
                    ELSE credits
      /\ checking' = [checking EXCEPT ![c] = Idle]
      /\ UNCHANGED << calls, fate, callbacks, old, dialing, redeeming >>

\* The request dies at any point.
CheckDies(c) ==
  /\ checking[c].pc # "idle"
  /\ checking' = [checking EXCEPT ![c] = Idle]
  /\ UNCHANGED << calls, fate, callbacks, old, credits, dialing, redeeming >>

-------------------------------------------------------------------------------
(* Redeeming.                                                                *)

\* The credit's expires_at passes; its status stays as it is.
Expire(k) ==
  /\ ~credits[k].expired
  /\ credits' = [credits EXCEPT ![k].expired = TRUE]
  /\ UNCHANGED << calls, fate, callbacks, old, dialing, checking, redeeming >>

\* The route reads the credit, which must be issued and not expired.
ReadCredit(r, k) ==
  /\ redeeming[r].pc = "idle"
  /\ credits[k].status = "issued" /\ ~credits[k].expired
  /\ redeeming' = [redeeming EXCEPT ![r] = [pc |-> "redeem", credit |-> k]]
  /\ UNCHANGED << calls, fate, callbacks, old, credits, dialing, checking >>

\* The condition of the update in redeemTradeInCredit.
StillIssued(k) == credits[k].status = "issued"

\* redeemTradeInCredit; without a row it throws.
Redeem(r) ==
  LET k == redeeming[r].credit
  IN  /\ redeeming[r].pc = "redeem"
      /\ credits' = IF StillIssued(k)
                    THEN [credits EXCEPT ![k] =
                            [@ EXCEPT !.status = "redeemed", !.uses = credits[k].uses + 1]]
                    ELSE credits
      /\ redeeming' = [redeeming EXCEPT ![r] = Idle]
      /\ UNCHANGED << calls, fate, callbacks, old, dialing, checking >>

-------------------------------------------------------------------------------
Dial ==
  \E d \in Dialers :
    \/ \E l \in Leads : LogCall(d, l)
    \/ Place(d) \/ StoreSid(d) \/ DialFails(d) \/ DialDies(d)

Twilio ==
  \/ \E i \in CallIds : Rings(i)
  \/ \E i \in CallIds, status \in {"completed", "failed"} : Ends(i, status)
  \/ \E m \in callbacks : Callback(m)

Replace ==
  \/ \E o \in Orders : OrderAges(o)
  \/ \E c \in Checks, o \in Orders : Check(c, o)
  \/ \E c \in Checks : ReadLogs(c) \/ Issue(c) \/ CheckDies(c)

Spend ==
  \/ \E k \in CreditIds : Expire(k)
  \/ \E r \in Redeemers, k \in CreditIds : ReadCredit(r, k)
  \/ \E r \in Redeemers : Redeem(r)

Next == Dial \/ Twilio \/ Replace \/ Spend

Spec == Init /\ [][Next]_vars

-------------------------------------------------------------------------------
(* Properties.                                                               *)

CallType == [lead : Leads, sid : BOOLEAN, status : {"open", "completed", "failed"}]

CreditType ==
  [order : Orders, cents : Nat \ {0}, status : {"issued", "redeemed"},
   expired : BOOLEAN, uses : Nat]

\* Every variable holds a value of its type; no credit is worth nothing.
TypeOK ==
  /\ calls \in Seq(CallType)
  /\ fate \in Seq({"unplaced", "ringing", "completed", "failed"})
  /\ Len(fate) = Len(calls)
  /\ callbacks \subseteq [call : CallIds, status : {"open", "completed", "failed"}]
  /\ old \subseteq Orders
  /\ credits \in Seq(CreditType)
  /\ dialing \in [Dialers -> {Idle} \cup [pc : {"twilio", "sid"}, call : CallIds]]
  /\ checking \in [Checks -> {Idle} \cup [pc : {"logs", "issue"}, order : Orders]]
  /\ redeeming \in [Redeemers -> {Idle} \cup [pc : {"redeem"}, credit : CreditIds]]

\* An order earns at most one credit, however many checks of it cross, and a credit
\* is redeemed at most once, whichever leads the buyer names.
OneCreditOneUse ==
  /\ \A j, k \in CreditIds : credits[j].order = credits[k].order => j = k
  /\ \A k \in CreditIds :
       credits[k].uses = IF credits[k].status = "redeemed" THEN 1 ELSE 0

\* The calls on l that Twilio placed and nobody answered.
Unanswered(l) == {i \in CallIds : calls[i].lead = l /\ fate[i] = "failed"}

\* The calls on l that the dialer's catch marked as failed, without Twilio's id: most
\* were refused by Twilio, but one whose id could not be stored was placed, and its
\* consumer may well have answered.
GivenUp(l) ==
  {i \in CallIds : calls[i].lead = l /\ calls[i].status = "failed" /\ ~calls[i].sid}

\* A credit is backed by as many failures as it takes, each an unanswered call or one the
\* dialer gave up: lost, repeated and late callbacks, two dialers at a time, dialers that
\* die and calls of another buyer of the lead never add one that is merely under way, that
\* was left behind by a dialer that died, or that Twilio reports on and was answered.
CreditIsBacked ==
  \A k \in CreditIds :
    LET l == LeadOf[credits[k].order]
    IN  Cardinality(Unanswered(l) \cup GivenUp(l)) >= FailThreshold

=================================================================================
