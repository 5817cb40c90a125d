----------------------------- MODULE StripeWebhook ------------------------------
(*****************************************************************************)
(* POST /api/stripe/webhook for wallet top-ups, opened up into its awaits:   *)
(* markSeenOnceDb marks the event in the pod's memory, then in the table     *)
(* webhook_idempotency; only then is the session read and credited.  Stripe  *)
(* sends an event again until it is answered with a 200; the calls run on    *)
(* several pods, and pods and database may fail between any two steps.       *)
(* LeadMarket takes all of this as the one action CreditUserFromStripe.      *)
(*****************************************************************************)
EXTENDS Integers, FiniteSets

CONSTANTS
  Events,        \* Stripe events of type checkout.session.completed
  Sessions,      \* the paid Checkout sessions
  SessionOf,     \* the session an event is about
  Pods,
  Calls          \* bound: webhook requests in flight at a time

ASSUME WebhookAssumption == SessionOf \in [Events -> Sessions]

VARIABLES
  acked,      \* events Stripe has seen answered with a 200 (it stops sending them)
  cache,      \* per pod, the events in its in-memory tracker
  seen,       \* the rows of webhook_idempotency
  status,     \* stripe_checkout_sessions.status
  credited,   \* how often the wallet was credited for the session
  call,       \* the handler runs
  tripped     \* history: events whose handling failed after they were marked

vars == << acked, cache, seen, status, credited, call, tripped >>

Idle == [pc |-> "idle"]

Running(c, pc) == call[c].pc = pc

\* The handler run goes on at pc.
GoTo(c, pc) == call' = [call EXCEPT ![c].pc = pc]

-------------------------------------------------------------------------------
\* A session row is inserted before the buyer gets its URL, so every paid session
\* starts with a pending row.
Init ==
  /\ acked = {}
  /\ cache = [p \in Pods |-> {}]
  /\ seen = {}
  /\ status = [s \in Sessions |-> "pending"]
  /\ credited = [s \in Sessions |-> 0]
  /\ call = [c \in Calls |-> Idle]
  /\ tripped = {}

\* Stripe sends an event that it has not seen answered, to any pod.
Deliver(c, e, p) ==
  /\ Running(c, "idle")
  /\ e \notin acked
  /\ call' = [call EXCEPT ![c] = [pc |-> "received", event |-> e, pod |-> p]]
  /\ UNCHANGED << acked, cache, seen, status, credited, tripped >>

\* The Stripe client or the secret cannot be had, before anything is marked.
RejectEarly(c) ==
  /\ Running(c, "received")
  /\ GoTo(c, "fail")
  /\ UNCHANGED << acked, cache, seen, status, credited, tripped >>

\* markSeenOnce on the pod's tracker: an event it has seen is a duplicate.
MarkInMemory(c) ==
  LET e == call[c].event
      p == call[c].pod
  IN  /\ Running(c, "received")
      /\ IF e \in cache[p] THEN GoTo(c, "ok") /\ UNCHANGED cache
         ELSE GoTo(c, "insert") /\ cache' = [cache EXCEPT ![p] = @ \cup {e}]
      /\ UNCHANGED << acked, seen, status, credited, tripped >>

\* INSERT ... ON CONFLICT DO NOTHING: no row came back, so it is a duplicate.
InsertSeen(c) ==
  LET e == call[c].event
  IN  /\ Running(c, "insert")
      /\ seen' = seen \cup {e}
      /\ GoTo(c, IF e \in seen THEN "ok" ELSE "read")
      /\ UNCHANGED << acked, cache, status, credited, tripped >>

\* Seeded fault of InsertFails: an event that cannot be recorded is a duplicate.
InsertFailsAsDuplicate(c) ==
  /\ Running(c, "insert")
  /\ GoTo(c, "ok")
  /\ UNCHANGED << acked, cache, seen, status, credited, tripped >>

\* The insert fails: the event is let through.
InsertFails(c) ==
  /\ Running(c, "insert")
  /\ GoTo(c, "read")
  /\ UNCHANGED << acked, cache, seen, status, credited, tripped >>

\* getStripeSession: a session that is not pending needs nothing more.
ReadSession(c) ==
  /\ Running(c, "read")
  /\ GoTo(c, IF status[SessionOf[call[c].event]] = "pending" THEN "credit" ELSE "ok")
  /\ UNCHANGED << acked, cache, seen, status, credited, tripped >>

\* Seeded fault of MayCredit: the update of the session has no status condition.
AlwaysCredit(s) == TRUE

\* The condition of the update in creditUserFromStripe.
MayCredit(s) == status[s] = "pending"

\* creditUserFromStripe: one transaction, a no-op if the row is pending no more.
CreditUserFromStripe(c) ==
  LET s == SessionOf[call[c].event]
  IN  /\ Running(c, "credit")
      /\ IF MayCredit(s)
         THEN /\ status' = [status EXCEPT ![s] = "completed"]
              /\ credited' = [credited EXCEPT ![s] = @ + 1]
         ELSE UNCHANGED << status, credited >>
      /\ GoTo(c, "ok")
      /\ UNCHANGED << acked, cache, seen, tripped >>

\* A query of the handler throws after the event was marked: a 400.  Neither mark
\* is taken back.
QueryFails(c) ==
  /\ Running(c, "read") \/ Running(c, "credit")
  /\ GoTo(c, "fail")
  /\ tripped' = tripped \cup {call[c].event}
  /\ UNCHANGED << acked, cache, seen, status, credited >>

\* The response arrives; only a 200 stops Stripe from sending the event again.
Respond(c) ==
  /\ Running(c, "ok") \/ Running(c, "fail")
  /\ acked' = IF Running(c, "ok") THEN acked \cup {call[c].event} ELSE acked
  /\ call' = [call EXCEPT ![c] = Idle]
  /\ UNCHANGED << cache, seen, status, credited, tripped >>

\* The response is lost or comes after Stripe's timeout.
ResponseLost(c) ==
  /\ Running(c, "ok") \/ Running(c, "fail")
  /\ call' = [call EXCEPT ![c] = Idle]
  /\ UNCHANGED << acked, cache, seen, status, credited, tripped >>

\* The tracker drops an entry: its cap or its 24 h.
Evict(p, e) ==
  /\ e \in cache[p]
  /\ cache' = [cache EXCEPT ![p] = @ \ {e}]
  /\ UNCHANGED << acked, seen, status, credited, call, tripped >>

\* pruneOldIdempotencyRows drops rows of more than seven days; Stripe sends an
\* event for at most three, so by then it is answered and no call is left of it.
PruneSeen(e) ==
  /\ e \in seen /\ e \in acked
  /\ \A c \in Calls : ~Running(c, "idle") => call[c].event # e
  /\ seen' = seen \ {e}
  /\ UNCHANGED << acked, cache, status, credited, call, tripped >>

\* The calls on p that have marked their event and are not done with it.
MarkedOn(p) ==
  {c \in Calls : call[c].pc \in {"insert", "read", "credit"} /\ call[c].pod = p}

\* A pod dies, with its memory and the calls it was serving.
Crash(p) ==
  /\ cache' = [cache EXCEPT ![p] = {}]
  /\ call' = [c \in Calls |-> IF ~Running(c, "idle") /\ call[c].pod = p
                              THEN Idle ELSE call[c]]
  /\ tripped' = tripped \cup {call[c].event : c \in MarkedOn(p)}
  /\ UNCHANGED << acked, seen, status, credited >>

-------------------------------------------------------------------------------
Handle(c) ==
  \/ MarkInMemory(c) \/ InsertSeen(c) \/ ReadSession(c)
  \/ CreditUserFromStripe(c) \/ Respond(c)

Fault ==
  \/ \E c \in Calls : RejectEarly(c) \/ InsertFails(c) \/ QueryFails(c) \/ ResponseLost(c)
  \/ \E p \in Pods, e \in Events : Evict(p, e)
  \/ \E e \in Events : PruneSeen(e)
  \/ \E p \in Pods : Crash(p)

Next ==
  \/ \E c \in Calls, e \in Events, p \in Pods : Deliver(c, e, p)
  \/ \E c \in Calls : Handle(c)
  \/ Fault

DeliverAny(e) == \E c \in Calls, p \in Pods : Deliver(c, e, p)

MarkAny(e) == \E c \in Calls : ~Running(c, "idle") /\ call[c].event = e /\ MarkInMemory(c)

\* Stripe keeps sending an event until it is answered, and some delivery of it gets
\* past the two client calls before the mark; a pod runs what it has started.
Fairness ==
  /\ \A e \in Events : SF_vars(DeliverAny(e)) /\ SF_vars(MarkAny(e))
  /\ \A c \in Calls : WF_vars(Handle(c))

Spec == Init /\ [][Next]_vars /\ Fairness

-------------------------------------------------------------------------------
(* Properties.                                                               *)

\* Every variable holds a value of its type; a session is credited once or not at
\* all.
TypeOK ==
  /\ acked \subseteq Events /\ seen \subseteq Events /\ tripped \subseteq Events
  /\ cache \in [Pods -> SUBSET Events]
  /\ status \in [Sessions -> {"pending", "completed"}]
  /\ credited \in [Sessions -> 0..1]
  /\ \A c \in Calls :
       call[c] \in {Idle} \cup
         [pc : {"received", "insert", "read", "credit", "ok", "fail"},
          event : Events, pod : Pods]

\* A paid session is credited at most once, and exactly when its row says so,
\* however often, on however many pods and under however many event ids Stripe
\* reports it, and whatever fails: the marks may be lost or bypassed, the
\* session's own state machine is what holds.
CreditedOnce ==
  \A s \in Sessions : credited[s] = (IF status[s] = "completed" THEN 1 ELSE 0)

\* Every paid session is credited in the end, unless a pod or a query failed between
\* the mark of its event and the credit; marks may be forgotten, responses lost,
\* pods die at any other point and the idempotency table be out of reach.
PaidIsCredited ==
  \A e \in Events : <>(status[SessionOf[e]] = "completed" \/ e \in tripped)

\* What the comment of markSeenOnceDb asks for, that duplicate processing is
\* "preferable to silently dropping legitimate events": an event answered with a
\* 200 is one whose session has been credited.
AckedIsCredited == \A e \in acked : status[SessionOf[e]] = "completed"

=================================================================================
