--------------------------- MODULE StripeWebhookProofs --------------------------
(*****************************************************************************)
(* Proofs about StripeWebhook: whatever the marks of an event go through, a  *)
(* session is credited at most once, for any number of events, sessions,     *)
(* pods and concurrent calls.                                                *)
(*****************************************************************************)
EXTENDS StripeWebhook, TLAPS

\* The invariant: the two conjuncts need each other, as credited stays below 2
\* because a credited session is not pending any more.
WebhookInv == TypeOK /\ CreditedOnce

\* The record of a call that is not idle, as TypeOK describes it.
CallRecord == [pc : {"received", "insert", "read", "credit", "ok", "fail"},
               event : Events, pod : Pods]

\* A handler run at any pc but "idle" has an event and a pod.
LEMMA RunningCall ==
  ASSUME TypeOK, NEW c \in Calls, call[c].pc # "idle"
  PROVE  call[c] \in CallRecord
BY DEF TypeOK, Idle, CallRecord

\* A step that only moves a run on keeps the calls well-typed.
LEMMA GoToTyped ==
  ASSUME TypeOK, NEW c \in Calls, call[c].pc # "idle",
         NEW pc \in {"received", "insert", "read", "credit", "ok", "fail"},
         GoTo(c, pc)
  PROVE  \A d \in Calls : call'[d] \in {Idle} \cup CallRecord
<1>1. call[c] \in CallRecord BY RunningCall
<1>2. [call[c] EXCEPT !.pc = pc] \in CallRecord BY <1>1 DEF CallRecord
<1>3. \A d \in Calls : call[d] \in {Idle} \cup CallRecord BY DEF TypeOK, CallRecord
<1>. TAKE d \in Calls
<1>. QED BY <1>2, <1>3 DEF GoTo

\* The invariant holds initially.
LEMMA WebhookInit == Init => WebhookInv
BY DEF Init, WebhookInv, TypeOK, CreditedOnce, Idle

\* A step that changes neither credits nor statuses keeps CreditedOnce.
LEMMA CreditsUnchanged ==
  ASSUME CreditedOnce, UNCHANGED << status, credited >>
  PROVE  CreditedOnce'
BY DEF CreditedOnce

\* Deliveries: a new call on any pod.
LEMMA DeliverKeepsInv ==
  ASSUME WebhookInv, NEW c \in Calls, NEW e \in Events, NEW p \in Pods, Deliver(c, e, p)
  PROVE  WebhookInv'
<1>1. TypeOK'
  <2>1. \A d \in Calls : call'[d] \in {Idle} \cup CallRecord
    BY DEF WebhookInv, TypeOK, Deliver, CallRecord
  <2>. QED BY <2>1 DEF WebhookInv, TypeOK, Deliver, CallRecord
<1>2. CreditedOnce' BY CreditsUnchanged DEF WebhookInv, Deliver
<1>. QED BY <1>1, <1>2 DEF WebhookInv

\* The steps of a handler run.  The only one that touches a credit is
\* CreditUserFromStripe, and it acts on a pending session, whose credit is 0.
LEMMA HandleKeepsInv ==
  ASSUME WebhookInv, NEW c \in Calls, Handle(c)
  PROVE  WebhookInv'
<1>. USE DEF WebhookInv
<1>1. CASE MarkInMemory(c)
  <2>1. call[c] \in CallRecord BY <1>1, RunningCall DEF MarkInMemory, Running
  <2>2. \A d \in Calls : call'[d] \in {Idle} \cup CallRecord
    BY <1>1, GoToTyped DEF MarkInMemory, Running
  <2>3. cache' \in [Pods -> SUBSET Events]
    BY <1>1, <2>1 DEF MarkInMemory, TypeOK, CallRecord
  <2>4. CreditedOnce' BY <1>1, CreditsUnchanged DEF MarkInMemory
  <2>. QED BY <1>1, <2>2, <2>3, <2>4 DEF MarkInMemory, TypeOK, CallRecord
<1>2. CASE InsertSeen(c)
  <2>1. call[c] \in CallRecord BY <1>2, RunningCall DEF InsertSeen, Running
  <2>2. \A d \in Calls : call'[d] \in {Idle} \cup CallRecord
    BY <1>2, GoToTyped DEF InsertSeen, Running
  <2>3. seen' \subseteq Events BY <1>2, <2>1 DEF InsertSeen, TypeOK, CallRecord
  <2>4. CreditedOnce' BY <1>2, CreditsUnchanged DEF InsertSeen
  <2>. QED BY <1>2, <2>2, <2>3, <2>4 DEF InsertSeen, TypeOK, CallRecord
<1>3. CASE ReadSession(c)
  <2>1. \A d \in Calls : call'[d] \in {Idle} \cup CallRecord
    BY <1>3, GoToTyped DEF ReadSession, Running
  <2>2. CreditedOnce' BY <1>3, CreditsUnchanged DEF ReadSession
  <2>. QED BY <1>3, <2>1, <2>2 DEF ReadSession, TypeOK, CallRecord
<1>4. CASE CreditUserFromStripe(c)
  <2>. DEFINE s == SessionOf[call[c].event]
  <2>1. s \in Sessions
    BY <1>4, RunningCall, WebhookAssumption DEF CreditUserFromStripe, Running, CallRecord
  <2>2. \A d \in Calls : call'[d] \in {Idle} \cup CallRecord
    BY <1>4, GoToTyped DEF CreditUserFromStripe, Running
  <2>3. CASE MayCredit(s)
    <3>1. /\ status' = [status EXCEPT ![s] = "completed"]
          /\ credited' = [credited EXCEPT ![s] = @ + 1]
      BY <1>4, <2>3 DEF CreditUserFromStripe
    <3>2. credited[s] = 0 BY <2>1, <2>3 DEF CreditedOnce, MayCredit
    <3>3. CreditedOnce' BY <2>1, <3>1, <3>2 DEF CreditedOnce, TypeOK
    <3>4. /\ status' \in [Sessions -> {"pending", "completed"}]
          /\ credited' \in [Sessions -> 0..1]
      BY <2>1, <3>1, <3>2 DEF TypeOK
    <3>. QED BY <1>4, <2>2, <3>3, <3>4 DEF CreditUserFromStripe, TypeOK, CallRecord
  <2>4. CASE ~MayCredit(s)
    <3>1. UNCHANGED << status, credited >> BY <1>4, <2>4 DEF CreditUserFromStripe
    <3>2. CreditedOnce' BY <3>1, CreditsUnchanged
    <3>. QED BY <1>4, <2>2, <3>1, <3>2 DEF CreditUserFromStripe, TypeOK, CallRecord
  <2>. QED BY <2>3, <2>4
<1>5. CASE Respond(c)
  <2>1. call[c] \in CallRecord BY <1>5, RunningCall DEF Respond, Running
  <2>2. acked' \subseteq Events BY <1>5, <2>1 DEF Respond, TypeOK, CallRecord
  <2>3. CreditedOnce' BY <1>5, CreditsUnchanged DEF Respond
  <2>. QED BY <1>5, <2>2, <2>3 DEF Respond, TypeOK
<1>. QED BY <1>1, <1>2, <1>3, <1>4, <1>5 DEF Handle

\* Failures of calls, pods and marks.
LEMMA FaultKeepsInv ==
  ASSUME WebhookInv, Fault
  PROVE  WebhookInv'
<1>. USE DEF WebhookInv
<1>1. ASSUME NEW c \in Calls, RejectEarly(c) PROVE WebhookInv'
  <2>1. \A d \in Calls : call'[d] \in {Idle} \cup CallRecord
    BY <1>1, GoToTyped DEF RejectEarly, Running
  <2>. QED BY <1>1, <2>1, CreditsUnchanged DEF RejectEarly, TypeOK, CallRecord
<1>2. ASSUME NEW c \in Calls, InsertFails(c) PROVE WebhookInv'
  <2>1. \A d \in Calls : call'[d] \in {Idle} \cup CallRecord
    BY <1>2, GoToTyped DEF InsertFails, Running
  <2>. QED BY <1>2, <2>1, CreditsUnchanged DEF InsertFails, TypeOK, CallRecord
<1>3. ASSUME NEW c \in Calls, QueryFails(c) PROVE WebhookInv'
  <2>1. call[c] \in CallRecord BY <1>3, RunningCall DEF QueryFails, Running
  <2>2. \A d \in Calls : call'[d] \in {Idle} \cup CallRecord
    BY <1>3, GoToTyped DEF QueryFails, Running
  <2>3. tripped' \subseteq Events BY <1>3, <2>1 DEF QueryFails, TypeOK, CallRecord
  <2>. QED BY <1>3, <2>2, <2>3, CreditsUnchanged DEF QueryFails, TypeOK, CallRecord
<1>4. ASSUME NEW c \in Calls, ResponseLost(c) PROVE WebhookInv'
  BY <1>4, CreditsUnchanged DEF ResponseLost, TypeOK
<1>5. ASSUME NEW p \in Pods, NEW e \in Events, Evict(p, e) PROVE WebhookInv'
  BY <1>5, CreditsUnchanged DEF Evict, TypeOK
<1>6. ASSUME NEW e \in Events, PruneSeen(e) PROVE WebhookInv'
  BY <1>6, CreditsUnchanged DEF PruneSeen, TypeOK
<1>7. ASSUME NEW p \in Pods, Crash(p) PROVE WebhookInv'
  <2>1. \A d \in Calls : call'[d] \in {Idle} \cup CallRecord
    BY <1>7 DEF Crash, TypeOK, CallRecord
  <2>2. \A c \in MarkedOn(p) : call[c].event \in Events
    BY RunningCall DEF MarkedOn, CallRecord
  <2>3. tripped' \subseteq Events BY <1>7, <2>2 DEF Crash, TypeOK
  <2>. QED BY <1>7, <2>1, <2>3, CreditsUnchanged DEF Crash, TypeOK, CallRecord
<1>. QED BY <1>1, <1>2, <1>3, <1>4, <1>5, <1>6, <1>7 DEF Fault

\* Every step keeps the invariant.
LEMMA WebhookStep == WebhookInv /\ [Next]_vars => WebhookInv'
<1>. SUFFICES ASSUME WebhookInv, [Next]_vars PROVE WebhookInv'
  OBVIOUS
<1>1. CASE Next
  BY <1>1, DeliverKeepsInv, HandleKeepsInv, FaultKeepsInv DEF Next
<1>2. CASE UNCHANGED vars
  BY <1>2 DEF vars, WebhookInv, TypeOK, CreditedOnce
<1>. QED BY <1>1, <1>2

\* Every variable keeps its type.
THEOREM WebhookTypeCorrect == Spec => []TypeOK
<1>1. WebhookInv => TypeOK BY DEF WebhookInv
<1>. QED BY <1>1, WebhookInit, WebhookStep, PTL DEF Spec

\* creditUserFromStripe credits a session at most once, and exactly when it takes
\* its row from "pending" to "completed", however many events, pods and concurrent
\* calls report it and wherever they fail.
THEOREM WebhookCreditsOnce == Spec => []CreditedOnce
<1>1. WebhookInv => CreditedOnce BY DEF WebhookInv
<1>. QED BY <1>1, WebhookInit, WebhookStep, PTL DEF Spec

=================================================================================
