-------------------------- MODULE LeadReplacementProofs -------------------------
(*****************************************************************************)
(* Proofs about LeadReplacement: for any orders, prices, requests at a time  *)
(* and failure thresholds, with every lost, repeated and late callback.      *)
(*****************************************************************************)
EXTENDS LeadReplacement, FiniteSetTheorems, TLAPS

-------------------------------------------------------------------------------
(* The inductive invariant.                                                  *)

\* What TypeOK says of the calls, and of the credits.
CallsTyped ==
  /\ calls \in Seq(CallType)
  /\ fate \in Seq({"unplaced", "ringing", "completed", "failed"})
  /\ Len(fate) = Len(calls)
  /\ callbacks \subseteq [call : CallIds, status : {"open", "completed", "failed"}]
  /\ dialing \in [Dialers -> {Idle} \cup [pc : {"twilio", "sid"}, call : CallIds]]

CreditsTyped ==
  /\ old \subseteq Orders
  /\ credits \in Seq(CreditType)
  /\ checking \in [Checks -> {Idle} \cup [pc : {"logs", "issue"}, order : Orders]]
  /\ redeeming \in [Redeemers -> {Idle} \cup [pc : {"redeem"}, credit : CreditIds]]

\* A dialer is on call i.
On(d, i) == dialing[d].pc # "idle" /\ dialing[d].call = i

\* The row a dialer has not written back yet: nobody else is on it, Twilio's id is
\* not known, and before Twilio was asked it knows nothing of the call.
DialerOwns ==
  /\ \A d, e \in Dialers, i \in CallIds : On(d, i) /\ On(e, i) => d = e
  /\ \A d \in Dialers, i \in CallIds : On(d, i) =>
       ~calls[i].sid /\ (dialing[d].pc = "twilio" => fate[i] = "unplaced")

\* Twilio reports a failure only of calls that failed.
CallbackTrue == \A m \in callbacks : m.status = "failed" => fate[m.call] = "failed"

\* The calls on l that count as failures for good: nobody answered, or their dialer marked
\* them as failed and left without Twilio's id.
Dead(l) ==
  {i \in CallIds : calls[i].lead = l /\
     \/ fate[i] = "failed"
     \/ ~calls[i].sid /\ calls[i].status = "failed" /\ \A d \in Dialers : ~On(d, i)}

FailedIsDead == \A i \in CallIds : calls[i].status = "failed" => i \in Dead(calls[i].lead)

CallsInv == CallsTyped /\ DialerOwns /\ CallbackTrue /\ FailedIsDead

\* What the verdict of a check rests on.
Backed(o) == Cardinality(Dead(LeadOf[o])) >= FailThreshold

CheckBacked ==
  \A c \in Checks, o \in Orders :
    checking[c].pc = "issue" /\ checking[c].order = o => Backed(o) /\ WorthACredit(o)

CreditBacked == \A k \in CreditIds, o \in Orders : credits[k].order = o => Backed(o)

CreditsInv == CreditsTyped /\ CheckBacked /\ CreditBacked /\ OneCreditOneUse

ReplacementInv == CallsInv /\ CreditsInv

-------------------------------------------------------------------------------
(* Calls.                                                                    *)

\* The steps on calls add rows, and what is dead stays dead.
DeadStays ==
  /\ CallIds \subseteq CallIds'
  /\ \A l : Dead(l) \subseteq Dead(l)'

LEMMA DialStates ==
  ASSUME CallsTyped, NEW d \in Dialers
  PROVE  /\ dialing[d].pc \in {"idle", "twilio", "sid"}
         /\ dialing[d].pc = "idle" => dialing[d] = Idle
         /\ dialing[d].pc # "idle" =>
              /\ dialing[d] \in [pc : {"twilio", "sid"}, call : CallIds]
              /\ dialing[d].call \in CallIds
BY DEF CallsTyped, Idle

LEMMA LogStep ==
  ASSUME CallsInv, NEW d \in Dialers, NEW l \in Leads, LogCall(d, l)
  PROVE  CallsInv' /\ DeadStays
<1>. DEFINE n == Len(calls) + 1
            row == [lead |-> l, sid |-> FALSE, status |-> "open"]
            st == [pc |-> "twilio", call |-> n]
<1>1. /\ dialing[d].pc = "idle" /\ calls' = Append(calls, row) /\ fate' = Append(fate, "unplaced")
      /\ dialing' = [dialing EXCEPT ![d] = st] /\ UNCHANGED callbacks
  BY DEF LogCall
<1>. USE DEF CallsInv
<1>2. row \in CallType /\ row.lead = l /\ ~row.sid /\ row.status = "open" BY DEF CallType
<1>3. /\ calls \in Seq(CallType) /\ Len(calls) \in Nat
      /\ fate \in Seq({"unplaced", "ringing", "completed", "failed"}) /\ Len(fate) = Len(calls)
  BY DEF CallsTyped
<1>. HIDE DEF row
<1>4. /\ calls' \in Seq(CallType) /\ Len(calls') = n /\ Len(fate') = n
      /\ fate' \in Seq({"unplaced", "ringing", "completed", "failed"})
      /\ \A i \in 1..Len(calls) : calls'[i] = calls[i] /\ fate'[i] = fate[i]
      /\ calls'[n] = row /\ fate'[n] = "unplaced"
  BY <1>1, <1>2, <1>3
<1>5. CallIds' = CallIds \cup {n} /\ n \notin CallIds /\ n \in CallIds'
  BY <1>3, <1>4 DEF CallIds
<1>6. \A i \in CallIds : calls'[i] = calls[i] /\ fate'[i] = fate[i] BY <1>4 DEF CallIds
<1>7. /\ st.pc = "twilio" /\ st.call = n /\ st \in [pc : {"twilio", "sid"}, call : CallIds']
  BY <1>5
<1>. HIDE DEF st, n
<1>8. /\ dialing' \in [Dialers -> {Idle} \cup [pc : {"twilio", "sid"}, call : CallIds']]
      /\ dialing'[d] = st /\ \A e \in Dialers : e # d => dialing'[e] = dialing[e]
  <2>1. dialing \in [Dialers -> {Idle} \cup [pc : {"twilio", "sid"}, call : CallIds']]
    BY <1>5 DEF CallsTyped
  <2>. QED BY <1>1, <1>7, <2>1
<1>9. \A e \in Dialers, i \in CallIds' : On(e, i)' <=> (IF e = d THEN i = n ELSE On(e, i))
  BY <1>7, <1>8 DEF On
<1>10. \A e \in Dialers : ~On(e, n) BY <1>5, DialStates DEF On
<1>11. \A i \in CallIds : ~On(d, i) BY <1>1 DEF On
<1>12. CallsTyped'
  <2>1. callbacks' \subseteq [call : CallIds', status : {"open", "completed", "failed"}]
    BY <1>1, <1>5 DEF CallsTyped
  <2>. QED BY <1>4, <1>8, <2>1 DEF CallsTyped
<1>13. DialerOwns'
  <2>1. ASSUME NEW e \in Dialers, NEW f \in Dialers, NEW i \in CallIds', On(e, i)', On(f, i)'
        PROVE  e = f
    BY <1>5, <1>9, <1>10, <1>11, <2>1 DEF DialerOwns
  <2>2. ASSUME NEW e \in Dialers, NEW i \in CallIds', On(e, i)'
        PROVE  ~calls'[i].sid /\ (dialing'[e].pc = "twilio" => fate'[i] = "unplaced")
    <3>1. CASE i = n BY <1>2, <1>4, <3>1
    <3>2. CASE i \in CallIds
      <4>1. e # d /\ On(e, i) BY <1>5, <1>9, <2>2, <3>2
      <4>. QED BY <1>6, <1>8, <3>2, <4>1 DEF DialerOwns
    <3>. QED BY <1>5, <3>1, <3>2
  <2>. QED BY <2>1, <2>2 DEF DialerOwns
<1>14. CallbackTrue'
  <2>1. \A m \in callbacks : m.call \in CallIds BY DEF CallsTyped
  <2>. QED BY <1>1, <1>6, <2>1 DEF CallbackTrue
<1>15. DeadStays
  <2>1. \A k : Dead(k) \subseteq Dead(k)'
    BY <1>5, <1>6, <1>9, <1>11 DEF Dead
  <2>. QED BY <1>5, <2>1 DEF DeadStays
<1>16. FailedIsDead'
  BY <1>2, <1>4, <1>5, <1>6, <1>15 DEF FailedIsDead, DeadStays
<1>. QED BY <1>12, <1>13, <1>14, <1>15, <1>16

\* A step that adds no row keeps the invariant if it keeps failures, ids that nobody is
\* about to write, and the rows of the dialers; and if new failures are real ones.
LEMMA RowsStep ==
  ASSUME CallsInv,
         calls' \in Seq(CallType), Len(calls') = Len(calls),
         fate' \in Seq({"unplaced", "ringing", "completed", "failed"}), Len(fate') = Len(fate),
         callbacks' \subseteq [call : CallIds, status : {"open", "completed", "failed"}],
         dialing' \in [Dialers -> {Idle} \cup [pc : {"twilio", "sid"}, call : CallIds]],
         \A i \in CallIds :
           /\ calls'[i].lead = calls[i].lead
           /\ fate[i] = "failed" => fate'[i] = "failed"
           /\ ~calls[i].sid /\ (\A d \in Dialers : ~On(d, i)) => calls'[i] = calls[i]
           /\ calls'[i].status = "failed" =>
                \/ calls[i].status = "failed"
                \/ fate'[i] = "failed"
                \/ ~calls'[i].sid /\ \A d \in Dialers : ~On(d, i)',
         \A d \in Dialers, i \in CallIds : On(d, i)' =>
           /\ On(d, i) /\ ~calls'[i].sid
           /\ dialing'[d].pc = "twilio" => fate'[i] = "unplaced",
         \A m \in callbacks' : m.status = "failed" => fate'[m.call] = "failed"
  PROVE  CallsInv' /\ DeadStays
<1>. USE DEF CallsInv
<1>1. CallIds' = CallIds BY DEF CallIds
<1>2. CallsTyped' BY <1>1 DEF CallsTyped
<1>3. DialerOwns' BY <1>1 DEF DialerOwns
<1>4. CallbackTrue' BY DEF CallbackTrue
<1>5. \A l : Dead(l) \subseteq Dead(l)' BY <1>1 DEF Dead
<1>6. DeadStays BY <1>1, <1>5 DEF DeadStays
<1>7. FailedIsDead'
  <2>1. ASSUME NEW i \in CallIds, NEW l, calls'[i].status = "failed", calls'[i].lead = l
        PROVE  i \in Dead(l)'
    <3>1. CASE calls[i].status = "failed" BY <1>5, <2>1, <3>1 DEF FailedIsDead
    <3>2. CASE fate'[i] = "failed" BY <1>1, <2>1, <3>2 DEF Dead
    <3>3. CASE ~calls'[i].sid /\ \A d \in Dialers : ~On(d, i)' BY <1>1, <2>1, <3>3 DEF Dead
    <3>. QED BY <2>1, <3>1, <3>2, <3>3
  <2>2. ASSUME NEW i \in CallIds, calls'[i].status = "failed"
        PROVE  \A l : calls'[i].lead = l => i \in Dead(l)'
    BY <2>1, <2>2
  <2>. QED BY <1>1, <2>2 DEF FailedIsDead
<1>. QED BY <1>2, <1>3, <1>4, <1>6, <1>7

\* The row of a call that a dialer is on, and the state of a dialer that leaves it.
LEMMA RowOfCall ==
  ASSUME CallsTyped, NEW i \in CallIds
  PROVE  /\ calls[i] \in CallType
         /\ \A row \in CallType : calls' = [calls EXCEPT ![i] = row] =>
              /\ calls' \in Seq(CallType) /\ Len(calls') = Len(calls)
              /\ calls'[i] = row /\ \A j \in CallIds : j # i => calls'[j] = calls[j]
         /\ \A f \in {"unplaced", "ringing", "completed", "failed"} :
              fate' = [fate EXCEPT ![i] = f] =>
                /\ fate' \in Seq({"unplaced", "ringing", "completed", "failed"})
                /\ Len(fate') = Len(fate)
                /\ fate'[i] = f /\ \A j \in CallIds : j # i => fate'[j] = fate[j]
BY DEF CallsTyped, CallIds

LEMMA LeavesCall ==
  ASSUME CallsTyped, NEW d \in Dialers, dialing' = [dialing EXCEPT ![d] = Idle]
  PROVE  /\ dialing' \in [Dialers -> {Idle} \cup [pc : {"twilio", "sid"}, call : CallIds]]
         /\ \A e \in Dialers, i \in CallIds : On(e, i)' <=> e # d /\ On(e, i)
         /\ \A e \in Dialers : e # d => dialing'[e] = dialing[e]
<1>1. Idle.pc = "idle" BY DEF Idle
<1>2. /\ dialing'[d] = Idle /\ \A e \in Dialers : e # d => dialing'[e] = dialing[e]
      /\ dialing' \in [Dialers -> {Idle} \cup [pc : {"twilio", "sid"}, call : CallIds]]
  BY DEF CallsTyped
<1>. QED BY <1>1, <1>2 DEF On

LEMMA PlaceStep ==
  ASSUME CallsInv, NEW d \in Dialers, Place(d)
  PROVE  CallsInv' /\ DeadStays
<1>. DEFINE n == dialing[d].call
            st == [dialing[d] EXCEPT !.pc = "sid"]
<1>1. /\ dialing[d].pc = "twilio" /\ fate' = [fate EXCEPT ![n] = "ringing"]
      /\ dialing' = [dialing EXCEPT ![d] = st] /\ UNCHANGED << calls, callbacks >>
  BY DEF Place
<1>. USE DEF CallsInv
<1>2. n \in CallIds /\ dialing[d] \in [pc : {"twilio", "sid"}, call : CallIds]
  BY <1>1, DialStates
<1>3. st.pc = "sid" /\ st.call = n /\ st \in [pc : {"twilio", "sid"}, call : CallIds]
  BY <1>2
<1>4. On(d, n) BY <1>1 DEF On
<1>. HIDE DEF st, n
<1>5. /\ fate' \in Seq({"unplaced", "ringing", "completed", "failed"}) /\ Len(fate') = Len(fate)
      /\ fate'[n] = "ringing" /\ \A j \in CallIds : j # n => fate'[j] = fate[j]
  BY <1>1, <1>2, RowOfCall
<1>6. /\ dialing' \in [Dialers -> {Idle} \cup [pc : {"twilio", "sid"}, call : CallIds]]
      /\ dialing'[d] = st /\ \A e \in Dialers : e # d => dialing'[e] = dialing[e]
  BY <1>1, <1>3 DEF CallsTyped
<1>7. fate[n] = "unplaced" /\ ~calls[n].sid BY <1>1, <1>2, <1>4 DEF DialerOwns
<1>8. \A e \in Dialers, i \in CallIds : On(e, i)' <=> (IF e = d THEN i = n ELSE On(e, i))
  BY <1>3, <1>6 DEF On
<1>9. \A e \in Dialers : e # d => ~On(e, n) BY <1>2, <1>4 DEF DialerOwns
<1>10. \A i \in CallIds : fate[i] = "failed" => fate'[i] = "failed" BY <1>5, <1>7
<1>11. ASSUME NEW e \in Dialers, NEW i \in CallIds, On(e, i)'
       PROVE  /\ On(e, i) /\ ~calls'[i].sid
              /\ dialing'[e].pc = "twilio" => fate'[i] = "unplaced"
  <2>1. CASE e = d BY <1>1, <1>3, <1>4, <1>6, <1>7, <1>8, <1>11, <2>1
  <2>2. CASE e # d
    <3>1. On(e, i) /\ i # n BY <1>8, <1>9, <1>11, <2>2
    <3>. QED BY <1>1, <1>5, <1>6, <2>2, <3>1 DEF DialerOwns
  <2>. QED BY <2>1, <2>2
<1>12. \A m \in callbacks : m.call \in CallIds BY DEF CallsTyped
<1>13. \A m \in callbacks' : m.status = "failed" => fate'[m.call] = "failed"
  BY <1>1, <1>10, <1>12 DEF CallbackTrue
<1>14. /\ calls' \in Seq(CallType) /\ Len(calls') = Len(calls)
       /\ callbacks' \subseteq [call : CallIds, status : {"open", "completed", "failed"}]
  BY <1>1 DEF CallsTyped
<1>15. \A i \in CallIds :
         /\ calls'[i].lead = calls[i].lead
         /\ ~calls[i].sid /\ (\A e \in Dialers : ~On(e, i)) => calls'[i] = calls[i]
         /\ calls'[i].status = "failed" => calls[i].status = "failed"
  BY <1>1
<1>. QED BY <1>5, <1>6, <1>10, <1>11, <1>13, <1>14, <1>15, RowsStep

LEMMA StoreStep ==
  ASSUME CallsInv, NEW d \in Dialers, StoreSid(d)
  PROVE  CallsInv' /\ DeadStays
<1>. DEFINE n == dialing[d].call
            row == [calls[n] EXCEPT !.sid = TRUE, !.status = "open"]
<1>1. /\ dialing[d].pc = "sid" /\ calls' = [calls EXCEPT ![n] = row]
      /\ dialing' = [dialing EXCEPT ![d] = Idle] /\ UNCHANGED << fate, callbacks >>
  BY DEF StoreSid
<1>. USE DEF CallsInv
<1>2. n \in CallIds /\ On(d, n) BY <1>1, DialStates DEF On
<1>3. row \in CallType /\ row.lead = calls[n].lead /\ row.sid /\ row.status = "open"
  BY <1>2, RowOfCall DEF CallType
<1>. HIDE DEF row, n
<1>4. /\ calls' \in Seq(CallType) /\ Len(calls') = Len(calls)
      /\ calls'[n] = row /\ \A j \in CallIds : j # n => calls'[j] = calls[j]
  BY <1>1, <1>2, <1>3, RowOfCall
<1>5. /\ dialing' \in [Dialers -> {Idle} \cup [pc : {"twilio", "sid"}, call : CallIds]]
      /\ \A e \in Dialers, i \in CallIds : On(e, i)' <=> e # d /\ On(e, i)
      /\ \A e \in Dialers : e # d => dialing'[e] = dialing[e]
  BY <1>1, LeavesCall
<1>6. \A e \in Dialers : e # d => ~On(e, n) BY <1>2 DEF DialerOwns
<1>7. ASSUME NEW e \in Dialers, NEW i \in CallIds, On(e, i)'
      PROVE  /\ On(e, i) /\ ~calls'[i].sid
             /\ dialing'[e].pc = "twilio" => fate'[i] = "unplaced"
  <2>1. e # d /\ On(e, i) /\ i # n BY <1>5, <1>6, <1>7
  <2>. QED BY <1>1, <1>4, <1>5, <2>1 DEF DialerOwns
<1>8. \A i \in CallIds :
        /\ calls'[i].lead = calls[i].lead
        /\ fate[i] = "failed" => fate'[i] = "failed"
        /\ ~calls[i].sid /\ (\A e \in Dialers : ~On(e, i)) => calls'[i] = calls[i]
        /\ calls'[i].status = "failed" => calls[i].status = "failed"
  BY <1>1, <1>2, <1>3, <1>4
<1>9. /\ fate' \in Seq({"unplaced", "ringing", "completed", "failed"}) /\ Len(fate') = Len(fate)
      /\ callbacks' \subseteq [call : CallIds, status : {"open", "completed", "failed"}]
      /\ \A m \in callbacks' : m.status = "failed" => fate'[m.call] = "failed"
  BY <1>1 DEF CallsTyped, CallbackTrue
<1>. QED BY <1>4, <1>5, <1>7, <1>8, <1>9, RowsStep

LEMMA DialFailsStep ==
  ASSUME CallsInv, NEW d \in Dialers, DialFails(d)
  PROVE  CallsInv' /\ DeadStays
<1>. DEFINE n == dialing[d].call
            row == [calls[n] EXCEPT !.status = "failed"]
<1>1. /\ dialing[d].pc \in {"twilio", "sid"} /\ calls' = [calls EXCEPT ![n] = row]
      /\ dialing' = [dialing EXCEPT ![d] = Idle] /\ UNCHANGED << fate, callbacks >>
  BY DEF DialFails
<1>. USE DEF CallsInv
<1>2. n \in CallIds /\ On(d, n) BY <1>1, DialStates DEF On
<1>3. row \in CallType /\ row.lead = calls[n].lead /\ row.sid = calls[n].sid
  BY <1>2, RowOfCall DEF CallType
<1>. HIDE DEF row, n
<1>4. /\ calls' \in Seq(CallType) /\ Len(calls') = Len(calls)
      /\ calls'[n] = row /\ \A j \in CallIds : j # n => calls'[j] = calls[j]
  BY <1>1, <1>2, <1>3, RowOfCall
<1>5. /\ dialing' \in [Dialers -> {Idle} \cup [pc : {"twilio", "sid"}, call : CallIds]]
      /\ \A e \in Dialers, i \in CallIds : On(e, i)' <=> e # d /\ On(e, i)
      /\ \A e \in Dialers : e # d => dialing'[e] = dialing[e]
  BY <1>1, LeavesCall
<1>6. ~calls[n].sid /\ \A e \in Dialers, i \in CallIds : i = n => ~On(e, i)'
  BY <1>2, <1>5 DEF DialerOwns
<1>7. \A i \in CallIds : calls'[i].lead = calls[i].lead /\ calls'[i].sid = calls[i].sid
  BY <1>3, <1>4
<1>8. ASSUME NEW e \in Dialers, NEW i \in CallIds, On(e, i)'
      PROVE  /\ On(e, i) /\ ~calls'[i].sid
             /\ dialing'[e].pc = "twilio" => fate'[i] = "unplaced"
  BY <1>1, <1>5, <1>7, <1>8 DEF DialerOwns
<1>9. \A i \in CallIds :
        /\ fate[i] = "failed" => fate'[i] = "failed"
        /\ ~calls[i].sid /\ (\A e \in Dialers : ~On(e, i)) => calls'[i] = calls[i]
        /\ calls'[i].status = "failed" =>
             \/ calls[i].status = "failed"
             \/ ~calls'[i].sid /\ \A e \in Dialers : ~On(e, i)'
  <2>1. ASSUME NEW i \in CallIds, i # n PROVE calls'[i] = calls[i] BY <1>4, <2>1
  <2>2. On(d, n) BY <1>2
  <2>. QED BY <1>1, <1>6, <1>7, <2>1, <2>2
<1>10. /\ fate' \in Seq({"unplaced", "ringing", "completed", "failed"}) /\ Len(fate') = Len(fate)
       /\ callbacks' \subseteq [call : CallIds, status : {"open", "completed", "failed"}]
       /\ \A m \in callbacks' : m.status = "failed" => fate'[m.call] = "failed"
  BY <1>1 DEF CallsTyped, CallbackTrue
<1>. QED BY <1>4, <1>5, <1>7, <1>8, <1>9, <1>10, RowsStep

LEMMA DialDiesStep ==
  ASSUME CallsInv, NEW d \in Dialers, DialDies(d)
  PROVE  CallsInv' /\ DeadStays
<1>1. dialing' = [dialing EXCEPT ![d] = Idle] /\ UNCHANGED << calls, fate, callbacks >>
  BY DEF DialDies
<1>. USE DEF CallsInv
<1>2. /\ dialing' \in [Dialers -> {Idle} \cup [pc : {"twilio", "sid"}, call : CallIds]]
      /\ \A e \in Dialers, i \in CallIds : On(e, i)' <=> e # d /\ On(e, i)
      /\ \A e \in Dialers : e # d => dialing'[e] = dialing[e]
  BY <1>1, LeavesCall
<1>3. ASSUME NEW e \in Dialers, NEW i \in CallIds, On(e, i)'
      PROVE  /\ On(e, i) /\ ~calls'[i].sid
             /\ dialing'[e].pc = "twilio" => fate'[i] = "unplaced"
  BY <1>1, <1>2, <1>3 DEF DialerOwns
<1>4. /\ calls' \in Seq(CallType) /\ Len(calls') = Len(calls)
      /\ fate' \in Seq({"unplaced", "ringing", "completed", "failed"}) /\ Len(fate') = Len(fate)
      /\ callbacks' \subseteq [call : CallIds, status : {"open", "completed", "failed"}]
      /\ \A m \in callbacks' : m.status = "failed" => fate'[m.call] = "failed"
  BY <1>1 DEF CallsTyped, CallbackTrue
<1>5. \A i \in CallIds : calls'[i] = calls[i] /\ fate'[i] = fate[i] BY <1>1
<1>. QED BY <1>2, <1>3, <1>4, <1>5, RowsStep

LEMMA TwilioStep ==
  ASSUME CallsInv, Twilio
  PROVE  CallsInv' /\ DeadStays
<1>. USE DEF CallsInv
<1>1. \A m \in callbacks : m.call \in CallIds BY DEF CallsTyped
<1>2. ASSUME NEW n \in CallIds, Rings(n) PROVE CallsInv' /\ DeadStays
  <2>1. /\ callbacks' = callbacks \cup {[call |-> n, status |-> "open"]}
        /\ UNCHANGED << calls, fate, dialing >>
    BY <1>2 DEF Rings
  <2>2. /\ calls' \in Seq(CallType) /\ Len(calls') = Len(calls)
        /\ fate' \in Seq({"unplaced", "ringing", "completed", "failed"}) /\ Len(fate') = Len(fate)
        /\ callbacks' \subseteq [call : CallIds, status : {"open", "completed", "failed"}]
        /\ \A m \in callbacks' : m.status = "failed" => fate'[m.call] = "failed"
        /\ dialing' \in [Dialers -> {Idle} \cup [pc : {"twilio", "sid"}, call : CallIds]]
    BY <2>1 DEF CallsTyped, CallbackTrue
  <2>3. \A d \in Dialers, i \in CallIds : On(d, i)' <=> On(d, i) BY <2>1 DEF On
  <2>4. \A i \in CallIds : calls'[i] = calls[i] /\ fate'[i] = fate[i] BY <2>1
  <2>5. \A d \in Dialers, i \in CallIds : On(d, i)' =>
          /\ On(d, i) /\ ~calls'[i].sid
          /\ dialing'[d].pc = "twilio" => fate'[i] = "unplaced"
    BY <2>1, <2>3 DEF DialerOwns
  <2>. QED BY <2>2, <2>3, <2>4, <2>5, RowsStep
<1>3. ASSUME NEW n \in CallIds, NEW status \in {"completed", "failed"}, Ends(n, status)
      PROVE  CallsInv' /\ DeadStays
  <2>1. /\ fate[n] = "ringing" /\ fate' = [fate EXCEPT ![n] = status]
        /\ callbacks' = callbacks \cup {[call |-> n, status |-> status]}
        /\ UNCHANGED << calls, dialing >>
    BY <1>3 DEF Ends
  <2>2. /\ fate' \in Seq({"unplaced", "ringing", "completed", "failed"}) /\ Len(fate') = Len(fate)
        /\ fate'[n] = status /\ \A j \in CallIds : j # n => fate'[j] = fate[j]
    BY <2>1, RowOfCall
  <2>3. \A i \in CallIds : fate[i] = "failed" => fate'[i] = "failed" BY <2>1, <2>2
  <2>4. /\ calls' \in Seq(CallType) /\ Len(calls') = Len(calls)
        /\ callbacks' \subseteq [call : CallIds, status : {"open", "completed", "failed"}]
        /\ dialing' \in [Dialers -> {Idle} \cup [pc : {"twilio", "sid"}, call : CallIds]]
    BY <2>1 DEF CallsTyped
  <2>5. \A m \in callbacks' : m.status = "failed" => fate'[m.call] = "failed"
    BY <1>1, <2>1, <2>2, <2>3 DEF CallbackTrue
  <2>6. \A d \in Dialers, i \in CallIds : On(d, i)' <=> On(d, i) BY <2>1 DEF On
  <2>7. \A i \in CallIds : calls'[i] = calls[i] BY <2>1
  <2>8. \A d \in Dialers, i \in CallIds : On(d, i)' =>
          /\ On(d, i) /\ ~calls'[i].sid
          /\ dialing'[d].pc = "twilio" => fate'[i] = "unplaced"
    BY <2>1, <2>2, <2>6 DEF DialerOwns
  <2>. QED BY <2>2, <2>3, <2>4, <2>5, <2>6, <2>7, <2>8, RowsStep
<1>4. ASSUME NEW m \in callbacks, Callback(m) PROVE CallsInv' /\ DeadStays
  <2>1. /\ calls' = [i \in CallIds |-> IF i \in ReportedOn(m)
                                       THEN [calls[i] EXCEPT !.status = m.status]
                                       ELSE calls[i]]
        /\ callbacks' \subseteq callbacks /\ UNCHANGED << fate, dialing >>
    BY <1>4 DEF Callback
  <2>2. m.call \in CallIds /\ m.status \in {"open", "completed", "failed"}
    BY DEF CallsTyped
  <2>3. ASSUME NEW i \in CallIds
        PROVE  /\ calls'[i] \in CallType
               /\ calls'[i].lead = calls[i].lead /\ calls'[i].sid = calls[i].sid
               /\ ~calls[i].sid => calls'[i] = calls[i]
               /\ calls'[i].status = calls[i].status \/ (i = m.call /\ calls'[i].status = m.status)
    <3>1. calls[i] \in CallType BY RowOfCall
    <3>2. calls'[i] = IF i \in ReportedOn(m) THEN [calls[i] EXCEPT !.status = m.status]
                      ELSE calls[i]
      BY <2>1
    <3>3. i \in ReportedOn(m) => i = m.call /\ calls[i].sid BY DEF ReportedOn
    <3>. QED BY <2>2, <3>1, <3>2, <3>3 DEF CallType
  <2>4. calls' \in Seq(CallType) /\ Len(calls') = Len(calls)
    <3>1. Len(calls) \in Nat BY DEF CallsTyped
    <3>2. calls' \in [1..Len(calls) -> CallType] BY <2>1, <2>3 DEF CallIds
    <3>. QED BY <3>1, <3>2
  <2>5. /\ fate' \in Seq({"unplaced", "ringing", "completed", "failed"}) /\ Len(fate') = Len(fate)
        /\ callbacks' \subseteq [call : CallIds, status : {"open", "completed", "failed"}]
        /\ dialing' \in [Dialers -> {Idle} \cup [pc : {"twilio", "sid"}, call : CallIds]]
        /\ \A q \in callbacks' : q.status = "failed" => fate'[q.call] = "failed"
    BY <2>1 DEF CallsTyped, CallbackTrue
  <2>6. \A d \in Dialers, i \in CallIds : On(d, i)' <=> On(d, i) BY <2>1 DEF On
  <2>7. \A i \in CallIds :
          /\ fate[i] = "failed" => fate'[i] = "failed"
          /\ calls'[i].status = "failed" => calls[i].status = "failed" \/ fate'[i] = "failed"
    BY <2>1, <2>2, <2>3 DEF CallbackTrue
  <2>8. \A d \in Dialers, i \in CallIds : On(d, i)' =>
          /\ On(d, i) /\ ~calls'[i].sid
          /\ dialing'[d].pc = "twilio" => fate'[i] = "unplaced"
    BY <2>1, <2>3, <2>6 DEF DialerOwns
  <2>. QED BY <2>3, <2>4, <2>5, <2>6, <2>7, <2>8, RowsStep
<1>. QED BY <1>2, <1>3, <1>4 DEF Twilio

LEMMA CallsStep ==
  ASSUME CallsInv, [Next]_vars
  PROVE  /\ CallsInv' /\ DeadStays
         /\ Dial \/ Twilio => UNCHANGED << old, credits, checking, redeeming >>
         /\ Replace \/ Spend => UNCHANGED calls
<1>1. Dial => CallsInv' /\ DeadStays
  BY LogStep, PlaceStep, StoreStep, DialFailsStep, DialDiesStep DEF Dial
<1>2. ASSUME UNCHANGED << calls, fate, callbacks, dialing >> PROVE CallsInv' /\ DeadStays
  <2>1. CallIds' = CallIds BY <1>2 DEF CallIds
  <2>2. \A d, i : On(d, i)' <=> On(d, i) BY <1>2 DEF On
  <2>3. \A l : Dead(l)' = Dead(l) BY <1>2, <2>1, <2>2 DEF Dead
  <2>4. CallsTyped' /\ DialerOwns' /\ CallbackTrue'
    BY <1>2, <2>1, <2>2 DEF CallsInv, CallsTyped, DialerOwns, CallbackTrue
  <2>5. FailedIsDead'
    BY <1>2, <2>1, <2>2 DEF CallsInv, FailedIsDead, Dead
  <2>. QED BY <2>1, <2>3, <2>4, <2>5 DEF DeadStays, CallsInv
<1>3. Replace \/ Spend => UNCHANGED << calls, fate, callbacks, dialing >>
  BY DEF Replace, Spend, OrderAges, Check, ReadLogs, Issue, CheckDies, Expire, ReadCredit, Redeem
<1>4. Dial \/ Twilio => UNCHANGED << old, credits, checking, redeeming >>
  BY DEF Dial, Twilio, LogCall, Place, StoreSid, DialFails, DialDies, Rings, Ends, Callback
<1>5. CallsInv' /\ DeadStays
  <2>1. CASE Dial BY <1>1, <2>1
  <2>2. CASE Twilio BY TwilioStep, <2>2
  <2>3. CASE Replace \/ Spend BY <1>2, <1>3, <2>3
  <2>4. CASE UNCHANGED vars BY <1>2, <2>4 DEF vars
  <2>. QED BY <2>1, <2>2, <2>3, <2>4 DEF Next
<1>. QED BY <1>3, <1>4, <1>5

-------------------------------------------------------------------------------
(* Credits.                                                                  *)

\* The dead calls of a lead can be counted.
LEMMA DeadFinite ==
  ASSUME CallsInv, NEW l
  PROVE  IsFiniteSet(Dead(l)) /\ Cardinality(Dead(l)) \in Nat
<1>1. Len(calls) \in Nat BY DEF CallsInv, CallsTyped
<1>2. IsFiniteSet(CallIds) BY <1>1, FS_Interval DEF CallIds
<1>3. Dead(l) \subseteq CallIds BY DEF Dead
<1>. QED BY <1>2, <1>3, FS_Subset, FS_CardinalityType

\* What DeadFinite says, of the state a step leads to.
LEMMA DeadFiniteNext ==
  ASSUME CallsInv', NEW l
  PROVE  IsFiniteSet(Dead(l)')
<1>1. Len(calls') \in Nat BY DEF CallsInv, CallsTyped
<1>2. IsFiniteSet(CallIds') BY <1>1, FS_Interval DEF CallIds
<1>3. Dead(l)' \subseteq CallIds' BY DEF Dead
<1>. QED BY <1>2, <1>3, FS_Subset

\* A verdict once reached stays true.
LEMMA BackedStays ==
  ASSUME CallsInv, [Next]_vars
  PROVE  \A o \in Orders : Backed(o) => Backed(o)'
<1>1. CallsInv' /\ DeadStays BY CallsStep
<1>2. ASSUME NEW o \in Orders, Backed(o) PROVE Backed(o)'
  <2>. DEFINE l == LeadOf[o]
              m == Cardinality(Dead(l))
              n == Cardinality(Dead(l)')
  <2>1. Dead(l) \subseteq Dead(l)' /\ IsFiniteSet(Dead(l)')
    BY <1>1, DeadFiniteNext DEF DeadStays
  <2>2. m \in Nat /\ n \in Nat /\ m <= n
    BY <2>1, FS_Subset, FS_CardinalityType, FS_Subset
  <2>3. m >= FailThreshold BY <1>2 DEF Backed
  <2>4. n >= FailThreshold
    <3>. HIDE DEF m, n
    <3>. QED BY <2>2, <2>3, ReplacementAssumption
  <2>. QED BY <2>4 DEF Backed
<1>. QED BY <1>2

\* The verdict of detectBadContact rests on calls that are dead.
LEMMA VerdictIsBacked ==
  ASSUME CallsInv, NEW o \in Orders, BadContact(LeadOf[o])
  PROVE  Backed(o)
<1>. DEFINE l == LeadOf[o]
            m == Cardinality(CallsWith(l, "failed"))
            n == Cardinality(Dead(l))
<1>1. CallsWith(l, "failed") \subseteq Dead(l) BY DEF CallsWith, CallsInv, FailedIsDead
<1>2. m \in Nat /\ n \in Nat /\ m <= n BY <1>1, DeadFinite, FS_Subset, FS_CardinalityType
<1>3. m >= FailThreshold BY DEF BadContact
<1>4. n >= FailThreshold
  <2>. HIDE DEF m, n
  <2>. QED BY <1>2, <1>3, ReplacementAssumption
<1>. QED BY <1>4 DEF Backed

\* Half a price is a number of cents.
LEMMA CentsType ==
  ASSUME NEW o \in Orders
  PROVE  /\ CreditCents(o) \in Nat
         /\ WorthACredit(o) => CreditCents(o) \in Nat \ {0}
<1>1. Price[o] \in Nat BY ReplacementAssumption
<1>2. CreditCents(o) \in Nat BY <1>1 DEF CreditCents
<1>. QED BY <1>2 DEF WorthACredit

\* A step that leaves the credits alone keeps what holds of them.
LEMMA CreditsStay ==
  ASSUME ReplacementInv, [Next]_vars, UNCHANGED credits
  PROVE  CreditIds' = CreditIds /\ CreditBacked' /\ OneCreditOneUse'
<1>1. CreditIds' = CreditIds BY DEF CreditIds
<1>2. \A o \in Orders : Backed(o) => Backed(o)' BY BackedStays DEF ReplacementInv
<1>3. ASSUME NEW k \in CreditIds', NEW o \in Orders, credits'[k].order = o
      PROVE  Backed(o)'
  <2>1. Backed(o) BY <1>1, <1>3 DEF ReplacementInv, CreditsInv, CreditBacked
  <2>. QED BY <1>2, <2>1
<1>4. CreditBacked' BY <1>3 DEF CreditBacked
<1>5. OneCreditOneUse' BY <1>1 DEF ReplacementInv, CreditsInv, OneCreditOneUse
<1>. QED BY <1>1, <1>4, <1>5

\* A step after which no other check has come to a verdict keeps what verdicts rest on.
LEMMA ChecksStay ==
  ASSUME ReplacementInv, [Next]_vars,
         \A c \in Checks :
           checking'[c].pc = "issue" => checking[c].pc = "issue" /\ checking'[c] = checking[c]
  PROVE  CheckBacked'
<1>1. \A o \in Orders : Backed(o) => Backed(o)' BY BackedStays DEF ReplacementInv
<1>2. \A c \in Checks : checking[c].pc = "issue" => checking[c].order \in Orders
  BY DEF ReplacementInv, CreditsInv, CreditsTyped, Idle
<1>3. ASSUME NEW c \in Checks, NEW o \in Orders, checking'[c].pc = "issue",
             checking'[c].order = o
      PROVE  Backed(o)' /\ WorthACredit(o)
  BY <1>1, <1>2, <1>3 DEF ReplacementInv, CreditsInv, CheckBacked
<1>. QED BY <1>3 DEF CheckBacked, WorthACredit, CreditCents

LEMMA OrderAgesStep ==
  ASSUME ReplacementInv, NEW o \in Orders, OrderAges(o)
  PROVE  CreditsInv'
<1>1. /\ old' = old \cup {o} /\ UNCHANGED << credits, checking, redeeming >>
      /\ [Next]_vars
  BY DEF OrderAges, Next, Replace
<1>2. CreditIds' = CreditIds /\ CreditBacked' /\ OneCreditOneUse' BY <1>1, CreditsStay
<1>3. CheckBacked' BY <1>1, ChecksStay
<1>4. CreditsTyped' BY <1>1, <1>2 DEF ReplacementInv, CreditsInv, CreditsTyped
<1>. QED BY <1>2, <1>3, <1>4 DEF CreditsInv

LEMMA CallingStep ==
  ASSUME ReplacementInv, Dial \/ Twilio \/ UNCHANGED vars
  PROVE  CreditsInv'
<1>1. [Next]_vars BY DEF Next
<1>2. UNCHANGED << old, credits, checking, redeeming >>
  BY <1>1, CallsStep DEF ReplacementInv, vars
<1>3. CreditIds' = CreditIds /\ CreditBacked' /\ OneCreditOneUse' BY <1>1, <1>2, CreditsStay
<1>4. CheckBacked' BY <1>1, <1>2, ChecksStay
<1>5. CreditsTyped' BY <1>2, <1>3 DEF ReplacementInv, CreditsInv, CreditsTyped
<1>. QED BY <1>3, <1>4, <1>5 DEF CreditsInv

LEMMA CheckStep ==
  ASSUME ReplacementInv, NEW c \in Checks, NEW o \in Orders, Check(c, o)
  PROVE  CreditsInv'
<1>. DEFINE st == [pc |-> "logs", order |-> o]
<1>1. /\ checking' = [checking EXCEPT ![c] = st] /\ UNCHANGED << old, credits, redeeming >>
      /\ [Next]_vars
  BY DEF Check, Next, Replace
<1>2. st.pc = "logs" /\ st \in [pc : {"logs", "issue"}, order : Orders] OBVIOUS
<1>. HIDE DEF st
<1>3. /\ checking' \in [Checks -> {Idle} \cup [pc : {"logs", "issue"}, order : Orders]]
      /\ checking'[c] = st /\ \A e \in Checks : e # c => checking'[e] = checking[e]
  BY <1>1, <1>2 DEF ReplacementInv, CreditsInv, CreditsTyped
<1>4. CreditIds' = CreditIds /\ CreditBacked' /\ OneCreditOneUse' BY <1>1, CreditsStay
<1>5. CheckBacked' BY <1>1, <1>2, <1>3, ChecksStay
<1>6. CreditsTyped' BY <1>1, <1>3, <1>4 DEF ReplacementInv, CreditsInv, CreditsTyped
<1>. QED BY <1>4, <1>5, <1>6 DEF CreditsInv

\* A check that leaves.
LEMMA CheckLeaves ==
  ASSUME ReplacementInv, [Next]_vars, NEW c \in Checks,
         checking' = [checking EXCEPT ![c] = Idle]
  PROVE  /\ checking' \in [Checks -> {Idle} \cup [pc : {"logs", "issue"}, order : Orders]]
         /\ CheckBacked'
<1>1. /\ checking' \in [Checks -> {Idle} \cup [pc : {"logs", "issue"}, order : Orders]]
      /\ checking'[c] = Idle /\ \A e \in Checks : e # c => checking'[e] = checking[e]
  BY DEF ReplacementInv, CreditsInv, CreditsTyped
<1>2. Idle.pc # "issue" BY DEF Idle
<1>3. CheckBacked' BY <1>1, <1>2, ChecksStay
<1>. QED BY <1>1, <1>3

LEMMA CheckDiesStep ==
  ASSUME ReplacementInv, NEW c \in Checks, CheckDies(c)
  PROVE  CreditsInv'
<1>1. /\ checking' = [checking EXCEPT ![c] = Idle] /\ UNCHANGED << old, credits, redeeming >>
      /\ [Next]_vars
  BY DEF CheckDies, Next, Replace
<1>2. CreditIds' = CreditIds /\ CreditBacked' /\ OneCreditOneUse' BY <1>1, CreditsStay
<1>3. CreditsTyped'
  BY <1>1, <1>2, CheckLeaves DEF ReplacementInv, CreditsInv, CreditsTyped
<1>. QED BY <1>1, <1>2, <1>3, CheckLeaves DEF CreditsInv

LEMMA ReadLogsStep ==
  ASSUME ReplacementInv, NEW c \in Checks, ReadLogs(c)
  PROVE  CreditsInv'
<1>. DEFINE o == checking[c].order
            st == [checking[c] EXCEPT !.pc = "issue"]
<1>1. /\ checking[c].pc = "logs" /\ UNCHANGED << calls, fate, dialing, old, credits, redeeming >>
      /\ checking' = IF BadContact(LeadOf[o]) /\ WorthACredit(o)
                     THEN [checking EXCEPT ![c] = st]
                     ELSE [checking EXCEPT ![c] = Idle]
      /\ [Next]_vars
  BY DEF ReadLogs, Next, Replace
<1>2. CreditIds' = CreditIds /\ CreditBacked' /\ OneCreditOneUse' BY <1>1, CreditsStay
<1>3. CASE ~(BadContact(LeadOf[o]) /\ WorthACredit(o))
  <2>1. checking' = [checking EXCEPT ![c] = Idle] BY <1>1, <1>3
  <2>2. CreditsTyped'
    BY <1>1, <1>2, <2>1, CheckLeaves DEF ReplacementInv, CreditsInv, CreditsTyped
  <2>. QED BY <1>1, <1>2, <2>1, <2>2, CheckLeaves DEF CreditsInv
<1>4. CASE BadContact(LeadOf[o]) /\ WorthACredit(o)
  <2>1. checking[c] \in [pc : {"logs", "issue"}, order : Orders]
    BY <1>1 DEF ReplacementInv, CreditsInv, CreditsTyped, Idle
  <2>2. o \in Orders /\ st.order = o /\ st \in [pc : {"logs", "issue"}, order : Orders]
    BY <2>1
  <2>3. checking' = [checking EXCEPT ![c] = st] BY <1>1, <1>4
  <2>. HIDE DEF st
  <2>4. /\ checking' \in [Checks -> {Idle} \cup [pc : {"logs", "issue"}, order : Orders]]
        /\ checking'[c] = st /\ \A e \in Checks : e # c => checking'[e] = checking[e]
    BY <2>2, <2>3 DEF ReplacementInv, CreditsInv, CreditsTyped
  <2>5. CreditsTyped' BY <1>1, <1>2, <2>4 DEF ReplacementInv, CreditsInv, CreditsTyped
  <2>6. \A q \in Orders : Backed(q) => Backed(q)' BY <1>1, BackedStays DEF ReplacementInv
  <2>7. ASSUME NEW e \in Checks, NEW q \in Orders, checking'[e].pc = "issue",
               checking'[e].order = q
        PROVE  Backed(q)' /\ WorthACredit(q)
    <3>1. CASE e = c
      <4>1. q = o BY <2>2, <2>4, <2>7, <3>1
      <4>2. BadContact(LeadOf[q]) /\ WorthACredit(q) BY <1>4, <4>1
      <4>. QED BY <2>6, <4>2, VerdictIsBacked DEF ReplacementInv
    <3>2. CASE e # c
      <4>1. checking[e].pc = "issue" /\ checking[e].order = q BY <2>4, <2>7, <3>2
      <4>. QED BY <2>6, <4>1 DEF ReplacementInv, CreditsInv, CheckBacked
    <3>. QED BY <3>1, <3>2
  <2>8. CheckBacked' BY <2>7 DEF CheckBacked, WorthACredit, CreditCents
  <2>. QED BY <1>2, <2>5, <2>8 DEF CreditsInv
<1>. QED BY <1>3, <1>4

LEMMA IssueStep ==
  ASSUME ReplacementInv, NEW c \in Checks, Issue(c)
  PROVE  CreditsInv'
<1>. DEFINE o == checking[c].order
            n == Len(credits) + 1
            row == [order |-> o, cents |-> CreditCents(o), status |-> "issued",
                    expired |-> FALSE, uses |-> 0]
<1>1. /\ checking[c].pc = "issue" /\ UNCHANGED << old, redeeming >>
      /\ credits' = IF MayInsertCredit(o) THEN Append(credits, row) ELSE credits
      /\ checking' = [checking EXCEPT ![c] = Idle]
      /\ [Next]_vars
  BY DEF Issue, Next, Replace
<1>2. CASE ~MayInsertCredit(o)
  <2>1. UNCHANGED credits BY <1>1, <1>2
  <2>2. CreditIds' = CreditIds /\ CreditBacked' /\ OneCreditOneUse' BY <1>1, <2>1, CreditsStay
  <2>3. CreditsTyped'
    BY <1>1, <2>1, <2>2, CheckLeaves DEF ReplacementInv, CreditsInv, CreditsTyped
  <2>. QED BY <1>1, <2>2, <2>3, CheckLeaves DEF CreditsInv
<1>3. CASE MayInsertCredit(o)
  <2>1. o \in Orders
    BY <1>1 DEF ReplacementInv, CreditsInv, CreditsTyped, Idle
  <2>2. Backed(o) /\ WorthACredit(o)
    BY <1>1, <2>1 DEF ReplacementInv, CreditsInv, CheckBacked
  <2>3. row \in CreditType BY <2>1, <2>2, CentsType DEF CreditType
  <2>4. row.order = o /\ row.status = "issued" /\ row.uses = 0 OBVIOUS
  <2>5. credits' = Append(credits, row) BY <1>1, <1>3
  <2>6. credits \in Seq(CreditType) /\ Len(credits) \in Nat
    BY DEF ReplacementInv, CreditsInv, CreditsTyped
  <2>. HIDE DEF row, o
  <2>7. /\ credits' \in Seq(CreditType) /\ Len(credits') = n /\ credits'[n] = row
        /\ \A k \in 1..Len(credits) : credits'[k] = credits[k]
    BY <2>3, <2>5, <2>6
  <2>8. CreditIds' = CreditIds \cup {n} /\ \A k \in CreditIds : credits'[k] = credits[k]
    BY <2>6, <2>7 DEF CreditIds
  <2>9. \A k \in CreditIds : credits[k].order # o BY <1>3 DEF MayInsertCredit, Credited
  <2>10. CreditsTyped'
    <3>1. redeeming' \in [Redeemers -> {Idle} \cup [pc : {"redeem"}, credit : CreditIds']]
      BY <1>1, <2>8 DEF ReplacementInv, CreditsInv, CreditsTyped
    <3>. QED
      BY <1>1, <2>7, <3>1, CheckLeaves DEF ReplacementInv, CreditsInv, CreditsTyped
  <2>11. OneCreditOneUse'
    <3>. HIDE DEF n
    <3>1. ASSUME NEW j \in CreditIds', NEW k \in CreditIds', credits'[j].order = credits'[k].order
          PROVE  j = k
      BY <2>4, <2>7, <2>8, <2>9, <3>1 DEF ReplacementInv, CreditsInv, OneCreditOneUse
    <3>2. ASSUME NEW k \in CreditIds'
          PROVE  credits'[k].uses = IF credits'[k].status = "redeemed" THEN 1 ELSE 0
      <4>1. CASE k = n BY <2>4, <2>7, <4>1
      <4>2. CASE k \in CreditIds
        BY <2>8, <4>2 DEF ReplacementInv, CreditsInv, OneCreditOneUse
      <4>. QED BY <2>8, <4>1, <4>2
    <3>. QED BY <3>1, <3>2 DEF OneCreditOneUse
  <2>12. CreditBacked'
    <3>1. \A q \in Orders : Backed(q) => Backed(q)' BY <1>1, BackedStays DEF ReplacementInv
    <3>. HIDE DEF n
    <3>2. ASSUME NEW k \in CreditIds', NEW q \in Orders, credits'[k].order = q
          PROVE  Backed(q)'
      <4>1. CASE k = n
        <5>1. q = o BY <2>4, <2>7, <3>2, <4>1
        <5>2. Backed(q) BY <2>2, <5>1
        <5>. QED BY <3>1, <5>2
      <4>2. CASE k \in CreditIds
        BY <2>8, <3>1, <3>2, <4>2 DEF ReplacementInv, CreditsInv, CreditBacked
      <4>. QED BY <2>8, <4>1, <4>2
    <3>. QED BY <3>2 DEF CreditBacked
  <2>. QED BY <1>1, <2>10, <2>11, <2>12, CheckLeaves DEF CreditsInv
<1>. QED BY <1>2, <1>3

\* A change of a credit that keeps its order and its uses in step with its status.
LEMMA CreditChanges ==
  ASSUME ReplacementInv, [Next]_vars, NEW k \in CreditIds, NEW row \in CreditType,
         credits' = [credits EXCEPT ![k] = row],
         row.order = credits[k].order,
         row.uses = IF row.status = "redeemed" THEN 1 ELSE 0
  PROVE  /\ credits' \in Seq(CreditType) /\ CreditIds' = CreditIds
         /\ CreditBacked' /\ OneCreditOneUse'
<1>1. /\ credits' \in Seq(CreditType) /\ Len(credits') = Len(credits)
      /\ credits'[k] = row /\ \A j \in CreditIds : j # k => credits'[j] = credits[j]
  BY DEF ReplacementInv, CreditsInv, CreditsTyped, CreditIds
<1>2. CreditIds' = CreditIds BY <1>1 DEF CreditIds
<1>3. \A j \in CreditIds : credits'[j].order = credits[j].order BY <1>1
<1>4. OneCreditOneUse'
  BY <1>1, <1>2, <1>3 DEF ReplacementInv, CreditsInv, OneCreditOneUse
<1>5. \A o \in Orders : Backed(o) => Backed(o)' BY BackedStays DEF ReplacementInv
<1>6. ASSUME NEW j \in CreditIds', NEW o \in Orders, credits'[j].order = o
      PROVE  Backed(o)'
  <2>1. Backed(o) BY <1>2, <1>3, <1>6 DEF ReplacementInv, CreditsInv, CreditBacked
  <2>. QED BY <1>5, <2>1
<1>7. CreditBacked' BY <1>6 DEF CreditBacked
<1>. QED BY <1>1, <1>2, <1>4, <1>7

LEMMA ExpireStep ==
  ASSUME ReplacementInv, NEW k \in CreditIds, Expire(k)
  PROVE  CreditsInv'
<1>. DEFINE row == [credits[k] EXCEPT !.expired = TRUE]
<1>1. /\ credits' = [credits EXCEPT ![k] = row] /\ UNCHANGED << old, checking, redeeming >>
      /\ [Next]_vars
  BY DEF Expire, Next, Spend
<1>2. credits[k] \in CreditType
  BY DEF ReplacementInv, CreditsInv, CreditsTyped, CreditIds
<1>3. row \in CreditType BY <1>2 DEF CreditType
<1>4. row.order = credits[k].order /\ row.uses = credits[k].uses /\ row.status = credits[k].status
  BY <1>2 DEF CreditType
<1>. HIDE DEF row
<1>5. credits[k].uses = IF credits[k].status = "redeemed" THEN 1 ELSE 0
  BY DEF ReplacementInv, CreditsInv, OneCreditOneUse
<1>6. /\ credits' \in Seq(CreditType) /\ CreditIds' = CreditIds
      /\ CreditBacked' /\ OneCreditOneUse'
  BY <1>1, <1>3, <1>4, <1>5, CreditChanges
<1>7. CheckBacked' BY <1>1, ChecksStay
<1>8. CreditsTyped' BY <1>1, <1>6 DEF ReplacementInv, CreditsInv, CreditsTyped
<1>. QED BY <1>6, <1>7, <1>8 DEF CreditsInv

LEMMA ReadCreditStep ==
  ASSUME ReplacementInv, NEW r \in Redeemers, NEW k \in CreditIds, ReadCredit(r, k)
  PROVE  CreditsInv'
<1>1. /\ redeeming' = [redeeming EXCEPT ![r] = [pc |-> "redeem", credit |-> k]]
      /\ UNCHANGED << old, credits, checking >> /\ [Next]_vars
  BY DEF ReadCredit, Next, Spend
<1>2. CreditIds' = CreditIds /\ CreditBacked' /\ OneCreditOneUse' BY <1>1, CreditsStay
<1>3. CheckBacked' BY <1>1, ChecksStay
<1>4. redeeming' \in [Redeemers -> {Idle} \cup [pc : {"redeem"}, credit : CreditIds]]
  BY <1>1 DEF ReplacementInv, CreditsInv, CreditsTyped
<1>5. CreditsTyped' BY <1>1, <1>2, <1>4 DEF ReplacementInv, CreditsInv, CreditsTyped
<1>. QED BY <1>2, <1>3, <1>5 DEF CreditsInv

\* The row that redeemTradeInCredit writes.
LEMMA RedeemedRow ==
  ASSUME NEW c \in CreditType, c.uses = 0
  PROVE  LET row == [c EXCEPT !.status = "redeemed", !.uses = c.uses + 1]
         IN  /\ row.status = "redeemed" /\ row.uses = 1 /\ row.order = c.order
             /\ row \in CreditType
<1>. DEFINE row == [c EXCEPT !.status = "redeemed", !.uses = c.uses + 1]
<1>1. row.status = "redeemed" /\ row.uses = 1 /\ row.order = c.order BY DEF CreditType
<1>2. \A s \in {"issued", "redeemed"} : [c EXCEPT !.status = s] \in CreditType
  BY DEF CreditType
<1>3. \A b \in CreditType : [b EXCEPT !.uses = 1] \in CreditType BY DEF CreditType
<1>4. row = [[c EXCEPT !.status = "redeemed"] EXCEPT !.uses = 1] BY SMT DEF CreditType
<1>5. row \in CreditType BY <1>2, <1>3, <1>4, Zenon
<1>. QED BY <1>1, <1>5

LEMMA RedeemStep ==
  ASSUME ReplacementInv, NEW r \in Redeemers, Redeem(r)
  PROVE  CreditsInv'
<1>. DEFINE k == redeeming[r].credit
            row == [credits[k] EXCEPT !.status = "redeemed", !.uses = credits[k].uses + 1]
<1>1. /\ redeeming[r].pc = "redeem" /\ UNCHANGED << old, checking >>
      /\ redeeming' = [redeeming EXCEPT ![r] = Idle] /\ [Next]_vars
      /\ ~StillIssued(k) => UNCHANGED credits
  BY DEF Redeem, Next, Spend
<1>2. redeeming' \in [Redeemers -> {Idle} \cup [pc : {"redeem"}, credit : CreditIds]]
  BY <1>1 DEF ReplacementInv, CreditsInv, CreditsTyped
<1>3. CheckBacked' BY <1>1, ChecksStay
<1>4. credits' \in Seq(CreditType) /\ CreditIds' = CreditIds /\ CreditBacked' /\ OneCreditOneUse'
  <2>1. CASE ~StillIssued(k)
    <3>. QED BY <1>1, <2>1, CreditsStay DEF ReplacementInv, CreditsInv, CreditsTyped
  <2>2. CASE StillIssued(k)
    <3>1. k \in CreditIds BY <1>1 DEF ReplacementInv, CreditsInv, CreditsTyped, Idle
    <3>2. credits[k] \in CreditType
      BY <3>1 DEF ReplacementInv, CreditsInv, CreditsTyped, CreditIds
    <3>3. credits[k].uses = 0
      BY <2>2, <3>1 DEF ReplacementInv, CreditsInv, OneCreditOneUse, StillIssued
    <3>4. row.status = "redeemed" /\ row.uses = 1 /\ row.order = credits[k].order
          /\ row \in CreditType
      BY <3>2, <3>3, RedeemedRow
    <3>6. credits' = [credits EXCEPT ![k] = row] BY <2>2, <3>1 DEF Redeem
    <3>. HIDE DEF row, k
    <3>. QED BY <1>1, <3>1, <3>4, <3>6, CreditChanges
  <2>. QED BY <2>1, <2>2
<1>5. CreditsTyped' BY <1>1, <1>2, <1>4 DEF ReplacementInv, CreditsInv, CreditsTyped
<1>. QED BY <1>3, <1>4, <1>5 DEF CreditsInv

-------------------------------------------------------------------------------
(* The theorems.                                                             *)

LEMMA ReplacementInvInit == Init => ReplacementInv
<1>. SUFFICES ASSUME Init PROVE ReplacementInv OBVIOUS
<1>1. CallIds = {} /\ CreditIds = {} BY DEF Init, CallIds, CreditIds
<1>2. Idle.pc = "idle" BY DEF Idle
<1>3. CallsTyped /\ CreditsTyped BY <1>1 DEF Init, CallsTyped, CreditsTyped
<1>4. DialerOwns /\ CallbackTrue /\ FailedIsDead
  BY <1>1 DEF Init, DialerOwns, CallbackTrue, FailedIsDead
<1>5. CheckBacked BY <1>2 DEF Init, CheckBacked
<1>6. CreditBacked /\ OneCreditOneUse BY <1>1 DEF CreditBacked, OneCreditOneUse
<1>. QED BY <1>3, <1>4, <1>5, <1>6 DEF ReplacementInv, CallsInv, CreditsInv

LEMMA ReplacementInvStep == ReplacementInv /\ [Next]_vars => ReplacementInv'
<1>. SUFFICES ASSUME ReplacementInv, [Next]_vars PROVE ReplacementInv' OBVIOUS
<1>1. CallsInv' BY CallsStep DEF ReplacementInv
<1>2. CASE Dial \/ Twilio \/ UNCHANGED vars BY <1>1, <1>2, CallingStep DEF ReplacementInv
<1>3. CASE Replace
  <2>1. CreditsInv'
    BY <1>3, OrderAgesStep, CheckStep, ReadLogsStep, IssueStep, CheckDiesStep DEF Replace
  <2>. QED BY <1>1, <2>1 DEF ReplacementInv
<1>4. CASE Spend
  <2>1. CreditsInv' BY <1>4, ExpireStep, ReadCreditStep, RedeemStep DEF Spend
  <2>. QED BY <1>1, <2>1 DEF ReplacementInv
<1>. QED BY <1>2, <1>3, <1>4 DEF Next

LEMMA ReplacementInvariant == Spec => []ReplacementInv
BY ReplacementInvInit, ReplacementInvStep, PTL DEF Spec

\* Whatever callbacks are lost, repeated or late and wherever a request dies, every
\* variable keeps its type and no credit is worth nothing.
THEOREM ReplacementTypeCorrect == Spec => []TypeOK
<1>1. ReplacementInv => TypeOK
  BY DEF ReplacementInv, CallsInv, CreditsInv, CallsTyped, CreditsTyped, TypeOK
<1>. QED BY <1>1, ReplacementInvariant, PTL

\* However many checks of an order cross, it earns one credit (the UNIQUE constraint
\* behind autoIssueReplacement), and redeemTradeInCredit spends a credit once.
THEOREM ReplacementCreditsOnce == Spec => []OneCreditOneUse
<1>1. ReplacementInv => OneCreditOneUse BY DEF ReplacementInv, CreditsInv
<1>. QED BY <1>1, ReplacementInvariant, PTL

\* What is dead was not answered or was given up, so the calls a verdict rested on
\* still count.
LEMMA BackedByFailures ==
  ASSUME ReplacementInv, NEW k \in CreditIds
  PROVE  LET l == LeadOf[credits[k].order]
         IN  Cardinality(Unanswered(l) \cup GivenUp(l)) >= FailThreshold
<1>. DEFINE o == credits[k].order
            failures == Unanswered(LeadOf[o]) \cup GivenUp(LeadOf[o])
            m == Cardinality(Dead(LeadOf[o]))
            n == Cardinality(failures)
<1>1. o \in Orders
  <2>1. credits[k] \in CreditType BY DEF ReplacementInv, CreditsInv, CreditsTyped, CreditIds
  <2>. QED BY <2>1 DEF CreditType
<1>2. m >= FailThreshold
  BY <1>1 DEF ReplacementInv, CreditsInv, CreditBacked, Backed
<1>3. Len(calls) \in Nat BY DEF ReplacementInv, CallsInv, CallsTyped
<1>4. IsFiniteSet(CallIds) BY <1>3, FS_Interval DEF CallIds
<1>5. failures \subseteq CallIds BY DEF Unanswered, GivenUp
<1>6. IsFiniteSet(failures) BY <1>4, <1>5, FS_Subset
<1>7. Dead(LeadOf[o]) \subseteq failures BY DEF Dead, Unanswered, GivenUp
<1>8. m \in Nat /\ n \in Nat /\ m <= n BY <1>6, <1>7, FS_Subset, FS_CardinalityType
<1>9. n >= FailThreshold
  <2>. HIDE DEF m, n
  <2>. QED BY <1>2, <1>8, ReplacementAssumption
<1>. QED BY <1>9

\* Lost, repeated and late callbacks, dialers that die, and calls of another buyer of
\* the lead never make a credit out of anything but unanswered calls and calls the dialer
\* gave up: detectBadContact's verdict holds when it is given and from then on.  A call
\* that is under way or was answered can count in one way only: startCallForLead placed it
\* and its update with Twilio's id threw, so that the catch marked the row as failed.
THEOREM ReplacementCreditsAreBacked == Spec => []CreditIsBacked
<1>1. ReplacementInv => CreditIsBacked BY BackedByFailures DEF CreditIsBacked
<1>. QED BY <1>1, ReplacementInvariant, PTL

================================================================================
