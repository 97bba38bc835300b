---------------------------- MODULE OrderPayment ----------------------------
(***************************************************************************)
(* The orders of one shop, from the AI's "finalize_order" to the courier.  *)
(* Conversation results make the gateway create orders and start payment   *)
(* verifications; the order agent verifies or books; its results update    *)
(* the order; the seller confirms, rejects, edits and dispatches at any    *)
(* moment.  The results consumer handles one result at a time and          *)
(* acknowledges it afterwards; verification and courier dispatch run in    *)
(* goroutines of their own.                                                *)
(***************************************************************************)
EXTENDS Naturals, Sequences, FiniteSets

CONSTANTS
    Customer,           \* customers of the shop, by PSID
    NoCustomer,         \* owner of an order the seller entered by hand
    HasDeliveryAPI,     \* the shop has courier credentials
    MaxOrders,          \* bound: orders ever created
    MaxChats,           \* bound: customer messages that need the gateway
    MaxSellerActions,   \* bound: seller requests
    MaxFaults           \* bound: crashes, retries and lost dispatches

Order == 1..MaxOrders       \* in the order of created_at
PayStatus == {"pending", "verified", "failed", "manual_required"}
DelStatus == {"pending", "booked", "in_transit", "delivered", "returned"}
ChatKind == {"finalize", "trxid", "screenshot"}

ASSUME PaymentAssumption ==
    /\ NoCustomer \notin Customer
    /\ HasDeliveryAPI \in BOOLEAN
    /\ MaxOrders \in Nat /\ MaxChats \in Nat
    /\ MaxSellerActions \in Nat /\ MaxFaults \in Nat

VARIABLES
    owner,          \* owner[o]: customer_psid of order o
    pay,            \* pay[o]: payment_status, "none" while there is no row
    del,            \* del[o]: delivery_status
    tracked,        \* orders with a tracking number
    evidence,       \* orders with a TrxID or a screenshot saved
    tasks,          \* the order_tasks queue
    results,        \* the task_results queue, its head being in flight
    gpc,            \* the results consumer's step
    verifyJobs,     \* verifyJobs[c]: running handleVerifyPayment... goroutines
    courierJobs,    \* courierJobs[o]: running courier goroutines
    proof,          \* orders some verification or the seller found paid
    everVerified,   \* orders whose row has ever said verified
    toldVerified,   \* orders whose customer was told the payment is confirmed
    dead,           \* orders with a dead-lettered task
    reopened,       \* orders the seller set back to pending after a decision
    chats, sellerActions, faults

orderVars == <<owner, pay, del, tracked, evidence>>
queueVars == <<tasks, results>>
jobVars   == <<gpc, verifyJobs, courierJobs>>
histVars  == <<proof, everVerified, toldVerified, dead, reopened>>
boundVars == <<chats, sellerActions, faults>>
vars == <<orderVars, queueVars, jobVars, histVars, boundVars>>

Chat == [kind : ChatKind, cust : Customer]
VerifyTask == [kind : {"trxid_check", "screenshot_ocr"}, order : Order]
CourierTask == [kind : {"book_courier", "direct"}, order : Order]
VerifyResult == [kind : {"verify"}, order : Order,
                 status : PayStatus \ {"pending"}]
CourierResult == [kind : {"courier"}, order : Order,
                  status : {"verified", "failed"},
                  del : {"booked", "pending"}, tracked : BOOLEAN]

TypeOK ==
    /\ owner \in [Order -> Customer \cup {NoCustomer}]
    /\ pay \in [Order -> PayStatus \cup {"none"}]
    /\ del \in [Order -> DelStatus]
    /\ tracked \in SUBSET Order /\ evidence \in SUBSET Order
    /\ tasks \in Seq(VerifyTask \cup CourierTask)
    /\ results \in Seq(Chat \cup VerifyResult \cup CourierResult)
    /\ gpc \in {"idle", "creating", "spawned", "decided", "acted", "down"}
    /\ gpc \in {"creating", "spawned", "decided", "acted"} => results # <<>>
    /\ verifyJobs \in [Customer \X {"trxid", "screenshot"} -> Nat]
    /\ courierJobs \in [Order -> Nat]
    /\ proof \in SUBSET Order /\ everVerified \in SUBSET Order
    /\ toldVerified \in SUBSET Order
    /\ dead \in SUBSET Order /\ reopened \in SUBSET Order
    /\ chats \in 0..MaxChats /\ sellerActions \in 0..MaxSellerActions
    /\ faults \in 0..MaxFaults

Init ==
    /\ owner = [o \in Order |-> NoCustomer]
    /\ pay = [o \in Order |-> "none"]
    /\ del = [o \in Order |-> "pending"]
    /\ tracked = {} /\ evidence = {}
    /\ tasks = <<>> /\ results = <<>>
    /\ gpc = "idle"
    /\ verifyJobs = [j \in Customer \X {"trxid", "screenshot"} |-> 0]
    /\ courierJobs = [o \in Order |-> 0]
    /\ proof = {} /\ everVerified = {}
    /\ toldVerified = {} /\ dead = {} /\ reopened = {}
    /\ chats = 0 /\ sellerActions = 0 /\ faults = 0

GatewayUp == gpc # "down"
Exists(o) == pay[o] # "none"
PendingOf(c) == {o \in Order : owner[o] = c /\ pay[o] = "pending"}
Newest(S) == CHOOSE o \in S : \A p \in S : p <= o
NextOrder == Cardinality({o \in Order : Exists(o)}) + 1
IsHead(kinds) == results # <<>> /\ Head(results).kind \in kinds

---------------------------------------------------------------------------
(* Conversation agent: a customer's message becomes a result *)

\* A screenshot is only recognised when the task carried a pending order.
ChatArrives(c, kind) ==
    /\ chats < MaxChats
    /\ kind = "screenshot" => PendingOf(c) # {}
    /\ chats' = chats + 1
    /\ results' = Append(results, [kind |-> kind, cust |-> c])
    /\ UNCHANGED <<orderVars, tasks, jobVars, proof, everVerified,
                   toldVerified, sellerActions, faults, dead, reopened>>

---------------------------------------------------------------------------
(* HandleResult *)

\* Bug: the duplicate check looks at delivery instead of payment.
CheckDuplicateByDelivery ==
    /\ gpc = "idle" /\ IsHead({"finalize"})
    /\ gpc' = IF \E o \in PendingOf(Head(results).cust) : del[o] # "pending"
              THEN "acted" ELSE "creating"
    /\ UNCHANGED <<orderVars, queueVars, verifyJobs, courierJobs, histVars, boundVars>>

CheckDuplicate ==
    /\ gpc = "idle" /\ IsHead({"finalize"})
    /\ gpc' = IF PendingOf(Head(results).cust) # {} THEN "acted" ELSE "creating"
    /\ UNCHANGED <<orderVars, queueVars, verifyJobs, courierJobs, histVars, boundVars>>

\* The order is created, or no item survives verification and nothing is.
CreateOrderFromAI ==
    /\ gpc = "creating"
    /\ gpc' = "acted"
    /\ \/ /\ NextOrder \in Order
          /\ owner' = [owner EXCEPT ![NextOrder] = Head(results).cust]
          /\ pay' = [pay EXCEPT ![NextOrder] = "pending"]
       \/ UNCHANGED <<owner, pay>>
    /\ UNCHANGED <<del, tracked, evidence, queueVars, verifyJobs, courierJobs,
                   histVars, boundVars>>

\* Bug: the result leaves the queue before the goroutine is started.
StartAutoAcked ==
    /\ gpc = "idle" /\ IsHead({"trxid", "screenshot"})
    /\ gpc' = "acted"
    /\ results' = Tail(results)
    /\ verifyJobs' = [verifyJobs EXCEPT
                        ![<<Head(results).cust, Head(results).kind>>] = @ + 1]
    /\ UNCHANGED <<orderVars, tasks, courierJobs, histVars, boundVars>>

StartVerification ==
    /\ gpc = "idle" /\ IsHead({"trxid", "screenshot"})
    /\ gpc' = "acted"
    /\ verifyJobs' = [verifyJobs EXCEPT
                        ![<<Head(results).cust, Head(results).kind>>] = @ + 1]
    /\ UNCHANGED <<orderVars, queueVars, courierJobs, histVars, boundVars>>

\* Bug: the courier is also started for payments that need a manual look.
CourierUnlessFailed ==
    /\ gpc = "idle" /\ IsHead({"verify"})
    /\ gpc' = "spawned"
    /\ LET r == Head(results) IN
       courierJobs' = IF r.status # "failed"
                      THEN [courierJobs EXCEPT ![r.order] = @ + 1] ELSE courierJobs
    /\ UNCHANGED <<orderVars, queueVars, verifyJobs, histVars, boundVars>>

\* Bug: the customer is told before the row is updated.
ReplyBeforeUpdate ==
    /\ gpc = "idle" /\ IsHead({"verify"})
    /\ gpc' = "spawned"
    /\ LET r == Head(results) IN
         IF r.status = "verified"
         THEN /\ courierJobs' = [courierJobs EXCEPT ![r.order] = @ + 1]
              /\ toldVerified' = toldVerified \cup {r.order}
         ELSE UNCHANGED <<courierJobs, toldVerified>>
    /\ UNCHANGED <<orderVars, queueVars, verifyJobs, proof,
                   everVerified, boundVars, dead, reopened>>

\* handlePaymentVerificationResult starts the courier, then updates the row,
\* then replies to the customer.
SpawnCourier ==
    /\ gpc = "idle" /\ IsHead({"verify"})
    /\ gpc' = "spawned"
    /\ LET r == Head(results) IN
       courierJobs' = IF r.status = "verified"
                      THEN [courierJobs EXCEPT ![r.order] = @ + 1] ELSE courierJobs
    /\ UNCHANGED <<orderVars, queueVars, verifyJobs, histVars, boundVars>>

ApplyVerification ==
    /\ gpc = "spawned"
    /\ gpc' = "decided"
    /\ LET r == Head(results) IN
         /\ pay' = [pay EXCEPT ![r.order] = r.status]
         /\ everVerified' = IF r.status = "verified"
                            THEN everVerified \cup {r.order} ELSE everVerified
    /\ UNCHANGED <<owner, del, tracked, evidence, queueVars, verifyJobs,
                   courierJobs, proof, toldVerified,
                   boundVars, dead, reopened>>

ReplyDecision ==
    /\ gpc = "decided"
    /\ gpc' = "acted"
    /\ LET r == Head(results) IN
       toldVerified' = IF r.status = "verified"
                       THEN toldVerified \cup {r.order} ELSE toldVerified
    /\ UNCHANGED <<orderVars, queueVars, verifyJobs, courierJobs,
                   proof, everVerified, boundVars, dead, reopened>>

\* The result of a task without verify_action overwrites both statuses.
ApplyCourierResult ==
    /\ gpc = "idle" /\ IsHead({"courier"})
    /\ gpc' = "acted"
    /\ LET r == Head(results) IN
         /\ pay' = [pay EXCEPT ![r.order] = r.status]
         /\ del' = [del EXCEPT ![r.order] = r.del]
         /\ tracked' = IF r.tracked THEN tracked \cup {r.order} ELSE tracked
         /\ everVerified' = IF r.status = "verified"
                            THEN everVerified \cup {r.order} ELSE everVerified
    /\ UNCHANGED <<owner, evidence, queueVars, verifyJobs, courierJobs,
                   proof, toldVerified, boundVars, dead, reopened>>

AckResult ==
    /\ gpc = "acted"
    /\ gpc' = "idle"
    /\ results' = Tail(results)
    /\ UNCHANGED <<orderVars, tasks, verifyJobs, courierJobs, histVars, boundVars>>

\* The goroutines die; the result in flight is delivered again.
GatewayCrash ==
    /\ GatewayUp /\ faults < MaxFaults
    /\ faults' = faults + 1
    /\ gpc' = "down"
    /\ verifyJobs' = [j \in DOMAIN verifyJobs |-> 0]
    /\ courierJobs' = [o \in Order |-> 0]
    /\ UNCHANGED <<orderVars, queueVars, histVars, chats, sellerActions>>

GatewayRestart ==
    /\ gpc = "down"
    /\ gpc' = "idle"
    /\ UNCHANGED <<orderVars, queueVars, verifyJobs, courierJobs, histVars, boundVars>>

---------------------------------------------------------------------------
(* Goroutines of the gateway *)

TaskKind(kind) == IF kind = "trxid" THEN "trxid_check" ELSE "screenshot_ocr"

\* Bug: the task is dispatched only when the evidence is a TrxID.
DispatchTrxIDOnly(c, kind) ==
    /\ verifyJobs[<<c, kind>>] > 0 /\ PendingOf(c) # {}
    /\ verifyJobs' = [verifyJobs EXCEPT ![<<c, kind>>] = @ - 1]
    /\ LET o == Newest(PendingOf(c)) IN
         /\ evidence' = evidence \cup {o}
         /\ tasks' = IF kind = "trxid"
                     THEN Append(tasks, [kind |-> TaskKind(kind), order |-> o])
                     ELSE tasks
    /\ UNCHANGED <<owner, pay, del, tracked, results, gpc, courierJobs,
                   histVars, boundVars>>

DispatchVerification(c, kind) ==
    /\ verifyJobs[<<c, kind>>] > 0 /\ PendingOf(c) # {}
    /\ verifyJobs' = [verifyJobs EXCEPT ![<<c, kind>>] = @ - 1]
    /\ LET o == Newest(PendingOf(c)) IN
         /\ evidence' = evidence \cup {o}
         /\ tasks' = Append(tasks, [kind |-> TaskKind(kind), order |-> o])
    /\ UNCHANGED <<owner, pay, del, tracked, results, gpc, courierJobs,
                   histVars, boundVars>>

\* The publish fails after the evidence was saved; the error is logged.
DispatchFails(c, kind) ==
    /\ verifyJobs[<<c, kind>>] > 0 /\ PendingOf(c) # {}
    /\ faults < MaxFaults
    /\ faults' = faults + 1
    /\ verifyJobs' = [verifyJobs EXCEPT ![<<c, kind>>] = @ - 1]
    /\ evidence' = evidence \cup {Newest(PendingOf(c))}
    /\ UNCHANGED <<owner, pay, del, tracked, queueVars, gpc, courierJobs,
                   histVars, chats, sellerActions>>

\* Without a pending order nothing is verified: a TrxID gets the reply that
\* there is no order yet, a screenshot gets none.
NoPendingOrder(c, kind) ==
    /\ verifyJobs[<<c, kind>>] > 0 /\ PendingOf(c) = {}
    /\ verifyJobs' = [verifyJobs EXCEPT ![<<c, kind>>] = @ - 1]
    /\ UNCHANGED <<orderVars, queueVars, gpc, courierJobs, proof,
                   everVerified, toldVerified, boundVars, dead, reopened>>

\* triggerCourierBooking, and the same in triggerPostPaymentWorkflow: a task
\* if the shop has credentials, otherwise a message to the seller.
TriggerCourier(o) ==
    /\ courierJobs[o] > 0
    /\ courierJobs' = [courierJobs EXCEPT ![o] = @ - 1]
    /\ tasks' = IF HasDeliveryAPI
                THEN Append(tasks, [kind |-> "book_courier", order |-> o])
                ELSE tasks
    /\ UNCHANGED <<orderVars, results, gpc, verifyJobs, histVars, boundVars>>

---------------------------------------------------------------------------
(* Order agent *)

\* OrderAgent.process_task without verify_action.  The payment counts as
\* verified if the task carries a TrxID, which only the dashboard's direct
\* task does; _book_courier returns a result, or an error that is as true as
\* one, with a tracking number only if the task carries credentials.
HasTrxID(task) == task.kind = "direct"
HasCredentials(task) == task.kind = "book_courier" /\ HasDeliveryAPI

LegacyResult(task) ==
    [kind |-> "courier", order |-> task.order,
     status |-> IF HasTrxID(task) THEN "verified" ELSE "failed",
     del |-> IF HasTrxID(task) THEN "booked" ELSE "pending",
     tracked |-> HasTrxID(task) /\ HasCredentials(task)]

Outcomes(task) ==
    CASE task.kind = "trxid_check" ->
           {[kind |-> "verify", order |-> task.order, status |-> s] :
              s \in {"verified", "failed", "manual_required"}}
      [] task.kind = "screenshot_ocr" ->
           {[kind |-> "verify", order |-> task.order, status |-> s] :
              s \in {"verified", "manual_required"}}
      [] OTHER -> {LegacyResult(task)}

\* Bug: a verification that found nothing publishes no result.
SilentManualReview(r) ==
    /\ tasks # <<>> /\ r \in Outcomes(Head(tasks))
    /\ results' = IF r.status = "manual_required" THEN results ELSE Append(results, r)
    /\ tasks' = Tail(tasks)
    /\ proof' = IF r.status = "verified" THEN proof \cup {r.order} ELSE proof
    /\ UNCHANGED <<orderVars, jobVars, everVerified, toldVerified, boundVars, dead, reopened>>

\* The result is published, then the task is acknowledged.
WorkTask(r) ==
    /\ tasks # <<>> /\ r \in Outcomes(Head(tasks))
    /\ results' = Append(results, r)
    /\ tasks' = Tail(tasks)
    /\ proof' = IF r.status = "verified" THEN proof \cup {r.order} ELSE proof
    /\ UNCHANGED <<orderVars, jobVars, everVerified, toldVerified, boundVars, dead, reopened>>

\* A crash in between: the task stays and will be worked on again.
WorkTaskTwice(r) ==
    /\ tasks # <<>> /\ r \in Outcomes(Head(tasks)) /\ faults < MaxFaults
    /\ faults' = faults + 1
    /\ results' = Append(results, r)
    /\ proof' = IF r.status = "verified" THEN proof \cup {r.order} ELSE proof
    /\ UNCHANGED <<orderVars, tasks, jobVars, everVerified,
                   toldVerified, chats, sellerActions, dead, reopened>>

\* The output could not be saved: the task goes to the end of the queue.
RetryTask ==
    /\ tasks # <<>> /\ faults < MaxFaults
    /\ faults' = faults + 1
    /\ tasks' = Append(Tail(tasks), Head(tasks))
    /\ UNCHANGED <<orderVars, results, jobVars, histVars, chats, sellerActions>>

\* Its retries are used up or its time to live is over.  The failed result,
\* if there is one, carries no data and leaves the order as it is.
DeadLetterTask ==
    /\ tasks # <<>> /\ faults < MaxFaults
    /\ faults' = faults + 1
    /\ tasks' = Tail(tasks)
    /\ dead' = dead \cup {Head(tasks).order}
    /\ UNCHANGED <<orderVars, results, jobVars, proof, everVerified,
                   toldVerified, reopened, chats, sellerActions>>

---------------------------------------------------------------------------
(* The seller *)

SellerActs ==
    /\ GatewayUp /\ sellerActions < MaxSellerActions
    /\ sellerActions' = sellerActions + 1

CreateOrder ==
    /\ SellerActs /\ NextOrder \in Order
    /\ pay' = [pay EXCEPT ![NextOrder] = "pending"]
    /\ UNCHANGED <<owner, del, tracked, evidence, queueVars, jobVars,
                   histVars, chats, faults>>

\* Updates the row, then a goroutine tells the customer and the courier.
ConfirmPayment(o) ==
    /\ SellerActs /\ Exists(o)
    /\ pay' = [pay EXCEPT ![o] = "verified"]
    /\ proof' = proof \cup {o}
    /\ everVerified' = everVerified \cup {o}
    /\ toldVerified' = IF owner[o] # NoCustomer
                       THEN toldVerified \cup {o} ELSE toldVerified
    /\ courierJobs' = [courierJobs EXCEPT ![o] = @ + 1]
    /\ UNCHANGED <<owner, del, tracked, evidence, queueVars, gpc, verifyJobs,
                   chats, faults, dead, reopened>>

RejectPayment(o) ==
    /\ SellerActs /\ Exists(o)
    /\ pay' = [pay EXCEPT ![o] = "failed"]
    /\ UNCHANGED <<owner, del, tracked, evidence, queueVars, jobVars,
                   histVars, chats, faults>>

\* Any status at all: the form on the page sends what it was opened with.
UpdatePayment(o, status) ==
    /\ SellerActs /\ Exists(o)
    /\ pay' = [pay EXCEPT ![o] = status]
    /\ reopened' = IF status = "pending" /\ pay[o] # "pending"
                   THEN reopened \cup {o} ELSE reopened
    /\ IF status = "verified"
       THEN /\ proof' = proof \cup {o}
            /\ everVerified' = everVerified \cup {o}
       ELSE UNCHANGED <<proof, everVerified>>
    /\ UNCHANGED <<owner, del, tracked, evidence, queueVars, jobVars,
                   toldVerified, chats, faults, dead>>

UpdateDelivery(o, status, withTracking) ==
    /\ SellerActs /\ Exists(o)
    /\ del' = [del EXCEPT ![o] = status]
    /\ tracked' = IF withTracking THEN tracked \cup {o} ELSE tracked
    /\ UNCHANGED <<owner, pay, evidence, queueVars, jobVars, histVars, chats, faults>>

\* The dashboard's "Dispatch via AI Agent" on a verified, unbooked order.
DispatchToCourier(o) ==
    /\ SellerActs /\ pay[o] = "verified" /\ del[o] = "pending"
    /\ tasks' = Append(tasks, [kind |-> "direct", order |-> o])
    /\ UNCHANGED <<orderVars, results, jobVars, histVars, chats, faults>>

---------------------------------------------------------------------------

HandleResult == \/ CheckDuplicate \/ CreateOrderFromAI \/ StartVerification
                \/ SpawnCourier \/ ApplyVerification \/ ReplyDecision
                \/ ApplyCourierResult \/ AckResult

VerifyGoroutine(c, kind) ==
    DispatchVerification(c, kind) \/ DispatchFails(c, kind) \/ NoPendingOrder(c, kind)

Work == \E r \in VerifyResult \cup CourierResult : WorkTask(r)

Seller(o) ==
    \/ ConfirmPayment(o) \/ RejectPayment(o) \/ DispatchToCourier(o)
    \/ \E s \in PayStatus : UpdatePayment(o, s)
    \/ \E s \in DelStatus, t \in BOOLEAN : UpdateDelivery(o, s, t)

Next ==
    \/ \E c \in Customer, k \in ChatKind : ChatArrives(c, k)
    \/ HandleResult \/ GatewayCrash \/ GatewayRestart
    \/ \E c \in Customer, k \in {"trxid", "screenshot"} : VerifyGoroutine(c, k)
    \/ \E o \in Order : TriggerCourier(o) \/ Seller(o)
    \/ CreateOrder
    \/ Work \/ (\E r \in VerifyResult \cup CourierResult : WorkTaskTwice(r))
    \/ RetryTask \/ DeadLetterTask

Spec == Init /\ [][Next]_vars

\* The results consumer, the worker and the goroutines run; customers,
\* sellers and faults do as they like.
FairSpec ==
    /\ Spec
    /\ WF_vars(HandleResult) /\ WF_vars(GatewayRestart) /\ WF_vars(Work)
    /\ \A c \in Customer, k \in {"trxid", "screenshot"} :
         WF_vars(VerifyGoroutine(c, k))
    /\ \A o \in Order : WF_vars(TriggerCourier(o))

---------------------------------------------------------------------------
(* Properties *)

InSeq(s, Test(_)) == \E i \in 1..Len(s) : Test(s[i])
VerifyInFlight(o) ==
    \/ InSeq(tasks, LAMBDA t : t \in VerifyTask /\ t.order = o)
    \/ InSeq(results, LAMBDA r : r.kind = "verify" /\ r.order = o)

\* At most one AI order of a customer is awaiting payment: the duplicate
\* check is no transaction, but results are handled one at a time
\* (agents/handler.go:398-406, rabbitmq.go:124).  Only those the seller opened
\* again come on top.
OnePendingPerCustomer ==
    \A c \in Customer : Cardinality(PendingOf(c) \ reopened) <= 1

\* Proof comes first, whatever crashes and repeats: a courier is only ever
\* sent for an order that a verification, or the seller, found paid; and a
\* customer who was told "your payment is confirmed" has an order whose row did
\* say so, since the reply follows the update and survives no crash that the
\* update does not survive.
ProofComesFirst ==
    /\ \A o \in Order :
         \/ courierJobs[o] > 0
         \/ InSeq(tasks, LAMBDA t : t.kind = "book_courier" /\ t.order = o)
         => o \in proof
    /\ toldVerified \subseteq everVerified

\* Saved payment evidence of a pending order is being verified, as long as
\* no crash or failed dispatch came in between and the seller did not set the
\* order back to pending after its verification.
EvidenceIsFollowedUp ==
    faults = 0 =>
      \A o \in evidence \ reopened : pay[o] = "pending" => VerifyInFlight(o)

\* Every verification that reached the queue ends with a decision on the
\* order, crashes or not, unless the broker dead-letters its task.
VerificationDecides ==
    \A o \in Order :
        InSeq(tasks, LAMBDA t : t \in VerifyTask /\ t.order = o)
            ~> (pay[o] # "pending" \/ o \in dead)

\* "Step 2: Book courier if payment verified" (agents.py:390): sending a
\* paid order to the courier does not undo its payment.
CourierKeepsPayment ==
    [][\A o \in Order :
         gpc = "idle" /\ gpc' = "acted" /\ IsHead({"courier"})
           /\ pay[o] = "verified" => pay'[o] = "verified"]_vars
===========================================================================
