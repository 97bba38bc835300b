-------------------------- MODULE OrderPaymentProofs --------------------------
(***************************************************************************)
(* Proofs about OrderPayment, for any number of customers, orders, chats,  *)
(* seller actions and faults.  They follow what the two queues and the     *)
(* goroutines say about orders: rows that exist, payments that were found, *)
(* evidence that is being verified.                                        *)
(***************************************************************************)
EXTENDS OrderPayment, FiniteSetTheorems, WellFoundedInduction, TLAPS

USE DEF orderVars, queueVars, jobVars, histVars, boundVars, GatewayUp

---------------------------------------------------------------------------
(* Queues and rows *)

\* x waits in queue s.
Has(s, x) == \E i \in 1..Len(s) : s[i] = x

\* Publishing adds a message at the end.
LEMMA Published ==
    ASSUME NEW S, NEW s \in Seq(S), NEW x \in S
    PROVE  /\ Append(s, x) \in Seq(S) /\ Append(s, x) # <<>>
           /\ s # <<>> => Head(Append(s, x)) = Head(s)
           /\ \A y : Has(Append(s, x), y) <=> Has(s, y) \/ y = x
<1>1. /\ Append(s, x) \in Seq(S) /\ Len(Append(s, x)) = Len(s) + 1 /\ Len(s) \in Nat
      /\ Append(s, x)[Len(s) + 1] = x /\ \A i \in 1..Len(s) : Append(s, x)[i] = s[i]
  OBVIOUS
<1>e. /\ Append(s, x) # <<>>
      /\ s # <<>> => Head(Append(s, x)) = Head(s)
  BY SMTT(30)
<1> DEFINE a == Append(s, x)
<1> HIDE DEF a
<1>2. /\ Len(a) = Len(s) + 1 /\ Len(s) \in Nat /\ a[Len(s) + 1] = x
      /\ \A i \in 1..Len(s) : a[i] = s[i]
  BY <1>1 DEF a
<1>3. \A y : Has(a, y) <=> Has(s, y) \/ y = x
  BY <1>2 DEF Has
<1> QED BY <1>1, <1>e, <1>3 DEF a

\* The first message leaves a queue; the others stay.
LEMMA Consumed ==
    ASSUME NEW S, NEW s \in Seq(S), s # <<>>
    PROVE  /\ Tail(s) \in Seq(S) /\ Head(s) \in S /\ Has(s, Head(s))
           /\ \A y : Has(s, y) <=> Has(Tail(s), y) \/ y = Head(s)
<1>1. /\ Tail(s) \in Seq(S) /\ Head(s) \in S /\ Len(s) \in Nat /\ Len(s) >= 1
      /\ Len(Tail(s)) = Len(s) - 1 /\ Head(s) = s[1]
      /\ \A i \in 1..Len(Tail(s)) : Tail(s)[i] = s[i + 1]
  OBVIOUS
<1> DEFINE t == Tail(s)
<1> HIDE DEF t
<1>2. /\ Len(s) \in Nat /\ Len(s) >= 1 /\ Len(t) = Len(s) - 1
      /\ \A i \in 1..Len(t) : t[i] = s[i + 1]
  BY <1>1 DEF t
<1>3. ASSUME NEW y, Has(s, y), y # s[1] PROVE Has(t, y)
  <2>1. PICK i \in 1..Len(s) : s[i] = y
    BY <1>3 DEF Has
  <2>2. i - 1 \in 1..Len(t) /\ t[i - 1] = y
    BY <1>2, <1>3, <2>1
  <2> QED BY <2>2 DEF Has
<1>4. ASSUME NEW y, Has(t, y) PROVE Has(s, y)
  <2>1. PICK i \in 1..Len(t) : t[i] = y
    BY <1>4 DEF Has
  <2>2. i + 1 \in 1..Len(s) /\ s[i + 1] = y
    BY <1>2, <2>1
  <2> QED BY <2>2 DEF Has
<1>5. Has(s, s[1])
  BY <1>2 DEF Has
<1> QED BY <1>1, <1>3, <1>4, <1>5 DEF t

\* A message in a queue is of the queue's type.
LEMMA InQueue ==
    ASSUME NEW S, NEW s \in Seq(S), NEW x, Has(s, x)
    PROVE  x \in S
  BY DEF Has

\* The newest of some orders is one of them.
LEMMA NewestOf ==
    ASSUME NEW S \in SUBSET Order, S # {}
    PROVE  Newest(S) \in S
<1> DEFINE before == OpToRel(<, Nat)
           T == {n \in Nat : MaxOrders - n \in S}
<1>1. T \subseteq Nat /\ T # {}
  <2>1. PICK o \in S : TRUE
    OBVIOUS
  <2>2. MaxOrders - o \in Nat /\ MaxOrders - (MaxOrders - o) = o
    BY PaymentAssumption DEF Order
  <2>3. MaxOrders - o \in T
    BY <2>2
  <2> QED BY <2>3
<1>2. PICK n \in T : \A m \in T : ~(<<m, n>> \in before)
  <2>1. IsWellFoundedOn(before, Nat)
    BY NatLessThanWellFounded
  <2> HIDE DEF before
  <2> QED BY <1>1, <2>1, WFMin
<1>3. \A m \in T : ~(m < n)
  BY <1>1, <1>2 DEF OpToRel
<1>4. MaxOrders - n \in S /\ \A p \in S : p <= MaxOrders - n
  BY <1>3, PaymentAssumption DEF Order
<1> QED BY <1>4 DEF Newest

---------------------------------------------------------------------------
(* Type correctness, with what the queues and goroutines say about rows *)

Task == VerifyTask \cup CourierTask
Result == Chat \cup VerifyResult \cup CourierResult

\* Orders are created one after the other; tasks, results, courier goroutines and
\* evidence are about orders that exist.
RowsInv ==
    /\ \E n \in 0..MaxOrders : \A o \in Order : Exists(o) <=> o <= n
    /\ \A o \in Order : Exists(o) \/ owner[o] = NoCustomer
    /\ \A t : Has(tasks, t) => Exists(t.order)
    /\ \A r : Has(results, r) /\ r.kind \in {"verify", "courier"} => Exists(r.order)
    /\ \A o \in Order : courierJobs[o] > 0 => Exists(o)
    /\ \A o \in evidence : Exists(o)

\* What the results consumer is at, between two of its steps.
StepInv ==
    /\ gpc = "creating" => IsHead({"finalize"})
    /\ gpc \in {"spawned", "decided"} => IsHead({"verify"})

OrderInv == TypeOK /\ RowsInv /\ StepInv

\* The result in flight has the fields of its kind.
LEMMA HeadResult ==
    ASSUME TypeOK, results # <<>>
    PROVE  /\ Has(results, Head(results))
           /\ Head(results).kind \in ChatKind => Head(results).cust \in Customer
           /\ Head(results).kind = "verify" =>
                /\ Head(results).order \in Order
                /\ Head(results).status \in {"verified", "failed", "manual_required"}
           /\ Head(results).kind = "courier" =>
                /\ Head(results).order \in Order
                /\ Head(results).status \in {"verified", "failed"}
                /\ Head(results).del \in {"booked", "pending"}
<1>1. results \in Seq(Result)
  BY DEF TypeOK, Result
<1>2. Head(results) \in Result /\ Has(results, Head(results))
  BY <1>1, Consumed
<1> QED BY <1>2 DEF Result, Chat, VerifyResult, CourierResult, ChatKind, PayStatus

\* So has the task at hand.
LEMMA HeadTask ==
    ASSUME TypeOK, tasks # <<>>
    PROVE  /\ Has(tasks, Head(tasks)) /\ Head(tasks) \in Task /\ Head(tasks).order \in Order
           /\ Head(tasks).kind \in {"trxid_check", "screenshot_ocr", "book_courier", "direct"}
<1>1. tasks \in Seq(Task)
  BY DEF TypeOK, Task
<1>2. Head(tasks) \in Task /\ Has(tasks, Head(tasks))
  BY <1>1, Consumed
<1> QED BY <1>2 DEF Task, VerifyTask, CourierTask

\* The agent's result is about the order of its task, and of its kind.
LEMMA OutcomeOf ==
    ASSUME NEW t \in Task, NEW r \in Outcomes(t)
    PROVE  /\ r.order = t.order /\ r.kind \in {"verify", "courier"}
           /\ t \in VerifyTask => r.kind = "verify"
<1>1. CASE t.kind = "trxid_check"
  BY <1>1 DEF Outcomes, VerifyTask, CourierTask
<1>2. CASE t.kind = "screenshot_ocr"
  BY <1>2 DEF Outcomes, VerifyTask, CourierTask
<1>3. CASE t.kind \notin {"trxid_check", "screenshot_ocr"}
  <2>1. r = LegacyResult(t)
    BY <1>3 DEF Outcomes
  <2>2. r.order = t.order /\ r.kind = "courier"
    BY <2>1 DEF LegacyResult
  <2> QED BY <1>3, <2>2 DEF VerifyTask
<1> QED BY <1>1, <1>2, <1>3

\* The next number is that of no row.
LEMMA NextIsNew ==
    ASSUME TypeOK, RowsInv, NextOrder \in Order
    PROVE  /\ ~Exists(NextOrder) /\ owner[NextOrder] = NoCustomer
           /\ \A o \in Order : Exists(o) <=> o < NextOrder
<1>1. PICK n \in 0..MaxOrders : \A o \in Order : Exists(o) <=> o <= n
  BY DEF RowsInv
<1>2. {o \in Order : Exists(o)} = 1..n
  BY <1>1, PaymentAssumption DEF Order
<1>3. Cardinality(1..n) = n
  BY FS_Interval
<1>4. NextOrder = n + 1
  BY <1>2, <1>3 DEF NextOrder
<1>5. ~Exists(NextOrder) /\ \A o \in Order : Exists(o) <=> o < NextOrder
  BY <1>1, <1>4 DEF Order
<1> QED BY <1>5 DEF RowsInv

\* Every variable keeps its type.
LEMMA TypeInductive == OrderInv /\ [Next]_vars => TypeOK'
<1> SUFFICES ASSUME OrderInv, [Next]_vars PROVE TypeOK'
  OBVIOUS
<1> USE PaymentAssumption DEF OrderInv
<1>q. /\ tasks \in Seq(Task) /\ results \in Seq(Result)
  BY DEF TypeOK, Task, Result
<1>t. ASSUME NEW x \in Task PROVE Append(tasks, x) \in Seq(Task)
  BY <1>q, Published
<1>r. ASSUME NEW x \in Result PROVE Append(results, x) \in Seq(Result) /\ Append(results, x) # <<>>
  BY <1>q, Published
<1>h. tasks # <<>> => Tail(tasks) \in Seq(Task) /\ Head(tasks) \in Task /\ Head(tasks).order \in Order
  BY <1>q, HeadTask, Consumed
<1>k. results # <<>> => Tail(results) \in Seq(Result)
  BY <1>q, Consumed
<1> USE DEF PayStatus, DelStatus
<1>1. ASSUME NEW c \in Customer, NEW k \in ChatKind, ChatArrives(c, k) PROVE TypeOK'
  <2>1. [kind |-> k, cust |-> c] \in Result
    BY DEF Result, Chat
  <2> QED BY <1>1, <1>r, <2>1 DEF ChatArrives, Task, Result, TypeOK
<1>2. CASE HandleResult
  <2>1. CASE CheckDuplicate
    BY <2>1 DEF CheckDuplicate, TypeOK, IsHead
  <2>2. CASE CreateOrderFromAI
    BY <2>2, HeadResult DEF CreateOrderFromAI, TypeOK, StepInv, IsHead, ChatKind
  <2>3. CASE StartVerification
    <3>1. Head(results).cust \in Customer /\ Head(results).kind \in {"trxid", "screenshot"}
      BY <2>3, HeadResult DEF StartVerification, IsHead, ChatKind
    <3> QED BY <2>3, <3>1 DEF StartVerification, IsHead, TypeOK
  <2>4. CASE SpawnCourier
    BY <2>4, HeadResult, SMTT(30) DEF SpawnCourier, IsHead, TypeOK
  <2>5. CASE ApplyVerification
    BY <2>5, HeadResult DEF ApplyVerification, StepInv, IsHead, TypeOK
  <2>6. CASE ReplyDecision
    BY <2>6, HeadResult DEF ReplyDecision, StepInv, IsHead, TypeOK
  <2>7. CASE ApplyCourierResult
    BY <2>7, HeadResult DEF ApplyCourierResult, IsHead, TypeOK
  <2>8. CASE AckResult
    BY <2>8, <1>k DEF AckResult, TypeOK, Result
  <2> QED BY <1>2, <2>1, <2>2, <2>3, <2>4, <2>5, <2>6, <2>7, <2>8 DEF HandleResult
<1>3. CASE GatewayCrash
  BY <1>3 DEF GatewayCrash, TypeOK
<1>4. CASE GatewayRestart
  BY <1>4 DEF GatewayRestart, TypeOK
<1>5. ASSUME NEW c \in Customer, NEW k \in {"trxid", "screenshot"}, VerifyGoroutine(c, k) PROVE TypeOK'
  <2>j. verifyJobs[<<c, k>>] > 0 => verifyJobs[<<c, k>>] - 1 \in Nat
    BY DEF TypeOK
  <2>o. PendingOf(c) # {} => Newest(PendingOf(c)) \in Order
    BY NewestOf DEF PendingOf
  <2>1. CASE DispatchVerification(c, k)
    <3> DEFINE t == [kind |-> TaskKind(k), order |-> Newest(PendingOf(c))]
    <3>1. t \in Task
      BY <2>1, <2>o DEF DispatchVerification, Task, VerifyTask, TaskKind
    <3>2. tasks' = Append(tasks, t)
      BY <2>1 DEF DispatchVerification
    <3> HIDE DEF t
    <3>3. tasks' \in Seq(Task)
      BY <3>1, <3>2, <1>t
    <3>4. verifyJobs' \in [Customer \X {"trxid", "screenshot"} -> Nat] /\ evidence' \in SUBSET Order
      BY <2>1, <2>j, <2>o DEF DispatchVerification, TypeOK
    <3> QED BY <2>1, <3>3, <3>4 DEF DispatchVerification, TypeOK, Task
  <2>2. CASE DispatchFails(c, k)
    <3>1. verifyJobs' \in [Customer \X {"trxid", "screenshot"} -> Nat] /\ evidence' \in SUBSET Order
      BY <2>2, <2>j, <2>o DEF DispatchFails, TypeOK
    <3> QED BY <2>2, <3>1 DEF DispatchFails, TypeOK
  <2>3. CASE NoPendingOrder(c, k)
    <3>1. verifyJobs' \in [Customer \X {"trxid", "screenshot"} -> Nat]
      BY <2>3, <2>j DEF NoPendingOrder, TypeOK
    <3> QED BY <2>3, <3>1 DEF NoPendingOrder, TypeOK
  <2> QED BY <1>5, <2>1, <2>2, <2>3 DEF VerifyGoroutine
<1>6. ASSUME NEW o \in Order, TriggerCourier(o) PROVE TypeOK'
  <2>1. [kind |-> "book_courier", order |-> o] \in Task
    BY DEF Task, CourierTask
  <2>2. tasks' \in Seq(Task)
    BY <1>6, <1>q, <1>t, <2>1 DEF TriggerCourier
  <2>3. courierJobs' \in [Order -> Nat]
    BY <1>6 DEF TriggerCourier, TypeOK
  <2> QED BY <1>6, <2>2, <2>3 DEF TriggerCourier, TypeOK, Task
<1>7. ASSUME NEW o \in Order, Seller(o) PROVE TypeOK'
  <2>1. CASE ConfirmPayment(o)
    BY <2>1 DEF ConfirmPayment, SellerActs, TypeOK
  <2>2. CASE RejectPayment(o)
    BY <2>2 DEF RejectPayment, SellerActs, TypeOK
  <2>3. CASE DispatchToCourier(o)
    <3>1. [kind |-> "direct", order |-> o] \in Task
      BY DEF Task, CourierTask
    <3>2. tasks' \in Seq(Task)
      BY <2>3, <1>t, <3>1 DEF DispatchToCourier
    <3> QED BY <2>3, <3>2 DEF DispatchToCourier, SellerActs, TypeOK, Task
  <2>4. ASSUME NEW s \in PayStatus, UpdatePayment(o, s) PROVE TypeOK'
    BY <2>4 DEF UpdatePayment, SellerActs, TypeOK
  <2>5. ASSUME NEW s \in DelStatus, NEW t \in BOOLEAN, UpdateDelivery(o, s, t) PROVE TypeOK'
    BY <2>5 DEF UpdateDelivery, SellerActs, TypeOK
  <2> QED BY <1>7, <2>1, <2>2, <2>3, <2>4, <2>5 DEF Seller
<1>8. CASE CreateOrder
  BY <1>8 DEF CreateOrder, SellerActs, TypeOK
<1>9. ASSUME NEW r \in VerifyResult \cup CourierResult, WorkTask(r) \/ WorkTaskTwice(r) PROVE TypeOK'
  <2>1. r \in Result /\ r \in Outcomes(Head(tasks)) /\ tasks # <<>>
    BY <1>9 DEF Result, WorkTask, WorkTaskTwice
  <2>2. r.order \in Order
    BY <2>1, HeadTask, OutcomeOf
  <2>3. results' \in Seq(Result) /\ results' # <<>> /\ tasks' \in Seq(Task)
    BY <1>9, <1>h, <1>r, <1>q, <2>1 DEF WorkTask, WorkTaskTwice
  <2>4. proof' \in SUBSET Order
    BY <1>9, <2>2 DEF WorkTask, WorkTaskTwice, TypeOK
  <2>5. /\ UNCHANGED <<orderVars, jobVars, everVerified, toldVerified, chats, sellerActions, dead,
                     reopened>>
        /\ faults' \in 0..MaxFaults
    BY <1>9 DEF WorkTask, WorkTaskTwice, TypeOK
  <2> QED BY <2>3, <2>4, <2>5 DEF TypeOK, Task, Result
<1>10. CASE RetryTask
  <2>1. tasks' \in Seq(Task)
    <3>1. tasks # <<>> /\ Tail(tasks) \in Seq(Task) /\ Head(tasks) \in Task
      BY <1>10, <1>h DEF RetryTask
    <3>2. Append(Tail(tasks), Head(tasks)) \in Seq(Task)
      BY <3>1, Published
    <3> QED BY <1>10, <3>2 DEF RetryTask
  <2> QED BY <1>10, <2>1 DEF RetryTask, TypeOK, Task
<1>11. CASE DeadLetterTask
  BY <1>11, <1>h DEF DeadLetterTask, TypeOK, Task
<1>12. CASE UNCHANGED vars
  BY <1>12 DEF vars, TypeOK
<1> QED BY <1>1, <1>2, <1>3, <1>4, <1>5, <1>6, <1>7, <1>8, <1>9, <1>10, <1>11, <1>12 DEF Next, Work

\* Steps that create no row keep what is said about rows, if whatever they add
\* is about orders that exist.
LEMMA SameRows ==
    ASSUME OrderInv, TypeOK', owner' = owner,
           \A o \in Order : Exists(o)' <=> Exists(o),
           \A t : Has(tasks', t) => Has(tasks, t) \/ Exists(t.order),
           \A r : Has(results', r) /\ r.kind \in {"verify", "courier"} => Has(results, r) \/ Exists(r.order),
           \A o \in Order : courierJobs'[o] > 0 => courierJobs[o] > 0 \/ Exists(o),
           \A o \in evidence' : Exists(o)
    PROVE  RowsInv'
<1>1. \A t : Has(tasks', t) => Exists(t.order) /\ t.order \in Order
  <2>1. \A t : Has(tasks', t) => t \in Task
    BY InQueue DEF TypeOK, Task
  <2> QED BY <2>1 DEF OrderInv, RowsInv, Task, VerifyTask, CourierTask
<1>2. \A r : Has(results', r) /\ r.kind \in {"verify", "courier"} => Exists(r.order) /\ r.order \in Order
  <2>1. \A r : Has(results', r) => r \in Result
    BY InQueue DEF TypeOK, Result
  <2>2. \A r \in Result : r.kind \in {"verify", "courier"} => r.order \in Order
    BY DEF Result, Chat, ChatKind, VerifyResult, CourierResult
  <2> QED BY <2>1, <2>2 DEF OrderInv, RowsInv
<1>3. evidence' \subseteq Order
  BY DEF TypeOK
<1>4. \A t : Has(tasks, t)' => Exists(t.order)'
  BY <1>1 DEF Has
<1>5. \A r : Has(results, r)' /\ r.kind \in {"verify", "courier"} => Exists(r.order)'
  BY <1>2 DEF Has
<1> QED BY <1>3, <1>4, <1>5 DEF OrderInv, RowsInv

\* So do steps that create the next row.
LEMMA NewRow ==
    ASSUME OrderInv, TypeOK', NextOrder \in Order, NEW c \in Customer \cup {NoCustomer},
           pay' = [pay EXCEPT ![NextOrder] = "pending"],
           owner' = [owner EXCEPT ![NextOrder] = c],
           UNCHANGED <<tasks, results, courierJobs, evidence>>
    PROVE  RowsInv'
<1>1. ~Exists(NextOrder) /\ \A o \in Order : Exists(o) <=> o < NextOrder
  BY NextIsNew DEF OrderInv
<1>2. \A o \in Order : Exists(o)' <=> Exists(o) \/ o = NextOrder
  BY DEF OrderInv, TypeOK, Exists
<1>3. NextOrder \in 0..MaxOrders /\ \A o \in Order : Exists(o)' <=> o <= NextOrder
  BY <1>1, <1>2, PaymentAssumption DEF Order
<1>4. \A o \in Order : Exists(o)' \/ owner'[o] = NoCustomer
  BY <1>2 DEF OrderInv, RowsInv, TypeOK
<1>5. \A t : Has(tasks', t) => Exists(t.order)'
  <2>1. \A t : Has(tasks, t) => t \in Task
    BY InQueue DEF OrderInv, TypeOK, Task
  <2> QED BY <1>2, <2>1 DEF OrderInv, RowsInv, Task, VerifyTask, CourierTask
<1>6. \A r : Has(results', r) /\ r.kind \in {"verify", "courier"} => Exists(r.order)'
  <2>1. \A r : Has(results, r) => r \in Result
    BY InQueue DEF OrderInv, TypeOK, Result
  <2>2. \A r \in Result : r.kind \in {"verify", "courier"} => r.order \in Order
    BY DEF Result, Chat, ChatKind, VerifyResult, CourierResult
  <2> QED BY <1>2, <2>1, <2>2 DEF OrderInv, RowsInv
<1>7. \A o \in Order : courierJobs'[o] > 0 => Exists(o)'
  BY <1>2 DEF OrderInv, RowsInv
<1>8. \A o \in evidence' : Exists(o)'
  BY <1>2 DEF OrderInv, RowsInv, TypeOK
<1>9. \E n \in 0..MaxOrders : \A o \in Order : Exists(o)' <=> o <= n
  BY <1>3
<1>10. /\ \A t : Has(tasks, t)' => Exists(t.order)'
       /\ \A r : Has(results, r)' /\ r.kind \in {"verify", "courier"} => Exists(r.order)'
  BY <1>5, <1>6 DEF Has
<1> QED BY <1>4, <1>7, <1>8, <1>9, <1>10 DEF RowsInv

\* Publishing to one of the queues adds that message and changes no other.
LEMMA Queued ==
    ASSUME TypeOK
    PROVE  /\ \A x \in Task : \A t : Has(Append(tasks, x), t) <=> Has(tasks, t) \/ t = x
           /\ \A x \in Result : \A r : Has(Append(results, x), r) <=> Has(results, r) \/ r = x
           /\ \A x \in Result : results # <<>> => Head(Append(results, x)) = Head(results)
           /\ tasks # <<>> => \A t : Has(tasks, t) <=> Has(Tail(tasks), t) \/ t = Head(tasks)
           /\ results # <<>> => \A r : Has(results, r) <=> Has(Tail(results), r) \/ r = Head(results)
<1>1. tasks \in Seq(Task) /\ results \in Seq(Result)
  BY DEF TypeOK, Task, Result
<1>2. \A x \in Task : \A t : Has(Append(tasks, x), t) <=> Has(tasks, t) \/ t = x
  BY <1>1, Published
<1>3. \A x \in Result : /\ \A r : Has(Append(results, x), r) <=> Has(results, r) \/ r = x
                        /\ results # <<>> => Head(Append(results, x)) = Head(results)
  BY <1>1, Published
<1>4. tasks # <<>> => \A t : Has(tasks, t) <=> Has(Tail(tasks), t) \/ t = Head(tasks)
  BY <1>1, Consumed
<1>5. results # <<>> => \A r : Has(results, r) <=> Has(Tail(results), r) \/ r = Head(results)
  BY <1>1, Consumed
<1> QED BY <1>2, <1>3, <1>4, <1>5

\* What is written about rows, tasks, results and goroutines is about rows that exist.
LEMMA RowsInductive == OrderInv /\ TypeOK' /\ [Next]_vars => RowsInv'
<1> SUFFICES ASSUME OrderInv, TypeOK', [Next]_vars PROVE RowsInv'
  OBVIOUS
<1> USE DEF OrderInv
<1>q. TypeOK /\ RowsInv
  OBVIOUS
<1>e. /\ \A o \in evidence : Exists(o)
      /\ \A o \in Order : courierJobs[o] > 0 => Exists(o)
  BY DEF RowsInv
<1>s. UNCHANGED <<owner, pay, courierJobs, evidence, queueVars>> => RowsInv'
  BY <1>e, SameRows DEF Exists
<1>1. ASSUME NEW c \in Customer, NEW k \in ChatKind, ChatArrives(c, k) PROVE RowsInv'
  <2> DEFINE m == [kind |-> k, cust |-> c]
  <2>1. m \in Result /\ m.kind \notin {"verify", "courier"}
    BY DEF Result, Chat, ChatKind
  <2>2. results' = Append(results, m)
    BY <1>1 DEF ChatArrives
  <2> HIDE DEF m
  <2>3. \A r : Has(results', r) /\ r.kind \in {"verify", "courier"} => Has(results, r)
    BY <2>1, <2>2, Queued
  <2> QED BY <1>1, <1>e, <2>3, SameRows DEF ChatArrives, Exists
<1>2. CASE HandleResult
  <2>v. IsHead({"verify", "courier"}) => Exists(Head(results).order) /\ Head(results).order \in Order
    BY HeadResult DEF RowsInv, IsHead
  <2>1. CASE CheckDuplicate \/ StartVerification \/ ReplyDecision
    BY <2>1, <1>s DEF CheckDuplicate, StartVerification, ReplyDecision
  <2>2. CASE CreateOrderFromAI
    <3>1. CASE UNCHANGED <<owner, pay>>
      BY <2>2, <3>1, <1>s DEF CreateOrderFromAI
    <3>2. CASE NextOrder \in Order /\ owner' = [owner EXCEPT ![NextOrder] = Head(results).cust]
                 /\ pay' = [pay EXCEPT ![NextOrder] = "pending"]
      <4>1. Head(results).cust \in Customer
        BY <2>2, HeadResult DEF CreateOrderFromAI, StepInv, IsHead, ChatKind
      <4> QED BY <2>2, <3>2, <4>1, NewRow DEF CreateOrderFromAI
    <3> QED BY <2>2, <3>1, <3>2 DEF CreateOrderFromAI
  <2>4. CASE SpawnCourier
    <3>1. \A o \in Order : courierJobs'[o] > 0 => courierJobs[o] > 0 \/ Exists(o)
      BY <2>4, <2>v DEF SpawnCourier, IsHead, TypeOK
    <3> QED BY <2>4, <1>e, <3>1, SameRows DEF SpawnCourier, Exists
  <2>5. CASE ApplyVerification
    <3>1. IsHead({"verify"})
      BY <2>5 DEF ApplyVerification, StepInv
    <3>2. \A o \in Order : Exists(o)' <=> Exists(o)
      BY <2>5, <2>v, <3>1, HeadResult DEF ApplyVerification, IsHead, Exists, TypeOK
    <3> QED BY <2>5, <1>e, <3>2, SameRows DEF ApplyVerification
  <2>7. CASE ApplyCourierResult
    <3>1. \A o \in Order : Exists(o)' <=> Exists(o)
      BY <2>7, <2>v, HeadResult DEF ApplyCourierResult, IsHead, Exists, TypeOK
    <3> QED BY <2>7, <1>e, <3>1, SameRows DEF ApplyCourierResult
  <2>8. CASE AckResult
    <3>1. \A r : Has(results', r) => Has(results, r)
      BY <2>8, Queued DEF AckResult, TypeOK
    <3> QED BY <2>8, <1>e, <3>1, SameRows DEF AckResult, Exists
  <2> QED BY <1>2, <2>1, <2>2, <2>4, <2>5, <2>7, <2>8 DEF HandleResult
<1>3. CASE GatewayCrash
  BY <1>3, <1>e, SameRows DEF GatewayCrash, Exists
<1>4. CASE GatewayRestart
  BY <1>4, <1>s DEF GatewayRestart
<1>5. ASSUME NEW c \in Customer, NEW k \in {"trxid", "screenshot"}, VerifyGoroutine(c, k) PROVE RowsInv'
  <2>o. PendingOf(c) # {} => Newest(PendingOf(c)) \in Order /\ Exists(Newest(PendingOf(c)))
    <3>1. PendingOf(c) # {} => Newest(PendingOf(c)) \in PendingOf(c)
      BY NewestOf DEF PendingOf
    <3> QED BY <3>1 DEF PendingOf, Exists
  <2>1. CASE DispatchVerification(c, k)
    <3> DEFINE t == [kind |-> TaskKind(k), order |-> Newest(PendingOf(c))]
    <3>1. t \in Task /\ Exists(t.order)
      BY <2>1, <2>o DEF DispatchVerification, Task, VerifyTask, TaskKind
    <3>2. tasks' = Append(tasks, t)
      BY <2>1 DEF DispatchVerification
    <3> HIDE DEF t
    <3>3. \A x : Has(tasks', x) => Has(tasks, x) \/ Exists(x.order)
      BY <3>1, <3>2, Queued
    <3>4. \A o \in evidence' : Exists(o)
      BY <2>1, <2>o, <1>e DEF DispatchVerification
    <3> QED BY <2>1, <1>e, <3>3, <3>4, SameRows DEF DispatchVerification, Exists
  <2>2. CASE DispatchFails(c, k)
    <3>1. \A o \in evidence' : Exists(o)
      BY <2>2, <2>o, <1>e DEF DispatchFails
    <3> QED BY <2>2, <1>e, <3>1, SameRows DEF DispatchFails, Exists
  <2>3. CASE NoPendingOrder(c, k)
    BY <2>3, <1>s DEF NoPendingOrder
  <2> QED BY <1>5, <2>1, <2>2, <2>3 DEF VerifyGoroutine
<1>6. ASSUME NEW o \in Order, TriggerCourier(o) PROVE RowsInv'
  <2> DEFINE m == [kind |-> "book_courier", order |-> o]
  <2>1. m \in Task /\ Exists(m.order)
    BY <1>6, <1>e DEF TriggerCourier, Task, CourierTask
  <2>2. tasks' = Append(tasks, m) \/ tasks' = tasks
    BY <1>6 DEF TriggerCourier
  <2> HIDE DEF m
  <2>3. \A t : Has(tasks', t) => Has(tasks, t) \/ Exists(t.order)
    <3>1. \A t : Has(Append(tasks, m), t) <=> Has(tasks, t) \/ t = m
      BY <2>1, Queued
    <3> QED BY <2>1, <2>2, <3>1
  <2>4. \A p \in Order : courierJobs'[p] > 0 => courierJobs[p] > 0
    BY <1>6 DEF TriggerCourier, TypeOK
  <2> QED BY <1>6, <1>e, <2>3, <2>4, SameRows DEF TriggerCourier, Exists
<1>7. ASSUME NEW o \in Order, Seller(o) PROVE RowsInv'
  <2>1. CASE ConfirmPayment(o)
    <3>1. /\ \A p \in Order : Exists(p)' <=> Exists(p)
          /\ \A p \in Order : courierJobs'[p] > 0 => courierJobs[p] > 0 \/ Exists(p)
      BY <2>1 DEF ConfirmPayment, Exists, TypeOK
    <3> QED BY <2>1, <1>e, <3>1, SameRows DEF ConfirmPayment
  <2>2. CASE RejectPayment(o)
    <3>1. \A p \in Order : Exists(p)' <=> Exists(p)
      BY <2>2 DEF RejectPayment, Exists, TypeOK
    <3> QED BY <2>2, <1>e, <3>1, SameRows DEF RejectPayment
  <2>3. CASE DispatchToCourier(o)
    <3> DEFINE m == [kind |-> "direct", order |-> o]
    <3>1. m \in Task /\ Exists(m.order)
      BY <2>3 DEF DispatchToCourier, Task, CourierTask, Exists
    <3>2. tasks' = Append(tasks, m)
      BY <2>3 DEF DispatchToCourier
    <3> HIDE DEF m
    <3>3. \A t : Has(tasks', t) => Has(tasks, t) \/ Exists(t.order)
      BY <3>1, <3>2, Queued
    <3> QED BY <2>3, <1>e, <3>3, SameRows DEF DispatchToCourier, Exists
  <2>4. ASSUME NEW s \in PayStatus, UpdatePayment(o, s) PROVE RowsInv'
    <3>1. \A p \in Order : Exists(p)' <=> Exists(p)
      BY <2>4, PaymentAssumption DEF UpdatePayment, Exists, TypeOK, PayStatus
    <3> QED BY <2>4, <1>e, <3>1, SameRows DEF UpdatePayment
  <2>5. ASSUME NEW s \in DelStatus, NEW t \in BOOLEAN, UpdateDelivery(o, s, t) PROVE RowsInv'
    BY <2>5, <1>s DEF UpdateDelivery
  <2> QED BY <1>7, <2>1, <2>2, <2>3, <2>4, <2>5 DEF Seller
<1>8. CASE CreateOrder
  <2>1. owner' = [owner EXCEPT ![NextOrder] = NoCustomer]
    BY <1>8, <1>q, NextIsNew DEF CreateOrder, TypeOK
  <2> QED BY <1>8, <2>1, NewRow DEF CreateOrder
<1>9. ASSUME NEW r \in VerifyResult \cup CourierResult, WorkTask(r) \/ WorkTaskTwice(r) PROVE RowsInv'
  <2>1. r \in Result /\ r \in Outcomes(Head(tasks)) /\ tasks # <<>> /\ results' = Append(results, r)
    BY <1>9 DEF Result, WorkTask, WorkTaskTwice
  <2>2. Exists(r.order)
    BY <2>1, HeadTask, OutcomeOf DEF RowsInv
  <2>3. \A x : Has(results', x) => Has(results, x) \/ Exists(x.order)
    BY <2>1, <2>2, Queued
  <2>4. \A t : Has(tasks', t) => Has(tasks, t)
    <3>1. \A t : Has(tasks, t) <=> Has(Tail(tasks), t) \/ t = Head(tasks)
      BY <2>1, Queued
    <3>2. tasks' \in {tasks, Tail(tasks)}
      BY <1>9 DEF WorkTask, WorkTaskTwice
    <3> QED BY <3>1, <3>2
  <2> QED BY <1>9, <1>e, <2>3, <2>4, SameRows DEF WorkTask, WorkTaskTwice, Exists
<1>10. CASE RetryTask \/ DeadLetterTask
  <2>1. \A t : Has(tasks', t) => Has(tasks, t)
    <3>1. tasks # <<>> /\ tasks \in Seq(Task)
      BY <1>10 DEF RetryTask, DeadLetterTask, TypeOK, Task
    <3>2. \A t : Has(Append(Tail(tasks), Head(tasks)), t) => Has(tasks, t)
      <4> DEFINE q == Tail(tasks)
                 h == Head(tasks)
      <4>1. q \in Seq(Task) /\ h \in Task /\ \A t : Has(tasks, t) <=> Has(q, t) \/ t = h
        BY <3>1, Consumed
      <4> HIDE DEF q, h
      <4>2. \A t : Has(Append(q, h), t) <=> Has(q, t) \/ t = h
        BY <4>1, Published
      <4> QED BY <4>1, <4>2 DEF q, h
    <3>3. \A t : Has(Tail(tasks), t) => Has(tasks, t)
      BY <3>1, Consumed
    <3> QED BY <1>10, <3>2, <3>3 DEF RetryTask, DeadLetterTask
  <2> QED BY <1>10, <1>e, <2>1, SameRows DEF RetryTask, DeadLetterTask, Exists
<1>12. CASE UNCHANGED vars
  BY <1>12, <1>s DEF vars
<1> QED BY <1>1, <1>2, <1>3, <1>4, <1>5, <1>6, <1>7, <1>8, <1>9, <1>10, <1>12 DEF Next, Work

\* The result the consumer is working on stays at the head until it is acknowledged.
LEMMA HeadStays ==
    ASSUME OrderInv, [Next]_vars, results # <<>>, ~AckResult
    PROVE  results' # <<>> /\ Head(results') = Head(results)
<1> USE DEF OrderInv
<1>1. ASSUME NEW x \in Result, results' = Append(results, x)
      PROVE  results' # <<>> /\ Head(results') = Head(results)
  BY <1>1, Published DEF TypeOK, Result
<1>2. CASE results' = results
  BY <1>2
<1>3. ASSUME NEW c \in Customer, NEW k \in ChatKind, ChatArrives(c, k)
      PROVE  results' # <<>> /\ Head(results') = Head(results)
  <2>1. [kind |-> k, cust |-> c] \in Result
    BY DEF Result, Chat
  <2> QED BY <1>1, <1>3, <2>1 DEF ChatArrives
<1>4. ASSUME NEW r \in VerifyResult \cup CourierResult, WorkTask(r) \/ WorkTaskTwice(r)
      PROVE  results' # <<>> /\ Head(results') = Head(results)
  BY <1>1, <1>4 DEF Result, WorkTask, WorkTaskTwice
<1> QED BY <1>2, <1>3, <1>4 DEF Next, Work, vars, HandleResult, CheckDuplicate, CreateOrderFromAI,
        StartVerification, SpawnCourier, ApplyVerification, ReplyDecision, ApplyCourierResult,
        GatewayCrash, GatewayRestart, VerifyGoroutine, DispatchVerification, DispatchFails,
        NoPendingOrder, TriggerCourier, Seller, ConfirmPayment, RejectPayment, DispatchToCourier,
        UpdatePayment, UpdateDelivery, CreateOrder, RetryTask, DeadLetterTask

\* The consumer's step changes in HandleResult, a crash or a restart only.
LEMMA WhoSteps == [Next]_vars => gpc' = gpc \/ HandleResult \/ GatewayCrash \/ GatewayRestart
  BY DEF Next, Work, vars, ChatArrives, VerifyGoroutine, DispatchVerification, DispatchFails,
     NoPendingOrder, TriggerCourier, Seller, ConfirmPayment, RejectPayment, DispatchToCourier,
     UpdatePayment, UpdateDelivery, CreateOrder, WorkTask, WorkTaskTwice, RetryTask, DeadLetterTask

\* The consumer is at a step of the result in flight.
LEMMA StepInductive == OrderInv /\ TypeOK' /\ [Next]_vars => StepInv'
<1> SUFFICES ASSUME OrderInv, TypeOK', [Next]_vars PROVE StepInv'
  OBVIOUS
<1> USE DEF OrderInv, IsHead
<1>1. ASSUME gpc' \in {"creating", "spawned", "decided"}
      PROVE  results # <<>> /\ results' # <<>> /\ Head(results') = Head(results)
  <2>1. ~AckResult /\ results # <<>>
    BY <1>1, WhoSteps DEF AckResult, HandleResult, GatewayCrash, GatewayRestart, CheckDuplicate,
       CreateOrderFromAI, StartVerification, SpawnCourier, ApplyVerification, ReplyDecision,
       ApplyCourierResult, TypeOK
  <2> QED BY <2>1, HeadStays
<1>2. gpc' = "creating" => IsHead({"finalize"})
  BY WhoSteps DEF StepInv, AckResult, HandleResult, GatewayCrash, GatewayRestart, CheckDuplicate,
     CreateOrderFromAI, StartVerification, SpawnCourier, ApplyVerification, ReplyDecision,
     ApplyCourierResult
<1>3. gpc' \in {"spawned", "decided"} => IsHead({"verify"})
  BY WhoSteps DEF StepInv, AckResult, HandleResult, GatewayCrash, GatewayRestart, CheckDuplicate,
     CreateOrderFromAI, StartVerification, SpawnCourier, ApplyVerification, ReplyDecision,
     ApplyCourierResult
<1> QED BY <1>1, <1>2, <1>3 DEF StepInv

\* What holds about types, rows and steps holds at the start and in every step.
THEOREM OrdersHold == Spec => []OrderInv
<1>1. Init => OrderInv
  <2> SUFFICES ASSUME Init PROVE OrderInv
    OBVIOUS
  <2>1. TypeOK
    BY PaymentAssumption DEF Init, TypeOK, PayStatus, DelStatus
  <2>2. RowsInv
    <3>1. 0 \in 0..MaxOrders /\ \A o \in Order : Exists(o) <=> o <= 0
      BY PaymentAssumption DEF Init, Exists, Order
    <3>2. Len(tasks) = 0 /\ Len(results) = 0
      BY DEF Init
    <3> QED BY <3>1, <3>2 DEF Init, RowsInv, Has
  <2>3. StepInv
    BY DEF Init, StepInv
  <2> QED BY <2>1, <2>2, <2>3 DEF OrderInv
<1>2. OrderInv /\ [Next]_vars => OrderInv'
  BY TypeInductive, RowsInductive, StepInductive DEF OrderInv
<1> QED BY <1>1, <1>2, PTL DEF Spec

\* Every variable has its type in every reachable state.
THEOREM TypeCorrect == Spec => []TypeOK
<1>1. OrderInv => TypeOK
  BY DEF OrderInv
<1> QED BY <1>1, OrdersHold, PTL

---------------------------------------------------------------------------
(* Proof of payment comes first *)

\* A verified result, a courier task and a courier goroutine are about a payment
\* that was found; a customer is told what the row has said.
PaidInv ==
    /\ \A o \in Order : courierJobs[o] > 0 => o \in proof
    /\ \A t : Has(tasks, t) /\ t.kind = "book_courier" => t.order \in proof
    /\ \A r : Has(results, r) /\ r.kind = "verify" /\ r.status = "verified" => r.order \in proof
    /\ toldVerified \subseteq everVerified
    /\ gpc = "decided" /\ Head(results).status = "verified" => Head(results).order \in everVerified

\* What was found or said is not forgotten.
LEMMA NothingForgotten == [Next]_vars => proof \subseteq proof' /\ everVerified \subseteq everVerified'
  BY DEF Next, Work, vars, HandleResult, CheckDuplicate, CreateOrderFromAI, AckResult,
     StartVerification, SpawnCourier, ApplyVerification, ReplyDecision, ApplyCourierResult,
     GatewayCrash, GatewayRestart, VerifyGoroutine, DispatchVerification, DispatchFails,
     NoPendingOrder, TriggerCourier, Seller, ConfirmPayment, RejectPayment, DispatchToCourier,
     UpdatePayment, UpdateDelivery, CreateOrder, WorkTask, WorkTaskTwice, RetryTask, DeadLetterTask,
     ChatArrives

\* What a step adds to the task queue: a task that was there, a verification, a
\* dashboard dispatch, or a courier task of a courier goroutine.
LEMMA WhenceTasks ==
    ASSUME OrderInv, [Next]_vars, NEW t, Has(tasks', t)
    PROVE  \/ Has(tasks, t)
           \/ t.kind \in {"trxid_check", "screenshot_ocr", "direct"}
           \/ t.kind = "book_courier" /\ t.order \in Order /\ courierJobs[t.order] > 0
<1> USE DEF OrderInv
<1>1. ASSUME NEW x \in Task, tasks' = Append(tasks, x) PROVE Has(tasks, t) \/ t = x
  BY <1>1, Queued
<1>2. CASE tasks' = tasks
  BY <1>2
<1>3. CASE tasks # <<>> /\ tasks' = Tail(tasks)
  <2>1. \A x : Has(tasks, x) <=> Has(Tail(tasks), x) \/ x = Head(tasks)
    BY <1>3, Queued
  <2> QED BY <1>3, <2>1
<1>4. CASE RetryTask
  <2> DEFINE q == Tail(tasks)
             h == Head(tasks)
  <2>1. q \in Seq(Task) /\ h \in Task /\ \A x : Has(tasks, x) <=> Has(q, x) \/ x = h
    BY <1>4, Consumed DEF RetryTask, TypeOK, Task
  <2>2. tasks' = Append(q, h)
    BY <1>4 DEF RetryTask
  <2> HIDE DEF q, h
  <2> QED BY <2>1, <2>2, Published
<1>5. ASSUME NEW c \in Customer, NEW k \in {"trxid", "screenshot"}, DispatchVerification(c, k)
      PROVE  Has(tasks, t) \/ t.kind \in {"trxid_check", "screenshot_ocr"}
  <2> DEFINE x == [kind |-> TaskKind(k), order |-> Newest(PendingOf(c))]
  <2>1. Newest(PendingOf(c)) \in Order
    BY <1>5, NewestOf DEF DispatchVerification, PendingOf
  <2>2. x \in Task /\ x.kind \in {"trxid_check", "screenshot_ocr"}
    BY <2>1 DEF Task, VerifyTask, TaskKind
  <2>3. tasks' = Append(tasks, x)
    BY <1>5 DEF DispatchVerification
  <2> HIDE DEF x
  <2> QED BY <1>1, <2>2, <2>3
<1>6. ASSUME NEW o \in Order, TriggerCourier(o)
      PROVE  Has(tasks, t) \/ (t.kind = "book_courier" /\ t.order \in Order /\ courierJobs[t.order] > 0)
  <2> DEFINE x == [kind |-> "book_courier", order |-> o]
  <2>1. x \in Task /\ x.kind = "book_courier" /\ x.order = o
    BY DEF Task, CourierTask
  <2>2. tasks' = Append(tasks, x) \/ tasks' = tasks
    BY <1>6 DEF TriggerCourier
  <2> HIDE DEF x
  <2> QED BY <1>1, <1>2, <1>6, <2>1, <2>2 DEF TriggerCourier
<1>7. ASSUME NEW o \in Order, DispatchToCourier(o)
      PROVE  Has(tasks, t) \/ t.kind = "direct"
  <2> DEFINE x == [kind |-> "direct", order |-> o]
  <2>1. x \in Task /\ x.kind = "direct"
    BY DEF Task, CourierTask
  <2>2. tasks' = Append(tasks, x)
    BY <1>7 DEF DispatchToCourier
  <2> HIDE DEF x
  <2> QED BY <1>1, <2>1, <2>2
<1> QED BY <1>2, <1>3, <1>4, <1>5, <1>6, <1>7 DEF Next, Work, vars, HandleResult, CheckDuplicate,
        CreateOrderFromAI, AckResult, StartVerification, SpawnCourier, ApplyVerification,
        ReplyDecision, ApplyCourierResult, GatewayCrash, GatewayRestart, VerifyGoroutine,
        DispatchFails, NoPendingOrder, Seller, ConfirmPayment, RejectPayment, UpdatePayment,
        UpdateDelivery, CreateOrder, WorkTask, WorkTaskTwice, DeadLetterTask, ChatArrives

\* A verified payment in a new result is on record as found.
LEMMA WhenceResults ==
    ASSUME OrderInv, [Next]_vars, NEW r, Has(results', r), r.kind = "verify", r.status = "verified"
    PROVE  Has(results, r) \/ r.order \in proof'
<1> USE DEF OrderInv
<1>1. ASSUME NEW x \in Result, results' = Append(results, x) PROVE Has(results, r) \/ r = x
  BY <1>1, Queued
<1>2. CASE results' = results
  BY <1>2
<1>3. CASE AckResult
  <2>1. \A x : Has(results, x) <=> Has(Tail(results), x) \/ x = Head(results)
    BY <1>3, Queued DEF AckResult, TypeOK
  <2> QED BY <1>3, <2>1 DEF AckResult
<1>4. ASSUME NEW c \in Customer, NEW k \in ChatKind, ChatArrives(c, k) PROVE Has(results, r)
  <2> DEFINE x == [kind |-> k, cust |-> c]
  <2>1. x \in Result /\ x.kind # "verify"
    BY DEF Result, Chat, ChatKind
  <2>2. results' = Append(results, x)
    BY <1>4 DEF ChatArrives
  <2> HIDE DEF x
  <2> QED BY <1>1, <2>1, <2>2
<1>5. ASSUME NEW x \in VerifyResult \cup CourierResult, WorkTask(x) \/ WorkTaskTwice(x)
      PROVE  Has(results, r) \/ r.order \in proof'
  BY <1>1, <1>5 DEF Result, WorkTask, WorkTaskTwice
<1> QED BY <1>2, <1>3, <1>4, <1>5 DEF Next, Work, vars, HandleResult, CheckDuplicate,
        CreateOrderFromAI, StartVerification, SpawnCourier, ApplyVerification,
        ReplyDecision, ApplyCourierResult, GatewayCrash, GatewayRestart, VerifyGoroutine,
        DispatchVerification, DispatchFails, NoPendingOrder, TriggerCourier, Seller, ConfirmPayment,
        RejectPayment, DispatchToCourier, UpdatePayment, UpdateDelivery, CreateOrder, RetryTask,
        DeadLetterTask

\* No step sends a courier or a reply before the payment was found.
LEMMA PaidInductive == OrderInv /\ OrderInv' /\ PaidInv /\ [Next]_vars => PaidInv'
<1> SUFFICES ASSUME OrderInv, OrderInv', PaidInv, [Next]_vars PROVE PaidInv'
  OBVIOUS
<1> USE DEF OrderInv
<1>1. \A o \in Order : courierJobs'[o] > 0 => o \in proof'
  <2>1. ASSUME SpawnCourier PROVE \A o \in Order : courierJobs'[o] > 0 => o \in proof
    <3>1. Has(results, Head(results)) /\ Head(results).kind = "verify"
      BY <2>1, HeadResult DEF SpawnCourier, IsHead
    <3> QED BY <2>1, <3>1, HeadResult DEF SpawnCourier, PaidInv, TypeOK
  <2>2. ASSUME NEW p \in Order, ConfirmPayment(p) PROVE \A o \in Order : courierJobs'[o] > 0 => o \in proof'
    BY <2>2 DEF ConfirmPayment, PaidInv, TypeOK
  <2>3. ASSUME NEW p \in Order, TriggerCourier(p) PROVE \A o \in Order : courierJobs'[o] > 0 => o \in proof
    BY <2>3 DEF TriggerCourier, PaidInv, TypeOK
  <2>4. CASE GatewayCrash
    BY <2>4 DEF GatewayCrash
  <2>5. CASE courierJobs' = courierJobs
    BY <2>5, NothingForgotten DEF PaidInv
  <2> QED BY <2>1, <2>2, <2>3, <2>4, <2>5, NothingForgotten DEF Next, Work, vars, HandleResult,
          CheckDuplicate, CreateOrderFromAI, AckResult, StartVerification, ApplyVerification,
          ReplyDecision, ApplyCourierResult, GatewayRestart, VerifyGoroutine, DispatchVerification,
          DispatchFails, NoPendingOrder, Seller, RejectPayment, DispatchToCourier, UpdatePayment,
          UpdateDelivery, CreateOrder, WorkTask, WorkTaskTwice, RetryTask, DeadLetterTask, ChatArrives
<1>2. \A t : Has(tasks', t) /\ t.kind = "book_courier" => t.order \in proof'
  BY WhenceTasks, NothingForgotten DEF PaidInv
<1>3. \A r : Has(results', r) /\ r.kind = "verify" /\ r.status = "verified" => r.order \in proof'
  BY WhenceResults, NothingForgotten DEF PaidInv
<1>4. toldVerified' \subseteq everVerified'
  <2>1. CASE ReplyDecision
    BY <2>1 DEF ReplyDecision, PaidInv
  <2>2. ASSUME NEW o \in Order, ConfirmPayment(o) PROVE toldVerified' \subseteq everVerified'
    BY <2>2 DEF ConfirmPayment, PaidInv
  <2>3. CASE toldVerified' = toldVerified
    BY <2>3, NothingForgotten DEF PaidInv
  <2> QED BY <2>1, <2>2, <2>3 DEF Next, Work, vars, HandleResult,
          CheckDuplicate, CreateOrderFromAI, AckResult, StartVerification, SpawnCourier, TriggerCourier,
          ApplyVerification, GatewayCrash,
          ApplyCourierResult, GatewayRestart, VerifyGoroutine, DispatchVerification,
          DispatchFails, NoPendingOrder, Seller, RejectPayment, DispatchToCourier, UpdatePayment,
          UpdateDelivery, CreateOrder, WorkTask, WorkTaskTwice, RetryTask, DeadLetterTask, ChatArrives
<1>5. gpc' = "decided" /\ Head(results').status = "verified" => Head(results').order \in everVerified'
  <2> SUFFICES ASSUME gpc' = "decided", Head(results').status = "verified"
               PROVE  Head(results').order \in everVerified'
    OBVIOUS
  <2>1. ApplyVerification \/ (gpc = "decided" /\ ~HandleResult)
    BY WhoSteps DEF HandleResult, AckResult, GatewayCrash, GatewayRestart, CheckDuplicate,
       CreateOrderFromAI, StartVerification, SpawnCourier, ReplyDecision, ApplyCourierResult
  <2>2. ~AckResult /\ results # <<>>
    BY <2>1 DEF HandleResult, AckResult, ApplyVerification, TypeOK
  <2>3. Head(results') = Head(results)
    BY <2>2, HeadStays
  <2> QED BY <2>1, <2>3, NothingForgotten DEF ApplyVerification, PaidInv
<1>6. /\ \A t : Has(tasks, t)' /\ t.kind = "book_courier" => t.order \in proof'
      /\ \A r : Has(results, r)' /\ r.kind = "verify" /\ r.status = "verified" => r.order \in proof'
  BY <1>2, <1>3 DEF Has
<1> QED BY <1>1, <1>4, <1>5, <1>6 DEF PaidInv

\* A courier is sent, and a customer told, only after a verification or the seller
\* found the order paid (agents/handler.go): in every instance, crashes included.
THEOREM ProofFirst == Spec => []ProofComesFirst
<1>1. Init => PaidInv
  <2> SUFFICES ASSUME Init PROVE PaidInv
    OBVIOUS
  <2>1. Len(tasks) = 0 /\ Len(results) = 0
    BY DEF Init
  <2> QED BY <2>1 DEF Init, PaidInv, Has
<1>2. OrderInv /\ OrderInv' /\ PaidInv /\ [Next]_vars => PaidInv'
  BY PaidInductive
<1>3. PaidInv => ProofComesFirst
  BY DEF PaidInv, ProofComesFirst, InSeq, Has
<1> QED BY <1>1, <1>2, <1>3, OrdersHold, PTL DEF Spec

---------------------------------------------------------------------------
(* One pending order for each customer *)

\* But for the orders the seller opened again.
OneInv ==
    /\ \A c \in Customer : \A o, p \in PendingOf(c) \ reopened : o = p
    /\ gpc = "creating" => PendingOf(Head(results).cust) \subseteq reopened

\* It is not forgotten which they are.
LEMMA ReopenedStays == [Next]_vars => reopened \subseteq reopened'
<1>1. ASSUME NEW o \in Order, Seller(o) PROVE reopened \subseteq reopened'
  BY <1>1 DEF Seller, ConfirmPayment, RejectPayment, DispatchToCourier, UpdatePayment, UpdateDelivery
<1>2. HandleResult => reopened' = reopened
  BY DEF HandleResult, CheckDuplicate, CreateOrderFromAI, StartVerification, SpawnCourier,
     ApplyVerification, ReplyDecision, ApplyCourierResult, AckResult
<1> QED BY <1>1, <1>2 DEF Next, Work, vars, GatewayCrash, GatewayRestart, VerifyGoroutine,
        DispatchVerification, DispatchFails, NoPendingOrder, TriggerCourier, CreateOrder, WorkTask,
        WorkTaskTwice, RetryTask, DeadLetterTask, ChatArrives

\* An order is pending that was so before, or that is created, or opened again.
LEMMA WhencePending ==
    ASSUME OrderInv, [Next]_vars, NEW o \in Order, pay'[o] = "pending", o \notin reopened'
    PROVE  \/ pay[o] = "pending" /\ owner'[o] = owner[o]
           \/ ~Exists(o) /\ CreateOrderFromAI /\ owner'[o] = Head(results).cust
           \/ ~Exists(o) /\ owner'[o] = NoCustomer
<1> USE DEF OrderInv
<1>1. CASE HandleResult
  <2>1. CASE CreateOrderFromAI
    <3>1. NextOrder \in Order => ~Exists(NextOrder)
      BY NextIsNew
    <3> QED BY <2>1, <3>1 DEF CreateOrderFromAI, TypeOK
  <2>2. CASE ApplyVerification
    <3>1. Head(results).status # "pending" /\ Head(results).order \in Order
      BY <2>2, HeadResult DEF ApplyVerification, StepInv, IsHead
    <3> QED BY <2>2, <3>1 DEF ApplyVerification, TypeOK
  <2>3. CASE ApplyCourierResult
    <3>1. Head(results).status # "pending" /\ Head(results).order \in Order
      BY <2>3, HeadResult DEF ApplyCourierResult, IsHead
    <3> QED BY <2>3, <3>1 DEF ApplyCourierResult, TypeOK
  <2> QED BY <1>1, <2>1, <2>2, <2>3 DEF HandleResult, CheckDuplicate, AckResult, StartVerification,
          SpawnCourier, ReplyDecision
<1>2. ASSUME NEW p \in Order, Seller(p) PROVE pay[o] = "pending" /\ owner'[o] = owner[o]
  BY <1>2 DEF Seller, ConfirmPayment, RejectPayment, DispatchToCourier, UpdatePayment, UpdateDelivery,
     TypeOK
<1>3. CASE CreateOrder
  <2>1. ~Exists(NextOrder) /\ owner[NextOrder] = NoCustomer
    BY <1>3, NextIsNew DEF CreateOrder
  <2> QED BY <1>3, <2>1 DEF CreateOrder, TypeOK
<1>4. CASE UNCHANGED <<pay, owner>>
  BY <1>4
<1> QED BY <1>1, <1>2, <1>3, <1>4 DEF Next, Work, vars, GatewayCrash, GatewayRestart, VerifyGoroutine,
        DispatchVerification, DispatchFails, NoPendingOrder, TriggerCourier, WorkTask, WorkTaskTwice,
        RetryTask, DeadLetterTask, ChatArrives

\* The duplicate check still holds when the order is created: nothing else gives
\* the customer a pending order in between.
LEMMA OneInductive == OrderInv /\ OneInv /\ [Next]_vars => OneInv'
<1> SUFFICES ASSUME OrderInv, OneInv, [Next]_vars PROVE OneInv'
  OBVIOUS
<1> USE PaymentAssumption DEF OrderInv
<1> DEFINE Open(c) == PendingOf(c) \ reopened
<1>1. ASSUME NEW c \in Customer, NEW o \in Open(c)'
      PROVE  o \in Open(c) \/ (CreateOrderFromAI /\ ~Exists(o) /\ c = Head(results).cust)
  <2>1. o \in Order /\ pay'[o] = "pending" /\ owner'[o] = c /\ o \notin reopened'
    BY DEF PendingOf
  <2>2. o \notin reopened
    BY <2>1, ReopenedStays
  <2> QED BY <2>1, <2>2, WhencePending DEF PendingOf
<1>2. CASE CreateOrderFromAI
  <2>1. \A c \in Customer : \A o \in Open(c)' : o \in Open(c) \/ (o = NextOrder /\ Open(c) = {})
    <3>1. ASSUME NEW c \in Customer, NEW o \in Open(c)', o \notin Open(c)
          PROVE  o = NextOrder
      BY <1>2, <1>1, <3>1 DEF CreateOrderFromAI, PendingOf, Exists, TypeOK
    <3> QED BY <1>1, <1>2, <3>1 DEF OneInv, CreateOrderFromAI
  <2>2. \A c \in Customer : \A o, p \in Open(c)' : o = p
    BY <2>1 DEF OneInv
  <2> QED BY <1>2, <2>2 DEF OneInv, CreateOrderFromAI
<1>3. CASE ~CreateOrderFromAI
  <2>1. \A c \in Customer : Open(c)' \subseteq Open(c)
    BY <1>1, <1>3
  <2>2. ASSUME gpc' = "creating"
        PROVE  /\ Head(results') = Head(results) /\ Head(results).cust \in Customer
               /\ Open(Head(results).cust) = {}
    <3>1. CheckDuplicate \/ gpc = "creating"
      BY <2>2, WhoSteps DEF HandleResult, AckResult, GatewayCrash, GatewayRestart,
         CreateOrderFromAI, StartVerification, SpawnCourier, ApplyVerification, ReplyDecision,
         ApplyCourierResult
    <3>2. IsHead({"finalize"}) /\ ~AckResult /\ Open(Head(results).cust) = {}
      BY <2>2, <3>1 DEF CheckDuplicate, AckResult, StepInv, OneInv
    <3> QED BY <3>2, HeadResult, HeadStays DEF IsHead, ChatKind
  <2>3. \A c \in Customer : \A o, p \in Open(c)' : o = p
    BY <2>1 DEF OneInv
  <2>4. gpc' = "creating" => PendingOf(Head(results).cust)' \subseteq reopened'
    <3> SUFFICES ASSUME gpc' = "creating"
                 PROVE  {o \in Order : owner'[o] = Head(results').cust /\ pay'[o] = "pending"}
                          \subseteq reopened'
      BY DEF PendingOf
    <3>1. {o \in Order : owner'[o] = Head(results).cust /\ pay'[o] = "pending"} \subseteq reopened'
      BY <2>1, <2>2 DEF PendingOf
    <3> QED BY <2>2, <3>1
  <2> QED BY <2>3, <2>4 DEF OneInv
<1> QED BY <1>2, <1>3

\* A customer never has two orders that await payment, but for those a seller
\* set back to pending: however chats, crashes and repeated results interleave,
\* since results are handled one at a time.
THEOREM OnePending == Spec => []OnePendingPerCustomer
<1>1. Init => OneInv
  BY PaymentAssumption DEF Init, OneInv, PendingOf
<1>2. OrderInv /\ OneInv /\ [Next]_vars => OneInv'
  BY OneInductive
<1>3. OneInv => OnePendingPerCustomer
  <2> SUFFICES ASSUME OneInv, NEW c \in Customer
               PROVE  Cardinality(PendingOf(c) \ reopened) <= 1
    BY DEF OnePendingPerCustomer
  <2>1. CASE PendingOf(c) \ reopened = {}
    BY <2>1, FS_EmptySet
  <2>2. ASSUME NEW o \in PendingOf(c) \ reopened PROVE Cardinality(PendingOf(c) \ reopened) <= 1
    <3>1. PendingOf(c) \ reopened = {o}
      BY <2>2 DEF OneInv
    <3>2. Cardinality({o}) = 1
      BY FS_Singleton
    <3> QED BY <3>1, <3>2
  <2> QED BY <2>1, <2>2
<1> QED BY <1>1, <1>2, <1>3, OrdersHold, PTL DEF Spec

---------------------------------------------------------------------------
(* Evidence is followed up *)

\* Order o is being verified: its task waits, or its result does.
InFlight(o) ==
    \/ \E t : Has(tasks, t) /\ t \in VerifyTask /\ t.order = o
    \/ \E r : Has(results, r) /\ r.kind = "verify" /\ r.order = o

\* A result is acknowledged after it has decided on its order, which only the
\* seller can undo.
EvidenceInv ==
    /\ gpc \in {"decided", "acted"} /\ IsHead({"verify"})
         => pay[Head(results).order] # "pending" \/ Head(results).order \in reopened
    /\ faults = 0 => \A o \in evidence \ reopened : pay[o] = "pending" => InFlight(o)

\* A result that is acknowledged has decided on its order, and no step but the
\* seller's opens it again.
LEMMA DecidedStays ==
    ASSUME OrderInv, OrderInv', EvidenceInv, [Next]_vars,
           gpc' \in {"decided", "acted"}, IsHead({"verify"})'
    PROVE  pay'[Head(results').order] # "pending" \/ Head(results').order \in reopened'
<1> USE DEF OrderInv, IsHead
<1>1. ~AckResult /\ results # <<>>
  BY WhoSteps DEF AckResult, HandleResult, GatewayCrash, GatewayRestart, CheckDuplicate,
     CreateOrderFromAI, StartVerification, SpawnCourier, ApplyVerification, ReplyDecision,
     ApplyCourierResult, TypeOK
<1>2. Head(results') = Head(results) /\ Head(results).kind = "verify"
  BY <1>1, HeadStays
<1>3. Head(results).order \in Order /\ Exists(Head(results).order)
      /\ Head(results).status # "pending"
  BY <1>1, <1>2, HeadResult DEF RowsInv
<1>4. ApplyVerification \/ gpc \in {"decided", "acted"}
  BY <1>1, <1>2, WhoSteps DEF HandleResult, GatewayCrash, GatewayRestart, CheckDuplicate,
     CreateOrderFromAI, StartVerification, SpawnCourier, ApplyVerification, ReplyDecision,
     ApplyCourierResult, StepInv
<1>5. CASE ApplyVerification
  BY <1>2, <1>3, <1>5 DEF ApplyVerification, TypeOK
<1>6. CASE gpc \in {"decided", "acted"}
  <2>1. pay[Head(results).order] # "pending" \/ Head(results).order \in reopened
    BY <1>1, <1>2, <1>6 DEF EvidenceInv
  <2> QED BY <1>2, <1>3, <2>1, WhencePending, ReopenedStays
<1> QED BY <1>4, <1>5, <1>6

\* Without a fault, a verification task becomes its result, and a result leaves
\* the queue when it is acknowledged.
LEMMA FlightGoesOn ==
    ASSUME OrderInv, EvidenceInv, [Next]_vars, faults' = faults, NEW o \in Order,
           pay[o] = "pending", o \notin reopened, InFlight(o)
    PROVE  InFlight(o)'
<1> USE DEF OrderInv
<1>1. ASSUME NEW t, Has(tasks, t), t \in VerifyTask, t.order = o
      PROVE  Has(tasks', t) \/ \E r : Has(results', r) /\ r.kind = "verify" /\ r.order = o
  <2>1. ASSUME NEW x \in Task, tasks' = Append(tasks, x) PROVE Has(tasks', t)
    BY <1>1, <2>1, Queued
  <2>2. ASSUME NEW r \in VerifyResult \cup CourierResult, WorkTask(r)
        PROVE  Has(tasks', t) \/ \E x : Has(results', x) /\ x.kind = "verify" /\ x.order = o
    <3>1. tasks # <<>> /\ tasks' = Tail(tasks) /\ results' = Append(results, r)
      BY <2>2 DEF WorkTask
    <3>2. Has(tasks', t) \/ t = Head(tasks)
      <4>1. \A x : Has(tasks, x) <=> Has(Tail(tasks), x) \/ x = Head(tasks)
        BY <3>1, Queued
      <4> QED BY <1>1, <3>1, <4>1
    <3>3. t = Head(tasks) => r.kind = "verify" /\ r.order = o
      BY <1>1, <2>2, OutcomeOf DEF Task, WorkTask
    <3>4. Has(results', r)
      BY <3>1, Queued DEF Result
    <3> QED BY <3>2, <3>3, <3>4
  <2>3. ASSUME NEW c \in Customer, NEW k \in {"trxid", "screenshot"}, DispatchVerification(c, k)
        PROVE  Has(tasks', t)
    <3>1. Newest(PendingOf(c)) \in Order
      BY <2>3, NewestOf DEF DispatchVerification, PendingOf
    <3>2. [kind |-> TaskKind(k), order |-> Newest(PendingOf(c))] \in Task
      BY <3>1 DEF Task, VerifyTask, TaskKind
    <3> QED BY <2>1, <2>3, <3>2 DEF DispatchVerification
  <2>4. ASSUME NEW p \in Order, TriggerCourier(p) PROVE Has(tasks', t)
    <3>1. [kind |-> "book_courier", order |-> p] \in Task
      BY DEF Task, CourierTask
    <3> QED BY <1>1, <2>1, <2>4, <3>1 DEF TriggerCourier
  <2>5. ASSUME NEW p \in Order, DispatchToCourier(p) PROVE Has(tasks', t)
    <3>1. [kind |-> "direct", order |-> p] \in Task
      BY DEF Task, CourierTask
    <3> QED BY <2>1, <2>5, <3>1 DEF DispatchToCourier
  <2>6. CASE tasks' = tasks
    BY <1>1, <2>6
  <2>7. faults' # faults + 1
    BY DEF TypeOK
  <2> QED BY <2>2, <2>3, <2>4, <2>5, <2>6, <2>7 DEF Next, Work, vars, HandleResult, CheckDuplicate,
          CreateOrderFromAI, AckResult, StartVerification, SpawnCourier, ApplyVerification,
          ReplyDecision, ApplyCourierResult, GatewayCrash, GatewayRestart, VerifyGoroutine,
          DispatchFails, NoPendingOrder, Seller, ConfirmPayment, RejectPayment, UpdatePayment,
          UpdateDelivery, CreateOrder, WorkTaskTwice, RetryTask, DeadLetterTask, ChatArrives
<1>2. ASSUME NEW r, Has(results, r), r.kind = "verify", r.order = o PROVE Has(results', r)
  <2>1. ASSUME NEW x \in Result, results' = Append(results, x) PROVE Has(results', r)
    BY <1>2, <2>1, Queued
  <2>2. CASE AckResult
    <3>1. results # <<>> /\ (Has(Tail(results), r) \/ r = Head(results))
      BY <1>2, <2>2, Queued DEF AckResult, TypeOK
    <3>2. r # Head(results)
      BY <1>2, <2>2, <3>1 DEF AckResult, EvidenceInv, IsHead
    <3> QED BY <2>2, <3>1, <3>2 DEF AckResult
  <2>3. ASSUME NEW c \in Customer, NEW k \in ChatKind, ChatArrives(c, k) PROVE Has(results', r)
    <3>1. [kind |-> k, cust |-> c] \in Result
      BY DEF Result, Chat
    <3> QED BY <2>1, <2>3, <3>1 DEF ChatArrives
  <2>4. ASSUME NEW x \in VerifyResult \cup CourierResult, WorkTask(x) \/ WorkTaskTwice(x)
        PROVE  Has(results', r)
    BY <2>1, <2>4 DEF WorkTask, WorkTaskTwice, Result
  <2>5. CASE results' = results
    BY <1>2, <2>5
  <2> QED BY <2>2, <2>3, <2>4, <2>5 DEF Next, Work, vars, HandleResult, CheckDuplicate,
          CreateOrderFromAI, StartVerification, SpawnCourier, ApplyVerification,
          ReplyDecision, ApplyCourierResult, GatewayCrash, GatewayRestart, VerifyGoroutine,
          DispatchVerification, DispatchFails, NoPendingOrder, TriggerCourier, Seller, ConfirmPayment,
          RejectPayment, DispatchToCourier, UpdatePayment, UpdateDelivery, CreateOrder, RetryTask,
          DeadLetterTask
<1> QED BY <1>1, <1>2 DEF InFlight, Has

\* Faults are only counted up ...
LEMMA FaultsCount == [Next]_vars => faults' = faults \/ faults' = faults + 1
<1>1. ASSUME NEW c \in Customer, NEW k \in {"trxid", "screenshot"}, VerifyGoroutine(c, k)
      PROVE  faults' = faults \/ faults' = faults + 1
  BY <1>1 DEF VerifyGoroutine, DispatchVerification, DispatchFails, NoPendingOrder
<1>2. ASSUME NEW o \in Order, TriggerCourier(o) \/ Seller(o) PROVE faults' = faults
  BY <1>2 DEF TriggerCourier, Seller, ConfirmPayment, RejectPayment, DispatchToCourier,
     UpdatePayment, UpdateDelivery
<1>3. HandleResult => faults' = faults
  BY DEF HandleResult, CheckDuplicate, CreateOrderFromAI, AckResult, StartVerification, SpawnCourier,
     ApplyVerification, ReplyDecision, ApplyCourierResult
<1> QED BY <1>1, <1>2, <1>3 DEF Next, Work, vars, GatewayCrash, GatewayRestart, CreateOrder, WorkTask,
        WorkTaskTwice, RetryTask, DeadLetterTask, ChatArrives

\* ... and evidence is saved by a goroutine that dispatches its verification, or fails to.
LEMMA WhoSaves ==
    ASSUME [Next]_vars, evidence' # evidence, faults' # faults + 1
    PROVE  \E c \in Customer, k \in {"trxid", "screenshot"} : DispatchVerification(c, k)
<1>1. ASSUME NEW c \in Customer, NEW k \in {"trxid", "screenshot"}, VerifyGoroutine(c, k)
      PROVE  DispatchVerification(c, k)
  BY <1>1 DEF VerifyGoroutine, DispatchFails, NoPendingOrder
<1>2. ASSUME NEW o \in Order, TriggerCourier(o) \/ Seller(o) PROVE evidence' = evidence
  BY <1>2 DEF TriggerCourier, Seller, ConfirmPayment, RejectPayment, DispatchToCourier,
     UpdatePayment, UpdateDelivery
<1>3. HandleResult => evidence' = evidence
  BY DEF HandleResult, CheckDuplicate, CreateOrderFromAI, AckResult, StartVerification, SpawnCourier,
     ApplyVerification, ReplyDecision, ApplyCourierResult
<1> QED BY <1>1, <1>2, <1>3 DEF Next, Work, vars, GatewayCrash, GatewayRestart, CreateOrder, WorkTask,
        WorkTaskTwice, RetryTask, DeadLetterTask, ChatArrives

\* Evidence is saved with the task that verifies it, unless the dispatch fails.
LEMMA EvidenceInductive == OrderInv /\ OrderInv' /\ EvidenceInv /\ [Next]_vars => EvidenceInv'
<1> SUFFICES ASSUME OrderInv, OrderInv', EvidenceInv, [Next]_vars PROVE EvidenceInv'
  OBVIOUS
<1> USE DEF OrderInv
<1>1. gpc' \in {"decided", "acted"} /\ IsHead({"verify"})'
        => pay'[Head(results').order] # "pending" \/ Head(results').order \in reopened'
  BY DecidedStays
<1>2. ASSUME faults' = 0, NEW o \in evidence', o \notin reopened', pay'[o] = "pending" PROVE InFlight(o)'
  <2>1. faults = 0
    BY <1>2, FaultsCount DEF TypeOK
  <2>o. o \notin reopened
    BY <1>2, ReopenedStays
  <2>2. CASE o \in evidence
    <3>1. o \in Order /\ pay[o] = "pending"
      BY <1>2, <2>2, WhencePending DEF RowsInv, TypeOK
    <3> QED BY <1>2, <2>1, <2>2, <2>o, <3>1, FlightGoesOn DEF EvidenceInv
  <2>3. CASE o \notin evidence
    <3>1. PICK c \in Customer, k \in {"trxid", "screenshot"} :
               DispatchVerification(c, k) /\ o = Newest(PendingOf(c))
      <4>1. faults' # faults + 1
        BY <1>2, <2>1
      <4>2. PICK c \in Customer, k \in {"trxid", "screenshot"} : DispatchVerification(c, k)
        BY <1>2, <2>3, <4>1, WhoSaves
      <4> QED BY <1>2, <2>3, <4>2 DEF DispatchVerification
    <3> DEFINE t == [kind |-> TaskKind(k), order |-> o]
    <3>2. t \in VerifyTask /\ t \in Task /\ t.order = o
      BY <1>2 DEF TypeOK, Task, VerifyTask, TaskKind
    <3>3. tasks' = Append(tasks, t)
      BY <3>1 DEF DispatchVerification
    <3> HIDE DEF t
    <3>4. Has(tasks', t)
      BY <3>2, <3>3, Queued
    <3> QED BY <3>2, <3>4 DEF InFlight, Has
  <2> QED BY <2>2, <2>3
<1> QED BY <1>1, <1>2 DEF EvidenceInv

\* Saved evidence of a pending order is being verified, as long as there is no
\* fault and the order was not set back to pending by the seller: the task is published, worked on and its result is handled before it is
\* acknowledged.
THEOREM EvidenceFollowed == Spec => []EvidenceIsFollowedUp
<1>1. Init => EvidenceInv
  BY DEF Init, EvidenceInv
<1>2. OrderInv /\ OrderInv' /\ EvidenceInv /\ [Next]_vars => EvidenceInv'
  BY EvidenceInductive
<1>3. EvidenceInv => EvidenceIsFollowedUp
  BY DEF EvidenceInv, EvidenceIsFollowedUp, InFlight, VerifyInFlight, InSeq, Has
<1> QED BY <1>1, <1>2, <1>3, OrdersHold, PTL DEF Spec

==============================================================================
