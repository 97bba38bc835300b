------------------------ MODULE TaskPipelineProofs ------------------------
(* Proofs about TaskPipeline, for every value of its constants. *)
EXTENDS TaskPipeline, FiniteSetTheorems, TLAPS

\* The definitions that frame every action.
USE DEF vars, httpVars, brokerVars, workerVars, resultVars, boundVars

---------------------------------------------------------------------------
(* The results queue *)

\* Appending a result keeps the queue well typed and not empty.
LEMMA AppendResult ==
    ASSUME NEW q \in Seq(Result), NEW r \in Result
    PROVE  /\ Append(q, r) \in Seq(Result)
           /\ Append(q, r) # <<>>
           /\ q # <<>> => Head(Append(q, r)) = Head(q)
           /\ \A i \in 1..Len(q) : Append(q, r)[i] = q[i] /\ i \in 1..Len(Append(q, r))
           /\ Len(q) + 1 \in 1..Len(Append(q, r)) /\ Append(q, r)[Len(q) + 1] = r
           /\ \A i \in 1..Len(Append(q, r)) : i \in 1..Len(q) \/ Append(q, r)[i] = r
  OBVIOUS

\* The head of a queue that is not empty is one of its results, and every
\* other result stays when the head is removed.
LEMMA TailResult ==
    ASSUME NEW q \in Seq(Result), q # <<>>
    PROVE  /\ Head(q) \in Result
           /\ Head(q) = q[1] /\ 1 \in 1..Len(q)
           /\ Tail(q) \in Seq(Result)
           /\ \A i \in 1..Len(q) : i = 1 \/
                 (i - 1 \in 1..Len(Tail(q)) /\ Tail(q)[i - 1] = q[i])
           /\ \A i \in 1..Len(Tail(q)) : i + 1 \in 1..Len(q) /\ Tail(q)[i] = q[i + 1]
  OBVIOUS

---------------------------------------------------------------------------
(* Task messages *)

\* The first publish is a message of its task.
LEMMA FirstTryType ==
    ASSUME NEW t \in Task PROVE FirstTry(t) \in Msg /\ FirstTry(t).task = t
  BY BoundsAssumption DEF FirstTry, Msg

\* Until the retries are used up, the next try is a message of its task.
LEMMA NextTryType ==
    ASSUME NEW m \in Msg, m.retry < MaxRetries
    PROVE  NextTry(m) \in Msg /\ NextTry(m).task = m.task
  BY BoundsAssumption DEF NextTry, Msg

---------------------------------------------------------------------------
(* Type correctness *)

\* Every variable keeps its type; a worker holds a delivery exactly in the
\* middle of _handle_message, and a result being handled is in its queue.
THEOREM TypeCorrect == Spec => []TypeOK
<1>1. Init => TypeOK
  BY BoundsAssumption, NoMsgAssumption
     DEF Init, TypeOK, ReqState, RowState, WorkerState, GatewayState
<1>2. TypeOK /\ [Next]_vars => TypeOK'
  <2> SUFFICES ASSUME TypeOK, [Next]_vars PROVE TypeOK'
    OBVIOUS
  <2> USE BoundsAssumption, NoMsgAssumption
      DEF TypeOK, ReqState, RowState, WorkerState, GatewayState, DeadReason
  <2>1. ASSUME NEW t \in Task, RunAgent(t) PROVE TypeOK'
    <3>1. FirstTry(t) \in Msg
      BY FirstTryType
    <3>2. CASE CheckLimit(t)
      BY <3>2 DEF CheckLimit
    <3>3. CASE CreateTask(t)
      BY <3>3 DEF CreateTask
    <3>4. CASE PublishTask(t)
      BY <3>1, <3>4 DEF PublishTask
    <3>5. CASE PublishRefused(t)
      BY <3>5 DEF PublishRefused
    <3>6. CASE PublishUnconfirmed(t)
      BY <3>6 DEF PublishUnconfirmed
    <3> QED BY <2>1, <3>2, <3>3, <3>4, <3>5, <3>6 DEF RunAgent
  <2>2. ASSUME NEW t \in Task, DispatchInternal(t) PROVE TypeOK'
    <3>1. FirstTry(t) \in Msg
      BY FirstTryType
    <3> QED BY <2>2, <3>1 DEF DispatchInternal
  <2>3. ASSUME NEW t \in Task, DeleteTask(t) PROVE TypeOK'
    BY <2>3 DEF DeleteTask
  <2>4. ASSUME NEW m \in Msg, Expire(m) PROVE TypeOK'
    <3>1. m.task \in Task
      BY DEF Msg
    <3> QED BY <2>4, <3>1 DEF Expire
  <2>5. ASSUME NEW m \in Msg, Deliver(m) PROVE TypeOK'
    <3>1. m.task \in Task
      BY DEF Msg
    <3> QED BY <2>5, <3>1 DEF Deliver
  <2>6. ASSUME HandleMessage PROVE TypeOK'
    <3>1. wpc \notin {"idle", "dead", "stopped"} => hold \in Msg /\ hold.task \in Task
      BY DEF Msg
    <3>2. CASE ProcessTask
      BY <3>2, <3>1 DEF ProcessTask
    <3>3. CASE SaveOutput
      BY <3>3, <3>1 DEF SaveOutput
    <3>4. CASE PublishCompleted
      <4>1. [task |-> hold.task, status |-> "completed"] \in Result
        BY <3>1, <3>4 DEF PublishCompleted, PublishResult, Result
      <4> QED BY <3>4, <3>1, <4>1, AppendResult DEF PublishCompleted, PublishResult
    <3>5. CASE Raise
      BY <3>5, <3>1 DEF Raise
    <3>6. CASE RepublishRetry
      <4>1. NextTry(hold) \in Msg
        BY <3>1, <3>6, NextTryType DEF RepublishRetry
      <4> QED BY <3>6, <3>1, <4>1 DEF RepublishRetry
    <3>7. CASE PublishFailed
      <4>1. [task |-> hold.task, status |-> "failed"] \in Result
        BY <3>1, <3>7 DEF PublishFailed, PublishResult, Result
      <4> QED BY <3>7, <3>1, <4>1, AppendResult DEF PublishFailed, PublishResult
    <3>8. CASE Ack
      BY <3>8, <3>1 DEF Ack
    <3>9. CASE RejectToDLQ
      BY <3>9, <3>1 DEF RejectToDLQ
    <3> QED BY <2>6, <3>2, <3>3, <3>4, <3>5, <3>6, <3>7, <3>8, <3>9 DEF HandleMessage
  <2>7. CASE WorkerCrash \/ WorkerDisconnect
    <3>1. PICK how \in {"dead", "stopped"} : WorkerStops(how)
      BY <2>7 DEF WorkerCrash, WorkerDisconnect
    <3> QED BY <3>1 DEF WorkerStops
  <2>8. CASE WorkerRestart
    BY <2>8 DEF WorkerRestart
  <2>9. ASSUME HandleResult PROVE TypeOK'
    <3>1. results # <<>> => /\ Head(results) \in Result
                            /\ Head(results).task \in Task
                            /\ Head(results).status \in {"completed", "failed"}
                            /\ Tail(results) \in Seq(Result)
      BY TailResult DEF Result
    <3>2. CASE ApplyActions
      BY <3>2, <3>1 DEF ApplyActions
    <3>3. CASE UpdateTask
      BY <3>3, <3>1 DEF UpdateTask
    <3>4. CASE UpdateTaskFails
      BY <3>4, <3>1 DEF UpdateTaskFails
    <3>5. CASE AckResult
      BY <3>5, <3>1 DEF AckResult
    <3> QED BY <2>9, <3>2, <3>3, <3>4, <3>5 DEF HandleResult
  <2>10. CASE GatewayCrash \/ LoseChannel
    <3>1. CASE GatewayCrash
      BY <3>1, SMTT(30) DEF GatewayCrash, GatewayUp
    <3>2. CASE LoseChannel
      BY <3>2 DEF LoseChannel
    <3> QED BY <2>10, <3>1, <3>2
  <2>11. CASE GatewayRestart
    BY <2>11 DEF GatewayRestart
  <2>12. CASE UNCHANGED vars
    BY <2>12
  <2> QED BY <2>1, <2>2, <2>3, <2>4, <2>5, <2>6, <2>7, <2>8, <2>9, <2>10,
             <2>11, <2>12 DEF Next
<1>3. QED
  BY <1>1, <1>2, PTL DEF Spec

---------------------------------------------------------------------------
(* No task is lost silently *)

\* A queue that a result is appended to holds its old tasks and the new one.
LEMMA ResultOfAppend ==
    ASSUME NEW q \in Seq(Result), NEW r \in Result, NEW t \in Task
    PROVE  ResultOf(t, Append(q, r)) <=> ResultOf(t, q) \/ r.task = t
<1>1. ASSUME ResultOf(t, q) PROVE ResultOf(t, Append(q, r))
  BY <1>1, AppendResult DEF ResultOf
<1>2. ASSUME r.task = t PROVE ResultOf(t, Append(q, r))
  BY <1>2, AppendResult DEF ResultOf
<1>3. ASSUME ResultOf(t, Append(q, r)) PROVE ResultOf(t, q) \/ r.task = t
  BY <1>3, AppendResult DEF ResultOf
<1> QED BY <1>1, <1>2, <1>3

\* Acknowledging the head leaves every other result in the queue.
LEMMA ResultOfTail ==
    ASSUME NEW q \in Seq(Result), q # <<>>, NEW t \in Task
    PROVE  /\ ResultOf(t, Tail(q)) => ResultOf(t, q)
           /\ ResultOf(t, q) => ResultOf(t, Tail(q)) \/ Head(q).task = t
           /\ ResultOf(Head(q).task, q)
<1>1. ASSUME ResultOf(t, Tail(q)) PROVE ResultOf(t, q)
  BY <1>1, TailResult DEF ResultOf
<1>2. ASSUME ResultOf(t, q) PROVE ResultOf(t, Tail(q)) \/ Head(q).task = t
  BY <1>2, TailResult DEF ResultOf
<1>3. ResultOf(Head(q).task, q)
  BY TailResult DEF ResultOf
<1> QED BY <1>1, <1>2, <1>3

\* A copy put on the queue is a copy of its task and of no other.
LEMMA CopyOfAdded ==
    ASSUME NEW r \in [Msg -> Nat], NEW m \in Msg, NEW t \in Task
    PROVE  CopyOf(t, [r EXCEPT ![m] = @ + 1]) <=> CopyOf(t, r) \/ m.task = t
<1> DEFINE new == [r EXCEPT ![m] = @ + 1]
<1>1. \A n \in Msg : new[n] = IF n = m THEN r[n] + 1 ELSE r[n]
  OBVIOUS
<1>2. \A n \in Msg : r[n] \in Nat
  OBVIOUS
<1> HIDE DEF new
<1>3. CopyOf(t, new) <=> CopyOf(t, r) \/ m.task = t
  BY <1>1, <1>2 DEF CopyOf
<1> QED BY <1>3 DEF new

\* Taking a copy off the queue leaves the copies of the other tasks.
LEMMA CopyOfRemoved ==
    ASSUME NEW r \in [Msg -> Nat], NEW m \in Msg, NEW t \in Task
    PROVE  LET new == [r EXCEPT ![m] = @ - 1]
           IN  /\ CopyOf(t, new) => CopyOf(t, r)
               /\ CopyOf(t, r) => CopyOf(t, new) \/ m.task = t
<1> DEFINE new == [r EXCEPT ![m] = @ - 1]
<1>1. \A n \in Msg : new[n] = IF n = m THEN r[n] - 1 ELSE r[n]
  OBVIOUS
<1>2. \A n \in Msg : r[n] \in Nat
  OBVIOUS
<1> HIDE DEF new
<1>3. /\ CopyOf(t, new) => CopyOf(t, r)
      /\ CopyOf(t, r) => CopyOf(t, new) \/ m.task = t
  BY <1>1, <1>2 DEF CopyOf
<1> QED BY <1>3 DEF new

\* Every step keeps the inductive invariant.
LEMMA AccountStep ==
    ASSUME TypeOK, AccountInv, [Next]_vars PROVE AccountInv'
<1> USE DEF AccountInv, UnpublishedIsNowhere, HandedOver, Settled,
            QueuedIsAccountedFor, Stranded, InReady, Held, InResults
<1>t. /\ req \in [Task -> ReqState] /\ row \in [Task -> RowState]
      /\ ready \in [Msg -> Nat] /\ results \in Seq(Result)
      /\ hold \in Msg \cup {NoMsg} /\ (hold = NoMsg <=> wpc \in {"idle", "dead", "stopped"})
      /\ gpc \in {"acted", "updated"} => results # <<>>
  BY DEF TypeOK
<1>m. \A m \in Msg : m.task \in Task /\ m # NoMsg
  BY NoMsgAssumption DEF Msg
<1>h. wpc \notin {"idle", "dead", "stopped"} =>
        hold \in Msg /\ hold # NoMsg /\ hold.task \in Task
  BY <1>t, <1>m
<1>r. results # <<>> => Head(results).task \in Task
                        /\ Head(results).status # "queued"
                        /\ ResultOf(Head(results).task, results)
  BY <1>t, TailResult DEF Result, ResultOf
<1>1. ASSUME NEW t \in Task, RunAgent(t) PROVE AccountInv'
  <2>1. CASE CheckLimit(t)
    BY <2>1, <1>t DEF CheckLimit
  <2>2. CASE CreateTask(t)
    BY <2>2, <1>t, <1>h, <1>r DEF CreateTask, HeldBy
  <2>3. CASE PublishTask(t)
    <3>1. \A u \in Task : CopyOf(u, ready') <=> CopyOf(u, ready) \/ u = t
      BY <2>3, <1>t, FirstTryType, CopyOfAdded DEF PublishTask
    <3> QED BY <2>3, <1>t, <1>m, <1>h, <3>1 DEF PublishTask
  <2>4. CASE PublishRefused(t)
    BY <2>4, <1>t, <1>h DEF PublishRefused
  <2>5. CASE PublishUnconfirmed(t)
    BY <2>5, <1>t DEF PublishUnconfirmed
  <2> QED BY <1>1, <2>1, <2>2, <2>3, <2>4, <2>5 DEF RunAgent
<1>2. ASSUME NEW t \in Task, DispatchInternal(t) PROVE AccountInv'
  <2>1. \A u \in Task : CopyOf(u, ready') <=> CopyOf(u, ready) \/ u = t
    BY <1>2, <1>t, FirstTryType, CopyOfAdded DEF DispatchInternal
  <2> QED BY <1>2, <1>t, <1>m, <1>h, <2>1 DEF DispatchInternal
<1>3. ASSUME NEW t \in Task, DeleteTask(t) PROVE AccountInv'
  BY <1>3, <1>t DEF DeleteTask
<1>4. ASSUME NEW m \in Msg, Expire(m) PROVE AccountInv'
  <2>1. \A u \in Task : /\ CopyOf(u, ready') => CopyOf(u, ready)
                        /\ CopyOf(u, ready) => CopyOf(u, ready') \/ u = m.task
    BY <1>4, <1>t, CopyOfRemoved DEF Expire
  <2> QED BY <1>4, <1>t, <1>m, <1>h, <2>1 DEF Expire
<1>5. ASSUME NEW m \in Msg, Deliver(m) PROVE AccountInv'
  <2>1. \A u \in Task : /\ CopyOf(u, ready') => CopyOf(u, ready)
                        /\ CopyOf(u, ready) => CopyOf(u, ready') \/ u = m.task
    BY <1>5, <1>t, CopyOfRemoved DEF Deliver
  <2>2. CopyOf(m.task, ready)
    BY <1>5 DEF Deliver, CopyOf
  <2> QED BY <1>5, <1>t, <1>m, <1>h, <2>1, <2>2 DEF Deliver, HeldBy
<1>6. ASSUME HandleMessage PROVE AccountInv'
  <2>1. CASE ProcessTask
    BY <2>1, <1>t DEF ProcessTask
  <2>2. CASE SaveOutput
    BY <2>2, <1>t DEF SaveOutput
  <2>3. CASE PublishCompleted
    <3>1. hold \in Msg /\ hold # NoMsg /\ hold.task \in Task
      BY <2>3, <1>t, <1>m DEF PublishCompleted, PublishResult
    <3>2. [task |-> hold.task, status |-> "completed"] \in Result
      BY <3>1 DEF Result
    <3>3. \A u \in Task : ResultOf(u, results') <=>
                           ResultOf(u, results) \/ u = hold.task
      BY <2>3, <1>t, <3>2, ResultOfAppend DEF PublishCompleted, PublishResult
    <3>4. results # <<>> => Head(results') = Head(results)
      BY <2>3, <1>t, <3>2, AppendResult DEF PublishCompleted, PublishResult
    <3> QED BY <2>3, <1>t, <1>m, <1>h, <3>1, <3>3, <3>4
            DEF PublishCompleted, PublishResult, HeldBy
  <2>4. CASE Raise
    BY <2>4, <1>t DEF Raise
  <2>5. CASE RepublishRetry
    <3>1. hold \in Msg /\ hold # NoMsg /\ hold.task \in Task
      BY <2>5, <1>t, <1>m DEF RepublishRetry
    <3>2. \A u \in Task : CopyOf(u, ready') <=> CopyOf(u, ready) \/ u = hold.task
      BY <2>5, <1>t, <3>1, NextTryType, CopyOfAdded DEF RepublishRetry
    <3> QED BY <2>5, <1>t, <1>m, <1>h, <3>1, <3>2 DEF RepublishRetry, HeldBy
  <2>6. CASE PublishFailed
    <3>1. hold \in Msg /\ hold # NoMsg /\ hold.task \in Task
      BY <2>6, <1>t, <1>m DEF PublishFailed, PublishResult
    <3>2. [task |-> hold.task, status |-> "failed"] \in Result
      BY <3>1 DEF Result
    <3>3. \A u \in Task : ResultOf(u, results') <=>
                           ResultOf(u, results) \/ u = hold.task
      BY <2>6, <1>t, <3>2, ResultOfAppend DEF PublishFailed, PublishResult
    <3>4. results # <<>> => Head(results') = Head(results)
      BY <2>6, <1>t, <3>2, AppendResult DEF PublishFailed, PublishResult
    <3> QED BY <2>6, <1>t, <1>m, <1>h, <3>1, <3>3, <3>4
            DEF PublishFailed, PublishResult, HeldBy
  <2>7. CASE Ack
    BY <2>7, <1>t, <1>m DEF Ack, HeldBy
  <2>8. CASE RejectToDLQ
    BY <2>8, <1>t, <1>m DEF RejectToDLQ, HeldBy
  <2> QED BY <1>6, <2>1, <2>2, <2>3, <2>4, <2>5, <2>6, <2>7, <2>8 DEF HandleMessage
<1>7. CASE WorkerCrash \/ WorkerDisconnect
  <2> PICK how \in {"dead", "stopped"} : WorkerStops(how)
    BY <1>7 DEF WorkerCrash, WorkerDisconnect
  <2>1. CASE hold = NoMsg
    BY <2>1, <1>t, <1>m DEF WorkerStops, HeldBy
  <2>2. CASE hold # NoMsg
    <3>1. hold \in Msg /\ hold.task \in Task
      BY <2>2, <1>t, <1>m
    <3>2. \A u \in Task : CopyOf(u, ready') <=> CopyOf(u, ready) \/ u = hold.task
      BY <2>2, <1>t, <3>1, CopyOfAdded DEF WorkerStops
    <3> QED BY <2>2, <1>t, <1>m, <1>h, <3>1, <3>2 DEF WorkerStops, HeldBy
  <2> QED BY <2>1, <2>2
<1>8. CASE WorkerRestart
  BY <1>8, <1>t DEF WorkerRestart
<1>9. ASSUME HandleResult PROVE AccountInv'
  <2>1. CASE ApplyActions
    BY <2>1, <1>t DEF ApplyActions
  <2>2. CASE UpdateTask
    BY <2>2, <1>t, <1>r, ResultOfTail DEF UpdateTask
  <2>3. CASE UpdateTaskFails
    BY <2>3, <1>t DEF UpdateTaskFails
  <2>4. CASE AckResult
    <3>1. \A u \in Task :
             /\ ResultOf(u, results') => ResultOf(u, results)
             /\ ResultOf(u, results) => ResultOf(u, results')
                                        \/ u = Head(results).task
      BY <2>4, <1>t, ResultOfTail DEF AckResult
    <3>2. hold # NoMsg => hold.task \in Task
      BY <1>t, <1>m
    <3> QED BY <2>4, <1>t, <1>h, <1>r, <3>1, <3>2 DEF AckResult
  <2> QED BY <1>9, <2>1, <2>2, <2>3, <2>4 DEF HandleResult
<1>10. CASE GatewayCrash \/ LoseChannel
  BY <1>10, <1>t DEF GatewayCrash, LoseChannel, GatewayUp
<1>11. CASE GatewayRestart
  BY <1>11, <1>t DEF GatewayRestart
<1>12. CASE UNCHANGED vars
  BY <1>12, <1>t
<1> QED BY <1>1, <1>2, <1>3, <1>4, <1>5, <1>6, <1>7, <1>8, <1>9, <1>10,
           <1>11, <1>12 DEF Next

\* In every reachable state the request, the broker, the worker and the
\* results agree about where a task is.
THEOREM AccountHolds == Spec => []AccountInv
<1>1. Init => AccountInv
  BY NoMsgAssumption DEF Init, AccountInv, UnpublishedIsNowhere, HandedOver,
     Settled, QueuedIsAccountedFor, InReady, Held, InResults, CopyOf, HeldBy,
     ResultOf
<1>2. TypeOK /\ AccountInv /\ [Next]_vars => AccountInv'
  BY AccountStep
<1> QED
  BY <1>1, <1>2, TypeCorrect, PTL DEF Spec

\* For any tasks, retries, crashes and faults, a task whose row says
\* "queued" is somewhere in the pipeline or stranded by a known cause.
THEOREM NoTaskIsLostSilently == Spec => []QueuedIsAccountedFor
<1>1. AccountInv => QueuedIsAccountedFor
  BY DEF AccountInv
<1> QED
  BY <1>1, AccountHolds, PTL

---------------------------------------------------------------------------
(* Completed means done *)

\* For any constants, a task reported completed has its output saved and
\* its automated actions applied: the worker saves before it publishes, the
\* gateway acts before it updates the row.
THEOREM CompletedTasksAreBacked == Spec => []CompletedIsBacked
<1> USE DEF BackedInv, CompletedIsBacked
<1>1. Init => BackedInv
  BY DEF Init
<1>2. TypeOK /\ BackedInv /\ [Next]_vars => BackedInv'
  <2> SUFFICES ASSUME TypeOK, BackedInv, [Next]_vars PROVE BackedInv'
    OBVIOUS
  <2>t. /\ row \in [Task -> RowState] /\ effects \in [Task -> Nat]
        /\ results \in Seq(Result)
        /\ (wpc \notin {"idle", "dead", "stopped"} => hold \in Msg /\ hold.task \in Task)
        /\ (gpc \in {"acted", "updated"} => results # <<>>)
    BY DEF TypeOK, Msg
  <2>r. results # <<>> => /\ Head(results).task \in Task
                          /\ Head(results) = results[1] /\ 1 \in 1..Len(results)
                          /\ Head(results).status \in {"completed", "failed"}
    BY <2>t, TailResult DEF Result
  <2>1. ASSUME NEW t \in Task, RunAgent(t) PROVE BackedInv'
    BY <2>1, <2>t DEF RunAgent, CheckLimit, CreateTask, PublishTask,
                      PublishRefused, PublishUnconfirmed
  <2>2. ASSUME NEW t \in Task, DispatchInternal(t) \/ DeleteTask(t) PROVE BackedInv'
    BY <2>2, <2>t DEF DispatchInternal, DeleteTask
  <2>3. ASSUME NEW m \in Msg, Expire(m) \/ Deliver(m) PROVE BackedInv'
    BY <2>3 DEF Expire, Deliver
  <2>4. ASSUME HandleMessage PROVE BackedInv'
    <3>1. CASE PublishCompleted
      <4>1. [task |-> hold.task, status |-> "completed"] \in Result
        BY <3>1, <2>t DEF PublishCompleted, PublishResult, Result
      <4> QED BY <3>1, <4>1, <2>t, AppendResult DEF PublishCompleted, PublishResult
    <3>2. CASE PublishFailed
      <4>1. [task |-> hold.task, status |-> "failed"] \in Result
        BY <3>2, <2>t DEF PublishFailed, PublishResult, Result
      <4> QED BY <3>2, <4>1, <2>t, AppendResult DEF PublishFailed, PublishResult
    <3>3. CASE ProcessTask \/ SaveOutput \/ Raise
      BY <3>3, <2>t DEF ProcessTask, SaveOutput, Raise
    <3>4. CASE RepublishRetry \/ Ack \/ RejectToDLQ
      BY <3>4, <2>t DEF RepublishRetry, Ack, RejectToDLQ
    <3> QED BY <2>4, <3>1, <3>2, <3>3, <3>4 DEF HandleMessage
  <2>5. CASE WorkerCrash \/ WorkerDisconnect \/ WorkerRestart
    BY <2>5 DEF WorkerCrash, WorkerDisconnect, WorkerStops, WorkerRestart
  <2>6. ASSUME HandleResult PROVE BackedInv'
    <3>1. CASE ApplyActions
      BY <3>1, <2>t, <2>r DEF ApplyActions
    <3>2. CASE UpdateTask
      BY <3>2, <2>t, <2>r DEF UpdateTask
    <3>3. CASE UpdateTaskFails
      BY <3>3 DEF UpdateTaskFails
    <3>4. CASE AckResult
      BY <3>4, <2>t, TailResult DEF AckResult
    <3> QED BY <2>6, <3>1, <3>2, <3>3, <3>4 DEF HandleResult
  <2>7. CASE GatewayCrash \/ LoseChannel \/ GatewayRestart
    BY <2>7 DEF GatewayCrash, LoseChannel, GatewayRestart
  <2>8. CASE UNCHANGED vars
    BY <2>8
  <2> QED BY <2>1, <2>2, <2>3, <2>4, <2>5, <2>6, <2>7, <2>8 DEF Next
<1>3. BackedInv => CompletedIsBacked
  OBVIOUS
<1> QED
  BY <1>1, <1>2, <1>3, TypeCorrect, PTL DEF Spec

---------------------------------------------------------------------------
(* The pipeline implements the life cycle *)

\* A worker is busy with t: it has not handed the task on yet.
BusyWith(t) ==
    wpc \in {"processing", "processed", "saved", "failing"} /\ Held(t)

\* The i-th result still waits for its actions.
Waits(i) == i \in 1..Len(results) /\ (i = 1 => gpc \notin {"acted", "updated"})

\* The queue of tasks holds a task at most once.
OneCopy(copies) ==
    /\ \A m \in Msg : copies[m] <= 1
    /\ \A m, n \in Msg : copies[m] > 0 /\ copies[n] > 0 /\ m.task = n.task => m = n

\* No task has two results.
OneResult(queue) ==
    \A i, j \in 1..Len(queue) : queue[i].task = queue[j].task => i = j

\* A task that still waits for a worker, or has one, has no result and no
\* effect yet.
OnlyOnce ==
    /\ OneCopy(ready)
    /\ OneResult(results)
    /\ \A t \in Task : BusyWith(t) => ~InReady(t)
    /\ \A t \in Task : InReady(t) \/ BusyWith(t) => ~InResults(t) /\ effects[t] = 0

\* The actions of a result are applied when it is handled and not before.
AppliedWhenHandled ==
    /\ \A t \in Task : effects[t] \in {0, 1}
    /\ \A i \in 1..Len(results) : Waits(i) => effects[results[i].task] = 0
    /\ gpc \in {"acted", "updated"} =>
         effects[Head(results).task] = IF Head(results).status = "completed" THEN 1 ELSE 0

\* The row follows the request, and once it is final the pipeline is done
\* with its task, except to acknowledge the result.
RowFollows ==
    /\ \A t \in Task : req[t] \in {"none", "checked", "internal"} => row[t] = "none"
    /\ \A t \in Task : req[t] = "created" => row[t] \in {"queued", "deleted"}
    /\ \A t \in Task : req[t] \in {"none", "checked", "created"} => effects[t] = 0
    /\ \A t \in Task : row[t] \in {"completed", "failed"} =>
          /\ ~InReady(t) /\ ~BusyWith(t)
          /\ InResults(t) => gpc = "updated" /\ Head(results).task = t

CrashFree == workerCrashes = 0 /\ gatewayCrashes = 0

\* What holds of every task as long as nothing has crashed.
OnceInv == CrashFree => OnlyOnce /\ AppliedWhenHandled /\ RowFollows

\* A copy of a task of which there is none on the queue is its only copy.
LEMMA OnlyCopyAdded ==
    ASSUME NEW r \in [Msg -> Nat], NEW m \in Msg, OneCopy(r), ~CopyOf(m.task, r)
    PROVE  OneCopy([r EXCEPT ![m] = @ + 1])
<1> DEFINE new == [r EXCEPT ![m] = @ + 1]
<1>1. \A n \in Msg : r[n] \in Nat /\ new[n] = IF n = m THEN r[n] + 1 ELSE r[n]
  OBVIOUS
<1>2. \A n \in Msg : n.task = m.task => r[n] = 0
  BY <1>1 DEF CopyOf
<1> HIDE DEF new
<1>3. OneCopy(new)
  BY <1>1, <1>2 DEF OneCopy
<1> QED BY <1>3 DEF new

\* Once the only copy of a task is taken there is none left.
LEMMA OnlyCopyTaken ==
    ASSUME NEW r \in [Msg -> Nat], NEW m \in Msg, OneCopy(r), r[m] > 0
    PROVE  /\ OneCopy([r EXCEPT ![m] = @ - 1])
           /\ ~CopyOf(m.task, [r EXCEPT ![m] = @ - 1])
<1> DEFINE new == [r EXCEPT ![m] = @ - 1]
<1>1. \A n \in Msg : r[n] \in Nat /\ new[n] = IF n = m THEN r[n] - 1 ELSE r[n]
  OBVIOUS
<1>2. r[m] = 1 /\ \A n \in Msg : n.task = m.task /\ n # m => r[n] = 0
  BY <1>1 DEF OneCopy
<1> HIDE DEF new
<1>3. OneCopy(new) /\ ~CopyOf(m.task, new)
  BY <1>1, <1>2 DEF OneCopy, CopyOf
<1> QED BY <1>3 DEF new

\* A task without a result gets its only one.
LEMMA OnlyResultAppended ==
    ASSUME NEW q \in Seq(Result), NEW r \in Result, OneResult(q), ~ResultOf(r.task, q)
    PROVE  OneResult(Append(q, r))
<1>1. \A i \in 1..Len(q) : q[i].task # r.task
  BY DEF ResultOf
<1>2. Append(q, r) \in Seq(Result) /\ Len(Append(q, r)) = Len(q) + 1
  OBVIOUS
<1>3. \A i \in 1..Len(q) + 1 : Append(q, r)[i] = IF i = Len(q) + 1 THEN r ELSE q[i]
  OBVIOUS
<1> QED BY <1>1, <1>2, <1>3 DEF OneResult

\* Once the only result of a task is acknowledged there is none left.
LEMMA OnlyResultAcknowledged ==
    ASSUME NEW q \in Seq(Result), q # <<>>, OneResult(q)
    PROVE  OneResult(Tail(q)) /\ ~ResultOf(Head(q).task, Tail(q))
<1>1. \A i \in 1..Len(Tail(q)) : i + 1 \in 1..Len(q) /\ Tail(q)[i] = q[i + 1]
  BY TailResult
<1>2. Head(q) = q[1] /\ 1 \in 1..Len(q) /\ Len(q) \in Nat /\ Len(Tail(q)) \in Nat
  BY TailResult
<1>3. OneResult(Tail(q))
  BY <1>1, <1>2 DEF OneResult
<1>4. \A i \in 1..Len(Tail(q)) : Tail(q)[i].task # Head(q).task
  BY <1>1, <1>2 DEF OneResult
<1> QED BY <1>3, <1>4 DEF ResultOf


\* Every step keeps what holds while nothing has crashed.
LEMMA OnceStep ==
    ASSUME TypeOK, AccountInv, OnceInv, [Next]_vars PROVE OnceInv'
<1> SUFFICES ASSUME CrashFree' PROVE (OnlyOnce /\ AppliedWhenHandled /\ RowFollows)'
  BY DEF OnceInv
<1>t. /\ req \in [Task -> ReqState] /\ row \in [Task -> RowState]
      /\ ready \in [Msg -> Nat] /\ results \in Seq(Result)
      /\ effects \in [Task -> Nat]
      /\ hold \in Msg \cup {NoMsg} /\ (hold = NoMsg <=> wpc \in {"idle", "dead", "stopped"})
      /\ gpc \in {"acted", "updated"} => results # <<>>
      /\ workerCrashes \in Nat /\ gatewayCrashes \in Nat
  BY DEF TypeOK
<1>m. \A m \in Msg : m.task \in Task /\ m # NoMsg
  BY NoMsgAssumption DEF Msg
<1>h. wpc \notin {"idle", "dead", "stopped"} =>
        hold \in Msg /\ hold # NoMsg /\ hold.task \in Task
  BY <1>t, <1>m
<1>r. results # <<>> => /\ Head(results).task \in Task
                        /\ Head(results).status \in {"completed", "failed"}
                        /\ ResultOf(Head(results).task, results)
                        /\ Head(results) = results[1] /\ 1 \in 1..Len(results)
  BY <1>t, TailResult DEF Result, ResultOf
<1>q. \A i \in 1..Len(results) : results[i].task \in Task /\ ResultOf(results[i].task, results)
  <2>1. \A i \in 1..Len(results) : results[i] \in Result
    BY <1>t
  <2> QED BY <2>1 DEF Result, ResultOf
<1>u. UnpublishedIsNowhere
  BY DEF AccountInv
<1> USE DEF Held, InReady, InResults, BusyWith, HeldBy
<1>o. CrashFree => OnlyOnce /\ AppliedWhenHandled /\ RowFollows
  BY DEF OnceInv
<1>1. ASSUME NEW t \in Task, RunAgent(t)
      PROVE  (OnlyOnce /\ AppliedWhenHandled /\ RowFollows)'
  <2>0. CrashFree
    BY <1>1, <1>t DEF RunAgent, CheckLimit, CreateTask, PublishTask, PublishRefused,
                      PublishUnconfirmed, CrashFree
  <2> USE <2>0, <1>o DEF OnlyOnce, AppliedWhenHandled, RowFollows, Waits
  <2>1. CASE CheckLimit(t)
    BY <2>1, <1>t, <1>u DEF CheckLimit, UnpublishedIsNowhere
  <2>2. CASE CreateTask(t)
    BY <2>2, <1>t, <1>u DEF CreateTask, UnpublishedIsNowhere
  <2>3. CASE PublishTask(t)
    <3>1. \A u \in Task : CopyOf(u, ready') <=> CopyOf(u, ready) \/ u = t
      BY <2>3, <1>t, FirstTryType, CopyOfAdded DEF PublishTask
    <3>2. OneCopy(ready')
      BY <2>3, <1>t, <1>u, FirstTryType, OnlyCopyAdded, ZenonT(60) DEF PublishTask, UnpublishedIsNowhere
    <3>3. ~InResults(t) /\ ~Held(t) /\ effects[t] = 0 /\ row[t] \notin {"completed", "failed"}
      BY <2>3, <1>u, <1>t DEF PublishTask, UnpublishedIsNowhere
    <3> QED BY <2>3, <1>t, <1>m, <3>1, <3>2, <3>3 DEF PublishTask
  <2>4. CASE PublishRefused(t)
    BY <2>4, <1>t, <1>u DEF PublishRefused, UnpublishedIsNowhere
  <2>5. CASE PublishUnconfirmed(t)
    BY <2>5, <1>t, <1>u DEF PublishUnconfirmed, UnpublishedIsNowhere
  <2> QED BY <1>1, <2>1, <2>2, <2>3, <2>4, <2>5 DEF RunAgent
<1>2. ASSUME NEW t \in Task, DispatchInternal(t)
      PROVE  (OnlyOnce /\ AppliedWhenHandled /\ RowFollows)'
  <2>0. CrashFree
    BY <1>2, <1>t DEF DispatchInternal, CrashFree
  <2> USE <2>0, <1>o DEF OnlyOnce, AppliedWhenHandled, RowFollows, Waits
  <2>1. \A u \in Task : CopyOf(u, ready') <=> CopyOf(u, ready) \/ u = t
    BY <1>2, <1>t, FirstTryType, CopyOfAdded DEF DispatchInternal
  <2>2. OneCopy(ready')
    BY <1>2, <1>t, <1>u, FirstTryType, OnlyCopyAdded, ZenonT(60) DEF DispatchInternal, UnpublishedIsNowhere
  <2>3. ~InResults(t) /\ ~Held(t) /\ effects[t] = 0 /\ row[t] = "none"
    BY <1>2, <1>u, <1>t DEF DispatchInternal, UnpublishedIsNowhere
  <2> QED BY <1>2, <1>t, <1>m, <2>1, <2>2, <2>3, ZenonT(60) DEF DispatchInternal
<1>3. ASSUME NEW t \in Task, DeleteTask(t)
      PROVE  (OnlyOnce /\ AppliedWhenHandled /\ RowFollows)'
  <2>0. CrashFree
    BY <1>3, <1>t DEF DeleteTask, CrashFree
  <2> QED BY <1>3, <2>0, <1>o, <1>t
          DEF DeleteTask, OnlyOnce, AppliedWhenHandled, RowFollows, Waits
<1>4. ASSUME NEW m \in Msg, Expire(m)
      PROVE  (OnlyOnce /\ AppliedWhenHandled /\ RowFollows)'
  <2>0. CrashFree
    BY <1>4, <1>t DEF Expire, CrashFree
  <2>1. \A u \in Task : CopyOf(u, ready') => CopyOf(u, ready)
    BY <1>4, <1>t, CopyOfRemoved DEF Expire
  <2>2. OneCopy(ready')
    BY <1>4, <2>0, <1>o, <1>t, OnlyCopyTaken DEF Expire, OnlyOnce
  <2> QED BY <1>4, <2>0, <1>o, <1>t, <2>1, <2>2
          DEF Expire, OnlyOnce, AppliedWhenHandled, RowFollows, Waits
<1>5. ASSUME NEW m \in Msg, Deliver(m)
      PROVE  (OnlyOnce /\ AppliedWhenHandled /\ RowFollows)'
  <2>0. CrashFree
    BY <1>5, <1>t DEF Deliver, CrashFree
  <2>1. \A u \in Task : CopyOf(u, ready') => CopyOf(u, ready)
    BY <1>5, <1>t, CopyOfRemoved DEF Deliver
  <2>2. OneCopy(ready') /\ ~CopyOf(m.task, ready') /\ CopyOf(m.task, ready)
    BY <1>5, <2>0, <1>o, <1>t, OnlyCopyTaken DEF Deliver, OnlyOnce, CopyOf
  <2> QED BY <1>5, <2>0, <1>o, <1>t, <1>m, <2>1, <2>2, ZenonT(60)
          DEF Deliver, OnlyOnce, AppliedWhenHandled, RowFollows, Waits
<1>6. ASSUME HandleMessage
      PROVE  (OnlyOnce /\ AppliedWhenHandled /\ RowFollows)'
  <2>0. CrashFree
    BY <1>6, <1>t DEF HandleMessage, ProcessTask, SaveOutput, PublishCompleted, Raise,
       RepublishRetry, PublishFailed, PublishResult, Ack, RejectToDLQ, CrashFree
  <2> USE <2>0, <1>o DEF OnlyOnce, AppliedWhenHandled, RowFollows, Waits
  <2>1. CASE ProcessTask \/ SaveOutput \/ Raise
    BY <2>1, <1>t DEF ProcessTask, SaveOutput, Raise
  <2>2. ASSUME NEW from \in {"saved", "failing"}, NEW to \in {"published", "gaveup"},
               NEW status \in {"completed", "failed"}, PublishResult(from, to, status)
        PROVE  (OnlyOnce /\ AppliedWhenHandled /\ RowFollows)'
    <3>1. hold \in Msg /\ hold # NoMsg /\ hold.task \in Task /\ BusyWith(hold.task)
      BY <2>2, <1>t, <1>m DEF PublishResult
    <3> DEFINE r == [task |-> hold.task, status |-> status]
    <3>2. r \in Result /\ r.task = hold.task
      BY <3>1 DEF Result
    <3>3. results' = Append(results, r)
      BY <2>2 DEF PublishResult
    <3> HIDE DEF r
    <3>4. \A u \in Task : ResultOf(u, results') <=>
                           ResultOf(u, results) \/ u = hold.task
      BY <3>2, <3>3, <1>t, ResultOfAppend
    <3>5. results # <<>> => Head(results') = Head(results)
      BY <3>2, <3>3, <1>t, AppendResult
    <3>6. OneResult(results')
      BY <3>1, <3>2, <3>3, <1>t, OnlyResultAppended
    <3>7. effects[hold.task] = 0 /\ row[hold.task] \notin {"completed", "failed"}
      BY <3>1
    <3>8. \A i \in 1..Len(results') : Waits(i)' => effects[results'[i].task] = 0
      <4> SUFFICES ASSUME NEW i \in 1..Len(results'), Waits(i)'
                   PROVE  effects[results'[i].task] = 0
        OBVIOUS
      <4>1. CASE i \in 1..Len(results)
        BY <4>1, <2>2, <3>2, <3>3, <1>t, AppendResult DEF PublishResult
      <4>2. CASE results'[i] = r
        BY <4>2, <3>2, <3>7
      <4> QED BY <4>1, <4>2, <3>2, <3>3, <1>t, AppendResult
    <3> QED BY <2>2, <3>1, <3>4, <3>5, <3>6, <3>7, <3>8, <1>t DEF PublishResult
  <2>3. CASE PublishCompleted
    BY <2>2, <2>3 DEF PublishCompleted
  <2>4. CASE PublishFailed
    BY <2>2, <2>4 DEF PublishFailed
  <2>5. CASE RepublishRetry
    <3>1. hold \in Msg /\ hold # NoMsg /\ hold.task \in Task /\ BusyWith(hold.task)
      BY <2>5, <1>t, <1>m DEF RepublishRetry
    <3>2. \A u \in Task : CopyOf(u, ready') <=> CopyOf(u, ready) \/ u = hold.task
      BY <2>5, <1>t, <3>1, NextTryType, CopyOfAdded DEF RepublishRetry
    <3>3. OneCopy(ready')
      BY <2>5, <1>t, <3>1, NextTryType, OnlyCopyAdded DEF RepublishRetry
    <3> QED BY <2>5, <1>t, <3>1, <3>2, <3>3 DEF RepublishRetry
  <2>6. CASE Ack \/ RejectToDLQ
    BY <2>6, <1>t DEF Ack, RejectToDLQ
  <2> QED BY <1>6, <2>1, <2>3, <2>4, <2>5, <2>6 DEF HandleMessage
<1>7. CASE WorkerCrash \/ WorkerDisconnect
  BY <1>7, <1>t DEF WorkerCrash, WorkerDisconnect, WorkerStops, CrashFree
<1>8. CASE WorkerRestart
  BY <1>8, <1>o, <1>t DEF WorkerRestart, CrashFree, OnlyOnce, AppliedWhenHandled,
     RowFollows, Waits
<1>9. ASSUME HandleResult
      PROVE  (OnlyOnce /\ AppliedWhenHandled /\ RowFollows)'
  <2>0. CrashFree
    BY <1>9, <1>t DEF HandleResult, ApplyActions, UpdateTask, UpdateTaskFails, AckResult,
       CrashFree
  <2> USE <2>0, <1>o DEF OnlyOnce, AppliedWhenHandled, RowFollows, Waits
  <2>1. CASE ApplyActions
    <3>1. results # <<>> /\ Waits(1) /\ effects[Head(results).task] = 0
      BY <2>1, <1>r DEF ApplyActions
    <3>2. \A i \in 1..Len(results) : i # 1 => results[i].task # Head(results).task
      BY <3>1, <1>r DEF OneResult
    <3> DEFINE h == Head(results)
    <3>3. /\ h.task \in Task /\ h.status \in {"completed", "failed"}
          /\ effects' \in [Task -> Nat]
          /\ effects'[h.task] = IF h.status = "completed" THEN 1 ELSE 0
          /\ \A t \in Task : t # h.task => effects'[t] = effects[t]
      BY <2>1, <3>1, <1>r, <1>t DEF ApplyActions
    <3>4. ResultOf(h.task, results) /\ row[h.task] \notin {"completed", "failed"}
      BY <2>1, <3>1, <1>r DEF ApplyActions
    <3>5. ~CopyOf(h.task, ready) /\ ~BusyWith(h.task)
          /\ req[h.task] \notin {"none", "checked", "created"}
      BY <3>3, <3>4, <1>u DEF UnpublishedIsNowhere
    <3> HIDE DEF h
    <3>6. OnlyOnce'
      BY <2>1, <3>3, <3>5 DEF ApplyActions
    <3>7. \A i \in 1..Len(results) : Waits(i)' => effects'[results[i].task] = 0
      BY <2>1, <3>2, <3>3, <1>q DEF ApplyActions, h
    <3>8. AppliedWhenHandled'
      BY <2>1, <3>3, <3>7, <1>q DEF ApplyActions, h
    <3>9. RowFollows'
      BY <2>1, <3>3, <3>5 DEF ApplyActions
    <3> QED BY <3>6, <3>8, <3>9
  <2>2. CASE UpdateTask
    <3>1. \A t \in Task \ {Head(results).task} : row'[t] = row[t]
      BY <2>2, <1>t, <1>r DEF UpdateTask
    <3> QED BY <2>2, <3>1, <1>u, <1>t, <1>r DEF UpdateTask, UnpublishedIsNowhere
  <2>3. CASE UpdateTaskFails
    BY <2>3, <1>t, <1>r DEF UpdateTaskFails
  <2>4. CASE AckResult
    <3>1. results # <<>> /\ results' = Tail(results)
      BY <2>4, <1>t DEF AckResult
    <3>2. \A t \in Task : ResultOf(t, results') => ResultOf(t, results)
      BY <3>1, <1>t, ResultOfTail
    <3>3. OneResult(results') /\ ~ResultOf(Head(results).task, results')
      BY <3>1, <1>t, OnlyResultAcknowledged
    <3>4. \A i \in 1..Len(results') : i + 1 \in 1..Len(results) /\ i + 1 # 1
                                      /\ results'[i] = results[i + 1]
      BY <3>1, <1>t, TailResult
    <3>5. \A i \in 1..Len(results') : effects[results'[i].task] = 0
      BY <3>4
    <3> QED BY <2>4, <3>2, <3>3, <3>5, <1>t, <1>r DEF AckResult
  <2> QED BY <1>9, <2>1, <2>2, <2>3, <2>4 DEF HandleResult
<1>10. CASE GatewayCrash \/ LoseChannel
  BY <1>10, <1>t DEF GatewayCrash, LoseChannel, CrashFree
<1>11. CASE GatewayRestart
  BY <1>11, <1>o, <1>t DEF GatewayRestart, CrashFree, OnlyOnce, AppliedWhenHandled,
     RowFollows, Waits
<1>12. CASE UNCHANGED vars
  BY <1>12, <1>o, <1>t DEF CrashFree, OnlyOnce, AppliedWhenHandled, RowFollows, Waits
<1> QED BY <1>1, <1>2, <1>3, <1>4, <1>5, <1>6, <1>7, <1>8, <1>9, <1>10,
           <1>11, <1>12 DEF Next


\* A step without a crash is a step of the life cycle, or leaves the row and
\* the effects of every task alone.
LEMMA LifecycleStep ==
    ASSUME TypeOK, AccountInv, OnceInv, [Next]_vars, NoCrash
    PROVE  [Lifecycle!Next]_<<row, effects>>
<1>t. /\ req \in [Task -> ReqState] /\ row \in [Task -> RowState]
      /\ results \in Seq(Result) /\ effects \in [Task -> Nat]
      /\ gpc \in {"acted", "updated"} => results # <<>>
      /\ workerCrashes \in Nat /\ gatewayCrashes \in Nat
  BY DEF TypeOK
<1>r. results # <<>> => /\ Head(results).task \in Task
                        /\ Head(results).status \in {"completed", "failed"}
                        /\ ResultOf(Head(results).task, results)
                        /\ Head(results) = results[1] /\ 1 \in 1..Len(results)
  BY <1>t, TailResult DEF Result, ResultOf
<1>o. CrashFree => AppliedWhenHandled /\ RowFollows
  BY DEF OnceInv
<1> DEFINE Maps == [Lifecycle!Next]_<<row, effects>>
<1>1. ASSUME NEW t \in Task, RunAgent(t) PROVE Maps
  <2>0. RowFollows
    BY <1>1, <1>o, <1>t DEF RunAgent, CheckLimit, CreateTask, PublishTask, PublishRefused,
                            PublishUnconfirmed, CrashFree, NoCrash
  <2>1. CASE CreateTask(t)
    <3>1. Lifecycle!Record(t)
      BY <2>0, <2>1 DEF CreateTask, RowFollows, Lifecycle!Record
    <3> QED BY <3>1 DEF Lifecycle!Next
  <2>2. CASE PublishRefused(t)
    <3>1. CASE row[t] = "queued"
      <4>1. Lifecycle!Fail(t)
        BY <2>0, <2>2, <3>1 DEF PublishRefused, RowFollows, Lifecycle!Fail
      <4> QED BY <4>1 DEF Lifecycle!Next
    <3>2. CASE row[t] # "queued"
      BY <2>2, <3>2, <1>t DEF PublishRefused
    <3> QED BY <3>1, <3>2
  <2>3. CASE CheckLimit(t) \/ PublishTask(t) \/ PublishUnconfirmed(t)
    BY <2>3 DEF CheckLimit, PublishTask, PublishUnconfirmed
  <2> QED BY <1>1, <2>1, <2>2, <2>3 DEF RunAgent
<1>2. ASSUME NEW t \in Task, DispatchInternal(t) PROVE Maps
  BY <1>2 DEF DispatchInternal
<1>3. ASSUME NEW t \in Task, DeleteTask(t) PROVE Maps
  <2>1. Lifecycle!Delete(t)
    BY <1>3, <1>t DEF DeleteTask, RowState, Lifecycle!Delete
  <2> QED BY <2>1 DEF Lifecycle!Next
<1>4. ASSUME NEW m \in Msg, Expire(m) \/ Deliver(m) PROVE Maps
  BY <1>4 DEF Expire, Deliver
<1>5. CASE HandleMessage \/ WorkerCrash \/ WorkerDisconnect \/ WorkerRestart
  BY <1>5 DEF HandleMessage, ProcessTask, SaveOutput, PublishCompleted, Raise,
     RepublishRetry, PublishFailed, PublishResult, Ack, RejectToDLQ, WorkerCrash,
     WorkerDisconnect, WorkerStops, WorkerRestart
<1>6. ASSUME HandleResult PROVE Maps
  <2>0. AppliedWhenHandled /\ RowFollows
    BY <1>6, <1>o, <1>t DEF HandleResult, ApplyActions, UpdateTask, UpdateTaskFails,
                            AckResult, CrashFree, NoCrash
  <2> DEFINE h == Head(results)
  <2>1. CASE ApplyActions
    <3>1. h.task \in Task /\ effects[h.task] = 0 /\ row[h.task] \notin {"completed", "failed"}
      BY <2>0, <2>1, <1>r DEF ApplyActions, AppliedWhenHandled, RowFollows, Waits, InResults
    <3>2. CASE h.status = "completed"
      <4>1. Lifecycle!Apply(h.task)
        BY <2>1, <3>1, <3>2 DEF ApplyActions, Lifecycle!Apply
      <4> QED BY <3>1, <4>1 DEF Lifecycle!Next
    <3>3. CASE h.status # "completed"
      BY <2>1, <3>3 DEF ApplyActions
    <3> QED BY <3>2, <3>3
  <2>2. CASE UpdateTask
    <3>1. /\ h.task \in Task /\ h.status \in {"completed", "failed"}
          /\ effects[h.task] = IF h.status = "completed" THEN 1 ELSE 0
          /\ row[h.task] \in {"none", "deleted", "queued"}
      BY <2>0, <2>2, <1>r, <1>t
         DEF UpdateTask, AppliedWhenHandled, RowFollows, InResults, RowState
    <3>2. CASE row[h.task] \in {"none", "deleted"}
      BY <2>2, <3>2, <1>t DEF UpdateTask
    <3>3. CASE row[h.task] = "queued" /\ h.status = "completed"
      <4>1. Lifecycle!Complete(h.task)
        BY <2>2, <3>1, <3>3 DEF UpdateTask, Lifecycle!Complete
      <4> QED BY <3>1, <4>1 DEF Lifecycle!Next
    <3>4. CASE row[h.task] = "queued" /\ h.status = "failed"
      <4>1. Lifecycle!Fail(h.task)
        BY <2>2, <3>1, <3>4 DEF UpdateTask, Lifecycle!Fail
      <4> QED BY <3>1, <4>1 DEF Lifecycle!Next
    <3> QED BY <3>1, <3>2, <3>3, <3>4
  <2>3. CASE UpdateTaskFails \/ AckResult
    BY <2>3 DEF UpdateTaskFails, AckResult
  <2> QED BY <1>6, <2>1, <2>2, <2>3 DEF HandleResult
<1>7. CASE GatewayCrash \/ LoseChannel \/ GatewayRestart
  BY <1>7 DEF GatewayCrash, LoseChannel, GatewayRestart
<1>8. CASE UNCHANGED vars
  BY <1>8
<1> QED BY <1>1, <1>2, <1>3, <1>4, <1>5, <1>6, <1>7, <1>8 DEF Next

\* For any tasks, retries and faults, as long as no process has crashed, the
\* pipeline implements TaskLifecycle: gateway, broker and worker together
\* apply the actions of a task exactly once and before its row says so.
THEOREM PipelineImplementsLifecycle == Spec => ImplementsLifecycle
<1>1. Init => Lifecycle!Init
  BY DEF Init, Lifecycle!Init
<1>2. Init => OnceInv
  BY DEF Init, OnceInv, OnlyOnce, AppliedWhenHandled, RowFollows, OneCopy, OneResult,
     BusyWith, InReady, InResults, CopyOf, ResultOf, Waits
<1>3. TypeOK /\ AccountInv /\ OnceInv /\ [Next]_vars => OnceInv'
  BY OnceStep
<1>4. TypeOK /\ AccountInv /\ OnceInv /\ [Next]_vars
        => (NoCrash => [Lifecycle!Next]_<<row, effects>>)
  BY LifecycleStep
<1> QED
  BY <1>1, <1>2, <1>3, <1>4, TypeCorrect, AccountHolds, PTL DEF Spec, ImplementsLifecycle


---------------------------------------------------------------------------
(* Nothing repeats without bound *)

\* The deliveries of t the broker still owes: the i-th copy of a message.
Copies(t, r) ==
    {c \in Msg \X Nat : c[1].task = t /\ c[2] \in 1..r[c[1]]}

\* The attempts those copies may still lead to: one for each number from the
\* retry count of a copy to the budget.
Attempts(t, r) ==
    {a \in (Msg \X Nat) \X Nat : /\ a[1] \in Copies(t, r)
                                 /\ a[2] \in a[1][1].retry..MaxRetries}

\* In n the queue holds one more copy of m than in r.
OneMore(n, r, m) ==
    /\ m \in Msg /\ r \in [Msg -> Nat] /\ n \in [Msg -> Nat]
    /\ \A k \in Msg : n[k] = IF k = m THEN r[k] + 1 ELSE r[k]

\* The results of t from a place in the queue on, and the place of the first
\* result whose actions are still to be applied.
ResultsFrom(t, q, first) == {i \in first..Len(q) : q[i].task = t}
FirstToApply == IF gpc \in {"acted", "updated"} THEN 2 ELSE 1
ToApply(t) == ResultsFrom(t, results, FirstToApply)

\* What the delivery in the worker's hands may still lead to.
HeldAttempts(t) == IF BusyWith(t) THEN MaxRetries - hold.retry ELSE 0
HeldEffects(t) == IF BusyWith(t) THEN 1 ELSE 0

\* Attempts made and attempts still possible stay within the budget; effects
\* had and effects still possible likewise.
Budget == (MaxRetries + 1) * (1 + workerCrashes)
Counted(t) ==
    /\ IsFiniteSet(Copies(t, ready)) /\ IsFiniteSet(Attempts(t, ready))
    /\ starts[t] + Cardinality(Attempts(t, ready)) + HeldAttempts(t) <= Budget
    /\ effects[t] + Cardinality(Copies(t, ready)) + HeldEffects(t)
                  + Cardinality(ToApply(t)) <= 1 + workerCrashes + gatewayCrashes
    /\ req[t] \in {"none", "checked", "created"} => starts[t] = 0 /\ effects[t] = 0
CountInv == \A t \in Task : Counted(t)

\* One more copy of a message is one more delivery, and as many attempts as
\* its retry count leaves.
LEMMA CopyCounted ==
    ASSUME NEW r, NEW n, NEW m, OneMore(n, r, m), NEW t \in Task,
           IsFiniteSet(Copies(t, r)), IsFiniteSet(Attempts(t, r))
    PROVE  /\ IsFiniteSet(Copies(t, n)) /\ IsFiniteSet(Attempts(t, n))
           /\ Cardinality(Copies(t, n)) =
                Cardinality(Copies(t, r)) + (IF m.task = t THEN 1 ELSE 0)
           /\ Cardinality(Attempts(t, n)) =
                Cardinality(Attempts(t, r))
                + (IF m.task = t THEN MaxRetries + 1 - m.retry ELSE 0)
<1> DEFINE c == <<m, r[m] + 1>>
           left == {c} \X (m.retry..MaxRetries)
<1>1. m \in Msg /\ \A k \in Msg : r[k] \in Nat /\ n[k] = IF k = m THEN r[k] + 1 ELSE r[k]
  BY DEF OneMore
<1>2. m.retry \in 0..MaxRetries /\ MaxRetries \in Nat
  BY <1>1, BoundsAssumption DEF Msg
<1>3. CASE m.task # t
  <2>1. Copies(t, n) = Copies(t, r)
    BY <1>1, <1>3 DEF Copies
  <2>2. Attempts(t, n) = Attempts(t, r)
    BY <2>1 DEF Attempts
  <2>3. Cardinality(Copies(t, r)) \in Nat /\ Cardinality(Attempts(t, r)) \in Nat
    BY FS_CardinalityType
  <2> QED BY <1>3, <2>1, <2>2, <2>3
<1>4. CASE m.task = t
  <2>1. Copies(t, n) = Copies(t, r) \cup {c} /\ c \notin Copies(t, r)
    BY <1>1, <1>4 DEF Copies
  <2>c. c \in (Msg \X Nat) /\ c[1] = m
    BY <1>1
  <2>n. /\ Cardinality(Copies(t, r)) \in Nat /\ Cardinality(Attempts(t, r)) \in Nat
        /\ m.retry \in Int /\ MaxRetries \in Int /\ m.retry <= MaxRetries
    BY <1>2, FS_CardinalityType
  <2> HIDE DEF c
  <2>2. /\ IsFiniteSet(Copies(t, n))
        /\ Cardinality(Copies(t, n)) = Cardinality(Copies(t, r)) + 1
    <3> DEFINE C == Copies(t, r)
    <3>1. IsFiniteSet(C) /\ c \notin C /\ Copies(t, n) = C \cup {c}
      BY <2>1
    <3> HIDE DEF C
    <3>2. IsFiniteSet(C \cup {c}) /\ Cardinality(C \cup {c}) = Cardinality(C) + 1
      BY <3>1, FS_AddElement
    <3> QED BY <3>1, <3>2 DEF C
  <2>3. /\ IsFiniteSet(left)
        /\ Cardinality(left) = MaxRetries + 1 - m.retry
    <3> DEFINE I == m.retry..MaxRetries
               S == {c}
    <3>1. IsFiniteSet(S) /\ Cardinality(S) = 1
      BY FS_Singleton
    <3>2. IsFiniteSet(I) /\ Cardinality(I) = MaxRetries - m.retry + 1
      <4>1. /\ IsFiniteSet(I)
            /\ Cardinality(I) = IF m.retry > MaxRetries THEN 0 ELSE MaxRetries - m.retry + 1
        <5>1. m.retry \in Int /\ MaxRetries \in Int
          BY <2>n
        <5> QED BY ONLY <5>1, FS_Interval
      <4> QED BY <4>1, <2>n
    <3> HIDE DEF I, S
    <3>3. IsFiniteSet(S \X I) /\ Cardinality(S \X I) = Cardinality(S) * Cardinality(I)
      BY <3>1, <3>2, FS_Product
    <3>4. left = S \X I
      BY DEF I, S
    <3>5. Cardinality(left) = 1 * (MaxRetries - m.retry + 1)
      BY <3>1, <3>2, <3>3, <3>4
    <3>6. \A k \in Int : 1 * k = k
      OBVIOUS
    <3>7. MaxRetries - m.retry + 1 \in Int /\ MaxRetries - m.retry + 1 = MaxRetries + 1 - m.retry
      BY <2>n
    <3> QED BY <3>3, <3>4, <3>5, <3>6, <3>7
  <2>4. Attempts(t, n) = Attempts(t, r) \cup left
    <3>1. m.retry..MaxRetries \subseteq Nat
      BY <1>2
    <3> QED BY <2>1, <2>c, <3>1 DEF Attempts
  <2>5. Attempts(t, r) \cap left = {}
    BY <2>1 DEF Attempts
  <2> HIDE DEF left
  <2>6. /\ IsFiniteSet(Attempts(t, n))
        /\ Cardinality(Attempts(t, n)) = Cardinality(Attempts(t, r)) + Cardinality(left)
    <3> DEFINE A == Attempts(t, r)
    <3>1. IsFiniteSet(A) /\ A \cap left = {} /\ Attempts(t, n) = A \cup left
      BY <2>4, <2>5
    <3>2. Cardinality(A) \in Nat /\ Cardinality(left) \in Nat
      BY <2>n, <2>3, FS_CardinalityType
    <3> HIDE DEF A
    <3>3. /\ IsFiniteSet(A \cup left)
          /\ Cardinality(A \cup left)
               = Cardinality(A) + Cardinality(left) - Cardinality(A \cap left)
      BY <3>1, <2>3, FS_Union
    <3>4. Cardinality(A \cap left) = 0
      BY <3>1, FS_EmptySet
    <3>5. IsFiniteSet(A \cup left) /\ Cardinality(A \cup left) = Cardinality(A) + Cardinality(left)
      BY <3>2, <3>3, <3>4
    <3> QED BY <3>1, <3>5 DEF A
  <2> QED BY <1>4, <2>2, <2>3, <2>6
<1> QED BY <1>3, <1>4

\* One copy less is one delivery, and its attempts, less.
LEMMA CopyDiscounted ==
    ASSUME NEW r, NEW n, NEW m, OneMore(n, r, m), NEW t \in Task,
           IsFiniteSet(Copies(t, n)), IsFiniteSet(Attempts(t, n))
    PROVE  /\ IsFiniteSet(Copies(t, r)) /\ IsFiniteSet(Attempts(t, r))
           /\ Cardinality(Copies(t, n)) =
                Cardinality(Copies(t, r)) + (IF m.task = t THEN 1 ELSE 0)
           /\ Cardinality(Attempts(t, n)) =
                Cardinality(Attempts(t, r))
                + (IF m.task = t THEN MaxRetries + 1 - m.retry ELSE 0)
<1>1. \A k \in Msg : r[k] \in Nat /\ n[k] = IF k = m THEN r[k] + 1 ELSE r[k]
  BY DEF OneMore
<1>2. Copies(t, r) \subseteq Copies(t, n)
  BY <1>1 DEF Copies
<1>3. Attempts(t, r) \subseteq Attempts(t, n)
  BY <1>2 DEF Attempts
<1>4. IsFiniteSet(Copies(t, r)) /\ IsFiniteSet(Attempts(t, r))
  BY <1>2, <1>3, FS_Subset
<1> QED BY <1>4, CopyCounted

\* The results of a task can be counted.
LEMMA ResultsCount ==
    ASSUME NEW q \in Seq(Result), NEW t \in Task, NEW first \in {1, 2}
    PROVE  /\ IsFiniteSet(ResultsFrom(t, q, first))
           /\ Cardinality(ResultsFrom(t, q, first)) \in Nat
<1>1. first \in Int /\ Len(q) \in Int
  OBVIOUS
<1>2. IsFiniteSet(first..Len(q))
  BY ONLY <1>1, FS_Interval
<1>3. ResultsFrom(t, q, first) \subseteq first..Len(q)
  BY DEF ResultsFrom
<1>4. IsFiniteSet(ResultsFrom(t, q, first))
  BY <1>2, <1>3, FS_Subset
<1> QED BY <1>4, FS_CardinalityType

\* A result that is appended counts for its task.
LEMMA AppendedCounts ==
    ASSUME NEW q \in Seq(Result), NEW r \in Result, NEW t \in Task,
           NEW first \in {1, 2}, first = 2 => q # <<>>
    PROVE  Cardinality(ResultsFrom(t, Append(q, r), first)) =
             Cardinality(ResultsFrom(t, q, first)) + (IF r.task = t THEN 1 ELSE 0)
<1> DEFINE R == ResultsFrom(t, q, first)
           k == Len(q) + 1
<1>1. Len(q) \in Nat /\ (q # <<>> => Len(q) >= 1)
  OBVIOUS
<1>2. Len(Append(q, r)) = k /\ \A i \in 1..k : Append(q, r)[i] = IF i = k THEN r ELSE q[i]
  OBVIOUS
<1>3. ResultsFrom(t, Append(q, r), first) = IF r.task = t THEN R \cup {k} ELSE R
  BY <1>1, <1>2 DEF ResultsFrom
<1>4. k \notin R
  BY <1>1 DEF ResultsFrom
<1>5. IsFiniteSet(R) /\ Cardinality(R) \in Nat
  BY ResultsCount
<1> HIDE DEF R, k
<1>6. Cardinality(R \cup {k}) = Cardinality(R) + 1
  BY <1>4, <1>5, FS_AddElement
<1> QED BY <1>3, <1>5, <1>6 DEF R

\* Once the actions of the head are applied it no longer counts.
LEMMA HeadCounts ==
    ASSUME NEW q \in Seq(Result), NEW t \in Task, q # <<>>
    PROVE  Cardinality(ResultsFrom(t, q, 1)) =
             Cardinality(ResultsFrom(t, q, 2)) + (IF Head(q).task = t THEN 1 ELSE 0)
<1> DEFINE R == ResultsFrom(t, q, 2)
<1>1. Len(q) \in Nat /\ Len(q) >= 1 /\ Head(q) = q[1]
  OBVIOUS
<1>2. ResultsFrom(t, q, 1) = IF Head(q).task = t THEN R \cup {1} ELSE R
  BY <1>1 DEF ResultsFrom
<1>3. 1 \notin R
  BY <1>1 DEF ResultsFrom
<1>4. IsFiniteSet(R) /\ Cardinality(R) \in Nat
  BY ResultsCount
<1> HIDE DEF R
<1>5. Cardinality(R \cup {1}) = Cardinality(R) + 1
  BY <1>3, <1>4, FS_AddElement
<1>6. Cardinality(ResultsFrom(t, q, 1)) =
         Cardinality(R) + (IF Head(q).task = t THEN 1 ELSE 0)
  <2>1. CASE Head(q).task = t
    BY <2>1, <1>2, <1>5
  <2>2. CASE Head(q).task # t
    BY <2>2, <1>2, <1>4
  <2> QED BY <2>1, <2>2
<1> QED BY <1>6 DEF R

\* Acknowledging the head leaves as many results as came after it.
LEMMA AcknowledgedCounts ==
    ASSUME NEW q \in Seq(Result), NEW t \in Task, q # <<>>
    PROVE  Cardinality(ResultsFrom(t, Tail(q), 1)) <= Cardinality(ResultsFrom(t, q, 2))
<1> DEFINE S == ResultsFrom(t, Tail(q), 1)
           T == ResultsFrom(t, q, 2)
           f == [i \in S |-> i + 1]
<1>1. /\ Len(q) \in Nat /\ Len(q) >= 1 /\ Len(Tail(q)) = Len(q) - 1
      /\ \A i \in 1..Len(q) - 1 : Tail(q)[i] = q[i + 1]
  OBVIOUS
<1>2. \A i \in S : i \in Int /\ i + 1 \in T
  BY <1>1 DEF ResultsFrom
<1>3. f \in Injection(S, T)
  BY <1>2 DEF Injection, IsInjective
<1>4. IsFiniteSet(T)
  BY ResultsCount
<1> HIDE DEF S, T, f
<1>5. Cardinality(S) <= Cardinality(T)
  BY <1>3, <1>4, FS_Injection
<1> QED BY <1>5 DEF S, T


\* No step lets a task make more attempts, or have more effects, than its
\* budget and the crashes so far account for.
LEMMA CountStep ==
    ASSUME TypeOK, AccountInv, CountInv, [Next]_vars PROVE CountInv'
<1>t. /\ req \in [Task -> ReqState]
      /\ ready \in [Msg -> Nat] /\ results \in Seq(Result)
      /\ effects \in [Task -> Nat] /\ starts \in [Task -> Nat]
      /\ hold \in Msg \cup {NoMsg} /\ (hold = NoMsg <=> wpc \in {"idle", "dead", "stopped"})
      /\ gpc \in {"acted", "updated"} => results # <<>>
      /\ workerCrashes \in Nat /\ gatewayCrashes \in Nat /\ MaxRetries \in Nat
  BY BoundsAssumption DEF TypeOK
<1>k. workerCrashes \in Nat /\ gatewayCrashes \in Nat /\ MaxRetries \in Nat
  BY <1>t
<1>m. \A m \in Msg : m.task \in Task /\ m.retry \in 0..MaxRetries /\ m # NoMsg
  BY NoMsgAssumption DEF Msg
<1>h. hold # NoMsg => hold \in Msg /\ hold.task \in Task /\ hold.retry \in 0..MaxRetries
  BY <1>t, <1>m
<1>f. FirstToApply \in {1, 2} /\ (FirstToApply = 2 => results # <<>>)
  BY <1>t DEF FirstToApply
<1>u. UnpublishedIsNowhere
  BY DEF AccountInv
<1>n. \A t \in Task : /\ Cardinality(Copies(t, ready)) \in Nat
                      /\ Cardinality(Attempts(t, ready)) \in Nat
                      /\ Cardinality(ToApply(t)) \in Nat
                      /\ HeldAttempts(t) \in Nat /\ HeldEffects(t) \in {0, 1}
                      /\ starts[t] \in Nat /\ effects[t] \in Nat
  <2> TAKE t \in Task
  <2>1. Cardinality(Copies(t, ready)) \in Nat /\ Cardinality(Attempts(t, ready)) \in Nat
    BY FS_CardinalityType DEF CountInv, Counted
  <2>2. Cardinality(ToApply(t)) \in Nat
    BY <1>t, <1>f, ResultsCount DEF ToApply
  <2>3. HeldAttempts(t) \in Nat /\ HeldEffects(t) \in {0, 1}
    BY <1>h, <1>t DEF HeldAttempts, HeldEffects, BusyWith, Held, HeldBy
  <2> QED BY <2>1, <2>2, <2>3, <1>t
<1> DEFINE Same == UNCHANGED <<ready, wpc, hold, starts, effects, results, gpc,
                               workerCrashes, gatewayCrashes>>
<1>b. Budget \in Nat
  <2>1. \A a, b \in Nat : a * b \in Nat
    OBVIOUS
  <2>2. MaxRetries + 1 \in Nat /\ 1 + workerCrashes \in Nat
    BY <1>t
  <2> QED BY <2>1, <2>2 DEF Budget
<1>same. ASSUME Same,
                \A t \in Task : req'[t] \in {"none", "checked", "created"}
                                  => req[t] \in {"none", "checked", "created"}
         PROVE  CountInv'
  BY <1>same DEF CountInv, Counted, Budget, ToApply, FirstToApply, HeldAttempts, HeldEffects, BusyWith, Held
<1>1. ASSUME NEW t \in Task, CheckLimit(t) \/ CreateTask(t) \/ PublishRefused(t)
                             \/ PublishUnconfirmed(t) \/ DeleteTask(t)
      PROVE  CountInv'
  <2>1. Same
    BY <1>1 DEF CheckLimit, CreateTask, PublishRefused, PublishUnconfirmed, DeleteTask
  <2>2. \A u \in Task : req'[u] \in {"none", "checked", "created"}
                          => req[u] \in {"none", "checked", "created"}
    BY <1>1, <1>t DEF CheckLimit, CreateTask, PublishRefused, PublishUnconfirmed, DeleteTask
  <2> QED BY <2>1, <2>2, <1>same
<1>2. ASSUME NEW t \in Task, PublishTask(t) \/ DispatchInternal(t) PROVE CountInv'
  <2> DEFINE m == FirstTry(t)
  <2>1. m \in Msg /\ m.task = t /\ m.retry = 0
    BY FirstTryType DEF FirstTry
  <2>2. /\ ready' = [ready EXCEPT ![m] = @ + 1]
        /\ UNCHANGED <<wpc, hold, starts, effects, results, gpc, workerCrashes, gatewayCrashes>>
        /\ req[t] \in {"none", "created"} /\ req'[t] \in {"sent", "internal"}
        /\ \A u \in Task : u # t => req'[u] = req[u]
    BY <1>2, <1>t DEF PublishTask, DispatchInternal
  <2> HIDE DEF m
  <2>3. /\ ToApply(t) = {} /\ Copies(t, ready) = {} /\ Attempts(t, ready) = {}
        /\ ~BusyWith(t) /\ starts[t] = 0 /\ effects[t] = 0
    <3>1. ~InReady(t) /\ ~Held(t) /\ ~InResults(t) /\ starts[t] = 0 /\ effects[t] = 0
      BY <2>2, <1>u DEF UnpublishedIsNowhere, CountInv, Counted
    <3>2. ToApply(t) = {}
      BY <3>1, <1>f, <1>t DEF ToApply, ResultsFrom, InResults, ResultOf
    <3>3. Copies(t, ready) = {}
      BY <3>1, <1>t DEF Copies, InReady, CopyOf
    <3> QED BY <3>1, <3>2, <3>3 DEF Attempts, BusyWith
  <2>4. Cardinality({}) = 0
    BY FS_EmptySet
  <2>5. \A u \in Task : /\ IsFiniteSet(Copies(u, ready')) /\ IsFiniteSet(Attempts(u, ready'))
                        /\ Cardinality(Copies(u, ready')) =
                             Cardinality(Copies(u, ready)) + (IF u = t THEN 1 ELSE 0)
                        /\ Cardinality(Attempts(u, ready')) =
                             Cardinality(Attempts(u, ready))
                             + (IF u = t THEN MaxRetries + 1 ELSE 0)
    <3> TAKE u \in Task
    <3>1. IsFiniteSet(Copies(u, ready)) /\ IsFiniteSet(Attempts(u, ready))
      BY DEF CountInv, Counted
    <3>2. OneMore(ready', ready, m)
      BY <2>1, <2>2, <1>t DEF OneMore
    <3>3. /\ IsFiniteSet(Copies(u, ready')) /\ IsFiniteSet(Attempts(u, ready'))
          /\ Cardinality(Copies(u, ready')) =
               Cardinality(Copies(u, ready)) + (IF m.task = u THEN 1 ELSE 0)
          /\ Cardinality(Attempts(u, ready')) =
               Cardinality(Attempts(u, ready))
               + (IF m.task = u THEN MaxRetries + 1 - m.retry ELSE 0)
      BY <3>1, <3>2, CopyCounted
    <3> QED BY <3>3, <2>1, <1>t
  <2>6. \A u \in Task : UNCHANGED <<ToApply(u), HeldAttempts(u), HeldEffects(u)>>
    BY <2>2 DEF ToApply, FirstToApply, HeldAttempts, HeldEffects, BusyWith, Held
  <2>7. ASSUME NEW u \in Task, u # t
        PROVE  /\ starts[u] + Cardinality(Attempts(u, ready')) + HeldAttempts(u) <= Budget
               /\ effects[u] + Cardinality(Copies(u, ready')) + HeldEffects(u)
                    + Cardinality(ToApply(u)) <= 1 + workerCrashes + gatewayCrashes
    BY <2>5, <2>7, <1>n DEF CountInv, Counted
  <2>8. /\ starts[t] + Cardinality(Attempts(t, ready')) + HeldAttempts(t) <= Budget
        /\ effects[t] + Cardinality(Copies(t, ready')) + HeldEffects(t)
             + Cardinality(ToApply(t)) <= 1 + workerCrashes + gatewayCrashes
    <3>1. HeldAttempts(t) = 0 /\ HeldEffects(t) = 0
      BY <2>3 DEF HeldAttempts, HeldEffects
    <3>2. MaxRetries + 1 <= Budget
      <4>1. \A a, b \in Nat : a <= a * (1 + b)
        OBVIOUS
      <4>2. MaxRetries + 1 \in Nat
        BY <1>t
      <4> QED BY <4>1, <4>2, <1>t DEF Budget
    <3>3. Cardinality(Attempts(t, ready')) = MaxRetries + 1 /\ Cardinality(Copies(t, ready')) = 1
      <4>1. Cardinality(Attempts(t, ready)) = 0 /\ Cardinality(Copies(t, ready)) = 0
        BY <2>3, <2>4
      <4>2. /\ Cardinality(Copies(t, ready')) = Cardinality(Copies(t, ready)) + 1
            /\ Cardinality(Attempts(t, ready')) = Cardinality(Attempts(t, ready)) + (MaxRetries + 1)
        BY <2>5
      <4> QED BY <4>1, <4>2, <1>t
    <3> QED BY <2>3, <2>4, <3>1, <3>2, <3>3, <1>t
  <2>9. Budget' = Budget
    BY <2>2 DEF Budget
  <2> QED BY <2>2, <2>5, <2>6, <2>7, <2>8, <2>9, <1>t DEF CountInv, Counted
<1>4. ASSUME NEW m \in Msg, Expire(m) PROVE CountInv'
  <2>1. /\ ready[m] > 0 /\ ready' = [ready EXCEPT ![m] = @ - 1]
        /\ UNCHANGED <<req, wpc, hold, starts, effects, results, gpc,
                       workerCrashes, gatewayCrashes>>
    BY <1>4 DEF Expire
  <2> SUFFICES ASSUME NEW t \in Task PROVE Counted(t)'
    BY DEF CountInv
  <2>s. UNCHANGED <<ToApply(t), HeldAttempts(t), HeldEffects(t), Budget>>
    BY <2>1 DEF ToApply, FirstToApply, HeldAttempts, HeldEffects, BusyWith, Held, Budget
  <2>c. Counted(t)
    BY DEF CountInv
  <2>2. IsFiniteSet(Copies(t, ready)) /\ IsFiniteSet(Attempts(t, ready))
    BY <2>c DEF Counted
  <2>3. /\ IsFiniteSet(Copies(t, ready')) /\ IsFiniteSet(Attempts(t, ready'))
        /\ Cardinality(Copies(t, ready)) =
             Cardinality(Copies(t, ready')) + (IF m.task = t THEN 1 ELSE 0)
        /\ Cardinality(Attempts(t, ready)) =
             Cardinality(Attempts(t, ready'))
             + (IF m.task = t THEN MaxRetries + 1 - m.retry ELSE 0)
    <3>1. OneMore(ready, ready', m)
      BY <2>1, <1>t DEF OneMore
    <3> QED BY <3>1, <2>2, CopyDiscounted
  <2>4. Cardinality(Copies(t, ready')) \in Nat /\ Cardinality(Attempts(t, ready')) \in Nat
    BY <2>3, FS_CardinalityType
  <2>n. /\ Cardinality(Copies(t, ready)) \in Nat /\ Cardinality(Attempts(t, ready)) \in Nat
        /\ Cardinality(ToApply(t)) \in Nat /\ HeldAttempts(t) \in Nat /\ HeldEffects(t) \in {0, 1}
        /\ starts[t] \in Nat /\ effects[t] \in Nat
        /\ starts[t] + Cardinality(Attempts(t, ready)) + HeldAttempts(t) <= Budget
        /\ effects[t] + Cardinality(Copies(t, ready)) + HeldEffects(t)
             + Cardinality(ToApply(t)) <= 1 + workerCrashes + gatewayCrashes
        /\ m.retry \in 0..MaxRetries
    BY <1>n, <1>m, <2>c DEF Counted
  <2>5. /\ Cardinality(Copies(t, ready')) <= Cardinality(Copies(t, ready))
        /\ Cardinality(Attempts(t, ready')) <= Cardinality(Attempts(t, ready))
    BY <2>3, <2>4, <2>n, <1>k
  <2>6. starts[t] + Cardinality(Attempts(t, ready')) + HeldAttempts(t) <= Budget
    BY <2>4, <2>5, <2>n, <1>b
  <2>7. effects[t] + Cardinality(Copies(t, ready')) + HeldEffects(t)
             + Cardinality(ToApply(t)) <= 1 + workerCrashes + gatewayCrashes
    BY <2>4, <2>5, <2>n, <1>k
  <2> QED BY <2>1, <2>s, <2>c, <2>3, <2>6, <2>7 DEF Counted
<1>5. ASSUME NEW m \in Msg, Deliver(m) PROVE CountInv'
  <2>1. /\ ready[m] > 0 /\ ready' = [ready EXCEPT ![m] = @ - 1]
        /\ wpc = "idle" /\ wpc' = "processing" /\ hold' = m
        /\ starts' = [starts EXCEPT ![m.task] = @ + 1]
        /\ UNCHANGED <<req, effects, results, gpc, workerCrashes, gatewayCrashes>>
    BY <1>5 DEF Deliver
  <2>2. req[m.task] \notin {"none", "checked", "created"}
    BY <2>1, <1>m, <1>u DEF UnpublishedIsNowhere, InReady, CopyOf
  <2> SUFFICES ASSUME NEW t \in Task PROVE Counted(t)'
    BY DEF CountInv
  <2>s. UNCHANGED <<ToApply(t), Budget>>
    BY <2>1 DEF ToApply, FirstToApply, Budget
  <2>c. Counted(t)
    BY DEF CountInv
  <2>3. IsFiniteSet(Copies(t, ready)) /\ IsFiniteSet(Attempts(t, ready))
    BY <2>c DEF Counted
  <2>4. /\ IsFiniteSet(Copies(t, ready')) /\ IsFiniteSet(Attempts(t, ready'))
        /\ Cardinality(Copies(t, ready)) =
             Cardinality(Copies(t, ready')) + (IF m.task = t THEN 1 ELSE 0)
        /\ Cardinality(Attempts(t, ready)) =
             Cardinality(Attempts(t, ready'))
             + (IF m.task = t THEN MaxRetries + 1 - m.retry ELSE 0)
    <3>1. OneMore(ready, ready', m)
      BY <2>1, <1>t DEF OneMore
    <3> QED BY <3>1, <2>3, CopyDiscounted
  <2>5. Cardinality(Copies(t, ready')) \in Nat /\ Cardinality(Attempts(t, ready')) \in Nat
    BY <2>4, FS_CardinalityType
  <2>6. /\ HeldAttempts(t) = 0 /\ HeldEffects(t) = 0
        /\ HeldAttempts(t)' = IF m.task = t THEN MaxRetries - m.retry ELSE 0
        /\ HeldEffects(t)' = IF m.task = t THEN 1 ELSE 0
    BY <2>1, <1>m DEF HeldAttempts, HeldEffects, BusyWith, Held, HeldBy
  <2>7. starts'[t] = starts[t] + (IF m.task = t THEN 1 ELSE 0)
    BY <2>1, <1>t, <1>m
  <2>n. /\ Cardinality(Copies(t, ready)) \in Nat /\ Cardinality(Attempts(t, ready)) \in Nat
        /\ Cardinality(ToApply(t)) \in Nat /\ HeldAttempts(t) \in Nat /\ HeldEffects(t) \in {0, 1}
        /\ starts[t] \in Nat /\ effects[t] \in Nat
        /\ starts[t] + Cardinality(Attempts(t, ready)) + HeldAttempts(t) <= Budget
        /\ effects[t] + Cardinality(Copies(t, ready)) + HeldEffects(t)
             + Cardinality(ToApply(t)) <= 1 + workerCrashes + gatewayCrashes
        /\ m.retry \in 0..MaxRetries
    BY <1>n, <1>m, <2>c DEF Counted
  <2>8. starts'[t] + Cardinality(Attempts(t, ready')) + HeldAttempts(t)' <= Budget
    <3>1. CASE m.task = t
      BY <3>1, <2>4, <2>5, <2>6, <2>7, <2>n, <1>b, <1>k
    <3>2. CASE m.task # t
      BY <3>2, <2>4, <2>5, <2>6, <2>7, <2>n, <1>b
    <3> QED BY <3>1, <3>2
  <2>9. effects[t] + Cardinality(Copies(t, ready')) + HeldEffects(t)'
             + Cardinality(ToApply(t)) <= 1 + workerCrashes + gatewayCrashes
    BY <2>4, <2>5, <2>6, <2>n, <1>k
  <2> QED BY <2>1, <2>2, <2>s, <2>c, <2>4, <2>7, <2>8, <2>9 DEF Counted
<1>6. ASSUME HandleMessage PROVE CountInv'
  <2>1. CASE ProcessTask \/ SaveOutput \/ Raise \/ Ack \/ RejectToDLQ
    <3>1. \A t \in Task : UNCHANGED <<ToApply(t), HeldAttempts(t), HeldEffects(t)>>
      BY <2>1 DEF ProcessTask, SaveOutput, Raise, Ack, RejectToDLQ, ToApply, FirstToApply,
                  HeldAttempts, HeldEffects, BusyWith, Held
    <3> QED BY <2>1, <3>1 DEF ProcessTask, SaveOutput, Raise, Ack, RejectToDLQ,
                              CountInv, Counted, Budget
  <2>2. ASSUME NEW from \in {"saved", "failing"}, NEW to \in {"published", "gaveup"},
               NEW status \in {"completed", "failed"}, PublishResult(from, to, status)
        PROVE  CountInv'
    <3> DEFINE r == [task |-> hold.task, status |-> status]
    <3>1. hold # NoMsg /\ hold \in Msg /\ hold.task \in Task /\ r \in Result
      BY <2>2, <1>t, <1>h DEF PublishResult, Result
    <3>2. /\ results' = Append(results, r) /\ r.task = hold.task
          /\ UNCHANGED <<req, ready, starts, effects, gpc, workerCrashes, gatewayCrashes>>
          /\ \A t \in Task : /\ BusyWith(t) <=> hold.task = t
                             /\ ~BusyWith(t)'
      BY <2>2, <3>1 DEF PublishResult, BusyWith, Held, HeldBy
    <3> HIDE DEF r
    <3> SUFFICES ASSUME NEW t \in Task PROVE Counted(t)'
      BY DEF CountInv
    <3>c. Counted(t)
      BY DEF CountInv
    <3>s. Budget' = Budget /\ FirstToApply' = FirstToApply
      BY <3>2 DEF Budget, FirstToApply
    <3>3. /\ Cardinality(ToApply(t)') =
               Cardinality(ToApply(t)) + (IF hold.task = t THEN 1 ELSE 0)
      BY <3>1, <3>2, <3>s, <1>f, <1>t, AppendedCounts DEF ToApply
    <3>4. /\ HeldAttempts(t)' = 0 /\ HeldEffects(t)' = 0
          /\ HeldEffects(t) = IF hold.task = t THEN 1 ELSE 0
      BY <3>2 DEF HeldAttempts, HeldEffects
    <3>n. /\ Cardinality(Copies(t, ready)) \in Nat /\ Cardinality(ToApply(t)) \in Nat
          /\ Cardinality(Attempts(t, ready)) \in Nat /\ HeldAttempts(t) \in Nat
          /\ starts[t] \in Nat /\ effects[t] \in Nat
          /\ starts[t] + Cardinality(Attempts(t, ready)) + HeldAttempts(t) <= Budget
          /\ effects[t] + Cardinality(Copies(t, ready)) + HeldEffects(t)
               + Cardinality(ToApply(t)) <= 1 + workerCrashes + gatewayCrashes
      BY <1>n, <3>c DEF Counted
    <3>5. starts[t] + Cardinality(Attempts(t, ready)) + HeldAttempts(t)' <= Budget
      BY <3>4, <3>n, <1>b
    <3>6. effects[t] + Cardinality(Copies(t, ready)) + HeldEffects(t)'
               + Cardinality(ToApply(t)') <= 1 + workerCrashes + gatewayCrashes
      BY <3>3, <3>4, <3>n, <1>k
    <3> QED BY <3>2, <3>s, <3>c, <3>5, <3>6 DEF Counted
  <2>3. CASE PublishCompleted
    BY <2>2, <2>3 DEF PublishCompleted
  <2>4. CASE PublishFailed
    BY <2>2, <2>4 DEF PublishFailed
  <2>5. CASE RepublishRetry
    <3> DEFINE m == NextTry(hold)
    <3>1. /\ hold # NoMsg /\ hold \in Msg /\ hold.task \in Task
          /\ hold.retry \in 0..MaxRetries /\ hold.retry < MaxRetries
          /\ m \in Msg /\ m.task = hold.task /\ m.retry = hold.retry + 1
      BY <2>5, <1>t, <1>h, NextTryType DEF RepublishRetry, NextTry
    <3>2. /\ OneMore(ready', ready, m)
          /\ UNCHANGED <<req, starts, effects, results, gpc, workerCrashes, gatewayCrashes>>
          /\ \A t \in Task : /\ BusyWith(t) <=> hold.task = t
                             /\ ~BusyWith(t)'
      BY <2>5, <3>1, <1>t DEF RepublishRetry, BusyWith, Held, HeldBy, OneMore
    <3> HIDE DEF m
    <3> SUFFICES ASSUME NEW t \in Task PROVE Counted(t)'
      BY DEF CountInv
    <3>c. Counted(t)
      BY DEF CountInv
    <3>s. UNCHANGED <<Budget, ToApply(t)>>
      BY <3>2 DEF Budget, ToApply, FirstToApply
    <3>3. /\ IsFiniteSet(Copies(t, ready')) /\ IsFiniteSet(Attempts(t, ready'))
          /\ Cardinality(Copies(t, ready')) =
               Cardinality(Copies(t, ready)) + (IF m.task = t THEN 1 ELSE 0)
          /\ Cardinality(Attempts(t, ready')) =
               Cardinality(Attempts(t, ready))
               + (IF m.task = t THEN MaxRetries + 1 - m.retry ELSE 0)
      <4>1. IsFiniteSet(Copies(t, ready)) /\ IsFiniteSet(Attempts(t, ready))
        BY <3>c DEF Counted
      <4> QED BY <3>2, <4>1, CopyCounted
    <3>4. /\ HeldAttempts(t)' = 0 /\ HeldEffects(t)' = 0
          /\ HeldEffects(t) = IF hold.task = t THEN 1 ELSE 0
          /\ HeldAttempts(t) = IF hold.task = t THEN MaxRetries - hold.retry ELSE 0
      BY <3>2 DEF HeldAttempts, HeldEffects
    <3>n. /\ Cardinality(Copies(t, ready)) \in Nat /\ Cardinality(ToApply(t)) \in Nat
          /\ Cardinality(Attempts(t, ready)) \in Nat
          /\ starts[t] \in Nat /\ effects[t] \in Nat
          /\ starts[t] + Cardinality(Attempts(t, ready)) + HeldAttempts(t) <= Budget
          /\ effects[t] + Cardinality(Copies(t, ready)) + HeldEffects(t)
               + Cardinality(ToApply(t)) <= 1 + workerCrashes + gatewayCrashes
      BY <1>n, <3>c DEF Counted
    <3>5. starts[t] + Cardinality(Attempts(t, ready')) + HeldAttempts(t)' <= Budget
      BY <3>1, <3>3, <3>4, <3>n, <1>b, <1>k
    <3>6. effects[t] + Cardinality(Copies(t, ready')) + HeldEffects(t)'
               + Cardinality(ToApply(t)) <= 1 + workerCrashes + gatewayCrashes
      BY <3>1, <3>3, <3>4, <3>n, <1>k
    <3> QED BY <3>2, <3>s, <3>c, <3>3, <3>5, <3>6 DEF Counted
  <2> QED BY <1>6, <2>1, <2>3, <2>4, <2>5 DEF HandleMessage
<1>7. CASE WorkerCrash \/ WorkerDisconnect
  <2>1. PICK how \in {"dead", "stopped"} : WorkerStops(how)
    BY <1>7 DEF WorkerCrash, WorkerDisconnect
  <2>2. /\ workerCrashes' = workerCrashes + 1
        /\ UNCHANGED <<req, starts, effects, results, gpc, gatewayCrashes>>
        /\ \A t \in Task : ~BusyWith(t)'
    BY <2>1 DEF WorkerStops, BusyWith
  <2>3. Budget' = Budget + (MaxRetries + 1) /\ Budget' \in Nat
    <3>1. \A a, b \in Nat : a * (1 + (b + 1)) = a * (1 + b) + a
      OBVIOUS
    <3>2. MaxRetries + 1 \in Nat
      BY <1>k
    <3> QED BY <2>2, <3>1, <3>2, <1>k, <1>b DEF Budget
  <2> SUFFICES ASSUME NEW t \in Task PROVE Counted(t)'
    BY DEF CountInv
  <2>c. Counted(t)
    BY DEF CountInv
  <2>s. ToApply(t)' = ToApply(t)
    BY <2>2 DEF ToApply, FirstToApply
  <2>4. HeldAttempts(t)' = 0 /\ HeldEffects(t)' = 0
    BY <2>2 DEF HeldAttempts, HeldEffects
  <2>5. /\ IsFiniteSet(Copies(t, ready')) /\ IsFiniteSet(Attempts(t, ready'))
        /\ Cardinality(Copies(t, ready')) <= Cardinality(Copies(t, ready)) + 1
        /\ Cardinality(Attempts(t, ready')) <= Cardinality(Attempts(t, ready)) + (MaxRetries + 1)
        /\ Cardinality(Copies(t, ready')) \in Nat /\ Cardinality(Attempts(t, ready')) \in Nat
    <3>1. /\ IsFiniteSet(Copies(t, ready)) /\ IsFiniteSet(Attempts(t, ready))
          /\ Cardinality(Copies(t, ready)) \in Nat /\ Cardinality(Attempts(t, ready)) \in Nat
      BY <2>c, <1>n DEF Counted
    <3>2. CASE hold = NoMsg
      BY <2>1, <3>1, <3>2, <1>k DEF WorkerStops
    <3>3. CASE hold # NoMsg
      <4>1. OneMore(ready', ready, hold) /\ hold.retry \in 0..MaxRetries
        BY <2>1, <3>3, <1>t, <1>h DEF WorkerStops, OneMore
      <4>2. /\ IsFiniteSet(Copies(t, ready')) /\ IsFiniteSet(Attempts(t, ready'))
            /\ Cardinality(Copies(t, ready')) =
                 Cardinality(Copies(t, ready)) + (IF hold.task = t THEN 1 ELSE 0)
            /\ Cardinality(Attempts(t, ready')) =
                 Cardinality(Attempts(t, ready))
                 + (IF hold.task = t THEN MaxRetries + 1 - hold.retry ELSE 0)
        BY <4>1, <3>1, CopyCounted
      <4>3. Cardinality(Copies(t, ready')) \in Nat /\ Cardinality(Attempts(t, ready')) \in Nat
        BY <4>2, FS_CardinalityType
      <4> QED BY <4>1, <4>2, <4>3, <3>1, <1>k
    <3> QED BY <3>2, <3>3
  <2>n. /\ Cardinality(Copies(t, ready)) \in Nat /\ Cardinality(ToApply(t)) \in Nat
        /\ Cardinality(Attempts(t, ready)) \in Nat
        /\ HeldAttempts(t) \in Nat /\ HeldEffects(t) \in {0, 1}
        /\ starts[t] \in Nat /\ effects[t] \in Nat
        /\ starts[t] + Cardinality(Attempts(t, ready)) + HeldAttempts(t) <= Budget
        /\ effects[t] + Cardinality(Copies(t, ready)) + HeldEffects(t)
             + Cardinality(ToApply(t)) <= 1 + workerCrashes + gatewayCrashes
    BY <1>n, <2>c DEF Counted
  <2>6. starts[t] + Cardinality(Attempts(t, ready')) + HeldAttempts(t)' <= Budget'
    BY <2>3, <2>4, <2>5, <2>n, <1>b, <1>k
  <2>7. effects[t] + Cardinality(Copies(t, ready')) + HeldEffects(t)'
             + Cardinality(ToApply(t)) <= 1 + (workerCrashes + 1) + gatewayCrashes
    BY <2>4, <2>5, <2>n, <1>k
  <2> QED BY <2>2, <2>s, <2>c, <2>5, <2>6, <2>7 DEF Counted
<1>8. CASE WorkerRestart
  <2>1. \A t \in Task : UNCHANGED <<ToApply(t), HeldAttempts(t), HeldEffects(t)>>
    BY <1>8 DEF WorkerRestart, ToApply, FirstToApply, HeldAttempts, HeldEffects, BusyWith, Held
  <2> QED BY <1>8, <2>1 DEF WorkerRestart, CountInv, Counted, Budget
<1>9. ASSUME HandleResult PROVE CountInv'
  <2>1. CASE ApplyActions
    <3>1. /\ results # <<>> /\ FirstToApply = 1 /\ FirstToApply' = 2
          /\ effects' = IF Head(results).status = "completed"
                        THEN [effects EXCEPT ![Head(results).task] = @ + 1] ELSE effects
          /\ UNCHANGED <<req, ready, wpc, hold, starts, results, workerCrashes, gatewayCrashes>>
      BY <2>1 DEF ApplyActions, FirstToApply
    <3> SUFFICES ASSUME NEW t \in Task PROVE Counted(t)'
      BY DEF CountInv
    <3>c. Counted(t)
      BY DEF CountInv
    <3>s. UNCHANGED <<HeldAttempts(t), HeldEffects(t), Budget>>
      BY <3>1 DEF HeldAttempts, HeldEffects, BusyWith, Held, Budget
    <3>2. /\ Cardinality(ToApply(t)) =
               Cardinality(ToApply(t)') + (IF Head(results).task = t THEN 1 ELSE 0)
          /\ Cardinality(ToApply(t)') \in Nat
      BY <3>1, <1>t, HeadCounts, ResultsCount DEF ToApply
    <3>3. /\ effects'[t] \in Nat
          /\ effects'[t] <= effects[t] + (IF Head(results).task = t THEN 1 ELSE 0)
      BY <3>1, <1>t
    <3>4. effects'[t] = effects[t] \/ Head(results).task = t
      BY <3>1, <1>t
    <3>5. req[t] \in {"none", "checked", "created"} => Head(results).task # t
      BY <3>1, <1>t, <1>u, ResultOfTail DEF UnpublishedIsNowhere, InResults
    <3>n. /\ Cardinality(Copies(t, ready)) \in Nat /\ Cardinality(ToApply(t)) \in Nat
          /\ HeldEffects(t) \in {0, 1} /\ effects[t] \in Nat
          /\ effects[t] + Cardinality(Copies(t, ready)) + HeldEffects(t)
               + Cardinality(ToApply(t)) <= 1 + workerCrashes + gatewayCrashes
      BY <1>n, <3>c DEF Counted
    <3>6. effects'[t] + Cardinality(Copies(t, ready)) + HeldEffects(t)
            + Cardinality(ToApply(t)') <= 1 + workerCrashes + gatewayCrashes
      BY <3>2, <3>3, <3>n, <1>k
    <3> QED BY <3>1, <3>s, <3>c, <3>4, <3>5, <3>6 DEF Counted
  <2>2. CASE UpdateTask \/ UpdateTaskFails
    <3>1. \A t \in Task : UNCHANGED <<ToApply(t), HeldAttempts(t), HeldEffects(t)>>
      BY <2>2 DEF UpdateTask, UpdateTaskFails, ToApply, FirstToApply, HeldAttempts,
                  HeldEffects, BusyWith, Held
    <3> QED BY <2>2, <3>1 DEF UpdateTask, UpdateTaskFails, CountInv, Counted, Budget
  <2>3. CASE AckResult
    <3>1. /\ results # <<>> /\ FirstToApply = 2 /\ FirstToApply' = 1
          /\ results' = Tail(results)
          /\ UNCHANGED <<req, ready, wpc, hold, starts, effects, workerCrashes, gatewayCrashes>>
      BY <2>3, <1>t DEF AckResult, FirstToApply
    <3> SUFFICES ASSUME NEW t \in Task PROVE Counted(t)'
      BY DEF CountInv
    <3>c. Counted(t)
      BY DEF CountInv
    <3>s. UNCHANGED <<HeldAttempts(t), HeldEffects(t), Budget>>
      BY <3>1 DEF HeldAttempts, HeldEffects, BusyWith, Held, Budget
    <3>2. Cardinality(ToApply(t)') <= Cardinality(ToApply(t))
      BY <3>1, <1>t, AcknowledgedCounts DEF ToApply
    <3>3. Cardinality(ToApply(t)') \in Nat
      BY <3>1, <1>t, TailResult, ResultsCount DEF ToApply
    <3>n. /\ Cardinality(Copies(t, ready)) \in Nat /\ Cardinality(ToApply(t)) \in Nat
          /\ HeldEffects(t) \in {0, 1} /\ effects[t] \in Nat
          /\ effects[t] + Cardinality(Copies(t, ready)) + HeldEffects(t)
               + Cardinality(ToApply(t)) <= 1 + workerCrashes + gatewayCrashes
      BY <1>n, <3>c DEF Counted
    <3>4. effects[t] + Cardinality(Copies(t, ready)) + HeldEffects(t)
            + Cardinality(ToApply(t)') <= 1 + workerCrashes + gatewayCrashes
      BY <3>2, <3>3, <3>n, <1>k
    <3> QED BY <3>1, <3>s, <3>c, <3>4 DEF Counted
  <2> QED BY <1>9, <2>1, <2>2, <2>3 DEF HandleResult
<1>10. CASE GatewayCrash \/ LoseChannel
  <2>1. /\ UNCHANGED <<ready, wpc, hold, starts, effects, results, workerCrashes>>
        /\ gatewayCrashes' = gatewayCrashes + 1 /\ gpc' \notin {"acted", "updated"}
        /\ \A t \in Task : req'[t] \in {"none", "checked", "created"}
                             => req[t] \in {"none", "checked", "created"}
    BY <1>10, <1>t DEF GatewayCrash, LoseChannel
  <2> SUFFICES ASSUME NEW t \in Task PROVE Counted(t)'
    BY DEF CountInv
  <2>c. Counted(t)
    BY DEF CountInv
  <2>s. UNCHANGED <<HeldAttempts(t), HeldEffects(t), Budget>>
    BY <2>1 DEF HeldAttempts, HeldEffects, BusyWith, Held, Budget
  <2>2. ToApply(t)' = ResultsFrom(t, results, 1)
    BY <2>1 DEF ToApply, FirstToApply
  <2>3. Cardinality(ToApply(t)') <= Cardinality(ToApply(t)) + 1
    <3>1. CASE FirstToApply = 1
      BY <3>1, <2>2, <1>n DEF ToApply
    <3>2. CASE FirstToApply = 2
      <4>1. Cardinality(ResultsFrom(t, results, 1)) =
              Cardinality(ToApply(t)) + (IF Head(results).task = t THEN 1 ELSE 0)
        BY <3>2, <1>f, <1>t, HeadCounts DEF ToApply
      <4>2. Cardinality(ToApply(t)) \in Nat
        BY <1>n
      <4> QED BY <4>1, <4>2, <2>2
    <3> QED BY <3>1, <3>2, <1>f
  <2>4. Cardinality(ToApply(t)') \in Nat
    BY <2>2, <1>t, ResultsCount
  <2>n. /\ Cardinality(Copies(t, ready)) \in Nat /\ Cardinality(ToApply(t)) \in Nat
        /\ HeldEffects(t) \in {0, 1} /\ effects[t] \in Nat
        /\ effects[t] + Cardinality(Copies(t, ready)) + HeldEffects(t)
             + Cardinality(ToApply(t)) <= 1 + workerCrashes + gatewayCrashes
    BY <1>n, <2>c DEF Counted
  <2>5. effects[t] + Cardinality(Copies(t, ready)) + HeldEffects(t)
          + Cardinality(ToApply(t)') <= 1 + workerCrashes + (gatewayCrashes + 1)
    BY <2>3, <2>4, <2>n, <1>k
  <2> QED BY <2>1, <2>s, <2>c, <2>5 DEF Counted
<1>11. CASE GatewayRestart
  <2>1. \A t \in Task : UNCHANGED <<ToApply(t), HeldAttempts(t), HeldEffects(t)>>
    BY <1>11 DEF GatewayRestart, ToApply, FirstToApply, HeldAttempts, HeldEffects, BusyWith, Held
  <2> QED BY <1>11, <2>1 DEF GatewayRestart, CountInv, Counted, Budget
<1>12. CASE UNCHANGED vars
  BY <1>12, <1>same
<1> QED BY <1>1, <1>2, <1>4, <1>5, <1>6, <1>7, <1>8, <1>9, <1>10, <1>11, <1>12
        DEF Next, RunAgent


\* For any tasks, retries and crashes: a task is started at most once for every
\* attempt of its budget, per delivered copy, and its automated actions are
\* applied once, plus at most once for every crash.
THEOREM EffectsBounded == Spec => []EffectsAreBounded
<1>1. Init => CountInv
  <2> SUFFICES ASSUME Init, NEW t \in Task PROVE Counted(t)
    BY DEF CountInv
  <2>1. Copies(t, ready) = {} /\ ToApply(t) = {} /\ ~BusyWith(t)
    BY DEF Init, Copies, ToApply, ResultsFrom, FirstToApply, BusyWith
  <2>2. Attempts(t, ready) = {}
    BY <2>1 DEF Attempts
  <2>3. IsFiniteSet({}) /\ Cardinality({}) = 0
    BY FS_EmptySet
  <2>4. /\ starts[t] = 0 /\ effects[t] = 0 /\ workerCrashes = 0 /\ gatewayCrashes = 0
        /\ HeldAttempts(t) = 0 /\ HeldEffects(t) = 0
    BY <2>1 DEF Init, HeldAttempts, HeldEffects
  <2>5. 0 <= Budget
    BY <2>4, BoundsAssumption DEF Budget
  <2> QED BY <2>1, <2>2, <2>3, <2>4, <2>5 DEF Counted
<1>2. TypeOK /\ AccountInv /\ CountInv /\ [Next]_vars => CountInv'
  BY CountStep
<1>3. TypeOK /\ CountInv => EffectsAreBounded
  <2> SUFFICES ASSUME TypeOK, CountInv, NEW t \in Task
               PROVE  /\ starts[t] <= Budget
                      /\ effects[t] <= 1 + workerCrashes + gatewayCrashes
    BY DEF EffectsAreBounded, Budget
  <2>1. Counted(t) /\ starts[t] \in Nat /\ effects[t] \in Nat
    BY DEF CountInv, TypeOK
  <2>2. Cardinality(Copies(t, ready)) \in Nat /\ Cardinality(Attempts(t, ready)) \in Nat
    BY <2>1, FS_CardinalityType DEF Counted
  <2>3. Cardinality(ToApply(t)) \in Nat
    BY ResultsCount DEF TypeOK, ToApply, FirstToApply
  <2>4. HeldAttempts(t) \in Nat /\ HeldEffects(t) \in Nat
    <3>1. hold \in Msg => hold.retry \in 0..MaxRetries
      BY DEF Msg
    <3> QED BY <3>1, BoundsAssumption, NoMsgAssumption
            DEF TypeOK, HeldAttempts, HeldEffects, BusyWith, Held, HeldBy
  <2>5. Budget \in Nat /\ 1 + workerCrashes + gatewayCrashes \in Nat
    <3>1. \A a, b \in Nat : (a + 1) * (1 + b) \in Nat
      OBVIOUS
    <3>2. workerCrashes \in Nat /\ gatewayCrashes \in Nat
      BY BoundsAssumption DEF TypeOK
    <3> QED BY <3>1, <3>2, BoundsAssumption DEF Budget
  <2> QED BY <2>1, <2>2, <2>3, <2>4, <2>5 DEF Counted
<1> QED
  BY <1>1, <1>2, <1>3, TypeCorrect, AccountHolds, PTL DEF Spec

==============================================================================
