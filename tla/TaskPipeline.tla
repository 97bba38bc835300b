--------------------------- MODULE TaskPipeline ---------------------------
(***************************************************************************)
(* The life of an agent task: the gateway records it and publishes it, the *)
(* broker holds it, one worker consumes it, retries it or gives up, and    *)
(* the gateway's single results consumer applies its automated actions and *)
(* updates the row.  Both processes may crash between any two steps; the   *)
(* broker redelivers whatever was not acknowledged.                        *)
(*                                                                         *)
(* One queue and its worker stand for the six <agent>_tasks queues, which  *)
(* differ only in their routing key.  task_results is one queue.           *)
(***************************************************************************)
EXTENDS Naturals, Sequences, FiniteSets

CONSTANTS
    Task,               \* the task ids of one user
    NoMsg,              \* what a worker holds when it holds no delivery
    MaxRetries,         \* settings.MAX_RETRIES (3 in config.py)
    DailyLimit,         \* MaxTasksPerDay of the plan; 0 means no limit
    MessageTTL,         \* TRUE when the broker's x-message-ttl may expire
    MaxWorkerCrashes,   \* bound: worker crashes explored
    MaxGatewayCrashes,  \* bound: gateway crashes explored
    MaxFaults           \* bound: lost publishes and failed row updates

Msg == [task : Task, retry : 0..MaxRetries]

ASSUME BoundsAssumption ==
    /\ MaxRetries \in Nat /\ DailyLimit \in Nat
    /\ MaxWorkerCrashes \in Nat /\ MaxGatewayCrashes \in Nat
    /\ MaxFaults \in Nat
    /\ MessageTTL \in BOOLEAN
ASSUME NoMsgAssumption == NoMsg \notin Msg

VARIABLES
    req,        \* req[t]: where the RunAgent request of t stands
    row,        \* row[t]: agent_tasks.status, "none" while there is no row
    ready,      \* ready[m]: copies of m the broker may deliver
    dlq,        \* dead-lettered tasks, with the reason
    wpc, hold,  \* the worker: step of _handle_message, delivery it holds
    saved,      \* tasks with an output document in MongoDB
    results,    \* the task_results queue, its head being the one in flight
    gpc,        \* the results consumer: step of HandleResult
    effects,    \* effects[t]: times the automated actions of t were applied
    starts,     \* starts[t]: times process_task was started for t
    updateLost, \* tasks whose row update the database refused
    workerCrashes, gatewayCrashes, faults

httpVars   == <<req, row>>
brokerVars == <<ready, dlq, results>>
workerVars == <<wpc, hold, saved, starts>>
resultVars == <<gpc, effects, updateLost>>
boundVars  == <<workerCrashes, gatewayCrashes, faults>>
vars == <<httpVars, brokerVars, workerVars, resultVars, boundVars>>

ReqState    == {"none", "checked", "created", "sent", "refused",
                "abandoned", "unconfirmed", "internal"}
RowState    == {"none", "queued", "completed", "failed", "deleted"}
WorkerState == {"idle", "processing", "processed", "saved", "published",
                "failing", "requeued", "gaveup", "dead", "stopped"}
GatewayState == {"idle", "acted", "updated", "down", "deaf"}
Result      == [task : Task, status : {"completed", "failed"}]
DeadReason  == {"expired", "rejected"}

TypeOK ==
    /\ req \in [Task -> ReqState]
    /\ row \in [Task -> RowState]
    /\ ready \in [Msg -> Nat]
    /\ dlq \in SUBSET (Task \X DeadReason)
    /\ wpc \in WorkerState
    /\ hold \in Msg \cup {NoMsg}
    /\ (hold = NoMsg) <=> (wpc \in {"idle", "dead", "stopped"})
    /\ saved \in SUBSET Task
    /\ results \in Seq(Result)
    /\ gpc \in GatewayState
    /\ gpc \in {"acted", "updated"} => results # <<>>
    /\ effects \in [Task -> Nat]
    /\ starts \in [Task -> Nat]
    /\ updateLost \in SUBSET Task
    /\ workerCrashes \in 0..MaxWorkerCrashes
    /\ gatewayCrashes \in 0..MaxGatewayCrashes
    /\ faults \in 0..MaxFaults

Init ==
    /\ req = [t \in Task |-> "none"]
    /\ row = [t \in Task |-> "none"]
    /\ ready = [m \in Msg |-> 0]
    /\ dlq = {}
    /\ wpc = "idle" /\ hold = NoMsg
    /\ saved = {}
    /\ results = <<>>
    /\ gpc \in {"idle", "deaf"}
    /\ effects = [t \in Task |-> 0]
    /\ starts = [t \in Task |-> 0]
    /\ updateLost = {}
    /\ workerCrashes = 0 /\ gatewayCrashes = 0 /\ faults = 0

---------------------------------------------------------------------------
(* RunAgent, the HTTP side of the gateway *)

GatewayUp == gpc # "down"

\* The channel to the broker is open.  A gateway that started without its
\* broker, or whose channel was closed, goes on without one.
CanPublish == gpc \notin {"down", "deaf"}

FirstTry(t) == [task |-> t, retry |-> 0]
NextTry(m) == [task |-> m.task, retry |-> m.retry + 1]

LiveRows == {t \in Task : row[t] \notin {"none", "deleted"}}

\* The day's rows are counted before the row of this request exists.  One
\* day is explored.
CheckLimit(t) ==
    /\ GatewayUp /\ req[t] = "none"
    /\ DailyLimit > 0 => Cardinality(LiveRows) < DailyLimit
    /\ req' = [req EXCEPT ![t] = "checked"]
    /\ UNCHANGED <<row, brokerVars, workerVars, resultVars, boundVars>>

CreateTask(t) ==
    /\ GatewayUp /\ req[t] = "checked"
    /\ req' = [req EXCEPT ![t] = "created"]
    /\ row' = [row EXCEPT ![t] = "queued"]
    /\ UNCHANGED <<brokerVars, workerVars, resultVars, boundVars>>

PublishTask(t) ==
    /\ CanPublish /\ req[t] = "created"
    /\ req' = [req EXCEPT ![t] = "sent"]
    /\ ready' = [ready EXCEPT ![FirstTry(t)] = @ + 1]
    /\ UNCHANGED <<row, dlq, results, workerVars, resultVars, boundVars>>

\* The client is nil or the channel reports an error: the row is failed.
PublishRefused(t) ==
    /\ GatewayUp /\ req[t] = "created"
    /\ req' = [req EXCEPT ![t] = "refused"]
    /\ row' = [row EXCEPT ![t] = IF @ = "queued" THEN "failed" ELSE @]
    /\ UNCHANGED <<brokerVars, workerVars, resultVars, boundVars>>

\* Without publisher confirms a publish may succeed and never arrive.
PublishUnconfirmed(t) ==
    /\ CanPublish /\ req[t] = "created" /\ faults < MaxFaults
    /\ req' = [req EXCEPT ![t] = "unconfirmed"]
    /\ faults' = faults + 1
    /\ UNCHANGED <<row, brokerVars, workerVars, resultVars,
                   workerCrashes, gatewayCrashes>>

\* Messenger webhooks and payment handlers publish tasks that have no row.
DispatchInternal(t) ==
    /\ CanPublish /\ req[t] = "none"
    /\ req' = [req EXCEPT ![t] = "internal"]
    /\ ready' = [ready EXCEPT ![FirstTry(t)] = @ + 1]
    /\ UNCHANGED <<row, dlq, results, workerVars, resultVars, boundVars>>

DeleteTask(t) ==
    /\ GatewayUp /\ row[t] \notin {"none", "deleted"}
    /\ row' = [row EXCEPT ![t] = "deleted"]
    /\ UNCHANGED <<req, brokerVars, workerVars, resultVars, boundVars>>

---------------------------------------------------------------------------
(* The broker *)

Expire(m) ==
    /\ MessageTTL /\ ready[m] > 0
    /\ ready' = [ready EXCEPT ![m] = @ - 1]
    /\ dlq' = dlq \cup {<<m.task, "expired">>}
    /\ UNCHANGED <<httpVars, results, workerVars, resultVars, boundVars>>

---------------------------------------------------------------------------
(* BaseWorker._handle_message *)

Deliver(m) ==
    /\ wpc = "idle" /\ ready[m] > 0
    /\ ready' = [ready EXCEPT ![m] = @ - 1]
    /\ wpc' = "processing" /\ hold' = m
    /\ starts' = [starts EXCEPT ![m.task] = @ + 1]
    /\ UNCHANGED <<httpVars, dlq, results, saved, resultVars, boundVars>>

ProcessTask ==
    /\ wpc = "processing"
    /\ wpc' = "processed"
    /\ UNCHANGED <<httpVars, brokerVars, hold, saved, starts, resultVars, boundVars>>

\* Bug: a failed insert is swallowed and the task goes on.
SaveOutputSwallowed ==
    /\ wpc = "processed"
    /\ wpc' = "saved"
    /\ UNCHANGED <<httpVars, brokerVars, hold, saved, starts, resultVars, boundVars>>

SaveOutput ==
    /\ wpc = "processed"
    /\ wpc' = "saved"
    /\ saved' = saved \cup {hold.task}
    /\ UNCHANGED <<httpVars, brokerVars, hold, starts, resultVars, boundVars>>

PublishResult(from, to, status) ==
    /\ wpc = from
    /\ wpc' = to
    /\ results' = Append(results, [task |-> hold.task, status |-> status])
    /\ UNCHANGED <<httpVars, ready, dlq, hold, saved, starts, resultVars, boundVars>>

PublishCompleted == PublishResult("saved", "published", "completed")

\* process_task or insert_one raised; a publish that raises means a lost
\* connection, on which the handler's own publishes raise too: WorkerDisconnect.
Raise ==
    /\ wpc \in {"processing", "processed"}
    /\ wpc' = "failing"
    /\ UNCHANGED <<httpVars, brokerVars, hold, saved, starts, resultVars, boundVars>>

\* Bug: the retry is republished with the count it came with.
RetrySameCount ==
    /\ wpc = "failing" /\ hold.retry < MaxRetries
    /\ wpc' = "requeued"
    /\ ready' = [ready EXCEPT ![hold] = @ + 1]
    /\ UNCHANGED <<httpVars, dlq, results, hold, saved, starts, resultVars, boundVars>>

\* Bug: the failed attempt is acknowledged and never republished.
RetryNotRepublished ==
    /\ wpc = "failing" /\ hold.retry < MaxRetries
    /\ wpc' = "requeued"
    /\ UNCHANGED <<httpVars, brokerVars, hold, saved, starts, resultVars, boundVars>>

RepublishRetry ==
    /\ wpc = "failing" /\ hold.retry < MaxRetries
    /\ wpc' = "requeued"
    /\ ready' = [ready EXCEPT ![NextTry(hold)] = @ + 1]
    /\ UNCHANGED <<httpVars, dlq, results, hold, saved, starts, resultVars, boundVars>>

PublishFailed ==
    /\ wpc = "failing" /\ hold.retry = MaxRetries
    /\ PublishResult("failing", "gaveup", "failed")

\* Bug: the task is acknowledged before its result is published.
AckBeforePublish ==
    /\ wpc \in {"saved", "published", "requeued"}
    /\ wpc' = "idle" /\ hold' = NoMsg
    /\ UNCHANGED <<httpVars, brokerVars, saved, starts, resultVars, boundVars>>

Ack ==
    /\ wpc \in {"published", "requeued"}
    /\ wpc' = "idle" /\ hold' = NoMsg
    /\ UNCHANGED <<httpVars, brokerVars, saved, starts, resultVars, boundVars>>

RejectToDLQ ==
    /\ wpc = "gaveup"
    /\ wpc' = "idle" /\ hold' = NoMsg
    /\ dlq' = dlq \cup {<<hold.task, "rejected">>}
    /\ UNCHANGED <<httpVars, ready, results, saved, starts, resultVars, boundVars>>

\* The broker takes an unacknowledged delivery back.
WorkerStops(how) ==
    /\ workerCrashes < MaxWorkerCrashes
    /\ workerCrashes' = workerCrashes + 1
    /\ wpc' = how /\ hold' = NoMsg
    /\ ready' = IF hold = NoMsg THEN ready
                ELSE [ready EXCEPT ![hold] = @ + 1]
    /\ UNCHANGED <<httpVars, dlq, results, saved, starts, resultVars,
                   gatewayCrashes, faults>>

WorkerCrash == wpc # "dead" /\ WorkerStops("dead")

\* A lost connection ends the consumer's thread.  The process stays, says it
\* is healthy, and is not restarted.
WorkerDisconnect == wpc \notin {"dead", "stopped"} /\ WorkerStops("stopped")

WorkerRestart ==
    /\ wpc = "dead"
    /\ wpc' = "idle"
    /\ UNCHANGED <<httpVars, brokerVars, hold, saved, starts, resultVars, boundVars>>

---------------------------------------------------------------------------
(* ConsumeResults and HandleResult: one goroutine, one result at a time *)

\* Bug: auto-ack, the result leaves the queue before it is handled.
ApplyAutoAcked ==
    /\ gpc = "idle" /\ results # <<>>
    /\ gpc' = "acted"
    /\ results' = Tail(results)
    /\ UNCHANGED <<httpVars, ready, dlq, workerVars, effects, updateLost, boundVars>>

ApplyActions ==
    /\ gpc = "idle" /\ results # <<>>
    /\ gpc' = "acted"
    /\ LET r == Head(results) IN
       effects' = IF r.status = "completed"
                  THEN [effects EXCEPT ![r.task] = @ + 1] ELSE effects
    /\ UNCHANGED <<httpVars, brokerVars, workerVars, updateLost, boundVars>>

\* UPDATE agent_tasks WHERE task_id = ...: no row, no change.
\* Bug: the result is saved as a whole row, inserted if there is none.
UpsertTask ==
    /\ gpc = "acted"
    /\ gpc' = "updated"
    /\ row' = [row EXCEPT ![Head(results).task] = Head(results).status]
    /\ UNCHANGED <<req, brokerVars, workerVars, effects, updateLost, boundVars>>

UpdateTask ==
    /\ gpc = "acted"
    /\ gpc' = "updated"
    /\ LET r == Head(results) IN
       row' = [row EXCEPT ![r.task] =
                 IF @ \in {"none", "deleted"} THEN @ ELSE r.status]
    /\ UNCHANGED <<req, brokerVars, workerVars, effects, updateLost, boundVars>>

\* The error of that UPDATE is not looked at.
UpdateTaskFails ==
    /\ gpc = "acted" /\ faults < MaxFaults
    /\ gpc' = "updated"
    /\ updateLost' = updateLost \cup {Head(results).task}
    /\ faults' = faults + 1
    /\ UNCHANGED <<httpVars, brokerVars, workerVars, effects,
                   workerCrashes, gatewayCrashes>>

\* Bug: a handled result is given back to the queue.
RequeueResult ==
    /\ gpc = "updated"
    /\ gpc' = "idle"
    /\ results' = Append(Tail(results), Head(results))
    /\ UNCHANGED <<httpVars, ready, dlq, workerVars, effects, updateLost, boundVars>>

AckResult ==
    /\ gpc = "updated"
    /\ gpc' = "idle"
    /\ results' = Tail(results)
    /\ UNCHANGED <<httpVars, ready, dlq, workerVars, effects, updateLost, boundVars>>

\* Requests under way die with the process; the result in flight stays at
\* the head of its queue.
GatewayCrash ==
    /\ GatewayUp /\ gatewayCrashes < MaxGatewayCrashes
    /\ gatewayCrashes' = gatewayCrashes + 1
    /\ gpc' = "down"
    /\ req' = [t \in Task |-> CASE req[t] = "checked" -> "none"
                                [] req[t] = "created" -> "abandoned"
                                [] OTHER -> req[t]]
    /\ UNCHANGED <<row, brokerVars, workerVars, effects, updateLost,
                   workerCrashes, faults>>

GatewayRestart ==
    /\ gpc = "down"
    /\ gpc' \in {"idle", "deaf"}
    /\ UNCHANGED <<httpVars, brokerVars, workerVars, effects, updateLost, boundVars>>

\* The broker's channel closes under a gateway that goes on: the loop over
\* the deliveries ends and is not started again.  A result being handled is
\* handled to the end, only its acknowledgement is lost.
LoseChannel ==
    /\ gpc \in {"idle", "updated"} /\ gatewayCrashes < MaxGatewayCrashes
    /\ gatewayCrashes' = gatewayCrashes + 1
    /\ gpc' = "deaf"
    /\ UNCHANGED <<httpVars, brokerVars, workerVars, effects, updateLost,
                   workerCrashes, faults>>

---------------------------------------------------------------------------

RunAgent(t) == \/ CheckLimit(t) \/ CreateTask(t)
               \/ PublishTask(t) \/ PublishRefused(t) \/ PublishUnconfirmed(t)

HandleMessage == \/ ProcessTask \/ SaveOutput \/ PublishCompleted
                 \/ Raise \/ RepublishRetry \/ PublishFailed
                 \/ Ack \/ RejectToDLQ

HandleResult == ApplyActions \/ UpdateTask \/ UpdateTaskFails \/ AckResult

Next ==
    \/ \E t \in Task : RunAgent(t) \/ DispatchInternal(t) \/ DeleteTask(t)
    \/ \E m \in Msg : Expire(m) \/ Deliver(m)
    \/ HandleMessage \/ WorkerCrash \/ WorkerDisconnect \/ WorkerRestart
    \/ HandleResult \/ GatewayCrash \/ LoseChannel \/ GatewayRestart

Spec == Init /\ [][Next]_vars

\* The worker and the results consumer are loops that keep running, the
\* broker delivers to an idle consumer, and both containers have a restart
\* policy, which brings back a process that died but nothing else.  A request
\* that has created its row is a goroutine that goes on unless the process
\* dies; a client need not send one.
Fairness ==
    /\ WF_vars(\E m \in Msg : Deliver(m))
    /\ WF_vars(HandleMessage) /\ WF_vars(WorkerRestart)
    /\ WF_vars(HandleResult) /\ WF_vars(GatewayRestart)
    /\ \A t \in Task : WF_vars(PublishTask(t) \/ PublishRefused(t)
                               \/ PublishUnconfirmed(t))

FairSpec == Spec /\ Fairness

---------------------------------------------------------------------------
(* Properties *)

CopyOf(t, copies) == \E m \in Msg : m.task = t /\ copies[m] > 0
HeldBy(t, m) == m # NoMsg /\ m.task = t
ResultOf(t, queue) == \E i \in 1..Len(queue) : queue[i].task = t

InReady(t) == CopyOf(t, ready)
Held(t) == HeldBy(t, hold)
InResults(t) == ResultOf(t, results)

\* The known ways in which a task can stay "queued" for ever: the process
\* died before the publish, the publish was never confirmed, its message
\* outlived the TTL, or the database refused the status update.
Stranded(t) ==
    \/ req[t] \in {"abandoned", "unconfirmed"}
    \/ <<t, "expired">> \in dlq
    \/ t \in updateLost

\* No task is lost silently: while its row says "queued", the task is still
\* in the request, in the broker, in a worker's hands or among the results,
\* or one of the four known causes has stranded it.  This is what the order
\* "publish the result, then acknowledge the task" is for
\* (base_worker.py:105-106, rabbitmq.go:133-141).
QueuedIsAccountedFor ==
    \A t \in Task : row[t] = "queued" =>
        \/ req[t] = "created"
        \/ InReady(t) \/ Held(t) \/ InResults(t)
        \/ Stranded(t)

\* A task that was not published yet is nowhere in the pipeline.
UnpublishedIsNowhere ==
    \A t \in Task : req[t] \in {"none", "checked", "created"} =>
        ~InReady(t) /\ ~Held(t) /\ ~InResults(t)

\* Just before the worker lets go of a delivery, what replaces it is
\* already in place: the retry in the queue, or the result.
HandedOver ==
    /\ wpc = "requeued" => \/ InReady(hold.task)
                          \/ <<hold.task, "expired">> \in dlq
    /\ wpc \in {"published", "gaveup"} =>
         \/ row[hold.task] # "queued"
         \/ InResults(hold.task)
         \/ hold.task \in updateLost

\* Just before a result is acknowledged its row is settled.
Settled ==
    gpc = "updated" => \/ row[Head(results).task] # "queued"
                       \/ Head(results).task \in updateLost

\* The inductive invariant behind QueuedIsAccountedFor.
AccountInv ==
    /\ UnpublishedIsNowhere
    /\ HandedOver
    /\ Settled
    /\ QueuedIsAccountedFor

\* A task reported completed has its output in MongoDB and its automated
\* actions were applied before its row said so.
CompletedIsBacked ==
    \A t \in Task : row[t] = "completed" => t \in saved /\ effects[t] > 0

\* The inductive invariant behind CompletedIsBacked: whoever carries a
\* completed result, or is about to publish one, has its output saved.
BackedInv ==
    /\ wpc = "saved" => hold.task \in saved
    /\ \A i \in 1..Len(results) :
          results[i].status = "completed" => results[i].task \in saved
    /\ gpc \in {"acted", "updated"} /\ Head(results).status = "completed"
          => effects[Head(results).task] > 0
    /\ CompletedIsBacked

\* Nothing repeats without bound: the retry budget is per delivered copy and a
\* worker crash adds at most one copy; the automated actions of a task (reply,
\* order, verification) are applied once, plus at most once for every crash of
\* either process.
EffectsAreBounded ==
    \A t \in Task :
        /\ starts[t] <= (MaxRetries + 1) * (1 + workerCrashes)
        /\ effects[t] <= 1 + workerCrashes + gatewayCrashes

\* No task stays "queued" for ever, except by one of the four known causes
\* or because a process lost its connection to the broker for good: retries
\* end, crashed consumers get their messages back, and the single results
\* consumer gets to every result.
EveryTaskIsResolved ==
    \A t \in Task : row[t] = "queued" ~>
        row[t] # "queued" \/ Stranded(t) \/ wpc = "stopped" \/ gpc = "deaf"

\* As long as no process has crashed, the pipeline implements the life cycle
\* TaskLifecycle promises: a task's actions are applied exactly once and before
\* it is reported completed, never for a failed task, and a final or deleted
\* row does not come back.
Lifecycle == INSTANCE TaskLifecycle WITH applied <- effects
NoCrash == workerCrashes' = 0 /\ gatewayCrashes' = 0
ImplementsLifecycle ==
    /\ Lifecycle!Init
    /\ [][NoCrash => [Lifecycle!Next]_<<row, effects>>]_vars
===========================================================================
