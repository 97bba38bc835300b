------------------------------- MODULE Inbox -------------------------------
(***************************************************************************)
(* How a page's events reach the agents and the seller.  Meta delivers a   *)
(* customer's messages and comments at least once; WebhookReceive starts a *)
(* goroutine for each delivery and answers 200 at once.  The goroutines    *)
(* find or create the one conversation of that customer, save the message, *)
(* count it as unread and publish a task for the agent, statement by       *)
(* statement, next to a seller who reads the conversation, takes it over   *)
(* from the AI, and disconnects the page.                                  *)
(***************************************************************************)
EXTENDS Naturals, FiniteSets

CONSTANTS
    Message, Comment,   \* what one customer writes to one page
    Handler,            \* goroutines at a time
    Reader,             \* GetMessages requests at a time
    NoEvent,
    MaxRepeats,         \* bound: deliveries that repeat an earlier one
    MaxSwitches,        \* bound: changes of mode and of the page's connection
    MaxFaults           \* bound: crashes, refused publishes

Event == Message \cup Comment

ASSUME InboxAssumption ==
    /\ Message \cap Comment = {} /\ NoEvent \notin Event
    /\ MaxRepeats \in Nat /\ MaxSwitches \in Nat /\ MaxFaults \in Nat

VARIABLES
    connected,  \* connected_pages has the page
    conv,       \* the conversation's handling_mode, "none" without a row
    unread,     \* its unread_count
    saved,      \* rows of messages and post_comments, by mid and comment_id
    at, ev,     \* at[h]: where goroutine h stands; ev[h]: what it handles
    mode,       \* mode[h]: the handling_mode of the conversation h loaded
    asked,      \* asked[e]: tasks published for e
    queue,      \* events whose task is with the agents
    reading,    \* readers that marked the conversation read and have not
                \* fetched its messages yet
    seen,       \* messages a reader has fetched
    skipped,    \* a crash fell between the two, or between a message's
                \* insert and its count
    gone,       \* gone[e]: why no agent was asked about e
    early,      \* messages picked up for the AI before the seller took over
    intruded,   \* messages answered by the AI while the seller had taken over
    delivered,  \* events Meta was answered 200 for
    repeats, switches, faults

rowVars   == <<connected, conv, unread, saved>>
goVars    == <<at, ev, mode>>
taskVars  == <<asked, queue, gone>>
seenVars  == <<reading, seen, skipped>>
modeVars  == <<early, intruded>>
boundVars == <<delivered, repeats, switches, faults>>
vars == <<rowVars, goVars, taskVars, seenVars, modeVars, boundVars>>

Mode == {"ai", "human"}
Reason == {"page", "conversation", "seller", "broker", "crash"}

Step == {"idle", "started", "paged", "absent", "found", "orphan", "saved", "asking"}
OfMessage == {"absent", "found", "orphan", "saved"}

\* Only a running goroutine has an event; only messages need a conversation.
GoroutineOK ==
    /\ at \in [Handler -> Step] /\ ev \in [Handler -> Event \cup {NoEvent}]
    /\ \A h \in Handler : at[h] = "idle" <=> ev[h] = NoEvent
    /\ \A h \in Handler : at[h] \in OfMessage => ev[h] \in Message

TypeOK ==
    /\ connected \in BOOLEAN /\ conv \in Mode \cup {"none"} /\ unread \in Nat
    /\ saved \in SUBSET Event
    /\ GoroutineOK
    /\ mode \in [Handler -> Mode]
    /\ asked \in [Event -> Nat] /\ queue \in SUBSET Event
    /\ gone \in [Event -> SUBSET Reason]
    /\ reading \in SUBSET Reader /\ seen \in SUBSET Message /\ skipped \in BOOLEAN
    /\ early \in SUBSET Message /\ intruded \in SUBSET Message
    /\ delivered \in SUBSET Event /\ repeats \in 0..MaxRepeats
    /\ switches \in 0..MaxSwitches /\ faults \in 0..MaxFaults

Init ==
    /\ connected = TRUE /\ conv = "none" /\ unread = 0 /\ saved = {}
    /\ at = [h \in Handler |-> "idle"] /\ ev = [h \in Handler |-> NoEvent]
    /\ mode = [h \in Handler |-> "ai"]
    /\ asked = [e \in Event |-> 0] /\ queue = {}
    /\ gone = [e \in Event |-> {}]
    /\ reading = {} /\ seen = {} /\ skipped = FALSE
    /\ early = {} /\ intruded = {}
    /\ delivered = {} /\ repeats = 0 /\ switches = 0 /\ faults = 0

Switch == switches < MaxSwitches /\ switches' = switches + 1
Fault == faults < MaxFaults /\ faults' = faults + 1

Go(h, step) == at' = [at EXCEPT ![h] = step] /\ UNCHANGED ev
Return(h) == /\ at' = [at EXCEPT ![h] = "idle"]
             /\ ev' = [ev EXCEPT ![h] = NoEvent]

---------------------------------------------------------------------------
(* handleIncomingMessage and handleIncomingComment *)

WebhookReceive(h, e) ==
    /\ at[h] = "idle"
    /\ \/ e \notin delivered /\ UNCHANGED repeats
       \/ e \in delivered /\ repeats < MaxRepeats /\ repeats' = repeats + 1
    /\ delivered' = delivered \cup {e}
    /\ at' = [at EXCEPT ![h] = "started"]
    /\ ev' = [ev EXCEPT ![h] = e]
    /\ UNCHANGED <<mode, rowVars, taskVars, seenVars, modeVars, switches, faults>>

FindPage(h) ==
    /\ at[h] = "started"
    /\ IF connected
       THEN Go(h, "paged") /\ UNCHANGED gone
       ELSE Return(h) /\ gone' = [gone EXCEPT ![ev[h]] = @ \cup {"page"}]
    /\ UNCHANGED <<mode, asked, queue, rowVars, seenVars, modeVars, boundVars>>

\* Bug: a comment is handled like a message.
FindForAnyEvent(h) ==
    /\ at[h] = "paged"
    /\ IF conv = "none"
       THEN Go(h, "absent") /\ UNCHANGED mode
       ELSE Go(h, "found") /\ mode' = [mode EXCEPT ![h] = conv]
    /\ UNCHANGED <<rowVars, taskVars, seenVars, modeVars, boundVars>>

FindConversation(h) ==
    /\ at[h] = "paged" /\ ev[h] \in Message
    /\ IF conv = "none"
       THEN Go(h, "absent") /\ UNCHANGED mode
       ELSE Go(h, "found") /\ mode' = [mode EXCEPT ![h] = conv]
    /\ UNCHANGED <<rowVars, taskVars, seenVars, modeVars, boundVars>>

\* The insert of a second goroutine is refused by the unique index on page and
\* customer (infra/postgres/init.sql:280), its error is not looked at, and the
\* goroutine goes on with an id of its own, which the foreign key of the
\* messages (init.sql:290) does not know.
CreateConversation(h) ==
    /\ at[h] = "absent"
    /\ mode' = [mode EXCEPT ![h] = "ai"]
    /\ IF conv = "none"
       THEN conv' = "ai" /\ Go(h, "found")
       ELSE UNCHANGED conv /\ Go(h, "orphan")
    /\ UNCHANGED <<connected, unread, saved, taskVars, seenVars, modeVars, boundVars>>

\* Bug: a row with this mid does not stop the handler.
SaveAgain(h) ==
    /\ at[h] = "found"
    /\ saved' = saved \cup {ev[h]} /\ Go(h, "saved")
    /\ UNCHANGED <<connected, conv, unread, mode, taskVars, seenVars,
                   modeVars, boundVars>>

\* messenger_mid is unique: a second delivery ends here.
SaveMessage(h) ==
    /\ at[h] = "found"
    /\ IF ev[h] \in saved
       THEN Return(h) /\ UNCHANGED saved
       ELSE saved' = saved \cup {ev[h]} /\ Go(h, "saved")
    /\ UNCHANGED <<connected, conv, unread, mode, taskVars, seenVars,
                   modeVars, boundVars>>

\* No conversation has that id: the foreign key refuses the message, and the
\* handler takes it for a duplicate.
SaveRefused(h) ==
    /\ at[h] = "orphan"
    /\ Return(h)
    /\ gone' = [gone EXCEPT ![ev[h]] = @ \cup {"conversation"}]
    /\ UNCHANGED <<mode, asked, queue, rowVars, seenVars, modeVars, boundVars>>

\* Bug: the AI is asked whatever the conversation's mode.
CountAndAsk(h) ==
    /\ at[h] = "saved"
    /\ unread' = unread + 1
    /\ Go(h, "asking")
    /\ UNCHANGED <<connected, conv, saved, mode, taskVars, seenVars, modeVars, boundVars>>

\* The mode is the one loaded by FindConversation.
CountUnread(h) ==
    /\ at[h] = "saved"
    /\ unread' = unread + 1
    /\ IF mode[h] = "ai"
       THEN Go(h, "asking") /\ UNCHANGED gone
       ELSE Return(h) /\ gone' = [gone EXCEPT ![ev[h]] = @ \cup {"seller"}]
    /\ UNCHANGED <<connected, conv, saved, mode, asked, queue, seenVars,
                   modeVars, boundVars>>

SaveComment(h) ==
    /\ at[h] = "paged" /\ ev[h] \in Comment
    /\ IF ev[h] \in saved
       THEN Return(h) /\ UNCHANGED saved
       ELSE saved' = saved \cup {ev[h]} /\ Go(h, "asking")
    /\ UNCHANGED <<connected, conv, unread, mode, taskVars, seenVars,
                   modeVars, boundVars>>

PublishTask(h) ==
    /\ at[h] = "asking"
    /\ asked' = [asked EXCEPT ![ev[h]] = @ + 1]
    /\ queue' = queue \cup {ev[h]}
    /\ Return(h)
    /\ UNCHANGED <<mode, gone, rowVars, seenVars, modeVars, boundVars>>

\* Bug: a failed publish is not even noticed.
PublishSwallowed(h) ==
    /\ at[h] = "asking" /\ Fault
    /\ Return(h)
    /\ UNCHANGED <<mode, taskVars, rowVars, seenVars, modeVars, delivered, repeats, switches>>

\* The gateway has no connection to RabbitMQ, or the publish is refused.
PublishFails(h) ==
    /\ at[h] = "asking" /\ Fault
    /\ Return(h)
    /\ gone' = [gone EXCEPT ![ev[h]] = @ \cup {"broker"}]
    /\ UNCHANGED <<mode, asked, queue, rowVars, seenVars, modeVars,
                   delivered, repeats, switches>>

---------------------------------------------------------------------------
(* The agent's answer; TaskPipeline models what lies in between *)

\* HandleResult replies through the connected page; the agents reply to
\* comments, screenshots and after an error of the model with the token
\* they were given.
Answer(e) ==
    /\ e \in queue /\ queue' = queue \ {e}
    /\ \E byAgent \in BOOLEAN :
         intruded' = IF e \in Message /\ conv = "human" /\ (byAgent \/ connected)
                     THEN intruded \cup {e} ELSE intruded
    /\ UNCHANGED <<early, asked, gone, rowVars, goVars, seenVars, boundVars>>

---------------------------------------------------------------------------
(* The seller *)

\* Messages the AI is about to be asked about, or has been.
PickedUp == (queue \cap Message) \cup
            {ev[h] : h \in {g \in Handler : /\ at[g] \in {"found", "saved", "asking"}
                                            /\ ev[g] \in Message /\ mode[g] = "ai"}}

UpdateMode(m) ==
    /\ conv # "none" /\ conv # m /\ Switch
    /\ conv' = m
    /\ early' = IF m = "human" THEN early \cup PickedUp ELSE early
    /\ UNCHANGED <<connected, unread, saved, intruded, goVars, taskVars,
                   seenVars, delivered, repeats, faults>>

MarkRead(r) ==
    /\ conv # "none" /\ r \notin reading
    /\ unread' = 0
    /\ reading' = reading \cup {r}
    /\ UNCHANGED <<seen, skipped, connected, conv, saved, goVars, taskVars,
                   modeVars, boundVars>>

FetchMessages(r) ==
    /\ r \in reading /\ reading' = reading \ {r}
    /\ seen' = seen \cup (saved \cap Message)
    /\ skipped' = FALSE
    /\ UNCHANGED <<rowVars, goVars, taskVars, modeVars, boundVars>>

\* Bug: the conversation is marked read after its messages were fetched.
FetchThenMarkRead(r) ==
    /\ conv # "none"
    /\ IF r \notin reading
       THEN /\ reading' = reading \cup {r}
            /\ seen' = seen \cup (saved \cap Message)
            /\ UNCHANGED unread
       ELSE reading' = reading \ {r} /\ unread' = 0 /\ UNCHANGED seen
    /\ UNCHANGED <<skipped, connected, conv, saved, goVars, taskVars,
                   modeVars, boundVars>>

GetMessages(r) == MarkRead(r) \/ FetchMessages(r)

DisconnectPage ==
    /\ connected /\ Switch
    /\ connected' = FALSE
    /\ UNCHANGED <<conv, unread, saved, goVars, taskVars, seenVars, modeVars,
                   delivered, repeats, faults>>

ConnectPage ==
    /\ ~connected /\ Switch
    /\ connected' = TRUE
    /\ UNCHANGED <<conv, unread, saved, goVars, taskVars, seenVars, modeVars,
                   delivered, repeats, faults>>

\* The goroutines die; Meta was answered 200 and does not deliver again.
Crash ==
    /\ Fault
    /\ at' = [h \in Handler |-> "idle"] /\ ev' = [h \in Handler |-> NoEvent]
    /\ gone' = [e \in Event |-> gone[e] \cup
                  IF \E h \in Handler : ev[h] = e THEN {"crash"} ELSE {}]
    /\ reading' = {}
    /\ skipped' = (skipped \/ reading # {} \/ \E h \in Handler : at[h] = "saved")
    /\ UNCHANGED <<mode, asked, queue, seen, rowVars, modeVars,
                   delivered, repeats, switches>>

---------------------------------------------------------------------------

HandleIncoming(h) ==
    \/ FindPage(h) \/ FindConversation(h) \/ CreateConversation(h)
    \/ SaveMessage(h) \/ SaveRefused(h) \/ CountUnread(h) \/ SaveComment(h)
    \/ PublishTask(h) \/ PublishFails(h)

Next ==
    \/ \E h \in Handler : (\E e \in Event : WebhookReceive(h, e)) \/ HandleIncoming(h)
    \/ \E e \in Event : Answer(e)
    \/ \E m \in Mode : UpdateMode(m)
    \/ \E r \in Reader : GetMessages(r)
    \/ DisconnectPage \/ ConnectPage \/ Crash

Spec == Init /\ [][Next]_vars

---------------------------------------------------------------------------
(* Properties *)

\* However often Meta delivers an event, and however the goroutines for it
\* interleave, the agents are asked about it once (the unique messenger_mid
\* and comment_id, messenger/handler.go:172 and 361).
AskedOnce == \A e \in Event : asked[e] <= 1

\* An event Meta was answered 200 for is being handled, or the agents were
\* asked about it, or it is one of the known losses: no page, a conversation
\* taken over, a refused publish, a crash, or the conversation that another
\* first message created at the same time (messenger/handler.go:110-175).
EveryEventIsSettled ==
    \A e \in delivered :
        \/ asked[e] > 0
        \/ gone[e] # {}
        \/ \E h \in Handler : ev[h] = e

\* Messages the seller has not fetched are counted as unread, or will be
\* (the order of conversations/handler.go:96 and 105 against
\* messenger/handler.go:172 and 191); only a crash between two of these hides some,
\* until the conversation is opened again.
UnseenIsUnread ==
    reading = {} /\ ~skipped =>
        Cardinality({m \in saved \cap Message :
                        m \notin seen /\ ~\E h \in Handler : ev[h] = m /\ at[h] = "saved"})
            <= unread

\* While the seller has taken over, the AI answers only messages that were
\* picked up before (messenger/handler.go:195 tests the mode loaded at 112).
TakeoverIsRespected == intruded \subseteq early

=============================================================================
