---------------------------- MODULE CreativePage ----------------------------
(***************************************************************************)
(* The page on which a seller has the creative agent write a caption or    *)
(* draw an image.  It asks with a request and hears of the result from the *)
(* page's own socket, which its effect replaces at every change of tab and *)
(* of the access token: the two may come in either order, and an event     *)
(* sent while no socket is open is lost (WebSocketHub).                    *)
(***************************************************************************)
EXTENDS Naturals, FiniteSets

CONSTANTS
    Foreign,        \* tasks of the seller that other pages started
    MaxGenerations, \* bound: tasks the page starts
    MaxSockets,     \* bound: sockets after the first
    MaxPosts        \* bound: posts published

VARIABLES
    ui,             \* the component's state
    net,            \* requests under way, and events on the open socket
    db,             \* the state of each task, and what it was asked for
    ghost           \* the bounds' counters, and history no step depends on

vars == <<ui, net, db, ghost>>

Kind == {"caption", "image"}
Own == 1..MaxGenerations
Task == Own \cup Foreign
None == 0

\* A shown text or image is named by the task it came from.
TypeOK ==
    /\ ui \in [tab : Kind, loading : BOOLEAN, pending : Task \cup {None}, open : BOOLEAN,
               result : [Kind -> Task \cup {None}],
               status : {"idle", "queued", "completed", "failed"}, publishing : BOOLEAN]
    /\ db \in [Task -> [state : {"none", "queued", "ended"}, kind : Kind]]
    /\ \A q \in net : q.op \in {"run", "event", "pages", "publish"}
    /\ ghost \in [runs : 0..MaxGenerations, sockets : 0..MaxSockets, posts : 0..MaxPosts,
                  turned : BOOLEAN, unheard : BOOLEAN, again : BOOLEAN]

NoResult == [k \in Kind |-> None]
Init ==
    /\ ui = [tab |-> "caption", loading |-> FALSE, pending |-> None, open |-> FALSE,
             result |-> NoResult, status |-> "idle", publishing |-> FALSE]
    /\ db \in {[t \in Task |-> [state |-> IF t \in Foreign THEN "queued" ELSE "none", kind |-> k]] :
               k \in Kind}
    /\ net = {}
    /\ ghost = [runs |-> 0, sockets |-> 0, posts |-> 0, turned |-> FALSE, unheard |-> FALSE,
              again |-> FALSE]

Answer(q, new, requests) ==
    ui' = new /\ net' = (net \ {q}) \cup requests /\ UNCHANGED <<db, ghost>>

-----------------------------------------------------------------------------
(* The socket. *)

Connect == ~ui.open /\ ui' = [ui EXCEPT !.open = TRUE] /\ UNCHANGED <<net, db, ghost>>
\* What is on its way on the old socket is not heard.
Reconnect(new) ==
    /\ ghost.sockets < MaxSockets
    /\ ui' = [new EXCEPT !.open = FALSE]
    /\ net' = {q \in net : q.op # "event"}
    /\ ghost' = [ghost EXCEPT !.sockets = @ + 1, !.turned = @ \/ new.tab # ui.tab,
                    !.unheard = @ \/ \E q \in net : q.op = "event" /\ q.task \in Own]
    /\ UNCHANGED db
SwitchTab == \E k \in Kind \ {ui.tab} : Reconnect([ui EXCEPT !.tab = k])
TokenRefreshed == Reconnect(ui)

\* Only events of the pending task are handled, with the tab of the moment.
TaskCompleted(q) ==
    /\ q.op = "event" /\ q.task = ui.pending /\ q.ok
    /\ Answer(q, [ui EXCEPT !.status = "completed", !.loading = FALSE,
                            !.result[ui.tab] = q.task], {})
TaskFailed(q) ==
    /\ q.op = "event" /\ q.task = ui.pending /\ ~q.ok
    /\ Answer(q, [ui EXCEPT !.status = "failed", !.loading = FALSE], {})
\* Bug: the event of any task is taken for the pending one's.
HandleAny(q) ==
    /\ q.op = "event"
    /\ Answer(q, [ui EXCEPT !.status = "completed", !.loading = FALSE,
                            !.result[ui.tab] = q.task], {})
Ignored(q) ==
    /\ q.op = "event" /\ q.task # ui.pending
    /\ ui' = ui /\ net' = net \ {q} /\ UNCHANGED db
    /\ ghost' = [ghost EXCEPT !.unheard = @ \/ q.task \in Own]

-----------------------------------------------------------------------------
(* Asking. *)

HandleGenerate ==
    /\ ~ui.loading /\ ghost.runs < MaxGenerations
    /\ ghost' = [ghost EXCEPT !.runs = @ + 1, !.turned = FALSE]
    /\ ui' = [ui EXCEPT !.loading = TRUE, !.status = "queued", !.result = NoResult]
    /\ net' = net \cup {[op |-> "run", task |-> ghost.runs + 1, kind |-> ui.tab, at |-> "sent"]}
    /\ UNCHANGED db
RunAgent(q) ==
    /\ q.op = "run" /\ q.at = "sent"
    /\ db' = [db EXCEPT ![q.task] = [state |-> "queued", kind |-> q.kind]]
    /\ net' = (net \ {q}) \cup {[q EXCEPT !.at = "answered"]}
    /\ UNCHANGED <<ui, ghost>>
Queued(q) ==
    /\ q.op = "run" /\ q.at = "answered"
    /\ Answer(q, [ui EXCEPT !.pending = q.task], {})
\* Bug: the spinner goes on.
SubmitForgotten(q) == q.op = "run" /\ Answer(q, [ui EXCEPT !.status = "failed"], {})
\* Refused, or the answer lost.
SubmitFails(q) ==
    /\ q.op = "run"
    /\ Answer(q, [ui EXCEPT !.loading = FALSE, !.status = "failed"], {})

\* The gateway applies the agent's result and tells the socket the seller has; it
\* does so again when the result is delivered again (TaskPipeline).
Tell(t) ==
    /\ net' \in {net \cup (IF ui.open THEN {[op |-> "event", task |-> t, ok |-> ok]} ELSE {}) :
                 ok \in BOOLEAN}
    /\ UNCHANGED ui
TaskEnds(t) ==
    /\ db[t].state = "queued" /\ Tell(t)
    /\ db' = [db EXCEPT ![t].state = "ended"]
    /\ ghost' = [ghost EXCEPT !.unheard = @ \/ (~ui.open /\ t \in Own)]
TaskEndsAgain(t) ==
    /\ db[t].state = "ended" /\ ~ghost.again /\ Tell(t)
    /\ ghost' = [ghost EXCEPT !.again = TRUE]
    /\ UNCHANGED db

-----------------------------------------------------------------------------
(* Publishing, of what the page showed at the click. *)

HandlePublish ==
    /\ ui.result # NoResult /\ ~ui.publishing
    /\ ghost.posts < MaxPosts /\ ghost' = [ghost EXCEPT !.posts = @ + 1]
    /\ ui' = [ui EXCEPT !.publishing = TRUE]
    /\ net' = net \cup {[op |-> "pages", post |-> ui.result, last |-> ghost.runs]}
    /\ UNCHANGED db
PagesFetched(q) ==
    /\ q.op = "pages"
    /\ \/ Answer(q, ui, {[q EXCEPT !.op = "publish"]})
       \/ Answer(q, [ui EXCEPT !.publishing = FALSE], {})
Published(q) == q.op = "publish" /\ Answer(q, [ui EXCEPT !.publishing = FALSE], {})

-----------------------------------------------------------------------------
Next ==
    \/ Connect \/ SwitchTab \/ TokenRefreshed \/ HandleGenerate \/ HandlePublish
    \/ \E q \in net : \/ TaskCompleted(q) \/ TaskFailed(q) \/ Ignored(q) \/ RunAgent(q)
                      \/ Queued(q) \/ SubmitFails(q) \/ PagesFetched(q) \/ Published(q)
    \/ \E t \in Task : TaskEnds(t) \/ TaskEndsAgain(t)

-----------------------------------------------------------------------------
\* What is shown is never another page's task; unless a result came twice, it is
\* what was asked for last; and, if the tab was not changed meanwhile, of the kind
\* that was asked for: the text for a caption is not the note that comes with an image.
ResultIsWhatWasAsked ==
    \A k \in Kind : ui.result[k] # None =>
        /\ ui.result[k] \in Own
        /\ ghost.again \/ ui.result[k] = ghost.runs
        /\ ghost.again \/ ghost.turned \/ db[ui.result[k]].kind = k

\* The page waits for a task that can still be heard of: it gets stuck only after
\* an event was lost, or came before the answer that names its task.
WaitsForSomething ==
    ui.loading => \/ ghost.unheard
                  \/ \E q \in net : q.op = "run" \/ (q.op = "event" /\ q.task = ui.pending)
                  \/ ui.pending # None /\ db[ui.pending].state = "queued"
=============================================================================
