------------------------------ MODULE PostModal ------------------------------
(***************************************************************************)
(* The modal of the product page in which the creative agent writes a      *)
(* Facebook post.  A generation is a task of the agent and an interval     *)
(* that asks for its status; both outlive the modal that started them.     *)
(***************************************************************************)
EXTENDS Naturals, FiniteSets

CONSTANTS
    Product, NoProduct,
    PollLimit,      \* polls before a generation is given up (30 in the code)
    MaxRuns,        \* bound: posts the agent is asked for
    MaxPublishes    \* bound: posts published

VARIABLES
    ui,             \* the modal's state in the page
    net,            \* requests under way, and the polling intervals
    db,             \* the agent's tasks
    ghost           \* the bounds' counters, and history no step depends on

vars == <<ui, net, db, ghost>>

MaybeProduct == Product \cup {NoProduct}
Run == 1..MaxRuns

\* id: the modal's product, text: the product its text was written for, if any.
TypeOK ==
    /\ ui \in [shown : BOOLEAN, id : MaybeProduct, text : MaybeProduct, generating : BOOLEAN,
               publishing : BOOLEAN, pages : BOOLEAN]
    /\ db \in [Run -> {"none", "queued", "completed", "failed"}]
    /\ \A q \in net : q.op \in {"pages", "run", "poll", "status", "publish"}
    /\ ghost \in [runs : 0..MaxRuns, publishes : 0..MaxPublishes, strayed : BOOLEAN]

Init ==
    /\ ui = [shown |-> FALSE, id |-> NoProduct, text |-> NoProduct, generating |-> FALSE,
             publishing |-> FALSE, pages |-> FALSE]
    /\ db = [r \in Run |-> "none"]
    /\ net = {}
    /\ ghost = [runs |-> 0, publishes |-> 0, strayed |-> FALSE]

Answer(q, new, requests) ==
    /\ ui' = new /\ net' = (net \ {q}) \cup requests
    /\ UNCHANGED <<db, ghost>>

-----------------------------------------------------------------------------
\* POST /agents/creative/run
GenerateFBPost(p, new, rest) ==
    /\ ghost.runs < MaxRuns /\ ghost' = [ghost EXCEPT !.runs = @ + 1]
    /\ ui' = [new EXCEPT !.generating = TRUE]
    /\ net' = rest \cup {[op |-> "run", id |-> p, run |-> ghost.runs + 1]}
    /\ UNCHANGED db

AskForPages(p, new) ==
    ui' = new /\ net' = net \cup {[op |-> "pages", id |-> p]} /\ UNCHANGED <<db, ghost>>

Shown(p) == [ui EXCEPT !.shown = TRUE, !.id = p, !.text = NoProduct]
\* Bug: the text of the previous product stays.
OpenKeepsText(p) ==
    /\ ~ui.shown
    /\ LET new == [ui EXCEPT !.shown = TRUE, !.id = p] IN
       IF ui.pages THEN GenerateFBPost(p, new, net)
       ELSE AskForPages(p, new)
\* The pages are asked for first, until the gateway has named one.
OpenFBModal(p) ==
    /\ ~ui.shown
    /\ IF ui.pages THEN GenerateFBPost(p, Shown(p), net)
       ELSE AskForPages(p, Shown(p))

\* The generation starts with or without pages, and with the modal closed too.
PagesFetched(q) ==
    /\ q.op = "pages"
    /\ \E found \in BOOLEAN :
          GenerateFBPost(q.id, [ui EXCEPT !.pages = @ \/ found], net \ {q})

\* The button waits for the generation, the Enter key does not.
Regenerate == ui.shown /\ GenerateFBPost(ui.id, ui, net)

TaskStarted(q) ==
    /\ q.op = "run"
    /\ net' = (net \ {q}) \cup {[op |-> "poll", id |-> q.id, run |-> q.run, n |-> 0]}
    /\ db' = [db EXCEPT ![q.run] = "queued"]
    /\ UNCHANGED <<ui, ghost>>
TaskRefused(q) == q.op = "run" /\ Answer(q, [ui EXCEPT !.generating = FALSE], {})

TaskEnds(r) ==
    /\ db[r] = "queued"
    /\ \E s \in {"completed", "failed"} : db' = [db EXCEPT ![r] = s]
    /\ UNCHANGED <<ui, net, ghost>>

\* Every two seconds, whether the last request has been answered or not.
Poll(q) ==
    /\ q.op = "poll"
    /\ IF q.n < PollLimit
       THEN Answer(q, ui, {[q EXCEPT !.n = @ + 1],
                           [op |-> "status", id |-> q.id, run |-> q.run, n |-> q.n]})
       ELSE Answer(q, [ui EXCEPT !.generating = FALSE], {})

ClearInterval(q, new) ==
    /\ ui' = [new EXCEPT !.generating = FALSE]
    /\ net' = {r \in net : r # q /\ ~(r.op = "poll" /\ r.run = q.run)}
    /\ UNCHANGED db

\* The text goes to the modal, whichever product it shows by now.
TaskCompleted(q) ==
    /\ q.op = "status" /\ db[q.run] = "completed"
    /\ ClearInterval(q, [ui EXCEPT !.text = q.id])
    /\ ghost' = [ghost EXCEPT !.strayed = @ \/ ui.id # q.id]
TaskPending(q) == q.op = "status" /\ db[q.run] = "queued" /\ Answer(q, ui, {})
\* Bug: the spinner goes on.
SpinnerStays(q) ==
    /\ q.op = "status"
    /\ net' = {r \in net : r # q /\ ~(r.op = "poll" /\ r.run = q.run)}
    /\ UNCHANGED <<ui, db, ghost>>
\* A failed task, or, whatever the task does, a failed request for its status.
TaskFailed(q) == q.op = "status" /\ ClearInterval(q, ui) /\ UNCHANGED ghost

CloseFBModal == ui.shown /\ ui' = [ui EXCEPT !.shown = FALSE] /\ UNCHANGED <<net, db, ghost>>

\* The seller writes over the text, or writes one.
EditText ==
    /\ ui.shown /\ ~ui.generating /\ ui.text # ui.id
    /\ ui' = [ui EXCEPT !.text = ui.id] /\ UNCHANGED <<net, db, ghost>>

PublishToFB ==
    /\ ui.shown /\ ~ui.publishing /\ ui.text # NoProduct /\ ui.pages
    /\ ghost.publishes < MaxPublishes /\ ghost' = [ghost EXCEPT !.publishes = @ + 1]
    /\ ui' = [ui EXCEPT !.publishing = TRUE]
    /\ net' = net \cup {[op |-> "publish", id |-> ui.id, text |-> ui.text]}
    /\ UNCHANGED db
Published(q) ==
    /\ q.op = "publish"
    /\ \E shown \in {FALSE, ui.shown} :
          Answer(q, [ui EXCEPT !.publishing = FALSE, !.shown = shown], {})

-----------------------------------------------------------------------------
Seller ==
    \/ \E p \in Product : OpenFBModal(p)
    \/ Regenerate \/ CloseFBModal \/ EditText \/ PublishToFB

Answered(q) ==
    \/ PagesFetched(q) \/ TaskStarted(q) \/ TaskRefused(q) \/ Poll(q)
    \/ TaskCompleted(q) \/ TaskPending(q) \/ TaskFailed(q) \/ Published(q)

Next ==
    \/ Seller
    \/ \E q \in net : Answered(q)
    \/ \E r \in Run : TaskEnds(r)

-----------------------------------------------------------------------------
\* A post is published for the product its text was written for, unless the text
\* came after the modal had gone over to another product.
TextIsTheProducts ==
    ghost.strayed \/ \A q \in net : q.op = "publish" => q.text = q.id

\* While the modal says that the AI is typing, a request or an interval is under
\* way that ends it.
SpinnerHasCause ==
    ui.generating => \E q \in net : q.op \in {"run", "poll", "status"}
=============================================================================
