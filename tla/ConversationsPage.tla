-------------------------- MODULE ConversationsPage --------------------------
(***************************************************************************)
(* The inbox page of the dashboard: the thread list, the conversation that *)
(* is open with its handling mode and its reply, and the modal that takes  *)
(* an order by hand.  A handler that waited for its answer goes on with    *)
(* the conversation it started in, whichever one is open by then.          *)
(* A message, a draft or a typed form is named by the conversation it      *)
(* belongs to: the properties tell no more apart.                          *)
(***************************************************************************)
EXTENDS Naturals, FiniteSets

CONSTANTS
    Conv, NoConv,
    Tab,            \* tabs of the thread list the seller uses
    MaxConvActs     \* bound: handlers the seller starts that send requests

VARIABLES
    ui,             \* the component's state, and the modal's
    net,            \* requests under way
    db,             \* db[c]: the handling mode of the conversation
    ghost           \* the bound's counter, and history no step depends on

vars == <<ui, net, db, ghost>>

Mode == {"ai", "human"}
Thread == [mode : Mode, unread : BOOLEAN]
MaybeConv == Conv \cup {NoConv}
\* The modal: the customer it names, for whom its address and items were entered.
Form == [open : BOOLEAN, catalog : BOOLEAN, name : MaybeConv, typed : MaybeConv,
         items : MaybeConv, submitting : BOOLEAN]
EmptyForm == [open |-> FALSE, catalog |-> FALSE, name |-> NoConv, typed |-> NoConv,
              items |-> NoConv, submitting |-> FALSE]

TypeOK ==
    /\ ui \in [threads : UNION {[s -> Thread] : s \in SUBSET Conv}, tab : Tab,
               selected : MaybeConv, mode : Mode, messages : SUBSET Conv,
               reply : MaybeConv, sending : BOOLEAN, form : Form]
    /\ db \in [Conv -> Mode]
    /\ \A q \in net : q.op \in {"threads", "open", "mode", "send", "catalog", "order"}
    /\ ghost \in [acts : 0..MaxConvActs, unsure : SUBSET Conv, kept : BOOLEAN]
    /\ ui.selected # NoConv => ui.selected \in DOMAIN ui.threads

\* The mounted page has asked for its threads.
Init ==
    /\ db \in [Conv -> Mode]
    /\ ui = [threads |-> [c \in {} |-> NoConv], tab |-> "all", selected |-> NoConv,
             mode |-> "ai", messages |-> {}, reply |-> NoConv, sending |-> FALSE,
             form |-> EmptyForm]
    /\ net = {[op |-> "threads"]}
    /\ ghost = [acts |-> 0, unsure |-> {}, kept |-> FALSE]

\* What the seller does: on the screen alone, or with requests, which are counted.
Local(new, g) == ui' = new /\ ghost' = g /\ UNCHANGED <<net, db>>
Acts(new, requests, g) ==
    /\ ghost.acts < MaxConvActs /\ ghost' = [g EXCEPT !.acts = @ + 1]
    /\ ui' = new /\ net' = net \cup requests /\ UNCHANGED db
\* The seller reaches the page only while no modal covers it.
OnPage == ~ui.form.open
InThread == OnPage /\ ui.selected # NoConv

\* An answer arrives, or a failure; the requests have no timeout.
Answer(q, new) == ui' = new /\ net' = net \ {q} /\ UNCHANGED <<db, ghost>>

-----------------------------------------------------------------------------
(* Threads. *)

FetchConversations(q) ==
    /\ q.op = "threads"
    /\ \E unread \in SUBSET Conv :
          Answer(q, [ui EXCEPT !.threads = [c \in Conv |-> [mode |-> db[c], unread |-> c \in unread]]])

FilteredConversations ==
    {c \in DOMAIN ui.threads :
        CASE ui.tab = "unread" -> ui.threads[c].unread
          [] ui.tab \in Mode -> ui.threads[c].mode = ui.tab
          [] OTHER -> TRUE}

SwitchTab(tab) ==
    /\ OnPage /\ tab # ui.tab
    /\ Local([ui EXCEPT !.tab = tab], ghost)

\* Bug: the messages of the previous conversation stay until the answer.
SelectKeepsMessages(c) ==
    /\ OnPage /\ c \in FilteredConversations
    /\ Acts([ui EXCEPT !.selected = c, !.mode = ui.threads[c].mode],
            {[op |-> "open", conv |-> c, unread |-> ui.threads[c].unread]}, ghost)
SelectConversation(c) ==
    /\ OnPage /\ c \in FilteredConversations
    /\ Acts([ui EXCEPT !.selected = c, !.mode = ui.threads[c].mode, !.messages = {}],
            {[op |-> "open", conv |-> c, unread |-> ui.threads[c].unread]}, ghost)

\* The messages and the orders of the customer; examples stand in for them, and
\* the thread stays unread, when either request fails.
ShowMessages(q) ==
    /\ q.op = "open"
    /\ \/ Answer(q, [ui EXCEPT !.messages = {q.conv},
                               !.threads[q.conv].unread = @ /\ ~q.unread])
       \/ Answer(q, [ui EXCEPT !.messages = {q.conv}])

-----------------------------------------------------------------------------
(* The handling mode. *)

Other(mode) == IF mode = "ai" THEN "human" ELSE "ai"
Toggling(c) == \E q \in net : q.op = "mode" /\ q.conv = c
Toggle(c) == [op |-> "mode", conv |-> c, mode |-> Other(ui.mode), at |-> "sent"]
\* Two requests about one conversation may overtake each other.
TwoToggles(c) == [ghost EXCEPT !.unsure = IF Toggling(c) THEN @ \cup {c} ELSE @]

\* Bug: the page shows the new mode before the gateway has it.
ToggleAtOnce ==
    /\ InThread
    /\ Acts([ui EXCEPT !.mode = Other(@), !.threads[ui.selected].mode = Other(ui.mode)],
            {Toggle(ui.selected)}, TwoToggles(ui.selected))
ToggleMode ==
    /\ InThread
    /\ Acts(ui, {Toggle(ui.selected)}, TwoToggles(ui.selected))

UpdateMode(q) ==
    /\ q.op = "mode" /\ q.at = "sent"
    /\ db' = [db EXCEPT ![q.conv] = q.mode]
    /\ net' = (net \ {q}) \cup {[q EXCEPT !.at = "answered"]}
    /\ UNCHANGED <<ui, ghost>>

\* The conversation of the click is selected again, and a note joins the messages.
\* It is another customer's in a modal that is open by then.
ModeUpdated(q) ==
    /\ q.op = "mode" /\ q.at = "answered"
    /\ ui' = [ui EXCEPT !.selected = q.conv, !.mode = q.mode, !.threads[q.conv].mode = q.mode,
                        !.messages = @ \cup {q.conv},
                        !.form.name = IF ui.form.open THEN q.conv ELSE @]
    /\ net' = (net \ {q}) \cup
              (IF ui.form.open /\ ui.selected # q.conv THEN {[op |-> "catalog"]} ELSE {})
    /\ ghost' = [ghost EXCEPT !.kept = @ \/ (ui.form.open /\ ui.selected # q.conv)]
    /\ UNCHANGED db

\* The page reports a failure and stays; the gateway may have updated the row.
ModeFails(q) ==
    /\ q.op = "mode"
    /\ net' = net \ {q}
    /\ ghost' = [ghost EXCEPT !.unsure = IF q.at = "answered" THEN @ \cup {q.conv} ELSE @]
    /\ UNCHANGED <<ui, db>>

-----------------------------------------------------------------------------
(* Replies.  The draft is the page's, not the conversation's. *)

Typing == InThread /\ ui.mode = "human"

TypeReply == Typing /\ ui.reply # ui.selected /\ Local([ui EXCEPT !.reply = ui.selected], ghost)

\* The button is disabled while a reply is being sent, the Enter key is not.
SendMessage ==
    /\ Typing /\ ui.reply # NoConv
    /\ Acts([ui EXCEPT !.sending = TRUE],
            {[op |-> "send", conv |-> ui.selected]}, ghost)

MessageSent(q) ==
    /\ q.op = "send"
    /\ \/ Answer(q, [ui EXCEPT !.messages = @ \cup {q.conv}, !.reply = NoConv, !.sending = FALSE])
       \/ Answer(q, [ui EXCEPT !.sending = FALSE])

-----------------------------------------------------------------------------
(* The modal for an order by hand. *)

\* The effect names the customer and asks for the catalogue; the rest stays.
\* Bug: the form keeps the name it was opened with before.
OpenUnnamed == InThread /\ Acts([ui EXCEPT !.form.open = TRUE], {[op |-> "catalog"]}, ghost)
OpenModal ==
    /\ InThread
    /\ Acts([ui EXCEPT !.form.open = TRUE, !.form.name = ui.selected],
            {[op |-> "catalog"]}, ghost)
FetchProducts(q) ==
    /\ q.op = "catalog"
    /\ \E loaded \in {ui.form.catalog, TRUE} : Answer(q, [ui EXCEPT !.form.catalog = loaded])

InModal == ui.form.open
Entered == NoConv \notin {ui.form.typed, ui.form.items}
TypeDetails ==
    /\ InModal /\ ui.form.typed # ui.selected
    /\ Local([ui EXCEPT !.form.typed = ui.selected], ghost)
\* The rows are shown, and a product can be chosen, once the catalogue is there.
UpdateItem ==
    /\ InModal /\ ui.form.catalog /\ [op |-> "catalog"] \notin net
    /\ ui.form.items # ui.selected
    /\ Local([ui EXCEPT !.form.items = ui.selected], ghost)
RemoveItem ==
    /\ InModal /\ ui.form.items # NoConv
    /\ Local([ui EXCEPT !.form.items = NoConv], ghost)

CancelModal ==
    /\ InModal
    /\ Local([ui EXCEPT !.form.open = FALSE],
            [ghost EXCEPT !.kept = @ \/ {ui.form.typed, ui.form.items} # {NoConv}])

HandleSubmit ==
    /\ InModal /\ Entered /\ ~ui.form.submitting
    /\ Acts([ui EXCEPT !.form.submitting = TRUE],
            {[op |-> "order", name |-> ui.form.name, typed |-> ui.form.typed,
              items |-> ui.form.items, customer |-> ui.selected]}, ghost)

\* The modal is closed and emptied, whoever it is open for by now.
OrderCreated(q) ==
    /\ q.op = "order"
    /\ Answer(q, [ui EXCEPT !.form = [EmptyForm EXCEPT !.catalog = ui.form.catalog,
                                                       !.name = q.customer]])
OrderFails(q) == q.op = "order" /\ Answer(q, [ui EXCEPT !.form.submitting = FALSE])

-----------------------------------------------------------------------------
Seller ==
    \/ \E c \in Conv : SelectConversation(c)
    \/ \E tab \in Tab : SwitchTab(tab)
    \/ ToggleMode \/ TypeReply \/ SendMessage
    \/ OpenModal \/ TypeDetails \/ UpdateItem \/ RemoveItem \/ CancelModal \/ HandleSubmit

Answered(q) ==
    \/ FetchConversations(q) \/ ShowMessages(q)
    \/ UpdateMode(q) \/ ModeUpdated(q) \/ ModeFails(q) \/ MessageSent(q)
    \/ FetchProducts(q) \/ OrderCreated(q) \/ OrderFails(q)

Next ==
    \/ Seller
    \/ \E q \in net : Answered(q)

-----------------------------------------------------------------------------
Misplaced == ui.selected # NoConv /\ \E c \in ui.messages : c # ui.selected

\* Messages of another conversation come to stand in the open one only with the
\* answer to something the seller did in that conversation before.
ForeignIsLate ==
    Misplaced' /\ ~Misplaced => \E q \in net \ net' :
        q.op \in {"open", "mode", "send"} /\ q.conv # ui.selected

\* The mode on the screen is the gateway's, in the list and in the open thread,
\* unless two changes crossed or an answer was lost: who is told that Xeni is
\* silent is not answered for.
ModeIsTrue ==
    \A c \in DOMAIN ui.threads : ~Toggling(c) /\ c \notin ghost.unsure =>
        ui.threads[c].mode = db[c] /\ (ui.selected = c => ui.mode = db[c])

\* An order goes to the address and has the items entered for the customer it
\* names, unless a form was closed with them or the customer was changed under it.
OrderIsTheCustomers ==
    \A q \in net : q.op = "order" /\ ~ghost.kept => q.typed = q.name /\ q.items = q.name
=============================================================================
