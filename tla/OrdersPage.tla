----------------------------- MODULE OrdersPage -----------------------------
(***************************************************************************)
(* The order management page of the dashboard: the list and its filter,   *)
(* the manual review tab, the modal of one order with its decisions and    *)
(* its two edit forms.  Every click works on the snapshot of an order the  *)
(* page fetched earlier, while verifications and couriers change the row   *)
(* (OrderPayment) and answers come back in any order.                      *)
(***************************************************************************)
EXTENDS Naturals, FiniteSets

CONSTANTS
    Order, NoOrder,
    InitRow,        \* rows an order may have when the page is opened
    Filter,         \* values of the payment filter, "" for all
    MaxLists,       \* bound: times the page fetches its list
    MaxActs,        \* bound: what the seller does on the page, and changes made elsewhere
    MaxChanges      \* bound: changes made elsewhere, of those

VARIABLES
    ui,             \* the component's state
    net,            \* its requests under way, and its timers
    db,             \* db[o]: the row of the order
    ghost           \* counters and history that no step depends on

vars == <<ui, net, db, ghost>>

Pay == {"pending", "manual_required", "verified", "failed"}
Del == {"pending", "booked"}
Row == [pay : Pay, del : Del]
Rows == UNION {[s -> Row] : s \in SUBSET Order}

MaybeOrder == Order \cup {NoOrder}
Writes == {"confirm", "reject", "update", "dispatch"}

TypeOK ==
    /\ ui \in [orders : Rows, filter : Filter, tab : {"all", "manual_review"},
               review : Rows,
               selected : MaybeOrder, row : Row, edit : {"none", "delivery", "payment"},
               form : Pay \cup Del, text : MaybeOrder]
    /\ db \in [Order -> Row]
    /\ \A q \in net : q.op \in {"list", "timer", "review"} \cup Writes
    /\ ghost \in [lists : 0..MaxLists, acts : 0..MaxActs, changes : 0..MaxChanges,
                  shown : 0..MaxLists, astray : BOOLEAN, spent : SUBSET Order]

NoRows == [o \in {} |-> NoOrder]
NewRow == [pay |-> "pending", del |-> "pending"]

\* GET /orders with the filter of the closure that asks, not of the screen.
List(key) == [op |-> "list", n |-> ghost.lists + 1, key |-> key]
Review == [op |-> "review"]

\* The mounted page has asked for both lists.
Init ==
    /\ db \in [Order -> InitRow]
    /\ ui = [orders |-> NoRows, filter |-> "", tab |-> "all", review |-> NoRows,
             selected |-> NoOrder, row |-> NewRow, edit |-> "none", form |-> "pending",
             text |-> NoOrder]
    /\ ghost = [lists |-> 1, acts |-> 0, changes |-> 0, shown |-> 0, astray |-> FALSE,
                spent |-> {}]
    /\ net = {[op |-> "list", n |-> 1, key |-> ""], Review}

-----------------------------------------------------------------------------
(* The lists. *)

Act(g) == [g EXCEPT !.acts = @ + 1]
Local(new) == ui' = new /\ UNCHANGED <<net, db>> /\ ghost' = Act(ghost)
Closed(state) == [state EXCEPT !.selected = NoOrder, !.row = NewRow]

Fetch(rest, qs, g) ==
    /\ ghost.lists < MaxLists
    /\ net' = rest \cup qs
    /\ \E q \in qs :
          /\ q.op = "list"
          /\ ghost' = [g EXCEPT !.lists = @ + 1, !.astray = q.key # ui'.filter]

\* Bug: the effect does not depend on the filter.
SetFilterAlone(key) ==
    /\ ui.tab = "all" /\ ui.selected = NoOrder /\ key # ui.filter
    /\ Local([ui EXCEPT !.filter = key])
SetFilter(key) ==
    /\ ui.tab = "all" /\ ui.selected = NoOrder /\ key # ui.filter
    /\ ui' = [ui EXCEPT !.filter = key]
    /\ Fetch(net, {List(key), Review}, Act(ghost))
    /\ UNCHANGED db

RefreshData ==
    /\ ui.selected = NoOrder
    /\ UNCHANGED <<ui, db>>
    /\ Fetch(net, {List(ui.filter), Review}, Act(ghost))

SwitchTab ==
    /\ ui.selected = NoOrder
    /\ Local([ui EXCEPT !.tab = IF @ = "all" THEN "manual_review" ELSE "all"])

\* The answer to a fetch, read from the table just before it arrives (a row that
\* changes on its way is one that changes right after).  A failed fetch shows an
\* empty list.
Fetched(key) ==
    LET s == {o \in Order : key \in {"", db[o].pay}} IN {[o \in s |-> db[o]], NoRows}

FetchOrders(q) ==
    /\ q.op = "list"
    /\ \E rows \in Fetched(q.key) : ui' = [ui EXCEPT !.orders = rows]
    /\ net' = net \ {q}
    /\ ghost' = [ghost EXCEPT !.shown = q.n, !.astray = @ \/ q.n < ghost.shown]
    /\ UNCHANGED db

FetchManualReview(q) ==
    /\ q.op = "review"
    /\ \E rows \in Fetched("manual_required") : ui' = [ui EXCEPT !.review = rows]
    /\ net' = net \ {q}
    /\ UNCHANGED <<db, ghost>>

Displayed == IF ui.tab = "manual_review" THEN ui.review ELSE ui.orders

-----------------------------------------------------------------------------
(* The modal of one order. *)

\* A row of the table is the snapshot the modal works on.
SelectOrder(o) ==
    /\ ui.selected = NoOrder /\ o \in DOMAIN Displayed
    /\ Local([ui EXCEPT !.selected = o, !.row = Displayed[o]])

\* The cross and the backdrop close the modal and leave its forms as they are.
CloseModal ==
    /\ ui.selected # NoOrder
    /\ Local(Closed(ui))

Write(op, field, val) ==
    [op |-> op, at |-> "sent", n |-> ghost.acts + 1, id |-> ui.selected, key |-> ui.filter,
     reviewed |-> ui.row.pay = "manual_required", field |-> field, val |-> val, text |-> ui.text]
Click(q) ==
    /\ net' = net \cup {q}
    /\ ghost' = Act(ghost)
    /\ UNCHANGED db

\* Bug: the decisions are offered for every order.
OfferedAlways == ui.selected # NoOrder
InReview == ui.selected # NoOrder /\ ui.row.pay = "manual_required"

TypeText ==
    /\ InReview /\ UNCHANGED <<net, db>>
    /\ ui' = [ui EXCEPT !.text = ui.selected]
    /\ ghost' = Act([ghost EXCEPT !.spent = @ \ {ui.selected}])

ConfirmPayment == InReview /\ UNCHANGED ui /\ Click(Write("confirm", "", ""))
RejectPayment == InReview /\ UNCHANGED ui /\ Click(Write("reject", "", ""))

Editing == ui.selected # NoOrder /\ ui.edit # "none"
Viewing == ui.selected # NoOrder /\ ui.edit = "none"

ValueOf(kind, row) == IF kind = "payment" THEN row.pay ELSE row.del
EditOrder(kind) == Viewing /\ Local([ui EXCEPT !.edit = kind, !.form = ValueOf(kind, ui.row)])
ChangeForm(val) ==
    /\ Editing /\ val \in (IF ui.edit = "payment" THEN Pay ELSE Del)
    /\ Local([ui EXCEPT !.form = val])
CancelEdit == Editing /\ Local([ui EXCEPT !.edit = "none", !.form = "pending"])

\* The form's values go to the order that is open now; the form closes at once.
SaveUpdates ==
    /\ Editing
    /\ Click(Write("update", ui.edit, ui.form))
    /\ ui' = [ui EXCEPT !.edit = "none", !.form = "pending"]

QuickVerify ==
    /\ Viewing /\ ui.row.pay = "pending" /\ UNCHANGED ui
    /\ Click(Write("update", "payment", "verified"))

DispatchToCourier ==
    /\ Viewing /\ ui.row.del = "pending" /\ ui.row.pay = "verified" /\ UNCHANGED ui
    /\ Click(Write("dispatch", "", ""))

-----------------------------------------------------------------------------
(* Answers.  Whatever is open by then is closed. *)

UpdateOrder(q) ==
    /\ q.op = "update"
    /\ ui' = Closed(ui)
    /\ Fetch(net \ {q}, {List(q.key), Review}, ghost)

\* Bug: the text stays for the next order.
ConfirmedKeepsText(q) ==
    /\ q.op = "confirm"
    /\ ui' = Closed(ui)
    /\ ghost.lists < MaxLists
    /\ net' = (net \ {q}) \cup {List(q.key), Review}
    /\ ghost' = [ghost EXCEPT !.lists = @ + 1, !.astray = q.key # ui.filter,
                              !.spent = @ \cup ({q.text} \cap {q.id})]
Confirmed(q) ==
    /\ q.op = "confirm"
    /\ ui' = [Closed(ui) EXCEPT !.text = NoOrder]
    /\ ghost.lists < MaxLists
    /\ net' = (net \ {q}) \cup {List(q.key), Review}
    /\ ghost' = [ghost EXCEPT !.lists = @ + 1, !.astray = q.key # ui.filter,
                              !.spent = @ \cup ({q.text} \cap {q.id})]

Rejected(q) ==
    /\ q.op = "reject"
    /\ ui' = Closed(ui)
    /\ Fetch(net \ {q}, {List(q.key), Review}, ghost)

\* Three seconds later the list is fetched, with the filter of the click.
Dispatched(q) ==
    /\ q.op = "dispatch"
    /\ ui' = Closed(ui)
    /\ net' = (net \ {q}) \cup {[op |-> "timer", key |-> q.key]}
    /\ UNCHANGED ghost
TimerFires(q) ==
    /\ q.op = "timer"
    /\ UNCHANGED <<ui, db>>
    /\ Fetch(net \ {q}, {List(q.key)}, ghost)

Answered(q) ==
    /\ q.op \in Writes /\ q.at = "answered" /\ UNCHANGED db
    /\ UpdateOrder(q) \/ Confirmed(q) \/ Rejected(q) \/ Dispatched(q)

\* A failure, of the request or of its answer, leaves the page as it is.
Failed(q) ==
    /\ q.op \in Writes
    /\ net' = net \ {q}
    /\ UNCHANGED <<ui, db, ghost>>

-----------------------------------------------------------------------------
(* The gateway, and what happens to orders elsewhere. *)

Change(o, row) ==
    /\ db' = [db EXCEPT ![o] = row]
    /\ ghost' = [ghost EXCEPT !.changes = @ + (IF net' = net THEN 1 ELSE 0)]
    /\ UNCHANGED ui

Written(q) ==
    CASE q.op = "confirm" -> [db[q.id] EXCEPT !.pay = "verified"]
      [] q.op = "reject" -> [db[q.id] EXCEPT !.pay = "failed"]
      [] q.op = "update" /\ q.field = "payment" -> [db[q.id] EXCEPT !.pay = q.val]
      [] q.op = "update" /\ q.field = "delivery" -> [db[q.id] EXCEPT !.del = q.val]
      [] q.op = "dispatch" -> db[q.id]

Serve(q) ==
    /\ q.op \in Writes /\ q.at = "sent"
    /\ net' = (net \ {q}) \cup {[q EXCEPT !.at = "answered"]}
    /\ Change(q.id, Written(q))

\* A verification decides a payment, a courier takes a paid order.
Elsewhere(o) ==
    /\ ghost.changes < MaxChanges /\ ghost.acts + ghost.changes < MaxActs /\ net' = net
    /\ \/ /\ db[o].pay \in {"pending", "manual_required"}
          /\ \E p \in {"verified", "manual_required", "failed"} : Change(o, [db[o] EXCEPT !.pay = p])
       \/ /\ db[o] = [pay |-> "verified", del |-> "pending"]
          /\ Change(o, [db[o] EXCEPT !.del = "booked"])

Seller ==
    \/ \E key \in Filter : SetFilter(key)
    \/ RefreshData \/ SwitchTab \/ CloseModal
    \/ \E o \in Order : SelectOrder(o)
    \/ TypeText \/ ConfirmPayment \/ RejectPayment
    \/ EditOrder("delivery") \/ EditOrder("payment") \/ CancelEdit \/ SaveUpdates
    \/ \E val \in Pay \cup Del : ChangeForm(val)
    \/ QuickVerify \/ DispatchToCourier

Next ==
    \/ ghost.acts + ghost.changes < MaxActs /\ Seller
    \/ \E q \in net : FetchOrders(q) \/ FetchManualReview(q) \/ TimerFires(q)
                       \/ Serve(q) \/ Answered(q) \/ Failed(q)
    \/ \E o \in Order : Elsewhere(o)

Spec == Init /\ [][Next]_vars

-----------------------------------------------------------------------------
\* The list answers the filter on the screen, unless the newest request carried an
\* older filter (a refetch of a handler that was waiting) or was overtaken.
ListAnswersFilter ==
    ~ghost.astray /\ (\A q \in net : q.op # "list")
        => \A o \in DOMAIN ui.orders : ui.filter \in {"", ui.orders[o].pay}

\* The TrxID and note that confirmed an order are not sent again with another one.
TextIsSpent ==
    \A q \in net' \ net : q.op = "confirm" /\ q.at = "sent" /\ q.text # q.id
                              => q.text \notin ghost.spent

\* The page takes back a verified payment only through the payment form, or with a
\* decision on a snapshot that still asked for review.
VerifiedIsKept ==
    \A o \in Order : db[o].pay = "verified" /\ db'[o].pay # "verified" =>
        \E q \in net : /\ q.op \in {"reject", "update"} /\ q.at = "sent" /\ q.id = o
                       /\ q.op = "update" \/ q.reviewed
=============================================================================
