----------------------------- MODULE RulesPages -----------------------------
(***************************************************************************)
(* The two pages that edit the agents' rules: a seller's, of his shop, and *)
(* the administrator's, of the platform.  They are one program over two    *)
(* tables, of which a run has one.  A handler that waited for its answer   *)
(* writes the list it had when it started.                                 *)
(***************************************************************************)
EXTENDS Naturals, FiniteSets

CONSTANTS
    Rule, NoRule,
    MaxRuleActs     \* bound: handlers that send requests

VARIABLES
    ui,             \* the page's state, and which page it is
    net,            \* requests under way
    db,             \* the rows of its table, and the ids used so far
    ghost           \* the bound's counter, and whether the list may be old

vars == <<ui, net, db, ghost>>

\* A row: whether it is on, and whether its text has been edited.
Row == [active : BOOLEAN, edited : BOOLEAN]
NewRow == [active |-> TRUE, edited |-> FALSE]
Rows == UNION {[s -> Row] : s \in SUBSET Rule}
NoRows == [r \in {} |-> NewRow]

TypeOK ==
    /\ ui \in [path : {"/shops/rules", "/admin/rules"}, rules : Rows, open : BOOLEAN,
               editing : Rule \cup {NoRule}, saving : BOOLEAN]
    /\ db \in [rows : Rows, used : SUBSET Rule]
    /\ \A q \in net : q.op \in {"list", "toggle", "delete", "save"}
    /\ ghost \in [acts : 0..MaxRuleActs, old : BOOLEAN]

List == [op |-> "list"]

\* The mounted page has asked for its list.
Init ==
    /\ db \in {[rows |-> [r \in s |-> NewRow], used |-> s] : s \in SUBSET Rule \ {{}}}
    /\ ui \in [path : {"/shops/rules", "/admin/rules"}, rules : {NoRows}, open : {FALSE},
               editing : {NoRule}, saving : {FALSE}]
    /\ net = {List}
    /\ ghost = [acts |-> 0, old |-> FALSE]

Local(new) == ui' = new /\ UNCHANGED <<net, db, ghost>>
\* A request sent while another is under way may be answered out of order.
Acts(new, request) ==
    /\ ghost.acts < MaxRuleActs
    /\ ghost' = [acts |-> ghost.acts + 1, old |-> ghost.old \/ net # {}]
    /\ ui' = new /\ net' = net \cup {request} /\ UNCHANGED db

-----------------------------------------------------------------------------
(* The list; the seller's page asks for the platform's rules with it, and   *)
(* shows neither when one of the two requests fails.                        *)

FetchRules ==
    /\ List \in net /\ net' = net \ {List} /\ UNCHANGED db
    /\ \/ /\ ui' = [ui EXCEPT !.rules = db.rows]
          /\ ghost' = [ghost EXCEPT !.old = @ /\ net # {List}]
       \/ UNCHANGED ui /\ ghost' = [ghost EXCEPT !.old = TRUE]

-----------------------------------------------------------------------------
(* The form. *)

OpenModal(r) ==
    /\ ~ui.open /\ r \in DOMAIN ui.rules \cup {NoRule}
    /\ Local([ui EXCEPT !.open = TRUE, !.editing = r])
CloseModal == ui.open /\ Local([ui EXCEPT !.open = FALSE])

HandleSave ==
    /\ ui.open /\ ~ui.saving
    /\ Acts([ui EXCEPT !.saving = TRUE], [op |-> "save", id |-> ui.editing])

Write(rows) == [rows |-> rows, used |-> db.used \cup DOMAIN rows]
\* POST adds a row, PUT changes the text of one; whichever form is open is closed.
Saved(q) ==
    /\ q.op = "save"
    /\ \/ /\ q.id = NoRule
          /\ \E r \in Rule \ db.used :
                db' = Write([s \in DOMAIN db.rows \cup {r} |-> IF s = r THEN NewRow ELSE db.rows[s]])
       \/ /\ q.id \in DOMAIN db.rows
          /\ db' = Write([db.rows EXCEPT ![q.id].edited = TRUE])
    /\ ui' = [ui EXCEPT !.open = FALSE, !.saving = FALSE]
    /\ net' = (net \ {q}) \cup {List}
    /\ UNCHANGED ghost
SaveFails(q) ==
    /\ q.op = "save"
    /\ ui' = [ui EXCEPT !.saving = FALSE]
    /\ net' = net \ {q} /\ UNCHANGED <<db, ghost>>

-----------------------------------------------------------------------------
(* Toggling and deleting. *)

Change(op, r) ==
    [op |-> op, id |-> r, active |-> ~ui.rules[r].active, list |-> ui.rules, at |-> "sent"]
Changed(q, rows) ==
    IF q.op = "delete" THEN [r \in DOMAIN rows \ {q.id} |-> rows[r]]
    ELSE [rows EXCEPT ![q.id].active = q.active]

Offered(r) == ~ui.open /\ r \in DOMAIN ui.rules
\* Bug: the list is changed at once, and left so when the request fails.
ToggleAtOnce(r) ==
    /\ Offered(r)
    /\ Acts([ui EXCEPT !.rules[r].active = ~@], Change("toggle", r))
HandleToggle(r) == Offered(r) /\ Acts(ui, Change("toggle", r))
HandleDelete(r) == Offered(r) /\ Acts(ui, Change("delete", r))

\* The gateway's statement matches the row, or nothing any more.
Serve(q) ==
    /\ q.op \in {"toggle", "delete"} /\ q.at = "sent"
    /\ db' = IF q.id \in DOMAIN db.rows THEN Write(Changed(q, db.rows)) ELSE db
    /\ net' = (net \ {q}) \cup {[q EXCEPT !.at = "answered"]}
    /\ UNCHANGED <<ui, ghost>>

\* The list of the click, with the change, replaces what is on the screen.
Answered(q) ==
    /\ q.op \in {"toggle", "delete"} /\ q.at = "answered"
    /\ ui' = [ui EXCEPT !.rules = Changed(q, q.list)]
    /\ net' = net \ {q} /\ UNCHANGED <<db, ghost>>
Fails(q) ==
    /\ q.op \in {"toggle", "delete"}
    /\ net' = net \ {q} /\ UNCHANGED <<ui, db>>
    /\ ghost' = [ghost EXCEPT !.old = @ \/ q.at = "answered"]

-----------------------------------------------------------------------------
Handlers ==
    \/ OpenModal(NoRule) \/ CloseModal \/ HandleSave
    \/ \E r \in Rule : OpenModal(r) \/ HandleToggle(r) \/ HandleDelete(r)
ShopRulesPage == ui.path = "/shops/rules" /\ Handlers
AdminRulesPage == ui.path = "/admin/rules" /\ Handlers

Next ==
    \/ ShopRulesPage \/ AdminRulesPage \/ FetchRules
    \/ \E q \in net : Saved(q) \/ SaveFails(q) \/ Serve(q) \/ Answered(q) \/ Fails(q)

-----------------------------------------------------------------------------
\* With nothing under way the page shows the rules the agents get, on or off as
\* they are, unless since its last list one of its requests overtook another or
\* an answer was lost: a refused or failed change is never shown as made.
ListIsTrue == net = {} /\ ~ghost.old => ui.rules = db.rows
=============================================================================
