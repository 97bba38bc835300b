--------------------------- MODULE ReviewModeration ---------------------------
(***************************************************************************)
(* The moderation of reviews: the administrator's editor with its list and *)
(* its two mutations, and the handlers that read a review, change it and   *)
(* save the whole row.  Other administrators' requests, edits and          *)
(* deletions included, come in between, and sellers submit reviews.        *)
(***************************************************************************)
EXTENDS Naturals, FiniteSets

CONSTANTS
    ReviewId,
    MaxReviewActs   \* bound: requests sent, by this page and elsewhere

VARIABLES
    ui,             \* the editor's query and mutations
    net,            \* requests under way
    db,             \* the rows, and the ids used so far
    ghost           \* the bound's counter, and whether the list may be old

vars == <<ui, net, db, ghost>>

Status == {"pending", "approved", "rejected"}
Row == [status : Status, shown : BOOLEAN]
Rows == UNION {[s -> Row] : s \in SUBSET ReviewId}
NoRows == [r \in {} |-> 0]
Submitted(approved) ==
    [status |-> IF approved THEN "approved" ELSE "pending", shown |-> approved]

\* A mutation that is pending is named by its request's number.
TypeOK ==
    /\ ui \in [list : Rows, approving : 0..MaxReviewActs, rejecting : 0..MaxReviewActs]
    /\ db \in [rows : Rows, used : SUBSET ReviewId] /\ DOMAIN db.rows \subseteq db.used
    /\ \A q \in net : q.op \in {"list", "approve", "reject", "edit"}
                      /\ q.at \in {"sent", "read", "done", "refused"}
    /\ ghost \in [acts : 0..MaxReviewActs, old : BOOLEAN]

List == [op |-> "list", at |-> "sent"]

Init ==
    /\ \E s \in SUBSET ReviewId : db \in [rows : [s -> {Submitted(FALSE)}], used : {s}]
    /\ ui = [list |-> NoRows, approving |-> 0, rejecting |-> 0]
    /\ net = {List}
    /\ ghost = [acts |-> 0, old |-> FALSE]

-----------------------------------------------------------------------------
(* The editor. *)

Asks(op, r, here) ==
    /\ ghost.acts < MaxReviewActs /\ ghost' = [ghost EXCEPT !.acts = @ + 1]
    /\ net' = net \cup {[op |-> op, at |-> "sent", id |-> r, n |-> ghost.acts + 1, here |-> here]}
    /\ UNCHANGED db

Listed(r, status) == r \in DOMAIN ui.list /\ ui.list[r].status = status

Approve(r) ==
    /\ Listed(r, "pending") /\ ui.approving = 0
    /\ Asks("approve", r, TRUE)
    /\ ui' = [ui EXCEPT !.approving = ghost.acts + 1]

\* The button of a live review is not disabled while another rejection is pending.
Reject(r) ==
    /\ \/ Listed(r, "pending") /\ ui.rejecting = 0
       \/ Listed(r, "approved") /\ ui.list[r].shown
    /\ Asks("reject", r, TRUE)
    /\ ui' = [ui EXCEPT !.rejecting = ghost.acts + 1]

Settled(q) ==
    [ui EXCEPT !.approving = IF @ = q.n THEN 0 ELSE @, !.rejecting = IF @ = q.n THEN 0 ELSE @]

\* Bug: an approval does not invalidate the list.
OnlyRejectedRefetches(q) ==
    /\ q.at = "done" /\ q.here
    /\ ui' = Settled(q)
    /\ net' = IF q.op = "approve" THEN net \ {q}
              ELSE {p \in net \ {q} : p.op # "list"} \cup {List}
    /\ UNCHANGED <<db, ghost>>

\* invalidateQueries gives a fetch that is under way up for a new one.
OnSuccess(q) ==
    /\ q.at = "done" /\ q.here
    /\ ui' = Settled(q)
    /\ net' = {p \in net \ {q} : p.op # "list"} \cup {List}
    /\ UNCHANGED <<db, ghost>>

\* No onError: the list stays as it is, also if the answer was lost on its way.
MutationFails(q) ==
    /\ q.op # "list" /\ q.here /\ q.at \in {"sent", "done", "refused"}
    /\ ui' = Settled(q) /\ net' = net \ {q}
    /\ ghost' = [ghost EXCEPT !.old = @ \/ q.at # "sent"]
    /\ UNCHANGED db

Loaded(q) ==
    /\ q.op = "list" /\ q.at = "read"
    /\ ui' = [ui EXCEPT !.list = q.rows] /\ net' = net \ {q}
    /\ UNCHANGED <<db, ghost>>

LoadFails(q) ==
    /\ q.op = "list"
    /\ net' = net \ {q} /\ ghost' = [ghost EXCEPT !.old = TRUE]
    /\ UNCHANGED <<ui, db>>

-----------------------------------------------------------------------------
(* The gateway, for this administrator and for others. *)

AdminListReviews(q) ==
    /\ q = List
    /\ net' = (net \ {q}) \cup {[op |-> "list", at |-> "read", rows |-> db.rows]}
    /\ ghost' = [ghost EXCEPT !.old = FALSE]
    /\ UNCHANGED <<ui, db>>

Step(q, at) == (net \ {q}) \cup (IF at = "done" /\ ~q.here THEN {} ELSE {[q EXCEPT !.at = at]})

GetReviewByID(q) ==
    /\ q.op # "list" /\ q.at = "sent"
    /\ net' = IF q.id \in DOMAIN db.rows
              THEN (net \ {q}) \cup
                     {[op |-> q.op, at |-> "read", id |-> q.id, n |-> q.n, here |-> q.here,
                       row |-> db.rows[q.id]]}
              ELSE IF q.here THEN Step(q, "refused") ELSE net \ {q}
    /\ UNCHANGED <<ui, db, ghost>>

\* GORM's Save writes every column, and inserts the row if it is not there.
UpdateReview(q, row) ==
    /\ db' = [db EXCEPT !.rows = [r \in DOMAIN @ \cup {q.id} |-> IF r = q.id THEN row ELSE @[r]]]
    /\ net' = Step(q, "done")
    /\ ghost' = [ghost EXCEPT !.old = @ \/ ~q.here]
    /\ UNCHANGED ui

ApproveReview(q) ==
    /\ q.op = "approve" /\ q.at = "read"
    /\ UpdateReview(q, [status |-> "approved", shown |-> TRUE])

RejectReview(q) ==
    /\ q.op = "reject" /\ q.at = "read"
    /\ UpdateReview(q, [status |-> "rejected", shown |-> FALSE])

\* Bug: a review that an edit shows on the landing page is approved with it.
EditApproves(q) ==
    /\ q.op = "edit" /\ q.at = "read"
    /\ \E shown \in BOOLEAN :
         UpdateReview(q, [q.row EXCEPT !.shown = shown, !.status = IF shown THEN "approved" ELSE @])

\* The text, the stars and whether it is shown; never the status.
AdminEditReview(q) ==
    /\ q.op = "edit" /\ q.at = "read"
    /\ \E shown \in BOOLEAN : UpdateReview(q, [q.row EXCEPT !.shown = shown])

Elsewhere(r) ==
    /\ \E op \in {"approve", "reject", "edit"} : Asks(op, r, FALSE)
    /\ UNCHANGED ui

DeleteReview(r) ==
    /\ r \in DOMAIN db.rows /\ ghost.acts < MaxReviewActs
    /\ db' = [db EXCEPT !.rows = [s \in DOMAIN @ \ {r} |-> @[s]]]
    /\ ghost' = [acts |-> ghost.acts + 1, old |-> TRUE]
    /\ UNCHANGED <<ui, net>>

\* Approved at once if the settings say so of the seller's plan.
SubmitReview(r) ==
    /\ r \notin db.used
    /\ \E approved \in BOOLEAN :
         db' = [rows |-> [s \in DOMAIN db.rows \cup {r} |->
                            IF s = r THEN Submitted(approved) ELSE db.rows[s]],
                used |-> db.used \cup {r}]
    /\ ghost' = [ghost EXCEPT !.old = TRUE]
    /\ UNCHANGED <<ui, net>>

Next ==
    \/ \E r \in ReviewId : Approve(r) \/ Reject(r) \/ Elsewhere(r) \/ DeleteReview(r) \/ SubmitReview(r)
    \/ \E q \in net : \/ OnSuccess(q) \/ MutationFails(q) \/ Loaded(q) \/ LoadFails(q)
                      \/ AdminListReviews(q) \/ GetReviewByID(q)
                      \/ ApproveReview(q) \/ RejectReview(q) \/ AdminEditReview(q)

Spec == Init /\ [][Next]_vars

-----------------------------------------------------------------------------
\* With nothing under way the editor lists the reviews as they are, unless others
\* changed one since, or an answer was lost.
ListIsTrue == net = {} /\ ~ghost.old => ui.list = db.rows

\* A review that was decided on, or deleted, stays so until another decision on it,
\* unless a handler that had read the row before writes it back.
State(rows, r) == IF r \in DOMAIN rows THEN rows[r].status ELSE "deleted"
DecisionIsKept ==
    \A r \in db.used :
        State(db.rows, r) \notin {"pending", State(db'.rows, r)} =>
            \/ r \notin DOMAIN db'.rows
            \/ \E q \in net \ net' :
                 /\ q.op # "list" /\ q.at = "read" /\ q.id = r
                 /\ \/ q.op # "edit" /\ r \in DOMAIN db.rows
                    \/ r \notin DOMAIN db.rows \/ q.row # db.rows[r]
=============================================================================
