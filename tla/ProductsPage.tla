---------------------------- MODULE ProductsPage ----------------------------
(***************************************************************************)
(* The product page of the dashboard: the table and the form of one        *)
(* product with its image upload.  Uploads, saves and deletions outlive    *)
(* the form that started them.  PostModal has the page's other modal.      *)
(***************************************************************************)
EXTENDS Naturals, FiniteSets

CONSTANTS
    Product, NoProduct,
    MaxStock,       \* the stock a product starts with
    MaxProductActs  \* bound: handlers the seller starts that send requests

VARIABLES
    ui,             \* the component's state
    net,            \* requests under way
    db,             \* the stock of the products, and the ids given so far
    ghost           \* the bounds' counters, and history no step depends on

vars == <<ui, net, db, ghost>>

MaybeProduct == Product \cup {NoProduct}
Stock == 0..MaxStock
\* The form: what it edits (a new product is NoProduct), the stock it shows and was
\* opened with, and for which form an image in it was chosen.
Form == [shown : BOOLEAN, id : MaybeProduct, stock : Stock, opened : Stock,
         image : MaybeProduct \cup {"none"}]
EmptyForm == [shown |-> FALSE, id |-> NoProduct, stock |-> 0, opened |-> 0, image |-> "none"]

TypeOK ==
    /\ ui \in [products : UNION {[s -> Stock] : s \in SUBSET Product}, form : Form,
               uploading : BOOLEAN]
    /\ DOMAIN db.stock \subseteq db.used /\ db.used \subseteq Product
    /\ \A p \in DOMAIN db.stock : db.stock[p] \in Stock
    /\ \A q \in net : q.op \in {"list", "upload", "save", "delete"}
    /\ ghost \in [acts : 0..MaxProductActs, changed : SUBSET Product, strayed : BOOLEAN]

\* The mounted page has asked for its products.
Init ==
    /\ ui = [products |-> [p \in {} |-> 0], form |-> EmptyForm, uploading |-> FALSE]
    /\ \E old \in SUBSET Product \ {{}} :
          db = [stock |-> [p \in old |-> MaxStock], used |-> old]
    /\ net = {[op |-> "list"]}
    /\ ghost = [acts |-> 0, changed |-> {}, strayed |-> FALSE]

Local(new) == ui' = new /\ UNCHANGED <<net, db, ghost>>
Acts(new, request) ==
    /\ ghost.acts < MaxProductActs /\ ghost' = [ghost EXCEPT !.acts = @ + 1]
    /\ ui' = new /\ net' = net \cup {request} /\ UNCHANGED db
Answer(q, new, requests) ==
    /\ ui' = new /\ net' = (net \ {q}) \cup requests
    /\ UNCHANGED <<db, ghost>>
Fails(q) == net' = net \ {q} /\ UNCHANGED <<ui, db, ghost>>

\* The modal covers the table.
OnPage == ~ui.form.shown
List == [op |-> "list"]

-----------------------------------------------------------------------------
(* The table. *)

\* What a search matches is left open; nothing after a failure.
FetchProducts(q) ==
    /\ q.op = "list"
    /\ \E found \in SUBSET DOMAIN db.stock :
          Answer(q, [ui EXCEPT !.products = [p \in found |-> db.stock[p]]], {})

Search == OnPage /\ List \notin net /\ Acts(ui, List)

HandleDelete(p) ==
    /\ OnPage /\ p \in DOMAIN ui.products
    /\ Acts(ui, [op |-> "delete", id |-> p])

DeleteProduct(q) ==
    /\ q.op = "delete"
    /\ \/ /\ db' = [db EXCEPT !.stock = [p \in DOMAIN @ \ {q.id} |-> @[p]]]
          /\ net' = (net \ {q}) \cup {List}
          /\ UNCHANGED <<ui, ghost>>
       \/ Fails(q)

-----------------------------------------------------------------------------
(* The form. *)

OpenNew == OnPage /\ Local([ui EXCEPT !.form = [EmptyForm EXCEPT !.shown = TRUE]])
\* Bug: the images of the previous form stay.
OpenEditKeepsImages(p) ==
    /\ OnPage /\ p \in DOMAIN ui.products
    /\ Local([ui EXCEPT !.form = [shown |-> TRUE, id |-> p, stock |-> ui.products[p],
                                  opened |-> ui.products[p], image |-> ui.form.image]])
\* Bug: the stock is that of an empty form.
OpenEditWithoutStock(p) ==
    /\ OnPage /\ p \in DOMAIN ui.products
    /\ Local([ui EXCEPT !.form = [EmptyForm EXCEPT !.shown = TRUE, !.id = p]])
OpenEdit(p) ==
    /\ OnPage /\ p \in DOMAIN ui.products
    /\ Local([ui EXCEPT !.form = [shown |-> TRUE, id |-> p, stock |-> ui.products[p],
                                  opened |-> ui.products[p], image |-> "none"]])
EnterStock ==
    /\ ui.form.shown /\ \E n \in Stock \ {ui.form.stock} : Local([ui EXCEPT !.form.stock = n])
CloseForm == ui.form.shown /\ Local([ui EXCEPT !.form.shown = FALSE])

HandleImageUpload ==
    /\ ui.form.shown /\ ~ui.uploading
    /\ Acts([ui EXCEPT !.uploading = TRUE], [op |-> "upload", id |-> ui.form.id])
\* The address joins whichever form there is by now.
Uploaded(q) ==
    /\ q.op = "upload"
    /\ \/ /\ ui' = [ui EXCEPT !.uploading = FALSE, !.form.image = q.id]
          /\ net' = net \ {q} /\ UNCHANGED db
          /\ ghost' = [ghost EXCEPT !.strayed = @ \/ ui.form.id # q.id]
       \/ Answer(q, [ui EXCEPT !.uploading = FALSE], {})

HandleSave ==
    /\ ui.form.shown
    /\ Acts(ui, [op |-> "save", form |-> ui.form])

\* PUT writes the stock of the form, POST adds a row; whatever form is open is closed.
Saved(q) ==
    /\ q.op = "save"
    /\ \/ /\ q.form.id = NoProduct
          /\ \E p \in Product \ db.used :
                db' = [db EXCEPT !.used = @ \cup {p}, !.stock = [o \in DOMAIN @ \cup {p} |->
                                               IF o = p THEN q.form.stock ELSE @[o]]]
       \/ /\ q.form.id \in DOMAIN db.stock
          /\ db' = [db EXCEPT !.stock[q.form.id] = q.form.stock]
    /\ ui' = [ui EXCEPT !.form.shown = FALSE]
    /\ net' = (net \ {q}) \cup {List}
    /\ ghost' = [ghost EXCEPT !.changed = @ \cup
                     {p \in DOMAIN db.stock : db'.stock[p] # db.stock[p]}]
SaveFails(q) == q.op = "save" /\ Fails(q)

\* Bug: a piece is taken whether there is one or not.
SoldUnchecked(p) ==
    /\ p \in DOMAIN db.stock /\ db' = [db EXCEPT !.stock[p] = @ - 1]
    /\ ghost' = [ghost EXCEPT !.changed = @ \cup {p}]
    /\ UNCHANGED <<ui, net>>
\* An order elsewhere takes a piece.
Sold(p) ==
    /\ p \in DOMAIN db.stock /\ db.stock[p] > 0
    /\ db' = [db EXCEPT !.stock[p] = @ - 1]
    /\ ghost' = [ghost EXCEPT !.changed = @ \cup {p}]
    /\ UNCHANGED <<ui, net>>

-----------------------------------------------------------------------------
Seller ==
    \/ \E p \in Product : HandleDelete(p) \/ OpenEdit(p)
    \/ Search \/ OpenNew \/ EnterStock \/ CloseForm \/ HandleImageUpload \/ HandleSave

Answered(q) ==
    \/ FetchProducts(q) \/ DeleteProduct(q) \/ Uploaded(q) \/ Saved(q) \/ SaveFails(q)

Next ==
    \/ Seller
    \/ \E q \in net : Answered(q)
    \/ \E p \in Product : Sold(p)

-----------------------------------------------------------------------------
\* An image is saved with the product it was chosen for, unless its upload ended
\* after the form had gone over to another one.
ImageIsTheProducts ==
    ghost.strayed \/ \A q \in net : q.op = "save" => q.form.image \in {"none", q.form.id}

\* Saving a form whose stock was left alone leaves the row's stock alone, unless
\* an order or another save has changed it.
StockIsEntered ==
    \A p \in (DOMAIN db.stock \cap DOMAIN db'.stock) \ ghost.changed :
        db'.stock[p] # db.stock[p] => \/ net' = net
                                     \/ \E q \in net : q.op = "save" /\ q.form.stock # q.form.opened
=============================================================================
