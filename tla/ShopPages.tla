------------------------------ MODULE ShopPages ------------------------------
(***************************************************************************)
(* The two pages that hold a shop's keys of payment and courier services:  *)
(* the shop's own form and the "Merchant API Integrations".  Both write    *)
(* the one row of the shop; neither is sent the secrets in it, and each    *)
(* page stands for what it was not sent in its own way.  Of the shop's     *)
(* other fields the name, which a save needs, and the verification mode    *)
(* are kept.                                                               *)
(***************************************************************************)
EXTENDS Naturals, FiniteSets

CONSTANTS
    Payment, Courier,   \* the services
    MaxShopActs         \* bound: keys entered, saves and visits

VARIABLES
    ui,             \* the page that is mounted
    net,            \* requests under way
    db,             \* the shop's row
    ghost           \* the bound's counter, and the fields entered since the load

vars == <<ui, net, db, ghost>>

Provider == Payment \cup Courier
Field == {"id", "secret"}
Mask == "********"
Text == {"", Mask, "entered"}
Keys(s) == [s -> [Field -> Text]]
NoKeys(s) == [p \in s |-> [f \in Field |-> ""]]
Mode == {"manual", "auto"}

TypeOK ==
    /\ ui \in [path : {"shop", "integrations"}, loading : BOOLEAN, saving : BOOLEAN,
               isNew : BOOLEAN, name : Text, mode : Mode, keys : Keys(Provider),
               configured : SUBSET Provider, tab : Provider]
    /\ db \in [exists : BOOLEAN, mode : Mode, columns : Keys(Provider), json : Keys(Courier)]
    /\ \A q \in net : q.op \in {"load", "post", "put", "integrations"}
    /\ ghost \in [acts : 0..MaxShopActs, entered : SUBSET (Provider \X Field)]

Blank(path, tab) ==
    [path |-> path, loading |-> TRUE, saving |-> FALSE, isNew |-> FALSE, name |-> "",
     mode |-> "manual", keys |-> NoKeys(Provider), configured |-> {}, tab |-> tab]
Load == [op |-> "load"]

Init ==
    /\ db \in [exists : BOOLEAN, mode : {"manual"}, columns : {NoKeys(Provider)},
               json : {NoKeys(Courier)}]
    /\ \E path \in {"shop", "integrations"}, tab \in Payment : ui = Blank(path, tab)
    /\ net = {Load}
    /\ ghost = [acts |-> 0, entered |-> {}]

Acts == ghost.acts < MaxShopActs
\* A page that is left no longer hears of its requests.
Visit(path) ==
    /\ Acts /\ path # ui.path
    /\ \E tab \in Payment : ui' = Blank(path, tab)
    /\ net' = {[q EXCEPT !.live = FALSE] : q \in net \ {Load}} \cup {Load}
    /\ ghost' = [acts |-> ghost.acts + 1, entered |-> {}] /\ UNCHANGED db

-----------------------------------------------------------------------------
(* Loading.  The shop's page takes any failure for a shop that is not there *)
(* yet, and never shows a secret; the other one shows a mask in every field *)
(* of a service that has an id.                                             *)

FetchShopAndRules ==
    /\ ui.path = "shop" /\ Load \in net /\ net' = net \ {Load}
    /\ \/ /\ db.exists
          /\ ui' = [ui EXCEPT !.loading = FALSE, !.name = "entered", !.mode = db.mode,
                !.keys = [p \in Provider |->
                    IF p \in Courier THEN db.json[p]
                    ELSE [f \in Field |-> IF f = "secret" THEN "" ELSE db.columns[p][f]]]]
       \/ ui' = [ui EXCEPT !.loading = FALSE, !.isNew = TRUE]
    /\ ghost' = [ghost EXCEPT !.entered = {}] /\ UNCHANGED db

Configured == {p \in Provider : db.columns[p]["id"] # ""}
LoadIntegrations ==
    /\ ui.path = "integrations" /\ Load \in net /\ net' = net \ {Load}
    /\ \/ /\ db.exists
          /\ ui' = [ui EXCEPT !.loading = FALSE, !.configured = Configured,
                !.keys = [p \in Provider |-> [f \in Field |-> IF p \in Configured THEN Mask ELSE ""]]]
          /\ ghost' = [ghost EXCEPT !.entered = {}]
       \/ ui' = [ui EXCEPT !.loading = FALSE] /\ UNCHANGED ghost
    /\ UNCHANGED db

-----------------------------------------------------------------------------
(* The forms. *)

Enter(p, f, text) ==
    /\ ui' = [ui EXCEPT !.keys[p][f] = text]
    /\ Acts /\ ghost' = [acts |-> ghost.acts + 1, entered |-> ghost.entered \cup {<<p, f>>}]
    /\ UNCHANGED <<net, db>>
EnterShop ==
    /\ ui.path = "shop" /\ ~ui.loading
    /\ \E name \in Text \ {Mask} : ui' = [ui EXCEPT !.name = name]
    /\ UNCHANGED <<net, db, ghost>>
\* The payment services' fields are shown in the automatic mode only.
SetMode ==
    /\ ui.path = "shop" /\ ~ui.loading
    /\ \E mode \in Mode : ui' = [ui EXCEPT !.mode = mode]
    /\ UNCHANGED <<net, db, ghost>>
EnterPayment ==
    /\ ui.path = "shop" /\ ~ui.loading /\ ui.mode = "auto"
    /\ \E p \in Payment, f \in Field, text \in Text \ {Mask} : Enter(p, f, text)
EnterCourier ==
    /\ ui.path = "shop" /\ ~ui.loading
    /\ \E p \in Courier, f \in Field, text \in Text \ {Mask} : Enter(p, f, text)
SetActiveTab ==
    /\ ui.path = "integrations" /\ ~ui.loading
    /\ \E p \in Provider : ui' = [ui EXCEPT !.tab = p]
    /\ UNCHANGED <<net, db, ghost>>
PaymentPanel ==
    /\ ui.path = "integrations" /\ ~ui.loading /\ ui.tab \in Payment
    /\ \E f \in Field, text \in Text \ {Mask} : Enter(ui.tab, f, text)
CourierPanel ==
    /\ ui.path = "integrations" /\ ~ui.loading /\ ui.tab \in Courier
    /\ \E f \in Field, text \in Text \ {Mask} : Enter(ui.tab, f, text)

Send(request) ==
    /\ Acts /\ ghost' = [ghost EXCEPT !.acts = @ + 1]
    /\ ui' = [ui EXCEPT !.saving = TRUE] /\ net' = net \cup {request} /\ UNCHANGED db
HandleSaveShop ==
    /\ ui.path = "shop" /\ ~ui.loading /\ ~ui.saving /\ ui.name # ""
    /\ Send([op |-> IF ui.isNew THEN "post" ELSE "put", mode |-> ui.mode, keys |-> ui.keys,
             entered |-> ghost.entered, live |-> TRUE])
\* Only the fields of the tab's service are sent.
HandleSaveIntegrations ==
    /\ ui.path = "integrations" /\ ~ui.loading /\ ~ui.saving
    /\ Send([op |-> "integrations", tab |-> ui.tab, keys |-> ui.keys[ui.tab],
             entered |-> ghost.entered, live |-> TRUE])

-----------------------------------------------------------------------------
(* The gateway, which keeps the shop page's courier keys apart from those  *)
(* of the integrations, and the answers.                                   *)

CreateShop(q) ==
    /\ ~db.exists
    /\ db' = [exists |-> TRUE, mode |-> "manual", columns |-> NoKeys(Provider), json |-> NoKeys(Courier)]
UpdateMyShop(q) ==
    /\ db.exists
    /\ db' = [db EXCEPT !.mode = q.mode, !.json = [p \in Courier |-> q.keys[p]],
                        !.columns = [p \in Provider |-> IF p \in Payment THEN q.keys[p] ELSE @[p]]]
\* Bug: a mask is stored like a key.
UpdateWithMasks(q) == db.exists /\ db' = [db EXCEPT !.columns[q.tab] = q.keys]
\* A masked field is left alone; an error of the database is not reported.
UpdateIntegrations(q) ==
    /\ db.exists
    /\ \/ db' = [db EXCEPT !.columns[q.tab] =
                    [f \in Field |-> IF q.keys[f] = Mask THEN @[f] ELSE q.keys[f]]]
       \/ UNCHANGED db

Served(q) ==
    \/ q.op = "post" /\ CreateShop(q)
    \/ q.op = "put" /\ UpdateMyShop(q)
    \/ q.op = "integrations" /\ UpdateIntegrations(q)
Heard(q, new) == ui' = IF q.live THEN new ELSE ui

ShopSaved(q) ==
    /\ q.op \in {"post", "put"} /\ Served(q)
    /\ Heard(q, [ui EXCEPT !.saving = FALSE, !.isNew = FALSE])
    /\ net' = net \ {q} /\ UNCHANGED ghost
\* After a save every tab is loaded again, the other ones' entries are lost.
IntegrationsSaved(q) ==
    /\ q.op = "integrations" /\ Served(q)
    /\ Heard(q, [ui EXCEPT !.saving = FALSE, !.loading = TRUE])
    /\ net' = (net \ {q}) \cup (IF q.live THEN {Load} ELSE {})
    /\ UNCHANGED ghost
\* Refused, lost, or served with the answer lost.
SaveFails(q) ==
    /\ q # Load
    /\ UNCHANGED db \/ Served(q)
    /\ Heard(q, [ui EXCEPT !.saving = FALSE])
    /\ net' = net \ {q} /\ UNCHANGED ghost

-----------------------------------------------------------------------------
Next ==
    \/ \E path \in {"shop", "integrations"} : Visit(path)
    \/ FetchShopAndRules \/ LoadIntegrations
    \/ EnterShop \/ SetMode \/ EnterPayment \/ EnterCourier \/ SetActiveTab \/ PaymentPanel \/ CourierPanel
    \/ HandleSaveShop \/ HandleSaveIntegrations
    \/ \E q \in net : ShopSaved(q) \/ IntegrationsSaved(q) \/ SaveFails(q)

-----------------------------------------------------------------------------
\* The mask the integrations page shows for a key that it was not sent is never
\* stored for one, whatever is saved from which page and then loaded in the other.
MaskIsNoKey ==
    /\ \A p \in Provider, f \in Field : db.columns[p][f] # Mask
    /\ ui.path = "shop" => \A p \in Provider, f \in Field : ui.keys[p][f] # Mask

\* A key comes into the row by a save in whose form it was entered, or, if it is no
\* secret, by one of the shop's page, which sends the id it had loaded, be it erased
\* by then.  What was not entered may be erased: neither page shows a secret, and
\* both save every field.
KeysAreEntered ==
    \A p \in Provider, f \in Field :
        db'.columns[p][f] \notin {db.columns[p][f], ""} =>
            \E q \in net \ net' : <<p, f>> \in q.entered \/ (f = "id" /\ q.op = "put")
=============================================================================
