----------------------------- MODULE PagesProofs -----------------------------
(***************************************************************************)
(* Proofs about the pages, for any rows, requests and bounds.              *)
(***************************************************************************)
EXTENDS Pages, Sequences, FiniteSetTheorems, TLAPS

---------------------------------------------------------------------------
(* The two pages with a shop's keys *)

\* No field is the mask.
Plain(keys, services) == \A p \in services, f \in Shop!Field : keys[p][f] # Shop!Mask

\* What the pages show, the shop's row, the requests of each page, the notes: of
\* their types, and no mask in what is stored, in what the shop's page shows, and
\* in what that page has sent.
ShopScreen ==
    [path : {"shop", "integrations"}, loading : BOOLEAN, saving : BOOLEAN,
     isNew : BOOLEAN, name : Shop!Text, mode : Shop!Mode,
     keys : Shop!Keys(Shop!Provider), configured : SUBSET Shop!Provider, tab : Shop!Provider]
ShopRow ==
    [exists : BOOLEAN, mode : Shop!Mode, columns : Shop!Keys(Shop!Provider), json : Shop!Keys(Courier)]
ShopSave ==
    [op : {"post", "put"}, mode : Shop!Mode, keys : Shop!Keys(Shop!Provider),
     entered : SUBSET (Shop!Provider \X Shop!Field), live : BOOLEAN]
KeySave ==
    [op : {"integrations"}, tab : Shop!Provider, keys : [Shop!Field -> Shop!Text],
     entered : SUBSET (Shop!Provider \X Shop!Field), live : BOOLEAN]
ShopNotes == [acts : 0..MaxShopActs, entered : SUBSET (Shop!Provider \X Shop!Field)]

KeysInv ==
    /\ ui \in ShopScreen /\ (ui.path = "shop" => Plain(ui.keys, Shop!Provider))
    /\ db \in ShopRow /\ Plain(db.columns, Shop!Provider) /\ Plain(db.json, Courier)
    /\ \A q \in net : \/ q = Shop!Load \/ q \in KeySave
                      \/ q \in ShopSave /\ Plain(q.keys, Shop!Provider)
    /\ ghost \in ShopNotes

\* It is what the properties ask of these pages.
LEMMA KeysSuffice == KeysInv => Shop!TypeOK /\ Shop!MaskIsNoKey
<1>1. \A q : q = Shop!Load \/ q \in KeySave \/ q \in ShopSave
              => q.op \in {"load", "post", "put", "integrations"}
  BY DEF Shop!Load, ShopSave, KeySave
<1>2. KeysInv => Shop!TypeOK
  BY <1>1 DEF KeysInv, Shop!TypeOK, ShopScreen, ShopRow, ShopNotes
<1>3. KeysInv => Shop!MaskIsNoKey
  BY DEF KeysInv, Shop!MaskIsNoKey, Plain
<1> QED BY <1>2, <1>3

\* A blank page has no keys.
LEMMA BlankShop ==
    ASSUME NEW path \in {"shop", "integrations"}, NEW tab \in Shop!Provider
    PROVE  /\ Shop!Blank(path, tab) \in ShopScreen
           /\ Plain(Shop!Blank(path, tab).keys, Shop!Provider)
           /\ Shop!Blank(path, tab).path = path
<1>1. \A s : Shop!NoKeys(s) \in Shop!Keys(s) /\ Plain(Shop!NoKeys(s), s)
  BY DEF Shop!NoKeys, Shop!Keys, Plain, Shop!Mask, Shop!Text, Shop!Field
<1> QED BY <1>1 DEF Shop!Blank, Shop!Text, Shop!Mode, ShopScreen

LEMMA KeysInit == Shop!Init => KeysInv
<1> SUFFICES ASSUME Shop!Init PROVE KeysInv
  OBVIOUS
<1>1. \A s : Shop!NoKeys(s) \in Shop!Keys(s) /\ Plain(Shop!NoKeys(s), s)
  BY DEF Shop!NoKeys, Shop!Keys, Plain, Shop!Mask, Shop!Text, Shop!Field
<1>2. PICK path \in {"shop", "integrations"}, tab \in Payment : ui = Shop!Blank(path, tab)
  BY DEF Shop!Init
<1>3. db \in ShopRow /\ db.columns = Shop!NoKeys(Shop!Provider) /\ db.json = Shop!NoKeys(Courier)
  BY <1>1 DEF Shop!Init, Shop!Mode, ShopRow
<1>4. ghost \in ShopNotes
  BY BoundsAssumption DEF Shop!Init, ShopNotes
<1>5. \A q \in net : q = Shop!Load
  BY DEF Shop!Init
<1>6. ui \in ShopScreen /\ Plain(ui.keys, Shop!Provider)
  BY <1>2, BlankShop DEF Shop!Provider
<1> QED BY <1>1, <1>3, <1>4, <1>5, <1>6 DEF KeysInv

\* An act more is counted within its bound.
LEMMA ActCounted ==
    ASSUME NEW max \in Nat, NEW n \in 0..max, n < max
    PROVE  n + 1 \in 0..max
  OBVIOUS

\* A field that is entered.
LEMMA KeyEntered ==
    ASSUME KeysInv, NEW p \in Shop!Provider, NEW f \in Shop!Field, NEW text \in Shop!Text \ {Shop!Mask},
           Shop!Enter(p, f, text)
    PROVE  KeysInv'
<1> DEFINE keys == [ui.keys EXCEPT ![p][f] = text]
<1>1. keys \in Shop!Keys(Shop!Provider) /\ (Plain(ui.keys, Shop!Provider) => Plain(keys, Shop!Provider))
  <2>1. ui.keys \in Shop!Keys(Shop!Provider)
    BY DEF KeysInv, ShopScreen
  <2>2. keys \in Shop!Keys(Shop!Provider)
    BY <2>1 DEF Shop!Keys
  <2>3. \A r \in Shop!Provider, g \in Shop!Field : keys[r][g] = IF r = p /\ g = f THEN text ELSE ui.keys[r][g]
    BY <2>1 DEF Shop!Keys
  <2> HIDE DEF keys
  <2> QED BY <2>2, <2>3 DEF Plain
<1>2. ui' = [ui EXCEPT !.keys = keys] /\ UNCHANGED <<net, db>>
  BY DEF Shop!Enter
<1> HIDE DEF keys
<1>3. ui' \in ShopScreen /\ (ui'.path = "shop" => Plain(ui'.keys, Shop!Provider))
  BY <1>1, <1>2 DEF KeysInv, ShopScreen
<1>4. ghost' \in ShopNotes
  BY BoundsAssumption DEF KeysInv, Shop!Enter, Shop!Acts, ShopNotes
<1> QED BY <1>2, <1>3, <1>4 DEF KeysInv

\* What the gateway stores of a request has no mask.
LEMMA ShopServed ==
    ASSUME KeysInv, NEW q \in net, Shop!Served(q)
    PROVE  db' \in ShopRow /\ Plain(db'.columns, Shop!Provider) /\ Plain(db'.json, Courier)
<1>0. db \in ShopRow /\ Plain(db.columns, Shop!Provider) /\ Plain(db.json, Courier)
  BY DEF KeysInv
<1>1. CASE q.op = "post" /\ Shop!CreateShop(q)
  <2>1. \A s : Shop!NoKeys(s) \in Shop!Keys(s) /\ Plain(Shop!NoKeys(s), s)
    BY DEF Shop!NoKeys, Shop!Keys, Plain, Shop!Mask, Shop!Text, Shop!Field
  <2> QED BY <1>1, <2>1 DEF Shop!CreateShop, ShopRow, Shop!Mode
<1>2. CASE q.op = "put" /\ Shop!UpdateMyShop(q)
  <2>1. q \in ShopSave /\ Plain(q.keys, Shop!Provider)
    BY <1>2 DEF KeysInv, Shop!Load, KeySave
  <2> DEFINE columns == [p \in Shop!Provider |-> IF p \in Payment THEN q.keys[p] ELSE db.columns[p]]
             json == [p \in Courier |-> q.keys[p]]
  <2>2. db' = [db EXCEPT !.mode = q.mode, !.json = json, !.columns = columns]
    BY <1>2 DEF Shop!UpdateMyShop
  <2>3. columns \in Shop!Keys(Shop!Provider) /\ Plain(columns, Shop!Provider)
    BY <1>0, <2>1 DEF ShopSave, ShopRow, Shop!Keys, Plain
  <2>4. json \in Shop!Keys(Courier) /\ Plain(json, Courier)
    BY <2>1 DEF ShopSave, Shop!Keys, Plain, Shop!Provider
  <2>5. q.mode \in Shop!Mode
    BY <2>1 DEF ShopSave
  <2> HIDE DEF columns, json
  <2> QED BY <1>0, <2>2, <2>3, <2>4, <2>5 DEF ShopRow
<1>3. CASE q.op = "integrations" /\ Shop!UpdateIntegrations(q)
  <2>1. q \in KeySave
    BY <1>3 DEF KeysInv, Shop!Load, ShopSave
  <2>2. CASE UNCHANGED db
    BY <1>0, <2>2
  <2>3. CASE db' # db
    <3> DEFINE row == [f \in Shop!Field |-> IF q.keys[f] = Shop!Mask THEN db.columns[q.tab][f] ELSE q.keys[f]]
               columns == [db.columns EXCEPT ![q.tab] = row]
    <3>1. db' = [db EXCEPT !.columns = columns]
      BY <1>3, <2>3 DEF Shop!UpdateIntegrations
    <3>2. row \in [Shop!Field -> Shop!Text] /\ \A f \in Shop!Field : row[f] # Shop!Mask
      BY <1>0, <2>1 DEF KeySave, ShopRow, Shop!Keys, Plain
    <3> HIDE DEF row
    <3>3. columns \in Shop!Keys(Shop!Provider) /\ Plain(columns, Shop!Provider)
      BY <1>0, <2>1, <3>2 DEF ShopRow, Shop!Keys, Plain
    <3> HIDE DEF columns
    <3> QED BY <1>0, <3>1, <3>3 DEF ShopRow
  <2> QED BY <2>2, <2>3
<1> QED BY <1>1, <1>2, <1>3 DEF Shop!Served

\* A save that is sent.
LEMMA ShopSent ==
    ASSUME KeysInv, NEW q, q \in KeySave \/ (q \in ShopSave /\ Plain(q.keys, Shop!Provider)),
           Shop!Send(q)
    PROVE  KeysInv'
<1>1. ui' \in ShopScreen /\ (ui'.path = "shop" => Plain(ui'.keys, Shop!Provider))
  BY DEF Shop!Send, KeysInv, ShopScreen
<1>2. ghost' \in ShopNotes
  <2>1. ghost.acts + 1 \in 0..MaxShopActs
    BY ActCounted, BoundsAssumption DEF Shop!Send, Shop!Acts, KeysInv, ShopNotes
  <2> QED BY <2>1 DEF Shop!Send, KeysInv, ShopNotes
<1> QED BY <1>1, <1>2 DEF Shop!Send, KeysInv

\* Every step of the shop's pages keeps it.
LEMMA KeysNext == KeysInv /\ Shop!Next => KeysInv'
<1> SUFFICES ASSUME KeysInv, Shop!Next PROVE KeysInv'
  OBVIOUS
<1>0. Payment \subseteq Shop!Provider /\ Courier \subseteq Shop!Provider
  BY DEF Shop!Provider
<1>1. ASSUME NEW path \in {"shop", "integrations"}, Shop!Visit(path) PROVE KeysInv'
  <2>1. ui' \in ShopScreen /\ Plain(ui'.keys, Shop!Provider)
    BY <1>1, <1>0, BlankShop DEF Shop!Visit
  <2>2. \A q \in net' : \/ q = Shop!Load \/ q \in KeySave
                        \/ q \in ShopSave /\ Plain(q.keys, Shop!Provider)
    <3>1. /\ \A q \in KeySave : [q EXCEPT !.live = FALSE] \in KeySave
          /\ \A q \in ShopSave : [q EXCEPT !.live = FALSE] \in ShopSave /\ [q EXCEPT !.live = FALSE].keys = q.keys
      BY DEF KeySave, ShopSave
    <3>2. net' = {[q EXCEPT !.live = FALSE] : q \in net \ {Shop!Load}} \cup {Shop!Load}
      BY <1>1 DEF Shop!Visit
    <3>3. ASSUME NEW q \in net \ {Shop!Load}
          PROVE  LET left == [q EXCEPT !.live = FALSE]
                 IN  left \in KeySave \/ (left \in ShopSave /\ Plain(left.keys, Shop!Provider))
      BY <3>1 DEF KeysInv
    <3> QED BY <3>2, <3>3
  <2>3. ghost' \in ShopNotes /\ db' = db
    BY <1>1, ActCounted, BoundsAssumption DEF Shop!Visit, Shop!Acts, KeysInv, ShopNotes
  <2> QED BY <2>1, <2>2, <2>3 DEF KeysInv
<1>2. ASSUME Shop!FetchShopAndRules PROVE KeysInv'
  <2>1. ui' \in ShopScreen /\ (ui'.path = "shop" => Plain(ui'.keys, Shop!Provider))
    <3> DEFINE keys == [p \in Shop!Provider |->
                          IF p \in Courier THEN db.json[p]
                          ELSE [f \in Shop!Field |-> IF f = "secret" THEN "" ELSE db.columns[p][f]]]
    <3>1. keys \in Shop!Keys(Shop!Provider) /\ Plain(keys, Shop!Provider)
      BY DEF KeysInv, ShopRow, Shop!Keys, Plain, Shop!Text, Shop!Mask
    <3>2. \/ ui' = [ui EXCEPT !.loading = FALSE, !.name = "entered", !.mode = db.mode, !.keys = keys]
          \/ ui' = [ui EXCEPT !.loading = FALSE, !.isNew = TRUE]
      BY <1>2 DEF Shop!FetchShopAndRules
    <3>3. db.mode \in Shop!Mode /\ "entered" \in Shop!Text
      BY DEF KeysInv, ShopRow, Shop!Text
    <3> HIDE DEF keys
    <3> QED BY <3>1, <3>2, <3>3, ZenonT(60) DEF KeysInv, ShopScreen
  <2> QED BY <1>2, <2>1 DEF Shop!FetchShopAndRules, KeysInv, ShopNotes
<1>3. ASSUME Shop!LoadIntegrations PROVE KeysInv'
  <2>1. ui' \in ShopScreen /\ ui'.path = "integrations"
    <3> DEFINE keys == [p \in Shop!Provider |-> [f \in Shop!Field |-> IF p \in Shop!Configured THEN Shop!Mask ELSE ""]]
    <3>1. keys \in Shop!Keys(Shop!Provider) /\ Shop!Configured \in SUBSET Shop!Provider
      BY DEF Shop!Keys, Shop!Text, Shop!Configured
    <3>2. /\ ui.path = "integrations"
          /\ \/ ui' = [ui EXCEPT !.loading = FALSE, !.configured = Shop!Configured, !.keys = keys]
             \/ ui' = [ui EXCEPT !.loading = FALSE]
      BY <1>3 DEF Shop!LoadIntegrations
    <3> HIDE DEF keys
    <3> QED BY <3>1, <3>2 DEF KeysInv, ShopScreen
  <2> QED BY <1>3, <2>1 DEF Shop!LoadIntegrations, KeysInv, ShopNotes
<1>4. ASSUME Shop!EnterShop \/ Shop!SetMode \/ Shop!SetActiveTab PROVE KeysInv'
  BY <1>4 DEF Shop!EnterShop, Shop!SetMode, Shop!SetActiveTab, KeysInv, ShopScreen
<1>5. ASSUME Shop!EnterPayment \/ Shop!EnterCourier \/ Shop!PaymentPanel \/ Shop!CourierPanel PROVE KeysInv'
  BY <1>0, <1>5, KeyEntered DEF Shop!EnterPayment, Shop!EnterCourier, Shop!PaymentPanel, Shop!CourierPanel
<1>6. ASSUME Shop!HandleSaveShop PROVE KeysInv'
  <2> DEFINE q == [op |-> IF ui.isNew THEN "post" ELSE "put", mode |-> ui.mode, keys |-> ui.keys,
                   entered |-> ghost.entered, live |-> TRUE]
  <2>1. Shop!Send(q) /\ ui.path = "shop"
    BY <1>6 DEF Shop!HandleSaveShop
  <2>2. q \in ShopSave /\ Plain(q.keys, Shop!Provider)
    BY <2>1 DEF KeysInv, ShopScreen, ShopNotes, ShopSave
  <2> HIDE DEF q
  <2> QED BY <2>1, <2>2, ShopSent
<1>7. ASSUME Shop!HandleSaveIntegrations PROVE KeysInv'
  <2> DEFINE q == [op |-> "integrations", tab |-> ui.tab, keys |-> ui.keys[ui.tab],
                   entered |-> ghost.entered, live |-> TRUE]
  <2>1. Shop!Send(q)
    BY <1>7 DEF Shop!HandleSaveIntegrations
  <2>2. q \in KeySave
    BY DEF KeysInv, ShopScreen, ShopNotes, KeySave, Shop!Keys
  <2> HIDE DEF q
  <2> QED BY <2>1, <2>2, ShopSent
<1>8. ASSUME NEW q \in net, Shop!ShopSaved(q) \/ Shop!IntegrationsSaved(q) \/ Shop!SaveFails(q) PROVE KeysInv'
  <2>1. ui' \in ShopScreen /\ (ui'.path = "shop" => Plain(ui'.keys, Shop!Provider))
    BY <1>8, ZenonT(60) DEF Shop!ShopSaved, Shop!IntegrationsSaved, Shop!SaveFails, Shop!Heard, KeysInv, ShopScreen
  <2>2. db' \in ShopRow /\ Plain(db'.columns, Shop!Provider) /\ Plain(db'.json, Courier)
    BY <1>8, ShopServed DEF Shop!ShopSaved, Shop!IntegrationsSaved, Shop!SaveFails, KeysInv
  <2>3. ghost' = ghost /\ net' \subseteq net \cup {Shop!Load}
    BY <1>8 DEF Shop!ShopSaved, Shop!IntegrationsSaved, Shop!SaveFails
  <2> QED BY <2>1, <2>2, <2>3 DEF KeysInv
<1> QED BY <1>1, <1>2, <1>3, <1>4, <1>5, <1>6, <1>7, <1>8 DEF Shop!Next

---------------------------------------------------------------------------
(* Two-factor sign-in *)

TwoStepUser == [enabled : BOOLEAN, secret : TwoStep!Stored, generated : SUBSET Secret]
TwoStepAsked ==
    [op : {"enable", "verify"}, n : 1..MaxTwoFactorActs, at : {"sent", "served", "refused"},
     secret : TwoStep!Stored]
TwoStepRead ==
    [op : {"enable", "verify"}, n : 1..MaxTwoFactorActs, at : {"read", "served"},
     secret : TwoStep!Stored, user : TwoStepUser]

\* A handler goes on from what it has read: a new secret only for a user without
\* two-factor sign-in, and a confirmation only of a secret the app was given, which
\* was the user's.
TwoStepInv ==
    /\ ui \in [app : SUBSET Secret]
    /\ db \in TwoStepUser
    /\ ghost \in [acts : 0..MaxTwoFactorActs, crossed : BOOLEAN]
    /\ \A q \in net :
          /\ q \in TwoStepAsked \cup TwoStepRead
          /\ q.at = "read" => q \in TwoStepRead
          /\ q.op = "enable" /\ q.at = "read" => ~q.user.enabled
          /\ q.op = "enable" /\ q.at = "served" => q.secret \in Secret
          /\ q.op = "verify" /\ q.at \in {"sent", "read"} => q.secret \in ui.app
          /\ q.op = "verify" /\ q.at = "read" => q.user.secret = q.secret
    /\ TwoStep!SecretIsTheApps

LEMMA TwoStepSuffices == TwoStepInv => TwoStep!TypeOK /\ TwoStep!SecretIsTheApps
  BY DEF TwoStepInv, TwoStep!TypeOK, TwoStepUser, TwoStepAsked, TwoStepRead

LEMMA TwoStepStart == TwoStep!Init => TwoStepInv
  BY BoundsAssumption DEF TwoStep!Init, TwoStepInv, TwoStepUser, TwoStep!Stored, TwoStep!SecretIsTheApps

\* A handler reads the user.
LEMMA TwoStepReads ==
    ASSUME TwoStepInv, NEW q \in net, NEW op \in {"enable", "verify"}, NEW refused \in BOOLEAN,
           TwoStep!FirstUser(q, op, refused),
           op = "enable" => refused = db.enabled,
           op = "verify" => refused = (db.secret = NoSecret \/ q.secret # db.secret)
    PROVE  TwoStepInv'
<1>1. q \in TwoStepAsked /\ q.op = op /\ q.at = "sent" /\ UNCHANGED <<ui, db, ghost>>
  BY DEF TwoStep!FirstUser, TwoStepInv, TwoStepRead
<1>2. CASE refused
  <2> DEFINE r == [q EXCEPT !.at = "refused"]
  <2>1. net' = (net \ {q}) \cup {r}
    BY <1>2 DEF TwoStep!FirstUser
  <2>2. r \in TwoStepAsked /\ r.at = "refused"
    BY <1>1 DEF TwoStepAsked
  <2> HIDE DEF r
  <2> QED BY <1>1, <2>1, <2>2 DEF TwoStepInv, TwoStep!SecretIsTheApps
<1>3. CASE ~refused
  <2> DEFINE user == [db EXCEPT !.generated = {}]
             r == [op |-> op, n |-> q.n, at |-> "read", secret |-> q.secret, user |-> user]
  <2>1. net' = (net \ {q}) \cup {r}
    BY <1>3 DEF TwoStep!FirstUser
  <2>2. user \in TwoStepUser /\ user.enabled = db.enabled /\ user.secret = db.secret
    BY DEF TwoStepInv, TwoStepUser
  <2> HIDE DEF user
  <2>3. r \in TwoStepRead /\ r.op = op /\ r.at = "read" /\ r.secret = q.secret /\ r.user = user
    BY <1>1, <2>2 DEF TwoStepAsked, TwoStepRead
  <2> HIDE DEF r
  <2>4. /\ op = "enable" => ~r.user.enabled
        /\ op = "verify" => r.secret \in ui.app /\ r.user.secret = r.secret
    BY <1>1, <1>3, <2>2, <2>3 DEF TwoStepInv
  <2> QED BY <1>1, <2>1, <2>3, <2>4 DEF TwoStepInv, TwoStep!SecretIsTheApps
<1> QED BY <1>2, <1>3

\* A handler writes what it decided on: a new secret, or that the one it read is
\* confirmed.
LEMMA TwoStepWrites ==
    ASSUME TwoStepInv, NEW q \in net, TwoStep!Generate(q) \/ (TwoStep!Verify2FA(q) /\ q.at = "read")
    PROVE  TwoStepInv'
<1>1. q \in TwoStepRead /\ q.at = "read"
  BY DEF TwoStep!Generate, TwoStep!Writes, TwoStepInv
<1>2. CASE TwoStep!Generate(q)
  <2>1. PICK s \in Secret \ db.generated, written \in BOOLEAN :
          /\ TwoStep!Writes(q, "enable", [db EXCEPT !.generated = @ \cup {s},
                                                    !.secret = IF written THEN s ELSE @])
          /\ net' = (net \ {q}) \cup {[op |-> "enable", n |-> q.n, at |-> "served", secret |-> s]}
    BY <1>2 DEF TwoStep!Generate
  <2> DEFINE r == [op |-> "enable", n |-> q.n, at |-> "served", secret |-> s]
  <2>2. r \in TwoStepAsked /\ r.op = "enable" /\ r.at = "served" /\ r.secret \in Secret
    BY <1>1 DEF TwoStepRead, TwoStepAsked, TwoStep!Stored
  <2>3. net' = (net \ {q}) \cup {r}
    BY <2>1
  <2> HIDE DEF r
  <2>4. db' \in TwoStepUser /\ db'.enabled = db.enabled
    BY <2>1 DEF TwoStep!Writes, TwoStepInv, TwoStepUser, TwoStep!Stored
  <2>5. ghost' \in [acts : 0..MaxTwoFactorActs, crossed : BOOLEAN] /\ ui' = ui
        /\ (ghost'.crossed <=> ghost.crossed \/ q.user.enabled # db.enabled)
    BY <1>1, <2>1 DEF TwoStep!Writes, TwoStepInv, TwoStep!Crosses, TwoStepRead, TwoStepUser
  <2>6. TwoStep!SecretIsTheApps'
    BY <1>1, <2>1, <2>4, <2>5 DEF TwoStepInv, TwoStep!SecretIsTheApps, TwoStep!Writes
  <2> QED BY <2>2, <2>3, <2>4, <2>5, <2>6 DEF TwoStepInv
<1>3. CASE TwoStep!Verify2FA(q)
  <2>1. PICK written \in BOOLEAN :
          /\ TwoStep!Writes(q, "verify", [db EXCEPT !.enabled = @ \/ written])
          /\ TwoStep!Goes(q, "served")
    BY <1>1, <1>3 DEF TwoStep!Verify2FA, TwoStep!FirstUser
  <2> DEFINE r == [q EXCEPT !.at = "served"]
  <2>2. r \in TwoStepRead /\ r.at = "served" /\ r.op = "verify"
    BY <1>1, <2>1 DEF TwoStepRead, TwoStep!Writes
  <2>3. net' = (net \ {q}) \cup {r}
    BY <2>1 DEF TwoStep!Goes
  <2> HIDE DEF r
  <2>4. db' \in TwoStepUser /\ db'.secret = db.secret
    BY <2>1 DEF TwoStep!Writes, TwoStepInv, TwoStepUser
  <2>5. ghost' \in [acts : 0..MaxTwoFactorActs, crossed : BOOLEAN] /\ ui' = ui
        /\ (ghost'.crossed <=> ghost.crossed \/ q.user.secret # db.secret)
    BY <1>1, <2>1 DEF TwoStep!Writes, TwoStepInv, TwoStep!Crosses, TwoStepRead, TwoStepUser
  <2>6. TwoStep!SecretIsTheApps'
    BY <1>1, <2>1, <2>4, <2>5 DEF TwoStepInv, TwoStep!SecretIsTheApps, TwoStep!Writes
  <2> QED BY <2>2, <2>3, <2>4, <2>5, <2>6 DEF TwoStepInv
<1> QED BY <1>2, <1>3

LEMMA TwoStepNext == TwoStepInv /\ TwoStep!Next => TwoStepInv'
<1> SUFFICES ASSUME TwoStepInv, TwoStep!Next PROVE TwoStepInv'
  OBVIOUS
<1>1. ASSUME NEW op \in {"enable", "verify"}, NEW secret \in TwoStep!Stored, TwoStep!Ask(op, secret),
             op = "verify" => secret \in ui.app
      PROVE  TwoStepInv'
  <2> DEFINE r == [op |-> op, n |-> ghost.acts + 1, at |-> "sent", secret |-> secret]
  <2>1. ghost.acts \in 0..MaxTwoFactorActs /\ ghost.acts < MaxTwoFactorActs /\ MaxTwoFactorActs \in Nat
    BY <1>1, BoundsAssumption DEF TwoStepInv, TwoStep!Ask
  <2>2. r \in TwoStepAsked /\ r.op = op /\ r.at = "sent" /\ r.secret = secret
    BY <2>1 DEF TwoStepAsked
  <2>3. net' = net \cup {r} /\ UNCHANGED <<ui, db>>
    BY <1>1 DEF TwoStep!Ask
  <2> HIDE DEF r
  <2>4. ghost' \in [acts : 0..MaxTwoFactorActs, crossed : BOOLEAN] /\ ghost'.crossed = ghost.crossed
    BY <1>1, <2>1 DEF TwoStep!Ask, TwoStepInv
  <2> QED BY <1>1, <2>2, <2>3, <2>4 DEF TwoStepInv, TwoStep!SecretIsTheApps
<1>2. CASE TwoStep!AskEnable
  BY <1>1, <1>2 DEF TwoStep!AskEnable, TwoStep!Stored
<1>3. CASE TwoStep!AskVerify
  <2>1. PICK secret \in ui.app : TwoStep!Ask("verify", secret)
    BY <1>3 DEF TwoStep!AskVerify
  <2>2. secret \in TwoStep!Stored
    BY DEF TwoStepInv, TwoStep!Stored
  <2> QED BY <1>1, <2>1, <2>2
<1>4. ASSUME NEW q \in net, TwoStep!Answered(q) PROVE TwoStepInv'
  <2>1. net' = net \ {q} /\ UNCHANGED <<db, ghost>>
    BY <1>4 DEF TwoStep!Answered
  <2>2. ui' \in [app : SUBSET Secret] /\ ui.app \subseteq ui'.app
    <3>1. CASE q.op = "enable" /\ q.at = "served"
      <4>1. ui' = [ui EXCEPT !.app = @ \cup {q.secret}]
        BY <1>4, <3>1 DEF TwoStep!Answered
      <4>2. q.secret \in Secret
        BY <3>1 DEF TwoStepInv
      <4> QED BY <4>1, <4>2 DEF TwoStepInv
    <3>2. CASE ~(q.op = "enable" /\ q.at = "served")
      BY <1>4, <3>2 DEF TwoStep!Answered, TwoStepInv
    <3> QED BY <3>1, <3>2
  <2> QED BY <2>1, <2>2 DEF TwoStepInv, TwoStep!SecretIsTheApps
<1>5. ASSUME NEW q \in net, TwoStep!Lost(q) PROVE TwoStepInv'
  BY <1>5 DEF TwoStep!Lost, TwoStepInv, TwoStep!SecretIsTheApps
<1>6. ASSUME NEW q \in net, TwoStep!Enable2FA(q) PROVE TwoStepInv'
  <2>1. db.enabled \in BOOLEAN
    BY DEF TwoStepInv, TwoStepUser
  <2> QED BY <1>6, <2>1, TwoStepReads, TwoStepWrites DEF TwoStep!Enable2FA
<1>7. ASSUME NEW q \in net, TwoStep!Verify2FA(q) PROVE TwoStepInv'
  <2>1. CASE q.at = "read"
    BY <1>7, <2>1, TwoStepWrites
  <2>2. CASE q.at # "read"
    BY <1>7, <2>2, TwoStepReads DEF TwoStep!Verify2FA, TwoStep!Writes
  <2> QED BY <2>1, <2>2
<1> QED BY <1>2, <1>3, <1>4, <1>5, <1>6, <1>7 DEF TwoStep!Next

---------------------------------------------------------------------------
(* The account *)

AccountRequest ==
    [id : 0..MaxAccountActs,
     op : {"register", "login", "google", "verify", "resend", "forgot", "reset", "change"},
     code : 0..MaxCodes, old : Account!Word, word : Account!Word,
     at : {"sent", "found", "served", "refused"}, heard : BOOLEAN, mounted : BOOLEAN]
Mailed == [purpose : Account!Purpose, used : BOOLEAN]
AccountRow ==
    [status : {"none", "pending", "active"}, password : Account!Word, codes : Seq(Mailed), expired : Nat]
AccountNotes ==
    [acts : 0..MaxAccountActs, accepted : SUBSET (1..MaxCodes), crossed : BOOLEAN, unwritten : BOOLEAN]
AccountTyped ==
    /\ ui \in [path : Account!Path, told : Account!Word]
    /\ db \in AccountRow /\ Len(db.codes) <= MaxCodes /\ db.expired <= Len(db.codes)
    /\ net \subseteq AccountRequest
    /\ ghost \in AccountNotes

\* No two requests have one number.
RequestsAreOne ==
    /\ \A q \in net : q.id < ghost.acts
    /\ \A p, q \in net : p.id = q.id => p = q

\* A request was accepted with a code that was sent, and marked it.
AcceptedAreUsed ==
    /\ \A c \in ghost.accepted : c \in 1..Len(db.codes) /\ db.codes[c].used
    /\ \A q \in net : q.at = "found" => q.code \in 1..Len(db.codes)

\* Unless two overlapped, one request at most is to set a password.  While it has
\* not done so the one last told is in force; from then on its own is; and when it
\* is given up none is told.
Setter(q) == q.op \in Account!SetsPassword
OneSetter ==
    ~ghost.crossed => \A p, q \in net : Setter(p) /\ Setter(q) => p = q
ToldInForce ==
    ~ghost.crossed /\ ~ghost.unwritten =>
        /\ (\A q \in net : Setter(q) => q.at # "served") => ui.told \in {NoPassword, db.password}
        /\ \A q \in net : Setter(q) => /\ q.at = "served" => q.word = db.password
                                       /\ ~q.heard => ui.told = NoPassword

AccountInv == AccountTyped /\ RequestsAreOne /\ AcceptedAreUsed /\ OneSetter /\ ToldInForce

LEMMA AccountSuffices == AccountInv => Account!TypeOK /\ Account!PasswordIsAsSaid
<1>1. AccountTyped => Account!TypeOK
  BY DEF AccountTyped, Account!TypeOK, AccountRequest, AccountRow, AccountNotes, Mailed
<1>2. OneSetter /\ ToldInForce => Account!PasswordIsAsSaid
  BY DEF ToldInForce, Account!PasswordIsAsSaid, Setter
<1> QED BY <1>1, <1>2 DEF AccountInv

LEMMA AccountStart == Account!Init => AccountInv
<1> SUFFICES ASSUME Account!Init PROVE AccountInv
  OBVIOUS
<1>1. <<>> \in Seq(Mailed) /\ Len(<<>>) = 0
  OBVIOUS
<1>2. AccountTyped
  BY <1>1, BoundsAssumption DEF Account!Init, AccountTyped, AccountRow, AccountNotes, Account!Path, Account!Word
<1> QED BY <1>2 DEF Account!Init, AccountInv, RequestsAreOne, AcceptedAreUsed, OneSetter, ToldInForce

\* What the step leaves of the requests: each came of one with its number, or is new.
CameOf(p, q) == p.id = q.id /\ p.op = q.op /\ p.word = q.word /\ p.code = q.code

\* A request is given up or left: it changes nothing else, and is as it was if heard.
LEMMA LeftRequests ==
    ASSUME NEW requests, requests \subseteq AccountRequest
    PROVE  /\ Account!Left(requests) \subseteq AccountRequest
           /\ \A p \in Account!Left(requests) :
                 \E q \in requests : /\ CameOf(p, q) /\ p.at = q.at /\ p.heard = q.heard
                                     /\ p = [q EXCEPT !.mounted = FALSE]
<1>1. \A q \in AccountRequest :
        LET p == [q EXCEPT !.mounted = FALSE]
        IN  p \in AccountRequest /\ CameOf(p, q) /\ p.at = q.at /\ p.heard = q.heard
  BY DEF AccountRequest, CameOf
<1> QED BY <1>1 DEF Account!Left

\* A step that only sees requests leave.
Leaves(rest) ==
    /\ rest \subseteq net
    /\ net' = rest \/ net' = Account!Left(rest)
LEMMA LeavingKeeps ==
    ASSUME AccountInv, NEW rest, Leaves(rest), UNCHANGED <<db, ghost>>,
           ui' \in [path : Account!Path, told : Account!Word]
    PROVE  /\ AccountTyped' /\ RequestsAreOne' /\ AcceptedAreUsed' /\ OneSetter'
           /\ \A p \in net' : \E q \in rest : CameOf(p, q) /\ p.at = q.at /\ p.heard = q.heard
           /\ \A q \in rest : \E p \in net' : CameOf(p, q) /\ p.at = q.at
<1>0. net \subseteq AccountRequest /\ rest \subseteq net
  BY DEF AccountInv, AccountTyped, Leaves
<1>1. CASE net' = rest
  BY <1>0, <1>1 DEF AccountInv, AccountTyped, RequestsAreOne, AcceptedAreUsed, OneSetter, CameOf, Setter
<1>2. CASE net' = Account!Left(rest)
  <2>1. /\ net' \subseteq AccountRequest
        /\ \A p \in net' :
              \E q \in rest : /\ CameOf(p, q) /\ p.at = q.at /\ p.heard = q.heard
                              /\ p = [q EXCEPT !.mounted = FALSE]
    BY <1>0, <1>2, LeftRequests
  <2>2. AccountTyped'
    BY <2>1 DEF AccountInv, AccountTyped
  <2>3. RequestsAreOne'
    <3>1. \A p \in net' : p.id < ghost'.acts
      BY <1>0, <2>1 DEF AccountInv, RequestsAreOne, CameOf
    <3>2. ASSUME NEW p \in net', NEW q \in net', p.id = q.id PROVE p = q
      <4>1. PICK a \in rest : CameOf(p, a) /\ p = [a EXCEPT !.mounted = FALSE]
        BY <2>1
      <4>2. PICK b \in rest : CameOf(q, b) /\ q = [b EXCEPT !.mounted = FALSE]
        BY <2>1
      <4>3. a = b
        BY <1>0, <3>2, <4>1, <4>2 DEF AccountInv, RequestsAreOne, CameOf
      <4> QED BY <4>1, <4>2, <4>3
    <3> QED BY <3>1, <3>2 DEF RequestsAreOne
  <2>4. AcceptedAreUsed'
    BY <1>0, <2>1 DEF AccountInv, AcceptedAreUsed, CameOf
  <2>5. OneSetter'
    <3>1. ASSUME ~ghost.crossed, NEW p \in net', NEW q \in net', Setter(p), Setter(q) PROVE p = q
      <4>1. PICK a \in rest : CameOf(p, a) /\ p = [a EXCEPT !.mounted = FALSE]
        BY <2>1
      <4>2. PICK b \in rest : CameOf(q, b) /\ q = [b EXCEPT !.mounted = FALSE]
        BY <2>1
      <4>3. a = b
        BY <1>0, <3>1, <4>1, <4>2 DEF AccountInv, OneSetter, CameOf, Setter
      <4> QED BY <4>1, <4>2, <4>3
    <3> QED BY <3>1 DEF OneSetter
  <2>6. \A q \in rest : \E p \in net' : CameOf(p, q) /\ p.at = q.at
    <3>1. \A q \in AccountRequest :
            LET p == [q EXCEPT !.mounted = FALSE]
            IN  CameOf(p, q) /\ p.at = q.at
      BY DEF AccountRequest, CameOf
    <3> QED BY <1>0, <1>2, <3>1 DEF Account!Left
  <2> QED BY <2>1, <2>2, <2>3, <2>4, <2>5, <2>6
<1> QED BY <1>1, <1>2 DEF Leaves

\* A request goes on, or is not known of any more; its number stays.
Goes(q, r) == net' = net \ {q} \/ (net' = (net \ {q}) \cup {r} /\ r \in AccountRequest /\ CameOf(r, q))
LEMMA GoingKeeps ==
    ASSUME AccountInv, NEW q \in net, NEW r, Goes(q, r), ghost' \in AccountNotes,
           ghost'.acts = ghost.acts, ghost.crossed = ghost'.crossed
    PROVE  net' \subseteq AccountRequest /\ RequestsAreOne' /\ OneSetter'
<1>1. CASE net' = net \ {q}
  BY <1>1 DEF AccountInv, AccountTyped, RequestsAreOne, OneSetter, Setter
<1>2. CASE net' = (net \ {q}) \cup {r} /\ r \in AccountRequest /\ CameOf(r, q)
  BY <1>2 DEF AccountInv, AccountTyped, RequestsAreOne, OneSetter, Setter, CameOf
<1> QED BY <1>1, <1>2 DEF Goes

LEMMA GatewayGoes ==
    ASSUME AccountInv, NEW q \in net, NEW at \in {"found", "served", "refused"}, Account!Goes(q, at)
    PROVE  /\ [q EXCEPT !.at = at] \in AccountRequest /\ CameOf([q EXCEPT !.at = at], q)
           /\ [q EXCEPT !.at = at].at = at /\ [q EXCEPT !.at = at].heard = q.heard
           /\ Goes(q, [q EXCEPT !.at = at])
           /\ q.heard => net' = (net \ {q}) \cup {[q EXCEPT !.at = at]}
<1>1. q \in AccountRequest
  BY DEF AccountInv, AccountTyped
<1>2. /\ [q EXCEPT !.at = at] \in AccountRequest /\ CameOf([q EXCEPT !.at = at], q)
      /\ [q EXCEPT !.at = at].at = at /\ [q EXCEPT !.at = at].heard = q.heard
  BY <1>1 DEF AccountRequest, CameOf
<1> QED BY <1>2 DEF Account!Goes, Goes

\* One code more is sent.
LEMMA CodeSent ==
    ASSUME NEW d \in AccountRow, NEW purpose \in Account!Purpose, Len(d.codes) < MaxCodes,
           d.expired <= Len(d.codes)
    PROVE  LET e == Account!WithCode(d, purpose)
           IN  /\ e \in AccountRow /\ e.password = d.password /\ e.expired = d.expired
               /\ Len(e.codes) = Len(d.codes) + 1 /\ Len(d.codes) \in Nat /\ Len(e.codes) <= MaxCodes
               /\ \A c \in 1..Len(d.codes) : e.codes[c] = d.codes[c]
<1> DEFINE m == [purpose |-> purpose, used |-> FALSE]
<1>1. m \in Mailed
  BY DEF Mailed
<1>2. Account!WithCode(d, purpose) = [d EXCEPT !.codes = Append(d.codes, m)]
  BY DEF Account!WithCode
<1> HIDE DEF m
<1>3. d.codes \in Seq(Mailed) /\ Len(d.codes) \in Nat
  BY DEF AccountRow
<1>4. /\ Append(d.codes, m) \in Seq(Mailed) /\ Len(Append(d.codes, m)) = Len(d.codes) + 1
      /\ \A c \in 1..Len(d.codes) : Append(d.codes, m)[c] = d.codes[c]
  BY <1>1, <1>3
<1>5. Len(d.codes) + 1 <= MaxCodes
  BY <1>3, BoundsAssumption
<1> HIDE <1>1
<1> QED BY <1>2, <1>3, <1>4, <1>5 DEF AccountRow

\* A code is marked.
LEMMA CodeSpent ==
    ASSUME NEW d \in AccountRow, NEW c \in 1..Len(d.codes)
    PROVE  LET e == Account!Spent(d, c)
           IN  /\ e \in AccountRow /\ e.password = d.password /\ e.expired = d.expired
               /\ Len(e.codes) = Len(d.codes) /\ e.codes[c].used
               /\ \A b \in 1..Len(d.codes) : d.codes[b].used => e.codes[b].used
<1> DEFINE m == [d.codes[c] EXCEPT !.used = TRUE]
           codes == [d.codes EXCEPT ![c] = m]
<1>1. d.codes \in Seq(Mailed)
  BY DEF AccountRow
<1>5. d.codes[c] \in Mailed
  BY <1>1
<1>4. m \in Mailed /\ m.used
  BY <1>5 DEF Mailed
<1> HIDE DEF m
<1>2. /\ codes \in Seq(Mailed) /\ Len(codes) = Len(d.codes) /\ codes[c].used
      /\ \A b \in 1..Len(d.codes) : d.codes[b].used => codes[b].used
  BY <1>1, <1>4
<1> USE DEF m
<1>3. Account!Spent(d, c) = [d EXCEPT !.codes = codes]
  BY DEF Account!Spent
<1> HIDE DEF codes
<1> QED BY <1>2, <1>3 DEF AccountRow

\* A form is sent.
LEMMA AccountSubmits ==
    ASSUME AccountInv, NEW op, NEW code \in 0..MaxCodes, NEW old \in Account!Word, NEW word \in Account!Word,
           op \in {"register", "login", "google", "verify", "resend", "forgot", "reset", "change"},
           NEW waits \in BOOLEAN, Account!Submit(op, code, old, word, waits)
    PROVE  AccountInv'
<1> DEFINE r == [id |-> ghost.acts, op |-> op, code |-> code, old |-> old, word |-> word,
                 at |-> "sent", heard |-> TRUE, mounted |-> waits]
           crosses == op \in Account!SetsPassword /\ \E q \in net : q.op \in Account!SetsPassword
<1>1. ghost.acts \in 0..MaxAccountActs /\ ghost.acts + 1 \in 0..MaxAccountActs /\ ghost \in AccountNotes
  BY BoundsAssumption, ActCounted DEF AccountInv, AccountTyped, AccountNotes, Account!Submit
<1>2. r \in AccountRequest /\ r.id = ghost.acts /\ r.op = op /\ r.at = "sent" /\ r.heard
  BY <1>1 DEF AccountRequest
<1>3. net' = net \cup {r} /\ UNCHANGED <<ui, db>>
  BY DEF Account!Submit
<1>4. ghost' = [ghost EXCEPT !.acts = @ + 1, !.crossed = @ \/ crosses]
  BY DEF Account!Submit
<1>5. crosses \in BOOLEAN /\ (crosses <=> Setter(r) /\ \E q \in net : Setter(q))
  BY <1>2 DEF Setter
<1> HIDE DEF r, crosses
<1>6. /\ ghost' \in AccountNotes /\ ghost'.acts = ghost.acts + 1
      /\ (ghost'.crossed <=> ghost.crossed \/ crosses)
      /\ ghost'.accepted = ghost.accepted /\ ghost'.unwritten = ghost.unwritten
  BY <1>1, <1>4, <1>5 DEF AccountNotes
<1>7. AccountTyped'
  BY <1>2, <1>3, <1>6 DEF AccountInv, AccountTyped
<1>8. RequestsAreOne'
  <2>1. \A q \in net : q.id \in 0..MaxAccountActs
    BY DEF AccountInv, AccountTyped, AccountRequest
  <2> QED BY <1>1, <1>2, <1>3, <1>6, <2>1 DEF AccountInv, RequestsAreOne
<1>9. AcceptedAreUsed'
  BY <1>2, <1>3, <1>6 DEF AccountInv, AcceptedAreUsed
<1>10. OneSetter'
  BY <1>3, <1>5, <1>6 DEF AccountInv, OneSetter, Setter
<1>11. ToldInForce'
  BY <1>2, <1>3, <1>5, <1>6 DEF AccountInv, ToldInForce, Setter
<1> QED BY <1>7, <1>8, <1>9, <1>10, <1>11 DEF AccountInv

\* What a handler's step does to the codes and the password of the account.
CodesOnly(q) ==
    /\ db' \in AccountRow /\ Len(db'.codes) <= MaxCodes /\ db'.expired <= Len(db'.codes)
    /\ \A c \in 1..Len(db.codes) : c \in 1..Len(db'.codes) /\ (db.codes[c].used => db'.codes[c].used)
    /\ \/ ghost'.accepted = ghost.accepted
       \/ /\ ghost'.accepted = ghost.accepted \cup {q.code}
          /\ q.code \in 1..Len(db'.codes) /\ db'.codes[q.code].used
PasswordOf(q, at) ==
    /\ ghost.unwritten => ghost'.unwritten
    /\ ~ghost'.unwritten => db'.password = IF Setter(q) /\ at = "served" THEN q.word ELSE db.password

LEMMA AccountAnswers ==
    ASSUME AccountInv, NEW q \in net, NEW at \in {"found", "served", "refused"}, Account!Goes(q, at),
           UNCHANGED ui, q.at # "served", at = "found" => q.code \in 1..Len(db.codes),
           ghost' \in AccountNotes, ghost'.acts = ghost.acts, ghost'.crossed = ghost.crossed,
           CodesOnly(q), PasswordOf(q, at)
    PROVE  AccountInv'
<1> DEFINE r == [q EXCEPT !.at = at]
<1>1. /\ r \in AccountRequest /\ CameOf(r, q) /\ r.at = at /\ r.heard = q.heard
      /\ Goes(q, r) /\ (q.heard => net' = (net \ {q}) \cup {r})
  BY GatewayGoes
<1> HIDE DEF r
<1>7. net' = net \ {q} \/ net' = (net \ {q}) \cup {r}
  BY <1>1 DEF Goes
<1>2. net' \subseteq AccountRequest /\ RequestsAreOne' /\ OneSetter'
  BY <1>1, GoingKeeps
<1>3. AccountTyped'
  BY <1>2 DEF AccountInv, AccountTyped, CodesOnly
<1>4. AcceptedAreUsed'
  BY <1>1, <1>7 DEF AccountInv, AcceptedAreUsed, CodesOnly, CameOf
<1>5. ASSUME ~ghost'.crossed, ~ghost'.unwritten
      PROVE  /\ (\A p \in net' : Setter(p) => p.at # "served") => ui.told \in {NoPassword, db'.password}
             /\ \A p \in net' : Setter(p) => /\ p.at = "served" => p.word = db'.password
                                             /\ ~p.heard => ui.told = NoPassword
  <2>1. /\ (\A p \in net : Setter(p) => p.at # "served") => ui.told \in {NoPassword, db.password}
        /\ \A p \in net : Setter(p) => /\ p.at = "served" => p.word = db.password
                                       /\ ~p.heard => ui.told = NoPassword
        /\ \A p \in net : Setter(p) /\ Setter(q) => p = q
    BY <1>5 DEF AccountInv, ToldInForce, OneSetter, PasswordOf
  <2>2. CASE Setter(q) /\ at = "served"
    <3>1. db'.password = q.word /\ \A p \in net' : Setter(p) => p = r
      BY <1>1, <1>5, <1>7, <2>1, <2>2 DEF PasswordOf
    <3>2. Setter(r) /\ r.word = q.word
      BY <1>1, <2>2 DEF Setter, CameOf
    <3> QED BY <1>1, <1>7, <2>1, <2>2, <3>1, <3>2
  <2>3. CASE ~(Setter(q) /\ at = "served")
    <3>1. db'.password = db.password
      BY <1>5, <2>3 DEF PasswordOf
    <3>2. Setter(r) = Setter(q) /\ r.at = at
      BY <1>1 DEF Setter, CameOf
    <3> QED BY <1>1, <1>7, <2>1, <2>3, <3>1, <3>2
  <2> QED BY <2>2, <2>3
<1>6. ToldInForce'
  BY <1>5 DEF ToldInForce
<1> QED BY <1>2, <1>3, <1>4, <1>6 DEF AccountInv

\* Every step of the account's pages and handlers keeps it.
LEMMA AccountNext == AccountInv /\ Account!Next => AccountInv'
<1> SUFFICES ASSUME AccountInv, Account!Next PROVE AccountInv'
  OBVIOUS
<1>0. /\ ui \in [path : Account!Path, told : Account!Word] /\ db \in AccountRow
      /\ net \subseteq AccountRequest /\ ghost \in AccountNotes
  BY DEF AccountInv, AccountTyped
<1>1. ASSUME NEW path \in Account!Path, Account!Go(path) PROVE AccountInv'
  <2>1. Leaves(net) /\ UNCHANGED <<db, ghost>>
    BY <1>1 DEF Account!Go, Leaves
  <2>2. ui' \in [path : Account!Path, told : Account!Word] /\ ui'.told = ui.told
    BY <1>0, <1>1 DEF Account!Go
  <2>3. /\ AccountTyped' /\ RequestsAreOne' /\ AcceptedAreUsed' /\ OneSetter'
        /\ \A p \in net' : \E q \in net : CameOf(p, q) /\ p.at = q.at /\ p.heard = q.heard
        /\ \A q \in net : \E p \in net' : CameOf(p, q) /\ p.at = q.at
    BY <2>1, <2>2, LeavingKeeps
  <2>4. ToldInForce'
    BY <2>1, <2>2, <2>3 DEF AccountInv, ToldInForce, Setter, CameOf
  <2> QED BY <2>3, <2>4 DEF AccountInv
<1>2. ASSUME \/ Account!HandleRegister \/ Account!HandleLogin \/ Account!LoginWithGoogle
             \/ Account!HandleVerify \/ Account!HandleResend
             \/ Account!HandleForgot \/ Account!HandleReset \/ Account!ChangePassword
      PROVE  AccountInv'
  <2>1. 0 \in 0..MaxCodes /\ DOMAIN db.codes \subseteq 0..MaxCodes
    <3>1. db.codes \in Seq(Mailed) /\ Len(db.codes) <= MaxCodes
      BY DEF AccountInv, AccountTyped, AccountRow
    <3> QED BY <3>1, BoundsAssumption
  <2>2. NoPassword \in Account!Word /\ Password \subseteq Account!Word
    BY DEF Account!Word
  <2>3. CASE Account!HandleRegister \/ Account!HandleLogin \/ Account!LoginWithGoogle
    BY <2>1, <2>2, <2>3, AccountSubmits DEF Account!HandleRegister, Account!HandleLogin, Account!LoginWithGoogle
  <2>4. CASE Account!HandleVerify \/ Account!HandleResend \/ Account!HandleForgot
    BY <2>1, <2>2, <2>4, AccountSubmits DEF Account!HandleVerify, Account!HandleResend, Account!HandleForgot
  <2>5. CASE Account!HandleReset
    <3>1. PICK c \in DOMAIN db.codes, w \in Password : Account!Submit("reset", c, NoPassword, w, TRUE)
      BY <2>5 DEF Account!HandleReset
    <3> QED BY <2>1, <2>2, <3>1, AccountSubmits
  <2>6. CASE Account!ChangePassword
    <3>1. PICK o \in Password, w \in Password : Account!Submit("change", 0, o, w, TRUE)
      BY <2>6 DEF Account!ChangePassword
    <3> QED BY <2>1, <2>2, <3>1, AccountSubmits
  <2> QED BY <1>2, <2>3, <2>4, <2>5, <2>6
<1>3. ASSUME NEW q \in net, Account!Served(q) \/ Account!Refused(q) PROVE AccountInv'
  <2> DEFINE rest == net \ {q}
  <2>1. Leaves(rest) /\ UNCHANGED <<db, ghost>>
    BY <1>3 DEF Account!Served, Account!Refused, Leaves
  <2>2. ui' \in [path : Account!Path, told : Account!Word]
    <3>1. q.word \in Account!Word
      BY <1>0 DEF AccountRequest
    <3>2. Account!LeadsTo(q) \in Account!Path
      BY <1>0 DEF Account!LeadsTo, Account!Leads, Account!Path
    <3> QED BY <1>0, <1>3, <3>1, <3>2 DEF Account!Served, Account!Refused
  <2> HIDE DEF rest
  <2>3. /\ AccountTyped' /\ RequestsAreOne' /\ AcceptedAreUsed' /\ OneSetter'
        /\ \A p \in net' : \E s \in rest : CameOf(p, s) /\ p.at = s.at /\ p.heard = s.heard
        /\ \A s \in rest : \E p \in net' : CameOf(p, s) /\ p.at = s.at
    BY <2>1, <2>2, LeavingKeeps
  <2>4. CASE Setter(q) /\ ~ghost.crossed /\ ~ghost.unwritten
    <3>1. \A p \in net' : ~Setter(p)
      BY <2>3, <2>4 DEF AccountInv, OneSetter, Setter, CameOf, rest
    <3>2. ui'.told \in {NoPassword, db.password}
      BY <1>0, <1>3, <2>4 DEF AccountInv, ToldInForce, OneSetter, Setter, Account!Served, Account!Refused
    <3> QED BY <2>1, <2>3, <3>1, <3>2 DEF AccountInv, ToldInForce
  <2>5. CASE ~Setter(q)
    <3>1. ui'.told = ui.told
      BY <1>0, <1>3, <2>5 DEF Setter, Account!Served, Account!Refused
    <3>2. ToldInForce'
      BY <2>1, <2>3, <2>5, <3>1 DEF AccountInv, ToldInForce, Setter, CameOf, rest
    <3> QED BY <2>3, <3>2 DEF AccountInv
  <2>6. CASE ghost.crossed \/ ghost.unwritten
    BY <2>1, <2>3, <2>6 DEF AccountInv, ToldInForce
  <2> QED BY <2>4, <2>5, <2>6
<1>4. ASSUME NEW q \in net, Account!ConnectionFails(q) PROVE AccountInv'
  <2> DEFINE r == [q EXCEPT !.heard = FALSE, !.mounted = FALSE]
  <2>1. r \in AccountRequest /\ CameOf(r, q) /\ r.at = q.at
    BY <1>0 DEF AccountRequest, CameOf
  <2>2. /\ net' = net \ {q} \/ (net' = (net \ {q}) \cup {r} /\ q.at # "served")
        /\ UNCHANGED <<db, ghost>>
        /\ ui' = [ui EXCEPT !.told = IF Setter(q) THEN NoPassword ELSE @]
    BY <1>4 DEF Account!ConnectionFails, Setter
  <2> HIDE DEF r
  <2>3. net' \subseteq AccountRequest /\ RequestsAreOne' /\ OneSetter'
    <3>1. Goes(q, r)
      BY <2>1, <2>2 DEF Goes
    <3> QED BY <1>0, <2>2, <3>1, GoingKeeps
  <2>4. ui' \in [path : Account!Path, told : Account!Word]
    BY <1>0, <2>2 DEF Account!Word
  <2>5. AccountTyped' /\ AcceptedAreUsed'
    BY <2>1, <2>2, <2>3, <2>4 DEF AccountInv, AccountTyped, AcceptedAreUsed, CameOf
  <2>6. ToldInForce'
    <3>1. CASE Setter(q)
      <4>1. ui'.told = NoPassword
        BY <1>0, <2>2, <3>1
      <4>2. ~ghost.crossed => \A p \in net' : Setter(p) => p.at # "served"
        BY <2>1, <2>2, <3>1 DEF AccountInv, OneSetter
      <4> QED BY <2>2, <4>1, <4>2 DEF ToldInForce
    <3>2. CASE ~Setter(q)
      <4>1. ui'.told = ui.told /\ ~Setter(r)
        BY <1>0, <2>1, <2>2, <3>2 DEF Setter, CameOf
      <4> QED BY <2>2, <3>2, <4>1 DEF AccountInv, ToldInForce
    <3> QED BY <3>1, <3>2
  <2> QED BY <2>3, <2>5, <2>6 DEF AccountInv
<1>5. ASSUME NEW q \in net, Account!Register(q) PROVE AccountInv'
  <2>1. q \in AccountRequest /\ q.at = "sent" /\ q.op = "register" /\ UNCHANGED <<ui, ghost>> /\ Setter(q)
    BY <1>0, <1>5 DEF Account!Register, Account!Arrives, Setter, Account!SetsPassword
  <2>2. CASE Account!Goes(q, "refused") /\ UNCHANGED db
    <3>1. CodesOnly(q) /\ PasswordOf(q, "refused")
      BY <1>0, <2>1, <2>2 DEF CodesOnly, PasswordOf, AccountInv, AccountTyped
    <3> QED BY <1>0, <2>1, <2>2, <3>1, AccountAnswers
  <2>3. CASE /\ Len(db.codes) < MaxCodes /\ Account!Goes(q, "served")
             /\ db' = Account!WithCode([db EXCEPT !.status = "pending", !.password = q.word], "email_verify")
    <3> DEFINE d == [db EXCEPT !.status = "pending", !.password = q.word]
    <3>1. d \in AccountRow /\ d.codes = db.codes /\ d.expired = db.expired /\ d.password = q.word
      BY <1>0, <2>1 DEF AccountRow, AccountRequest
    <3>2. "email_verify" \in Account!Purpose /\ db.expired <= Len(db.codes) /\ db.expired \in Nat
      BY DEF Account!Purpose, AccountInv, AccountTyped, AccountRow
    <3>3. db' = Account!WithCode(d, "email_verify")
      BY <2>3
    <3> HIDE DEF d
    <3>4. /\ db' \in AccountRow /\ db'.password = q.word /\ db'.expired = db.expired
          /\ Len(db'.codes) = Len(db.codes) + 1 /\ Len(db.codes) \in Nat /\ Len(db'.codes) <= MaxCodes
          /\ \A c \in 1..Len(db.codes) : db'.codes[c] = db.codes[c]
      BY <2>3, <3>1, <3>2, <3>3, CodeSent
    <3>5. CodesOnly(q)
      BY <2>1, <3>2, <3>4 DEF CodesOnly
    <3>6. PasswordOf(q, "served")
      BY <2>1, <3>4 DEF PasswordOf
    <3> QED BY <1>0, <2>1, <2>3, <3>5, <3>6, AccountAnswers
  <2> QED BY <1>5, <2>2, <2>3 DEF Account!Register
<1>6. ASSUME NEW q \in net, Account!Login(q) \/ Account!GoogleCallback(q) \/ Account!ResendOTP(q) \/ Account!ForgotPassword(q)
      PROVE  AccountInv'
  <2>1. q \in AccountRequest /\ q.at = "sent" /\ UNCHANGED <<ui, ghost>> /\ ~Setter(q)
    BY <1>0, <1>6 DEF Account!Login, Account!GoogleCallback, Account!ResendOTP, Account!ForgotPassword,
                      Account!SendCode, Account!Arrives, Setter, Account!SetsPassword
  <2>2. PICK at \in {"served", "refused"} : Account!Goes(q, at)
    BY <1>6 DEF Account!Login, Account!GoogleCallback, Account!ResendOTP, Account!ForgotPassword,
                Account!SendCode
  <2>3. db.expired <= Len(db.codes) /\ db.expired \in Nat /\ Len(db.codes) <= MaxCodes /\ db.codes \in Seq(Mailed)
    BY DEF AccountInv, AccountTyped, AccountRow
  <2>4. CodesOnly(q) /\ db'.password = db.password
    <3>1. CASE db'.codes = db.codes /\ db' \in AccountRow /\ db'.expired = db.expired /\ db'.password = db.password
      BY <2>1, <2>3, <3>1 DEF CodesOnly
    <3>2. ASSUME NEW purpose \in Account!Purpose, Len(db.codes) < MaxCodes, db' = Account!WithCode(db, purpose)
          PROVE  CodesOnly(q) /\ db'.password = db.password
      <4>1. /\ db' \in AccountRow /\ db'.password = db.password /\ db'.expired = db.expired
            /\ Len(db'.codes) = Len(db.codes) + 1 /\ Len(db.codes) \in Nat /\ Len(db'.codes) <= MaxCodes
            /\ \A c \in 1..Len(db.codes) : db'.codes[c] = db.codes[c]
        BY <1>0, <2>3, <3>2, CodeSent
      <4> QED BY <2>1, <2>3, <4>1 DEF CodesOnly
    <3>3. CASE Account!Login(q)
      BY <1>0, <3>1, <3>3 DEF Account!Login
    <3>4. CASE Account!GoogleCallback(q)
      <4>1. db' = [db EXCEPT !.status = IF @ = "none" THEN "active" ELSE @]
        BY <3>4 DEF Account!GoogleCallback
      <4> QED BY <1>0, <3>1, <4>1 DEF AccountRow
    <3>5. CASE Account!ResendOTP(q) \/ Account!ForgotPassword(q)
      BY <1>0, <3>1, <3>2, <3>5 DEF Account!ResendOTP, Account!ForgotPassword, Account!SendCode, Account!Purpose
    <3> QED BY <1>6, <3>3, <3>4, <3>5
  <2>5. PasswordOf(q, at)
    BY <2>1, <2>4 DEF PasswordOf
  <2> QED BY <1>0, <2>1, <2>2, <2>4, <2>5, AccountAnswers
<1>7. ASSUME NEW q \in net, Account!VerifyEmail(q) \/ Account!ResetPassword(q) PROVE AccountInv'
  <2>1. ASSUME NEW op \in {"verify", "reset"}, NEW purpose, Account!FindCode(q, op, purpose)
        PROVE  AccountInv'
    <3>1. q \in AccountRequest /\ q.at = "sent" /\ UNCHANGED <<ui, db, ghost>>
      BY <1>0, <2>1 DEF Account!FindCode, Account!Arrives
    <3> DEFINE at == IF Account!Newest(q.code, purpose) THEN "found" ELSE "refused"
    <3>2. Account!Goes(q, at) /\ at \in {"found", "refused"}
      BY <2>1 DEF Account!FindCode
    <3>3. at = "found" => q.code \in 1..Len(db.codes)
      <4>1. db.expired \in Nat /\ Len(db.codes) \in Nat
        BY <1>0 DEF AccountRow
      <4> QED BY <4>1 DEF Account!Newest, Account!Valid
    <3> HIDE DEF at
    <3>4. CodesOnly(q) /\ PasswordOf(q, at)
      BY <1>0, <3>1, <3>2 DEF CodesOnly, PasswordOf, AccountInv, AccountTyped
    <3> QED BY <1>0, <3>1, <3>2, <3>3, <3>4, AccountAnswers
  <2>2. ASSUME q.op \in {"verify", "reset"}, Account!Accept(q, q.op), NEW status \in {"none", "pending", "active"},
               NEW ok \in BOOLEAN,
               db' = [Account!Spent(db, q.code) EXCEPT !.status = status,
                         !.password = IF Setter(q) /\ ok THEN q.word ELSE db.password],
               ghost' = [ghost EXCEPT !.accepted = @ \cup {q.code}, !.unwritten = @ \/ (Setter(q) /\ ~ok)]
        PROVE  AccountInv'
    <3>1. q \in AccountRequest /\ q.at = "found" /\ ui' = ui /\ Account!Goes(q, "served")
      BY <1>0, <2>2 DEF Account!Accept
    <3>2. q.code \in 1..Len(db.codes) /\ Len(db.codes) <= MaxCodes /\ Len(db.codes) \in Nat
      BY <1>0, <3>1 DEF AccountInv, AcceptedAreUsed, AccountTyped, AccountRow
    <3> DEFINE e == Account!Spent(db, q.code)
    <3>3. /\ e \in AccountRow /\ e.expired = db.expired /\ Len(e.codes) = Len(db.codes) /\ e.codes[q.code].used
          /\ \A b \in 1..Len(db.codes) : db.codes[b].used => e.codes[b].used
      BY <1>0, <3>2, CodeSpent
    <3>4. db' = [e EXCEPT !.status = status, !.password = IF Setter(q) /\ ok THEN q.word ELSE db.password]
      BY <2>2
    <3> HIDE DEF e
    <3>5. q.word \in Account!Word /\ db.password \in Account!Word
      BY <1>0, <3>1 DEF AccountRequest, AccountRow
    <3>6. /\ db' \in AccountRow /\ db'.expired = e.expired /\ db'.codes = e.codes
          /\ db'.password = IF Setter(q) /\ ok THEN q.word ELSE db.password
      BY <3>3, <3>4, <3>5 DEF AccountRow
    <3>7. ghost' \in AccountNotes /\ ghost'.acts = ghost.acts /\ ghost'.crossed = ghost.crossed
          /\ ghost'.accepted = ghost.accepted \cup {q.code}
          /\ (ghost'.unwritten <=> ghost.unwritten \/ (Setter(q) /\ ~ok))
      <4>1. Setter(q) \in BOOLEAN /\ q.code \in 1..MaxCodes
        BY <3>2, BoundsAssumption DEF Setter
      <4> QED BY <1>0, <2>2, <4>1 DEF AccountNotes
    <3>8. CodesOnly(q)
      BY <3>2, <3>3, <3>6, <3>7 DEF CodesOnly, AccountInv, AccountTyped
    <3>9. PasswordOf(q, "served")
      BY <3>6, <3>7 DEF PasswordOf
    <3> QED BY <3>1, <3>7, <3>8, <3>9, AccountAnswers
  <2>3. CASE Account!VerifyEmail(q)
    <3>1. CASE Account!FindCode(q, "verify", "email_verify")
      BY <2>1, <3>1
    <3>2. CASE /\ Account!Accept(q, "verify") /\ db' = [Account!Spent(db, q.code) EXCEPT !.status = "active"]
               /\ ghost' = [ghost EXCEPT !.accepted = @ \cup {q.code}]
      <4> DEFINE e == Account!Spent(db, q.code)
      <4>1. ~Setter(q) /\ q.op = "verify" /\ q.at = "found"
        BY <3>2 DEF Account!Accept, Setter, Account!SetsPassword
      <4>2. e \in AccountRow /\ e.password = db.password
        BY <1>0, <4>1, CodeSpent DEF AccountInv, AcceptedAreUsed
      <4>3. db' = [e EXCEPT !.status = "active"]
        BY <3>2
      <4> HIDE DEF e
      <4>4. db' = [e EXCEPT !.status = "active", !.password = IF Setter(q) /\ TRUE THEN q.word ELSE db.password]
        BY <4>1, <4>2, <4>3 DEF AccountRow
      <4>5. ghost' = [ghost EXCEPT !.accepted = @ \cup {q.code}, !.unwritten = @ \/ (Setter(q) /\ ~TRUE)]
        BY <1>0, <3>2, <4>1 DEF AccountNotes
      <4> USE DEF e
      <4>6. Account!Accept(q, q.op) /\ q.op \in {"verify", "reset"}
        BY <3>2, <4>1
      <4> QED BY <2>2, <4>4, <4>5, <4>6
    <3> QED BY <2>3, <3>1, <3>2 DEF Account!VerifyEmail
  <2>4. CASE Account!ResetPassword(q)
    <3>1. CASE Account!FindCode(q, "reset", "password_reset")
      BY <2>1, <3>1
    <3>2. ASSUME Account!Accept(q, "reset"), NEW ok \in BOOLEAN,
                 db' = [Account!Spent(db, q.code) EXCEPT !.password = IF ok THEN q.word ELSE @],
                 ghost' = [ghost EXCEPT !.accepted = @ \cup {q.code}, !.unwritten = @ \/ ~ok]
          PROVE  AccountInv'
      <4> DEFINE e == Account!Spent(db, q.code)
      <4>1. Setter(q) /\ q.op = "reset" /\ q.at = "found"
        BY <3>2 DEF Account!Accept, Setter, Account!SetsPassword
      <4>2. e \in AccountRow /\ e.password = db.password
        BY <1>0, <4>1, CodeSpent DEF AccountInv, AcceptedAreUsed
      <4>3. db' = [e EXCEPT !.password = IF ok THEN q.word ELSE @]
        BY <3>2
      <4> HIDE DEF e
      <4>4. db' = [e EXCEPT !.status = e.status, !.password = IF Setter(q) /\ ok THEN q.word ELSE db.password]
        BY <4>1, <4>2, <4>3 DEF AccountRow
      <4>5. ghost' = [ghost EXCEPT !.accepted = @ \cup {q.code}, !.unwritten = @ \/ (Setter(q) /\ ~ok)]
        BY <1>0, <3>2, <4>1 DEF AccountNotes
      <4>7. e.status \in {"none", "pending", "active"}
        BY <4>2 DEF AccountRow
      <4> USE DEF e
      <4>6. Account!Accept(q, q.op) /\ q.op \in {"verify", "reset"}
        BY <3>2, <4>1
      <4> QED BY <2>2, <4>4, <4>5, <4>6, <4>7
    <3> QED BY <2>4, <3>1, <3>2 DEF Account!ResetPassword
  <2> QED BY <1>7, <2>3, <2>4
<1>8. ASSUME NEW q \in net, Account!UpdatePassword(q) PROVE AccountInv'
  <2>1. q \in AccountRequest /\ q.at = "sent" /\ q.op = "change" /\ ui' = ui /\ Setter(q)
    BY <1>0, <1>8 DEF Account!UpdatePassword, Account!Arrives, Setter, Account!SetsPassword
  <2>2. CASE Account!Goes(q, "refused") /\ UNCHANGED <<db, ghost>>
    <3>1. CodesOnly(q) /\ PasswordOf(q, "refused")
      BY <1>0, <2>1, <2>2 DEF CodesOnly, PasswordOf, AccountInv, AccountTyped
    <3> QED BY <1>0, <2>1, <2>2, <3>1, AccountAnswers
  <2>3. ASSUME Account!Goes(q, "served"), NEW ok \in BOOLEAN,
               db' = [db EXCEPT !.password = IF ok THEN q.word ELSE @],
               ghost' = [ghost EXCEPT !.unwritten = @ \/ ~ok]
        PROVE  AccountInv'
    <3>1. db' \in AccountRow /\ db'.codes = db.codes /\ db'.expired = db.expired
          /\ db'.password = IF ok THEN q.word ELSE db.password
      BY <1>0, <2>1, <2>3 DEF AccountRow, AccountRequest
    <3>2. ghost' \in AccountNotes /\ ghost'.acts = ghost.acts /\ ghost'.crossed = ghost.crossed
          /\ ghost'.accepted = ghost.accepted /\ (ghost'.unwritten <=> ghost.unwritten \/ ~ok)
      BY <1>0, <2>3 DEF AccountNotes
    <3>3. CodesOnly(q)
      BY <3>1, <3>2 DEF CodesOnly, AccountInv, AccountTyped
    <3>4. PasswordOf(q, "served")
      BY <2>1, <3>1, <3>2 DEF PasswordOf
    <3> QED BY <2>1, <2>3, <3>2, <3>3, <3>4, AccountAnswers
  <2> QED BY <1>8, <2>2, <2>3 DEF Account!UpdatePassword
<1>9. ASSUME Account!Expire PROVE AccountInv'
  <2>1. /\ db.expired < Len(db.codes) /\ db' = [db EXCEPT !.expired = @ + 1]
        /\ UNCHANGED <<ui, net, ghost>>
    BY <1>9 DEF Account!Expire
  <2>2. db.codes \in Seq(Mailed) /\ db.expired \in Nat
    BY <1>0 DEF AccountRow
  <2>3. db' \in AccountRow /\ db'.codes = db.codes /\ db'.expired <= Len(db.codes) /\ db'.password = db.password
    BY <1>0, <2>1, <2>2 DEF AccountRow
  <2> QED BY <2>1, <2>3 DEF AccountInv, AccountTyped, RequestsAreOne, AcceptedAreUsed, OneSetter, ToldInForce
<1> QED BY <1>1, <1>2, <1>3, <1>4, <1>5, <1>6, <1>7, <1>8, <1>9 DEF Account!Next

\* A request whose code was accepted before is not found one: the code it has is
\* marked, and no other request has its number.
LEMMA AccountCodes == AccountInv /\ Account!Next => Account!CodesAreSpent
<1> SUFFICES ASSUME AccountInv, Account!Next, NEW q \in net, q.at = "sent", q.code \in ghost.accepted,
                    [q EXCEPT !.at = "found"] \in net'
             PROVE  FALSE
  BY DEF Account!CodesAreSpent
<1> DEFINE r == [q EXCEPT !.at = "found"]
<1>1. q \in AccountRequest /\ r.at = "found" /\ r.id = q.id /\ r \in net' /\ net \subseteq AccountRequest
  BY DEF AccountInv, AccountTyped, AccountRequest
<1> HIDE DEF r
<1>2. \A p \in net : p.id = r.id => p = q
  BY <1>1 DEF AccountInv, RequestsAreOne
<1>3. ASSUME NEW rest \in SUBSET net, net' = rest \/ net' = Account!Left(rest) PROVE FALSE
  <2>1. \A p \in net' : \E s \in rest : p.id = s.id /\ p.at = s.at
    BY <1>1, <1>3, LeftRequests DEF CameOf
  <2> QED BY <1>1, <1>2, <2>1
<1>4. ASSUME NEW op, NEW code, NEW old, NEW word, NEW waits, Account!Submit(op, code, old, word, waits) PROVE FALSE
  BY <1>1, <1>2, <1>4 DEF Account!Submit
<1>5. ASSUME NEW p \in net, NEW at, Account!Goes(p, at), at # "found" \/ p # q PROVE FALSE
  <2>1. [p EXCEPT !.at = at].id = p.id /\ [p EXCEPT !.at = at].at = at
    BY <1>1 DEF AccountRequest
  <2> QED BY <1>1, <1>2, <1>5, <2>1 DEF Account!Goes
<1>6. ASSUME NEW p \in net, NEW op, NEW purpose, Account!FindCode(p, op, purpose) PROVE FALSE
  <2>1. CASE p = q
    <3>1. ~Account!Newest(q.code, purpose)
      BY <2>1 DEF Account!Newest, Account!Valid, AccountInv, AcceptedAreUsed
    <3>2. Account!Goes(p, "refused")
      BY <1>6, <2>1, <3>1 DEF Account!FindCode
    <3> QED BY <1>5, <3>2
  <2>2. CASE p # q
    BY <1>5, <1>6, <2>2 DEF Account!FindCode
  <2> QED BY <2>1, <2>2
<1>7. ASSUME NEW path \in Account!Path, Account!Go(path) PROVE FALSE
  BY <1>3, <1>7 DEF Account!Go
<1>8. ASSUME \/ Account!HandleRegister \/ Account!HandleLogin \/ Account!LoginWithGoogle
             \/ Account!HandleVerify \/ Account!HandleResend
             \/ Account!HandleForgot \/ Account!HandleReset \/ Account!ChangePassword
      PROVE  FALSE
  BY <1>4, <1>8 DEF Account!HandleRegister, Account!HandleLogin, Account!LoginWithGoogle, Account!HandleVerify,
       Account!HandleResend, Account!HandleForgot, Account!HandleReset, Account!ChangePassword
<1>9. ASSUME NEW p \in net, Account!Served(p) \/ Account!Refused(p) PROVE FALSE
  <2>1. net' = net \ {p} \/ net' = Account!Left(net \ {p})
    BY <1>9 DEF Account!Served, Account!Refused
  <2> QED BY <1>3, <2>1
<1>10. ASSUME NEW p \in net, Account!ConnectionFails(p) PROVE FALSE
  <2> DEFINE s == [p EXCEPT !.heard = FALSE, !.mounted = FALSE]
  <2>1. s.id = p.id /\ s.at = p.at
    BY <1>1 DEF AccountRequest
  <2>2. net' \subseteq (net \ {p}) \cup {s}
    BY <1>10 DEF Account!ConnectionFails
  <2> HIDE DEF s
  <2> QED BY <1>1, <1>2, <2>1, <2>2
<1>11. ASSUME NEW p \in net, \/ Account!Register(p) \/ Account!Login(p) \/ Account!GoogleCallback(p)
                             \/ Account!ResendOTP(p) \/ Account!ForgotPassword(p) \/ Account!UpdatePassword(p)
       PROVE  FALSE
  <2>1. \E at \in {"served", "refused"} : Account!Goes(p, at)
    BY <1>11 DEF Account!Register, Account!Login, Account!GoogleCallback, Account!ResendOTP,
         Account!ForgotPassword, Account!UpdatePassword, Account!SendCode
  <2> QED BY <1>5, <2>1
<1>12. ASSUME NEW p \in net, Account!VerifyEmail(p) \/ Account!ResetPassword(p) PROVE FALSE
  <2>1. \/ \E op, purpose : Account!FindCode(p, op, purpose)
        \/ Account!Goes(p, "served")
    BY <1>12 DEF Account!VerifyEmail, Account!ResetPassword, Account!Accept
  <2> QED BY <1>5, <1>6, <2>1
<1>13. ASSUME Account!Expire PROVE FALSE
  BY <1>1, <1>2, <1>13 DEF Account!Expire
<1> QED BY <1>7, <1>8, <1>9, <1>10, <1>11, <1>12, <1>13 DEF Account!Next

---------------------------------------------------------------------------
(* Orders *)

OrdersScreen ==
    [orders : Orders!Rows, filter : Filter, tab : {"all", "manual_review"}, review : Orders!Rows,
     selected : Orders!MaybeOrder, row : Orders!Row, edit : {"none", "delivery", "payment"},
     form : Orders!Pay \cup Orders!Del, text : Orders!MaybeOrder]
OrderList == [op : {"list"}, n : 1..MaxLists, key : Filter]
OrderTimer == [op : {"timer"}, key : Filter]
OrderWrite ==
    [op : Orders!Writes, at : {"sent", "answered"}, n : 1..MaxActs, id : Order, key : Filter,
     reviewed : BOOLEAN, field : {"", "delivery", "payment"}, val : Orders!Pay \cup Orders!Del \cup {""},
     text : Orders!MaybeOrder]
OrdersNotes ==
    [lists : 0..MaxLists, acts : 0..MaxActs, changes : 0..MaxChanges, shown : 0..MaxLists,
     astray : BOOLEAN, spent : SUBSET Order]

\* A value is one of its form's field.
Fits(kind, val) == (kind = "payment" => val \in Orders!Pay) /\ (kind = "delivery" => val \in Orders!Del)

\* An update writes a value of its field; a rejection was offered for an order in review.
OrderAsked(q) ==
    \/ q \in OrderList \/ q = Orders!Review \/ q \in OrderTimer
    \/ /\ q \in OrderWrite
       /\ q.op = "update" => q.field # "" /\ Fits(q.field, q.val)
       /\ q.op = "reject" => q.reviewed

OrdersTyped ==
    /\ ui \in OrdersScreen /\ Fits(ui.edit, ui.form)
    /\ db \in [Order -> Orders!Row]
    /\ \A q \in net : OrderAsked(q)
    /\ ghost \in OrdersNotes

\* The list that was asked for last carries the filter on the screen, and is under
\* way or was shown last, unless something went astray.
NewestList ==
    /\ \A q \in net : q.op = "list" => q.n <= ghost.lists
    /\ ~ghost.astray =>
          /\ \A q \in net : q.op = "list" /\ q.n = ghost.lists => q.key = ui.filter
          /\ \/ \E q \in net : q.op = "list" /\ q.n = ghost.lists
             \/ /\ ghost.shown = ghost.lists
                /\ \A o \in DOMAIN ui.orders : ui.filter \in {"", ui.orders[o].pay}

\* A text that went with an order is in the form no more.
TextUnspent == ui.text \notin ghost.spent

OrdersInv == OrdersTyped /\ NewestList /\ TextUnspent

\* The requests are of these kinds, told apart by what they ask.
LEMMA OrderKinds ==
    /\ \A q \in OrderList : q.op = "list"
    /\ Orders!Review.op = "review"
    /\ \A q \in OrderTimer : q.op = "timer"
    /\ \A q \in OrderWrite : q.op \in Orders!Writes
    /\ \A q : OrderAsked(q) => q \in OrderList \/ q = Orders!Review \/ q \in OrderTimer \/ q \in OrderWrite
<1>1. \A q \in OrderList : q.op = "list"
  BY DEF OrderList
<1>2. Orders!Review.op = "review"
  BY DEF Orders!Review
<1>3. \A q \in OrderTimer : q.op = "timer"
  BY DEF OrderTimer
<1>4. \A q \in OrderWrite : q.op \in Orders!Writes
  BY DEF OrderWrite
<1> QED BY <1>1, <1>2, <1>3, <1>4 DEF OrderAsked

LEMMA OrdersSuffice == OrdersInv => Orders!TypeOK /\ Orders!ListAnswersFilter
<1>1. \A q : OrderAsked(q) => q.op \in {"list", "timer", "review"} \cup Orders!Writes
  BY OrderKinds
<1>2. OrdersTyped => Orders!TypeOK
  BY <1>1 DEF OrdersTyped, Orders!TypeOK, OrdersScreen, OrdersNotes
<1>3. NewestList => Orders!ListAnswersFilter
  BY DEF NewestList, Orders!ListAnswersFilter
<1> QED BY <1>2, <1>3 DEF OrdersInv

\* The rows of a list.
LEMMA SomeRows ==
    /\ Orders!NoRows \in Orders!Rows
    /\ \A rows \in Orders!Rows : DOMAIN rows \subseteq Order /\ \A o \in DOMAIN rows : rows[o] \in Orders!Row
    /\ \A s \in SUBSET Order, d \in [Order -> Orders!Row] : [o \in s |-> d[o]] \in Orders!Rows
  BY DEF Orders!Rows, Orders!NoRows

LEMMA OrdersStart == Orders!Init => OrdersInv
<1> SUFFICES ASSUME Orders!Init PROVE OrdersInv
  OBVIOUS
<1>1. ui \in OrdersScreen /\ Fits(ui.edit, ui.form)
  BY SomeRows, OrdersAssumption DEF Orders!Init, OrdersScreen, Fits, Orders!MaybeOrder, Orders!NewRow,
     Orders!Row, Orders!Pay, Orders!Del
<1>2. db \in [Order -> Orders!Row]
  BY OrdersAssumption DEF Orders!Init
<1>3. /\ MaxLists \in Nat /\ MaxActs \in Nat /\ MaxChanges \in Nat
      /\ 1 \in 1..MaxLists /\ 1 \in 0..MaxLists
  <2>1. MaxLists \in Nat /\ MaxLists # 0
    BY BoundsAssumption, OrdersAssumption
  <2> QED BY <2>1, BoundsAssumption
<1>4. ghost \in OrdersNotes
  <2>1. ghost = [lists |-> 1, acts |-> 0, changes |-> 0, shown |-> 0, astray |-> FALSE, spent |-> {}]
    BY DEF Orders!Init
  <2> QED BY <1>3, <2>1 DEF OrdersNotes
<1> DEFINE r == [op |-> "list", n |-> 1, key |-> ""]
<1>5. r \in OrderList /\ r.op = "list" /\ r.n = 1 /\ r.key = ""
  <2>1. "" \in Filter
    BY OrdersAssumption
  <2> QED BY <1>3, <2>1 DEF OrderList
<1>6. net = {r, Orders!Review} /\ ghost.lists = 1 /\ ui.filter = ""
  BY DEF Orders!Init
<1> HIDE DEF r
<1>7. \A q \in net : OrderAsked(q)
  BY <1>5, <1>6 DEF OrderAsked
<1>8. NewestList
  <2>1. \A q \in net : q.op = "list" => q = r
    BY <1>6, OrderKinds
  <2>2. r.n \in Nat /\ ghost.lists \in Nat /\ r.n <= ghost.lists /\ r.n = ghost.lists /\ r \in net
    <3>1. r.n = 1 /\ ghost.lists = 1 /\ r \in net
      BY <1>5, <1>6
    <3>2. \A i, j \in Nat : i = 1 /\ j = 1 => i <= j
      OBVIOUS
    <3>3. r.n \in Nat /\ ghost.lists \in Nat
      BY <3>1
    <3> QED BY <3>1, <3>2, <3>3
  <2> QED BY <1>5, <1>6, <2>1, <2>2 DEF NewestList
<1> QED BY <1>1, <1>2, <1>4, <1>7, <1>8 DEF OrdersInv, OrdersTyped, TextUnspent, Orders!Init

\* The lists are untouched.
ListsAsTheyWere ==
    /\ \A q : q.op = "list" => (q \in net' <=> q \in net)
    /\ ui'.orders = ui.orders /\ ui'.filter = ui.filter
    /\ ghost'.lists = ghost.lists /\ ghost'.shown = ghost.shown /\ ghost'.astray = ghost.astray
LEMMA ListKept == NewestList /\ ListsAsTheyWere => NewestList'
  BY DEF NewestList, ListsAsTheyWere

\* A list is asked for.
LEMMA ListAsked ==
    ASSUME OrdersInv, NEW key \in Filter, NEW rest \in SUBSET net,
           net' \subseteq rest \cup {Orders!List(key), Orders!Review}, Orders!List(key) \in net',
           ghost.lists < MaxLists, ghost' \in OrdersNotes, ghost'.lists = ghost.lists + 1,
           ghost'.astray = (key # ui'.filter),
           ui' \in OrdersScreen, Fits(ui'.edit, ui'.form), TextUnspent', UNCHANGED db
    PROVE  OrdersInv'
<1>1. ghost.lists \in Nat /\ ghost.lists + 1 \in 1..MaxLists
  BY BoundsAssumption DEF OrdersInv, OrdersTyped, OrdersNotes
<1> DEFINE r == Orders!List(key)
<1>2. r \in OrderList /\ r.op = "list" /\ r.n = ghost.lists + 1 /\ r.key = key
  BY <1>1 DEF Orders!List, OrderList
<1>3. net' \subseteq rest \cup {r, Orders!Review} /\ r \in net'
  OBVIOUS
<1> HIDE DEF r
<1>4. OrdersTyped'
  BY <1>2, <1>3 DEF OrdersInv, OrdersTyped, OrderAsked
<1>5. \A q \in net : q.op = "list" => q.n \in Nat /\ q.n <= ghost.lists
  <2>1. \A q \in net : q.op = "list" => q \in OrderList
    BY OrderKinds DEF OrdersInv, OrdersTyped, Orders!Writes
  <2>2. \A q \in net : q.op = "list" => q.n \in Nat
    BY <2>1 DEF OrderList
  <2> QED BY <2>2 DEF OrdersInv, NewestList
<1>6. NewestList'
  <2>1. \A q \in net' : q.op = "list" => q = r \/ (q \in net /\ q.n <= ghost.lists /\ q.n \in Nat)
    BY <1>3, <1>5, OrderKinds
  <2>2. \A q \in net' : q.op = "list" => q.n <= ghost.lists + 1
    BY <1>1, <1>2, <2>1
  <2>3. \A q \in net' : q.op = "list" /\ q.n = ghost.lists + 1 => q = r
    BY <1>1, <2>1
  <2> QED BY <1>2, <1>3, <2>2, <2>3 DEF NewestList
<1> QED BY <1>4, <1>6 DEF OrdersInv

\* A handler asks for the lists again.
LEMMA OrdersFetch ==
    ASSUME OrdersInv, NEW key \in Filter, NEW rest \in SUBSET net, NEW g \in OrdersNotes,
           g.lists = ghost.lists, ui'.text \notin g.spent, UNCHANGED db,
           ui' \in OrdersScreen, Fits(ui'.edit, ui'.form),
           \/ Orders!Fetch(rest, {Orders!List(key), Orders!Review}, g)
           \/ Orders!Fetch(rest, {Orders!List(key)}, g)
    PROVE  OrdersInv'
<1> DEFINE r == Orders!List(key)
<1>1. r.key = key /\ r.op = "list"
  BY DEF Orders!List
<1>2. /\ ghost.lists < MaxLists
      /\ net' \subseteq rest \cup {r, Orders!Review} /\ r \in net'
      /\ ghost' = [g EXCEPT !.lists = @ + 1, !.astray = key # ui'.filter]
  <2>1. \/ Orders!Fetch(rest, {r, Orders!Review}, g) \/ Orders!Fetch(rest, {r}, g)
    OBVIOUS
  <2> HIDE DEF r
  <2>2. /\ ghost.lists < MaxLists
        /\ net' \subseteq rest \cup {r, Orders!Review} /\ r \in net'
    BY <2>1 DEF Orders!Fetch
  <2>3. \E q \in {r, Orders!Review} : /\ q.op = "list"
                                      /\ ghost' = [g EXCEPT !.lists = @ + 1, !.astray = q.key # ui'.filter]
    BY <2>1 DEF Orders!Fetch
  <2>4. Orders!Review.op # "list"
    BY OrderKinds
  <2> QED BY <1>1, <2>2, <2>3, <2>4
<1>3. ghost.lists \in Nat /\ ghost.lists + 1 \in 0..MaxLists /\ MaxLists \in Nat
  BY <1>2, BoundsAssumption DEF OrdersInv, OrdersTyped, OrdersNotes
<1>4. /\ ghost' \in OrdersNotes /\ ghost'.lists = ghost.lists + 1
      /\ ghost'.astray = (key # ui'.filter) /\ ghost'.spent = g.spent
  BY <1>2, <1>3 DEF OrdersNotes
<1>5. net' \subseteq rest \cup {Orders!List(key), Orders!Review} /\ Orders!List(key) \in net'
  BY <1>2
<1> HIDE DEF r
<1> QED BY <1>2, <1>4, <1>5, ListAsked DEF TextUnspent

LEMMA ActsCounted == ghost \in OrdersNotes /\ ghost.acts + ghost.changes < MaxActs
                       => /\ ghost.acts + 1 \in 1..MaxActs /\ Orders!Act(ghost) \in OrdersNotes
                          /\ Orders!Act(ghost) = [ghost EXCEPT !.acts = ghost.acts + 1]
<1> SUFFICES ASSUME ghost \in OrdersNotes, ghost.acts + ghost.changes < MaxActs
             PROVE  /\ ghost.acts + 1 \in 1..MaxActs /\ Orders!Act(ghost) \in OrdersNotes
                    /\ Orders!Act(ghost) = [ghost EXCEPT !.acts = ghost.acts + 1]
  OBVIOUS
<1>1. ghost.acts \in Nat /\ ghost.changes \in Nat /\ MaxActs \in Nat
  BY BoundsAssumption DEF OrdersNotes
<1>2. ghost.acts + 1 \in 1..MaxActs
  BY <1>1
<1>3. Orders!Act(ghost) = [ghost EXCEPT !.acts = ghost.acts + 1]
  BY DEF Orders!Act
<1> QED BY <1>2, <1>3 DEF OrdersNotes

\* The seller does something on the screen only.
LEMMA OrdersLocal ==
    ASSUME OrdersInv, ghost.acts + ghost.changes < MaxActs, UNCHANGED <<net, db>>,
           ghost' = Orders!Act(ghost),
           ui' \in OrdersScreen, Fits(ui'.edit, ui'.form), ui'.text = ui.text,
           ui'.orders = ui.orders, ui'.filter = ui.filter
    PROVE  OrdersInv'
<1>1. /\ ghost' \in OrdersNotes /\ ghost'.lists = ghost.lists /\ ghost'.shown = ghost.shown
      /\ ghost'.astray = ghost.astray /\ ghost'.spent = ghost.spent
  BY ActsCounted DEF OrdersInv, OrdersTyped, OrdersNotes
<1>2. ListsAsTheyWere
  BY <1>1 DEF ListsAsTheyWere
<1>3. NewestList'
  BY <1>2, ListKept DEF OrdersInv
<1> QED BY <1>1, <1>3 DEF OrdersInv, OrdersTyped, TextUnspent

\* The seller sends a change.
LEMMA OrdersClick ==
    ASSUME OrdersInv, ghost.acts + ghost.changes < MaxActs, NEW q, OrderAsked(q), q \in OrderWrite,
           Orders!Click(q), ui' \in OrdersScreen, Fits(ui'.edit, ui'.form), ui'.text = ui.text,
           ui'.orders = ui.orders, ui'.filter = ui.filter
    PROVE  OrdersInv'
<1>1. /\ ghost' \in OrdersNotes /\ ghost'.lists = ghost.lists /\ ghost'.shown = ghost.shown
      /\ ghost'.astray = ghost.astray /\ ghost'.spent = ghost.spent
  BY ActsCounted DEF OrdersInv, OrdersTyped, OrdersNotes, Orders!Click
<1>2. net' = net \cup {q} /\ UNCHANGED db
  BY DEF Orders!Click
<1>3. ListsAsTheyWere
  BY <1>1, <1>2, OrderKinds DEF ListsAsTheyWere, Orders!Writes
<1>4. NewestList'
  BY <1>3, ListKept DEF OrdersInv
<1> QED BY <1>1, <1>2, <1>4 DEF OrdersInv, OrdersTyped, TextUnspent

\* What is sent for the order that is open.
LEMMA OrderWritten ==
    ASSUME OrdersInv, ghost.acts + ghost.changes < MaxActs, ui.selected # NoOrder,
           NEW op \in Orders!Writes, NEW field \in {"", "delivery", "payment"},
           NEW val \in Orders!Pay \cup Orders!Del \cup {""},
           op = "update" => field # "" /\ Fits(field, val),
           op = "reject" => ui.row.pay = "manual_required"
    PROVE  LET q == Orders!Write(op, field, val)
           IN  q \in OrderWrite /\ OrderAsked(q) /\ q.op = op /\ q.at = "sent" /\ q.id = ui.selected /\ q.text = ui.text
<1> DEFINE q == Orders!Write(op, field, val)
<1>1. ui.selected \in Order /\ ui.filter \in Filter /\ ui.text \in Orders!MaybeOrder
  BY DEF OrdersInv, OrdersTyped, OrdersScreen, Orders!MaybeOrder
<1>2. ghost.acts + 1 \in 1..MaxActs
  BY ActsCounted DEF OrdersInv, OrdersTyped
<1>3. /\ q \in OrderWrite /\ q.op = op /\ q.at = "sent" /\ q.field = field /\ q.val = val
      /\ q.id = ui.selected /\ q.text = ui.text /\ q.reviewed = (ui.row.pay = "manual_required")
  BY <1>1, <1>2 DEF Orders!Write, OrderWrite
<1> HIDE DEF q
<1>4. OrderAsked(q)
  BY <1>3 DEF OrderAsked
<1> USE DEF q
<1> QED BY <1>3, <1>4

LEMMA UpdateWritten ==
    ASSUME OrdersInv, ghost.acts + ghost.changes < MaxActs, ui.selected # NoOrder,
           NEW field \in {"", "delivery", "payment"}, NEW val \in Orders!Pay \cup Orders!Del \cup {""},
           field # "", Fits(field, val)
    PROVE  Orders!Write("update", field, val) \in OrderWrite /\ OrderAsked(Orders!Write("update", field, val))
<1>1. "update" \in Orders!Writes
  BY DEF Orders!Writes
<1>2. "update" # "reject"
  OBVIOUS
<1> QED BY <1>1, <1>2, OrderWritten

\* The modal is closed, the forms are as they were.
LEMMA OrdersClosed ==
    ASSUME ui \in OrdersScreen
    PROVE  LET new == Orders!Closed(ui)
           IN  /\ new \in OrdersScreen /\ new.edit = ui.edit /\ new.form = ui.form /\ new.text = ui.text
               /\ new.orders = ui.orders /\ new.filter = ui.filter
  BY DEF Orders!Closed, OrdersScreen, Orders!MaybeOrder, Orders!NewRow, Orders!Row, Orders!Pay, Orders!Del

\* A change elsewhere, and the gateway's.
LEMMA WrittenRow ==
    ASSUME OrdersInv, NEW q \in net, q.op \in Orders!Writes
    PROVE  q \in OrderWrite /\ q.id \in Order /\ Orders!Written(q) \in Orders!Row
<1>1. q \in OrderWrite /\ (q.op = "update" => q.field # "" /\ Fits(q.field, q.val))
  BY OrderKinds DEF OrdersInv, OrdersTyped, OrderAsked, Orders!Writes
<1>2. q.id \in Order /\ q.op \in Orders!Writes /\ q.field \in {"", "delivery", "payment"}
  BY <1>1 DEF OrderWrite
<1>3. db[q.id] \in Orders!Row
  BY <1>2 DEF OrdersInv, OrdersTyped
<1>4. /\ \A p \in Orders!Pay : [db[q.id] EXCEPT !.pay = p] \in Orders!Row
      /\ \A d \in Orders!Del : [db[q.id] EXCEPT !.del = d] \in Orders!Row
  BY <1>3 DEF Orders!Row
<1>5. q.op = "confirm" => Orders!Written(q) \in Orders!Row
  BY <1>4 DEF Orders!Written, Orders!Pay
<1>6. q.op = "reject" => Orders!Written(q) \in Orders!Row
  BY <1>4 DEF Orders!Written, Orders!Pay
<1>7. q.op = "update" /\ q.field = "payment" => Orders!Written(q) \in Orders!Row
  BY <1>1, <1>4 DEF Orders!Written, Fits
<1>8. q.op = "update" /\ q.field = "delivery" => Orders!Written(q) \in Orders!Row
  BY <1>1, <1>4 DEF Orders!Written, Fits
<1>9. q.op = "dispatch" => Orders!Written(q) \in Orders!Row
  BY <1>3 DEF Orders!Written
<1>10. Orders!Written(q) \in Orders!Row
  BY <1>1, <1>2, <1>5, <1>6, <1>7, <1>8, <1>9 DEF Orders!Writes
<1> QED BY <1>1, <1>2, <1>10

\* Every step of the page, the gateway and of others keeps it.
LEMMA OrdersNext == OrdersInv /\ Orders!Next => OrdersInv'
<1> SUFFICES ASSUME OrdersInv, Orders!Next PROVE OrdersInv'
  OBVIOUS
<1>0. /\ ui \in OrdersScreen /\ Fits(ui.edit, ui.form) /\ db \in [Order -> Orders!Row] /\ ghost \in OrdersNotes
      /\ \A q \in net : OrderAsked(q)
  BY DEF OrdersInv, OrdersTyped
<1>1. ASSUME ghost.acts + ghost.changes < MaxActs, NEW key \in Filter, Orders!SetFilter(key) PROVE OrdersInv'
  <2>1. ui' = [ui EXCEPT !.filter = key]
    BY <1>1 DEF Orders!SetFilter
  <2>2. ui' \in OrdersScreen /\ Fits(ui'.edit, ui'.form) /\ ui'.text = ui.text
    BY <1>0, <2>1 DEF OrdersScreen
  <2>3. Orders!Fetch(net, {Orders!List(key), Orders!Review}, Orders!Act(ghost)) /\ UNCHANGED db
    BY <1>1 DEF Orders!SetFilter
  <2>4. Orders!Act(ghost) \in OrdersNotes /\ Orders!Act(ghost).lists = ghost.lists /\ Orders!Act(ghost).spent = ghost.spent
    BY <1>0, <1>1, ActsCounted DEF OrdersNotes
  <2> QED BY <2>2, <2>3, <2>4, OrdersFetch DEF OrdersInv, TextUnspent
<1>2. ASSUME ghost.acts + ghost.changes < MaxActs, Orders!RefreshData PROVE OrdersInv'
  <2>1. /\ Orders!Fetch(net, {Orders!List(ui.filter), Orders!Review}, Orders!Act(ghost)) /\ UNCHANGED <<ui, db>>
    BY <1>2 DEF Orders!RefreshData
  <2>2. Orders!Act(ghost) \in OrdersNotes /\ Orders!Act(ghost).lists = ghost.lists /\ Orders!Act(ghost).spent = ghost.spent
    BY <1>0, <1>2, ActsCounted DEF OrdersNotes
  <2>3. ui.filter \in Filter
    BY <1>0 DEF OrdersScreen
  <2> QED BY <1>0, <2>1, <2>2, <2>3, OrdersFetch DEF OrdersInv, TextUnspent
<1>3. ASSUME ghost.acts + ghost.changes < MaxActs, Orders!SwitchTab \/ Orders!CloseModal PROVE OrdersInv'
  <2>1. CASE Orders!SwitchTab
    <3>1. /\ ui' = [ui EXCEPT !.tab = IF @ = "all" THEN "manual_review" ELSE "all"]
          /\ UNCHANGED <<net, db>> /\ ghost' = Orders!Act(ghost)
      BY <2>1 DEF Orders!SwitchTab, Orders!Local
    <3>2. /\ ui' \in OrdersScreen /\ Fits(ui'.edit, ui'.form) /\ ui'.text = ui.text
          /\ ui'.orders = ui.orders /\ ui'.filter = ui.filter
      BY <1>0, <3>1 DEF OrdersScreen
    <3> QED BY <1>3, <3>1, <3>2, OrdersLocal
  <2>2. CASE Orders!CloseModal
    BY <1>0, <1>3, <2>2, OrdersClosed, OrdersLocal DEF Orders!CloseModal, Orders!Local
  <2> QED BY <1>3, <2>1, <2>2
<1>4. ASSUME ghost.acts + ghost.changes < MaxActs, NEW o \in Order, Orders!SelectOrder(o) PROVE OrdersInv'
  <2>1. /\ ui' = [ui EXCEPT !.selected = o, !.row = Orders!Displayed[o]] /\ o \in DOMAIN Orders!Displayed
        /\ UNCHANGED <<net, db>> /\ ghost' = Orders!Act(ghost)
    BY <1>4 DEF Orders!SelectOrder, Orders!Local
  <2>2. Orders!Displayed \in Orders!Rows
    BY <1>0 DEF OrdersScreen, Orders!Displayed
  <2>3. Orders!Displayed[o] \in Orders!Row
    BY <2>1, <2>2, SomeRows
  <2>4. /\ ui' \in OrdersScreen /\ Fits(ui'.edit, ui'.form) /\ ui'.text = ui.text
        /\ ui'.orders = ui.orders /\ ui'.filter = ui.filter
    BY <1>0, <2>1, <2>3 DEF OrdersScreen, Orders!MaybeOrder
  <2> QED BY <1>4, <2>1, <2>4, OrdersLocal
<1>5. ASSUME ghost.acts + ghost.changes < MaxActs, Orders!TypeText PROVE OrdersInv'
  <2>1. /\ ui' = [ui EXCEPT !.text = ui.selected] /\ ui.selected # NoOrder /\ UNCHANGED <<net, db>>
        /\ ghost' = Orders!Act([ghost EXCEPT !.spent = @ \ {ui.selected}])
    BY <1>5 DEF Orders!TypeText, Orders!InReview
  <2>2. ghost.acts + 1 \in 0..MaxActs
    BY <1>0, <1>5, ActsCounted
  <2>3. /\ ghost' \in OrdersNotes /\ ghost'.lists = ghost.lists /\ ghost'.shown = ghost.shown
        /\ ghost'.astray = ghost.astray /\ ghost'.spent = ghost.spent \ {ui.selected}
    BY <1>0, <2>1, <2>2 DEF Orders!Act, OrdersNotes
  <2>4. /\ ui' \in OrdersScreen /\ Fits(ui'.edit, ui'.form) /\ ui'.text = ui.selected
        /\ ui'.orders = ui.orders /\ ui'.filter = ui.filter
    BY <1>0, <2>1 DEF OrdersScreen
  <2>5. NewestList'
    BY <2>1, <2>3, <2>4, ListKept DEF ListsAsTheyWere, OrdersInv
  <2> QED BY <1>0, <2>1, <2>3, <2>4, <2>5 DEF OrdersInv, OrdersTyped, TextUnspent
<1>6. ASSUME ghost.acts + ghost.changes < MaxActs, Orders!ConfirmPayment \/ Orders!RejectPayment PROVE OrdersInv'
  <2>1. PICK op \in {"confirm", "reject"} : Orders!Click(Orders!Write(op, "", "")) /\ Orders!InReview /\ UNCHANGED ui
    BY <1>6 DEF Orders!ConfirmPayment, Orders!RejectPayment
  <2>2. ui.selected # NoOrder /\ ui.row.pay = "manual_required"
    BY <2>1 DEF Orders!InReview
  <2>3. Orders!Write(op, "", "") \in OrderWrite /\ OrderAsked(Orders!Write(op, "", ""))
    BY <1>6, <2>2, OrderWritten, ZenonT(60) DEF Orders!Writes
  <2> QED BY <1>0, <1>6, <2>1, <2>3, OrdersClick
<1>7. ASSUME ghost.acts + ghost.changes < MaxActs, NEW kind \in {"delivery", "payment"}, Orders!EditOrder(kind) PROVE OrdersInv'
  <2> DEFINE val == Orders!ValueOf(kind, ui.row)
  <2>1. /\ ui' = [ui EXCEPT !.edit = kind, !.form = val]
        /\ UNCHANGED <<net, db>> /\ ghost' = Orders!Act(ghost)
    BY <1>7 DEF Orders!EditOrder, Orders!Local
  <2>2. val \in Orders!Pay \cup Orders!Del /\ Fits(kind, val)
    BY <1>0, <1>7 DEF OrdersScreen, Orders!ValueOf, Orders!Row, Fits
  <2> HIDE DEF val
  <2>3. /\ ui' \in OrdersScreen /\ ui'.edit = kind /\ ui'.form = val /\ ui'.text = ui.text
        /\ ui'.orders = ui.orders /\ ui'.filter = ui.filter
    BY <1>0, <2>1, <2>2 DEF OrdersScreen
  <2> QED BY <1>7, <2>1, <2>2, <2>3, OrdersLocal
<1>8. ASSUME ghost.acts + ghost.changes < MaxActs,
             Orders!CancelEdit \/ (\E val \in Orders!Pay \cup Orders!Del : Orders!ChangeForm(val))
      PROVE  OrdersInv'
  <2>1. PICK edit \in {ui.edit, "none"}, val \in Orders!Pay \cup Orders!Del :
          /\ ui' = [ui EXCEPT !.edit = edit, !.form = val] /\ Fits(edit, val)
          /\ UNCHANGED <<net, db>> /\ ghost' = Orders!Act(ghost)
    <3>1. CASE Orders!CancelEdit
      <4>1. "pending" \in Orders!Pay \cup Orders!Del /\ Fits("none", "pending")
        BY DEF Orders!Pay, Fits
      <4> QED BY <3>1, <4>1 DEF Orders!CancelEdit, Orders!Local
    <3>2. ASSUME NEW val \in Orders!Pay \cup Orders!Del, Orders!ChangeForm(val)
          PROVE  /\ ui' = [ui EXCEPT !.edit = ui.edit, !.form = val] /\ Fits(ui.edit, val)
                 /\ UNCHANGED <<net, db>> /\ ghost' = Orders!Act(ghost)
      BY <1>0, <3>2 DEF Orders!ChangeForm, Orders!Local, Orders!Editing, Fits, OrdersScreen
    <3> QED BY <1>8, <3>1, <3>2
  <2>2. /\ ui' \in OrdersScreen /\ ui'.edit = edit /\ ui'.form = val /\ ui'.text = ui.text
        /\ ui'.orders = ui.orders /\ ui'.filter = ui.filter
    BY <1>0, <2>1 DEF OrdersScreen
  <2> QED BY <1>8, <2>1, <2>2, OrdersLocal
<1>9. ASSUME ghost.acts + ghost.changes < MaxActs, Orders!SaveUpdates \/ Orders!QuickVerify \/ Orders!DispatchToCourier PROVE OrdersInv'
  <2>1. CASE Orders!SaveUpdates
    <3>1. /\ ui.selected # NoOrder /\ ui.edit # "none" /\ Orders!Click(Orders!Write("update", ui.edit, ui.form))
          /\ ui' = [ui EXCEPT !.edit = "none", !.form = "pending"]
      BY <2>1 DEF Orders!SaveUpdates, Orders!Editing
    <3>2. ui.edit \in {"delivery", "payment"} /\ ui.form \in Orders!Pay \cup Orders!Del \cup {""}
      BY <1>0, <3>1 DEF OrdersScreen
    <3>3. Orders!Write("update", ui.edit, ui.form) \in OrderWrite /\ OrderAsked(Orders!Write("update", ui.edit, ui.form))
      <4>1. PICK field \in {"delivery", "payment"}, val \in Orders!Pay \cup Orders!Del \cup {""} :
              field = ui.edit /\ val = ui.form /\ Fits(field, val)
        BY <1>0, <3>2
      <4>2. field # "" /\ field \in {"", "delivery", "payment"}
        OBVIOUS
      <4>3. ghost.acts + ghost.changes < MaxActs /\ ui.selected # NoOrder /\ Fits(field, val)
        BY <1>9, <3>1, <4>1
      <4>4. Orders!Write("update", field, val) \in OrderWrite /\ OrderAsked(Orders!Write("update", field, val))
        BY <4>2, <4>3, UpdateWritten
      <4> QED BY <4>1, <4>4
    <3>4. /\ ui' \in OrdersScreen /\ Fits(ui'.edit, ui'.form) /\ ui'.text = ui.text
          /\ ui'.orders = ui.orders /\ ui'.filter = ui.filter
      BY <1>0, <3>1 DEF OrdersScreen, Orders!Pay, Fits
    <3> QED BY <1>9, <3>1, <3>3, <3>4, OrdersClick
  <2>2. CASE Orders!QuickVerify
    <3>1. ui.selected # NoOrder /\ Orders!Click(Orders!Write("update", "payment", "verified")) /\ UNCHANGED ui
      BY <2>2 DEF Orders!QuickVerify, Orders!Viewing
    <3>2. /\ Orders!Write("update", "payment", "verified") \in OrderWrite
          /\ OrderAsked(Orders!Write("update", "payment", "verified"))
      BY <1>9, <3>1, OrderWritten, ZenonT(60) DEF Orders!Writes, Orders!Pay, Fits
    <3> QED BY <1>0, <1>9, <3>1, <3>2, OrdersClick
  <2>3. CASE Orders!DispatchToCourier
    <3>1. ui.selected # NoOrder /\ Orders!Click(Orders!Write("dispatch", "", "")) /\ UNCHANGED ui
      BY <2>3 DEF Orders!DispatchToCourier, Orders!Viewing
    <3>2. Orders!Write("dispatch", "", "") \in OrderWrite /\ OrderAsked(Orders!Write("dispatch", "", ""))
      BY <1>9, <3>1, OrderWritten, ZenonT(60) DEF Orders!Writes
    <3> QED BY <1>0, <1>9, <3>1, <3>2, OrdersClick
  <2> QED BY <1>9, <2>1, <2>2, <2>3
<1>10. ASSUME NEW q \in net, Orders!FetchOrders(q) PROVE OrdersInv'
  <2>1. q \in OrderList /\ q.op = "list" /\ q.key \in Filter /\ q.n \in 1..MaxLists
    BY <1>0, <1>10, OrderKinds DEF Orders!FetchOrders, OrderList, Orders!Writes
  <2>2. PICK rows \in Orders!Fetched(q.key) : ui' = [ui EXCEPT !.orders = rows]
    BY <1>10 DEF Orders!FetchOrders
  <2>3. net' = net \ {q} /\ UNCHANGED db
    BY <1>10 DEF Orders!FetchOrders
  <2>4. /\ ghost' \in OrdersNotes /\ ghost'.lists = ghost.lists /\ ghost'.shown = q.n
        /\ ghost'.spent = ghost.spent /\ (ghost'.astray <=> ghost.astray \/ q.n < ghost.shown)
    <3>1. MaxLists \in Nat /\ q.n \in 0..MaxLists
      BY <2>1, BoundsAssumption
    <3>2. ghost' = [ghost EXCEPT !.shown = q.n, !.astray = ghost.astray \/ q.n < ghost.shown]
      BY <1>10 DEF Orders!FetchOrders
    <3> QED BY <1>0, <3>1, <3>2 DEF OrdersNotes
  <2>5. rows \in Orders!Rows /\ \A o \in DOMAIN rows : q.key \in {"", rows[o].pay}
    <3> DEFINE s == {o \in Order : q.key \in {"", db[o].pay}}
    <3>1. s \in SUBSET Order /\ [o \in s |-> db[o]] \in Orders!Rows
      BY <1>0, SomeRows
    <3>2. rows = [o \in s |-> db[o]] \/ rows = Orders!NoRows
      BY <2>2 DEF Orders!Fetched
    <3>3. \A o \in s : [x \in s |-> db[x]][o] = db[o]
      OBVIOUS
    <3>4. CASE rows = [o \in s |-> db[o]]
      BY <3>1, <3>3, <3>4
    <3>5. CASE rows = Orders!NoRows
      BY <3>5, SomeRows DEF Orders!NoRows
    <3> QED BY <3>2, <3>4, <3>5
  <2>6. /\ ui' \in OrdersScreen /\ Fits(ui'.edit, ui'.form) /\ ui'.text = ui.text
        /\ ui'.orders = rows /\ ui'.filter = ui.filter
    BY <1>0, <2>2, <2>5 DEF OrdersScreen
  <2>7. NewestList'
    <3>1. ghost.lists \in Nat /\ ghost.shown \in Nat /\ q.n \in Nat /\ q.n <= ghost.lists
      <4>1. MaxLists \in Nat
        BY BoundsAssumption
      <4>2. ghost.lists \in Nat /\ ghost.shown \in Nat /\ q.n \in Nat
        BY <1>0, <2>1, <4>1 DEF OrdersNotes
      <4>3. q.n <= ghost.lists
        BY <2>1 DEF OrdersInv, NewestList
      <4> QED BY <4>2, <4>3
    <3>2. ASSUME ~ghost'.astray
          PROVE  /\ \A p \in net' : p.op = "list" /\ p.n = ghost.lists => p.key = ui.filter
                 /\ \/ \E p \in net' : p.op = "list" /\ p.n = ghost.lists
                    \/ /\ q.n = ghost.lists
                       /\ \A o \in DOMAIN rows : ui.filter \in {"", rows[o].pay}
      <4>1. ~ghost.astray /\ ~(q.n < ghost.shown)
        BY <2>4, <3>2
      <4>2. /\ \A p \in net : p.op = "list" /\ p.n = ghost.lists => p.key = ui.filter
            /\ \/ \E p \in net : p.op = "list" /\ p.n = ghost.lists
               \/ ghost.shown = ghost.lists
        BY <4>1 DEF OrdersInv, NewestList
      <4>3. CASE q.n = ghost.lists
        BY <2>1, <2>3, <2>5, <4>2, <4>3
      <4>4. CASE q.n # ghost.lists
        <5>1. ghost.shown # ghost.lists
          BY <3>1, <4>1, <4>4
        <5> QED BY <2>3, <4>2, <4>4, <5>1
      <4> QED BY <4>3, <4>4
    <3> QED BY <2>3, <2>4, <2>6, <3>2 DEF OrdersInv, NewestList
  <2> QED BY <1>0, <2>3, <2>4, <2>6, <2>7 DEF OrdersInv, OrdersTyped, TextUnspent
<1>11. ASSUME NEW q \in net, Orders!FetchManualReview(q) PROVE OrdersInv'
  <2>1. PICK rows \in Orders!Fetched("manual_required") : ui' = [ui EXCEPT !.review = rows]
    BY <1>11 DEF Orders!FetchManualReview
  <2>2. net' = net \ {q} /\ q.op = "review" /\ UNCHANGED <<db, ghost>>
    BY <1>11 DEF Orders!FetchManualReview
  <2>3. rows \in Orders!Rows
    BY <1>0, SomeRows DEF Orders!Fetched
  <2>4. /\ ui' \in OrdersScreen /\ Fits(ui'.edit, ui'.form) /\ ui'.text = ui.text
        /\ ui'.orders = ui.orders /\ ui'.filter = ui.filter
    BY <1>0, <2>1, <2>3 DEF OrdersScreen
  <2>5. NewestList'
    BY <2>2, <2>4, ListKept DEF ListsAsTheyWere, OrdersInv
  <2> QED BY <1>0, <2>2, <2>4, <2>5 DEF OrdersInv, OrdersTyped, TextUnspent
<1>12. ASSUME NEW q \in net, Orders!TimerFires(q) PROVE OrdersInv'
  <2>1. Orders!Fetch(net \ {q}, {Orders!List(q.key)}, ghost) /\ q.op = "timer" /\ UNCHANGED <<ui, db>>
    BY <1>12 DEF Orders!TimerFires
  <2>2. q.key \in Filter
    BY <1>0, <2>1, OrderKinds DEF OrderTimer, Orders!Writes
  <2> QED BY <1>0, <2>1, <2>2, OrdersFetch DEF OrdersInv, TextUnspent
<1>13. ASSUME NEW q \in net, Orders!Serve(q) PROVE OrdersInv'
  <2>1. /\ q.op \in Orders!Writes /\ q.at = "sent" /\ net' = (net \ {q}) \cup {[q EXCEPT !.at = "answered"]}
        /\ db' = [db EXCEPT ![q.id] = Orders!Written(q)] /\ UNCHANGED ui
        /\ ghost' = [ghost EXCEPT !.changes = @ + (IF net' = net THEN 1 ELSE 0)]
    BY <1>13 DEF Orders!Serve, Orders!Change
  <2>2. q \in OrderWrite /\ q.id \in Order /\ Orders!Written(q) \in Orders!Row
    BY <2>1, WrittenRow
  <2> DEFINE r == [q EXCEPT !.at = "answered"]
  <2>3. /\ r \in OrderWrite /\ r.at = "answered" /\ r.op = q.op /\ r.reviewed = q.reviewed
        /\ r.field = q.field /\ r.val = q.val
    BY <2>2 DEF OrderWrite
  <2>4. OrderAsked(q) /\ q \notin OrderList /\ q # Orders!Review /\ q \notin OrderTimer
    BY <1>0, <2>1, OrderKinds DEF Orders!Writes
  <2>5. net' = (net \ {q}) \cup {r}
    BY <2>1
  <2> HIDE DEF r
  <2>6. OrderAsked(r)
    BY <2>3, <2>4 DEF OrderAsked
  <2>7. net' # net
    BY <2>1, <2>3, <2>5
  <2>8. /\ ghost' \in OrdersNotes /\ ghost'.lists = ghost.lists /\ ghost'.shown = ghost.shown
        /\ ghost'.astray = ghost.astray /\ ghost'.spent = ghost.spent
    BY <1>0, <2>1, <2>7 DEF OrdersNotes
  <2>9. db' \in [Order -> Orders!Row]
    BY <1>0, <2>1, <2>2
  <2>10. NewestList'
    BY <2>1, <2>3, <2>5, <2>8, ListKept DEF ListsAsTheyWere, OrdersInv, Orders!Writes
  <2> QED BY <1>0, <2>1, <2>5, <2>6, <2>8, <2>9, <2>10 DEF OrdersInv, OrdersTyped, TextUnspent
<1>14. ASSUME NEW q \in net, Orders!Answered(q) PROVE OrdersInv'
  <2>1. q \in OrderWrite /\ q.key \in Filter /\ q.id \in Order /\ UNCHANGED db
    BY <1>14, WrittenRow DEF Orders!Answered, OrderWrite
  <2>2. /\ Orders!Closed(ui) \in OrdersScreen /\ Fits(Orders!Closed(ui).edit, Orders!Closed(ui).form)
        /\ Orders!Closed(ui).text = ui.text
        /\ Orders!Closed(ui).orders = ui.orders /\ Orders!Closed(ui).filter = ui.filter
    BY <1>0, OrdersClosed
  <2>3. CASE Orders!UpdateOrder(q) \/ Orders!Rejected(q)
    <3>1. ui' = Orders!Closed(ui) /\ Orders!Fetch(net \ {q}, {Orders!List(q.key), Orders!Review}, ghost)
      BY <2>3 DEF Orders!UpdateOrder, Orders!Rejected
    <3> QED BY <1>0, <2>1, <2>2, <3>1, OrdersFetch DEF OrdersInv, TextUnspent
  <2>4. CASE Orders!Confirmed(q)
    <3>1. /\ ui' = [Orders!Closed(ui) EXCEPT !.text = NoOrder] /\ ghost.lists < MaxLists
          /\ net' = (net \ {q}) \cup {Orders!List(q.key), Orders!Review}
          /\ ghost' = [ghost EXCEPT !.lists = @ + 1, !.astray = q.key # ui.filter,
                                    !.spent = @ \cup ({q.text} \cap {q.id})]
      BY <2>4 DEF Orders!Confirmed
    <3>2. /\ ui' \in OrdersScreen /\ Fits(ui'.edit, ui'.form) /\ ui'.text = NoOrder /\ ui'.filter = ui.filter
      BY <2>2, <3>1 DEF OrdersScreen, Orders!MaybeOrder
    <3>3. ghost.lists + 1 \in 0..MaxLists
      BY <1>0, <3>1, BoundsAssumption DEF OrdersNotes
    <3>4. /\ ghost' \in OrdersNotes /\ ghost'.lists = ghost.lists + 1 /\ ghost'.astray = (q.key # ui'.filter)
      BY <1>0, <2>1, <3>1, <3>2, <3>3 DEF OrdersNotes
    <3>5. NoOrder \notin ghost'.spent
      BY <3>4, OrdersAssumption DEF OrdersNotes
    <3> QED BY <2>1, <3>1, <3>2, <3>4, <3>5, ListAsked DEF TextUnspent
  <2>5. CASE Orders!Dispatched(q)
    <3>1. /\ ui' = Orders!Closed(ui) /\ net' = (net \ {q}) \cup {[op |-> "timer", key |-> q.key]}
          /\ q.op = "dispatch" /\ UNCHANGED ghost
      BY <2>5 DEF Orders!Dispatched
    <3> DEFINE r == [op |-> "timer", key |-> q.key]
    <3>2. r \in OrderTimer /\ r.op = "timer" /\ net' = (net \ {q}) \cup {r}
      BY <2>1, <3>1 DEF OrderTimer
    <3> HIDE DEF r
    <3>3. NewestList'
      BY <2>2, <3>1, <3>2, ListKept DEF ListsAsTheyWere, OrdersInv
    <3> QED BY <1>0, <2>1, <2>2, <3>1, <3>2, <3>3 DEF OrdersInv, OrdersTyped, OrderAsked, TextUnspent
  <2> QED BY <1>14, <2>3, <2>4, <2>5 DEF Orders!Answered
<1>15. ASSUME NEW q \in net, Orders!Failed(q) PROVE OrdersInv'
  <2>1. q.op \in Orders!Writes /\ net' = net \ {q} /\ UNCHANGED <<ui, db, ghost>>
    BY <1>15 DEF Orders!Failed
  <2>2. NewestList'
    BY <2>1, ListKept DEF ListsAsTheyWere, OrdersInv, Orders!Writes
  <2> QED BY <1>0, <2>1, <2>2 DEF OrdersInv, OrdersTyped, TextUnspent
<1>16. ASSUME NEW o \in Order, Orders!Elsewhere(o) PROVE OrdersInv'
  <2>1. PICK row \in Orders!Row : db' = [db EXCEPT ![o] = row] /\ UNCHANGED <<ui, net>>
    <3>1. db[o] \in Orders!Row
      BY <1>0
    <3>2. /\ \A p \in Orders!Pay : [db[o] EXCEPT !.pay = p] \in Orders!Row
          /\ \A d \in Orders!Del : [db[o] EXCEPT !.del = d] \in Orders!Row
      BY <3>1 DEF Orders!Row
    <3> QED BY <1>16, <3>2 DEF Orders!Elsewhere, Orders!Change, Orders!Pay, Orders!Del
  <2>2. /\ ghost.changes < MaxChanges /\ ghost' = [ghost EXCEPT !.changes = ghost.changes + 1]
    BY <1>16 DEF Orders!Elsewhere, Orders!Change
  <2>3. ghost.changes + 1 \in 0..MaxChanges
    BY <1>0, <2>2, BoundsAssumption DEF OrdersNotes
  <2>4. /\ ghost' \in OrdersNotes /\ ghost'.lists = ghost.lists /\ ghost'.shown = ghost.shown
        /\ ghost'.astray = ghost.astray /\ ghost'.spent = ghost.spent
    BY <1>0, <2>2, <2>3 DEF OrdersNotes
  <2>5. db' \in [Order -> Orders!Row]
    BY <1>0, <2>1
  <2>6. NewestList'
    BY <2>1, <2>4, ListKept DEF ListsAsTheyWere, OrdersInv
  <2> QED BY <1>0, <2>1, <2>4, <2>5, <2>6 DEF OrdersInv, OrdersTyped, TextUnspent
<1>17. CASE ghost.acts + ghost.changes < MaxActs /\ Orders!Seller
  BY <1>1, <1>2, <1>3, <1>4, <1>5, <1>6, <1>7, <1>8, <1>9, <1>17 DEF Orders!Seller
<1> QED BY <1>10, <1>11, <1>12, <1>13, <1>14, <1>15, <1>16, <1>17 DEF Orders!Next

\* A verified payment is taken back as the seller meant it: by the payment form, or by
\* a rejection, which is offered for a snapshot in review only.
LEMMA OrdersKept == OrdersInv /\ Orders!Next => Orders!VerifiedIsKept
<1> SUFFICES ASSUME OrdersInv, Orders!Next, NEW o \in Order, db[o].pay = "verified", db'[o].pay # "verified"
             PROVE  \E q \in net : /\ q.op \in {"reject", "update"} /\ q.at = "sent" /\ q.id = o
                                   /\ q.op = "update" \/ q.reviewed
  BY DEF Orders!VerifiedIsKept
<1>0. db \in [Order -> Orders!Row] /\ \A q \in net : OrderAsked(q)
  BY DEF OrdersInv, OrdersTyped
<1>1. \/ \E q \in net : Orders!Serve(q)
      \/ \E x \in Order : Orders!Elsewhere(x)
      \/ UNCHANGED db
  BY DEF Orders!Next, Orders!Seller, Orders!SetFilter, Orders!RefreshData, Orders!SwitchTab, Orders!CloseModal,
     Orders!SelectOrder, Orders!TypeText, Orders!ConfirmPayment, Orders!RejectPayment, Orders!EditOrder,
     Orders!CancelEdit, Orders!SaveUpdates, Orders!ChangeForm, Orders!QuickVerify, Orders!DispatchToCourier,
     Orders!Local, Orders!Click, Orders!FetchOrders, Orders!FetchManualReview, Orders!TimerFires,
     Orders!Answered, Orders!Failed
<1>2. ASSUME NEW q \in net, Orders!Serve(q)
      PROVE  q.op \in {"reject", "update"} /\ q.at = "sent" /\ q.id = o /\ (q.op = "update" \/ q.reviewed)
  <2>1. /\ q.op \in Orders!Writes /\ q.at = "sent" /\ db' = [db EXCEPT ![q.id] = Orders!Written(q)]
    BY <1>2 DEF Orders!Serve, Orders!Change
  <2>2. q \in OrderWrite /\ q.id \in Order /\ (q.op = "reject" => q.reviewed)
    BY <1>0, <2>1, WrittenRow, OrderKinds DEF OrderAsked, Orders!Writes
  <2>3. q.id = o /\ Orders!Written(q).pay # "verified"
    BY <1>0, <2>1, <2>2
  <2>4. db[o] \in Orders!Row
    BY <1>0
  <2>5. q.op = "confirm" => Orders!Written(q).pay = "verified"
    BY <2>3, <2>4 DEF Orders!Written, Orders!Row
  <2>6. q.op = "dispatch" => Orders!Written(q).pay = "verified"
    BY <2>3 DEF Orders!Written
  <2> QED BY <2>1, <2>2, <2>3, <2>5, <2>6 DEF Orders!Writes
<1>3. ASSUME NEW x \in Order, Orders!Elsewhere(x) PROVE FALSE
  <2>1. db[x] \in Orders!Row
    BY <1>0
  <2> QED BY <1>0, <1>3, <2>1 DEF Orders!Elsewhere, Orders!Change, Orders!Row
<1> QED BY <1>1, <1>2, <1>3

\* What confirms an order is not the text that was spent on another.
LEMMA OrdersSpend == OrdersInv /\ Orders!Next => Orders!TextIsSpent
<1> SUFFICES ASSUME OrdersInv, Orders!Next, NEW q \in net' \ net, q.op = "confirm", q.at = "sent"
             PROVE  q.text \notin ghost.spent
  BY DEF Orders!TextIsSpent
<1>1. \A key : Orders!List(key).op # "confirm"
  BY DEF Orders!List
<1>2. Orders!Review.op # "confirm"
  BY DEF Orders!Review
<1>3. \A op, field, val : /\ Orders!Write(op, field, val).op = op
                          /\ Orders!Write(op, field, val).text = ui.text
  BY DEF Orders!Write
<1>4. ASSUME NEW rest \in SUBSET net, NEW key, NEW g,
             Orders!Fetch(rest, {Orders!List(key), Orders!Review}, g) \/ Orders!Fetch(rest, {Orders!List(key)}, g)
      PROVE  FALSE
  <2>1. net' \subseteq net \cup {Orders!List(key), Orders!Review}
    BY <1>4 DEF Orders!Fetch
  <2> QED BY <1>1, <1>2, <2>1
<1>5. ASSUME NEW op, NEW field, NEW val, Orders!Click(Orders!Write(op, field, val)) PROVE q.text = ui.text
  <2>1. q = Orders!Write(op, field, val)
    BY <1>5 DEF Orders!Click
  <2> QED BY <1>3, <2>1
<1>6. ui.text \notin ghost.spent
  BY DEF OrdersInv, TextUnspent
<1>7. CASE Orders!Seller
  <2>1. CASE \E key \in Filter : Orders!SetFilter(key)
    BY <1>4, <2>1 DEF Orders!SetFilter
  <2>2. CASE Orders!RefreshData
    BY <1>4, <2>2 DEF Orders!RefreshData
  <2>3. CASE Orders!ConfirmPayment
    BY <1>5, <1>6, <2>3 DEF Orders!ConfirmPayment
  <2>4. CASE Orders!RejectPayment
    BY <1>5, <1>6, <2>4 DEF Orders!RejectPayment
  <2>5. CASE Orders!SaveUpdates
    BY <1>5, <1>6, <2>5 DEF Orders!SaveUpdates
  <2>6. CASE Orders!QuickVerify
    BY <1>5, <1>6, <2>6 DEF Orders!QuickVerify
  <2>7. CASE Orders!DispatchToCourier
    BY <1>5, <1>6, <2>7 DEF Orders!DispatchToCourier
  <2>8. \/ net' = net
        \/ \E key \in Filter : Orders!SetFilter(key)
        \/ Orders!RefreshData \/ Orders!ConfirmPayment \/ Orders!RejectPayment
        \/ Orders!SaveUpdates \/ Orders!QuickVerify \/ Orders!DispatchToCourier
    BY <1>7 DEF Orders!Seller, Orders!SwitchTab, Orders!CloseModal, Orders!SelectOrder, Orders!TypeText,
       Orders!EditOrder, Orders!ChangeForm, Orders!CancelEdit, Orders!Local
  <2> QED BY <2>1, <2>2, <2>3, <2>4, <2>5, <2>6, <2>7, <2>8
<1>8. ASSUME NEW p \in net, Orders!TimerFires(p) PROVE FALSE
  BY <1>4, <1>8 DEF Orders!TimerFires
<1>9. ASSUME NEW p \in net, Orders!Serve(p) PROVE FALSE
  <2>1. q = [p EXCEPT !.at = "answered"] /\ p.op \in Orders!Writes
    BY <1>9 DEF Orders!Serve
  <2>2. p \in OrderWrite
    BY <2>1, WrittenRow
  <2>3. q.at = "answered"
    BY <2>1, <2>2 DEF OrderWrite
  <2> QED BY <2>3
<1>10. ASSUME NEW p \in net, Orders!Answered(p) PROVE FALSE
  <2>1. CASE Orders!UpdateOrder(p)
    BY <1>4, <2>1 DEF Orders!UpdateOrder
  <2>2. CASE Orders!Rejected(p)
    BY <1>4, <2>2 DEF Orders!Rejected
  <2>3. CASE Orders!Confirmed(p)
    BY <1>1, <1>2, <2>3 DEF Orders!Confirmed
  <2>4. CASE Orders!Dispatched(p)
    <3>1. q = [op |-> "timer", key |-> p.key]
      BY <2>4 DEF Orders!Dispatched
    <3> QED BY <3>1
  <2> QED BY <1>10, <2>1, <2>2, <2>3, <2>4 DEF Orders!Answered
<1>11. ASSUME NEW p \in net, Orders!FetchOrders(p) \/ Orders!FetchManualReview(p) \/ Orders!Failed(p) PROVE FALSE
  BY <1>11 DEF Orders!FetchOrders, Orders!FetchManualReview, Orders!Failed
<1>12. ASSUME NEW o \in Order, Orders!Elsewhere(o) PROVE FALSE
  BY <1>12 DEF Orders!Elsewhere
<1> QED BY <1>7, <1>8, <1>9, <1>10, <1>11, <1>12 DEF Orders!Next

---------------------------------------------------------------------------
(* Reviews *)

ReviewsScreen ==
    [list : Reviews!Rows, approving : 0..MaxReviewActs, rejecting : 0..MaxReviewActs]
ReviewsRead == [op : {"list"}, at : {"read"}, rows : Reviews!Rows]
Moderation == {"approve", "reject", "edit"}
ReviewAsking ==
    [op : Moderation, at : {"sent", "refused"}, id : ReviewId, n : 1..MaxReviewActs, here : BOOLEAN]
ReviewFound ==
    [op : Moderation, at : {"read", "done"}, id : ReviewId, n : 1..MaxReviewActs, here : BOOLEAN,
     row : Reviews!Row]
ReviewAsked(q) == q = Reviews!List \/ q \in ReviewsRead \/ q \in ReviewAsking \/ q \in ReviewFound

ReviewsTyped ==
    /\ ui \in ReviewsScreen
    /\ db \in [rows : Reviews!Rows, used : SUBSET ReviewId] /\ DOMAIN db.rows \subseteq db.used
    /\ \A q \in net : ReviewAsked(q) /\ (q \in ReviewFound => q.id \in db.used)
    /\ ghost \in [acts : 0..MaxReviewActs, old : BOOLEAN]

\* A fetch gives up the one before it.
OneList == \A p, q \in net : p.op = "list" /\ q.op = "list" => p = q

\* Unless the list may be old, it is as the rows are, or a request that was carried
\* out will still ask for it, or a fetch under way brings them.
ListFollows ==
    ~ghost.old =>
        \/ \E q \in net : q.op # "list" /\ q.at = "done"
        \/ Reviews!List \in net
        \/ \E q \in net : q \in ReviewsRead /\ q.rows = db.rows
        \/ ui.list = db.rows /\ \A q \in net : q.op # "list"

ReviewsInv == ReviewsTyped /\ OneList /\ ListFollows

\* The requests, told apart by what they ask and how far they are.
LEMMA ReviewKinds ==
    /\ Reviews!List.op = "list" /\ Reviews!List.at = "sent"
    /\ \A q \in ReviewsRead : q.op = "list" /\ q.at = "read" /\ q.rows \in Reviews!Rows
    /\ \A q \in ReviewAsking : q.op \in Moderation /\ q.at \in {"sent", "refused"} /\ q.op # "list"
                               /\ q.id \in ReviewId /\ q.n \in 1..MaxReviewActs /\ q.here \in BOOLEAN
    /\ \A q \in ReviewFound : q.op \in Moderation /\ q.at \in {"read", "done"} /\ q.op # "list"
                              /\ q.id \in ReviewId /\ q.n \in 1..MaxReviewActs /\ q.here \in BOOLEAN
                              /\ q.row \in Reviews!Row
<1>1. Reviews!List.op = "list" /\ Reviews!List.at = "sent"
  BY DEF Reviews!List
<1>2. \A q \in ReviewsRead : q.op = "list" /\ q.at = "read" /\ q.rows \in Reviews!Rows
  BY DEF ReviewsRead
<1>3. \A q \in ReviewAsking : q.op \in Moderation /\ q.at \in {"sent", "refused"} /\ q.op # "list"
                              /\ q.id \in ReviewId /\ q.n \in 1..MaxReviewActs /\ q.here \in BOOLEAN
  BY DEF ReviewAsking, Moderation
<1>4. \A q \in ReviewFound : q.op \in Moderation /\ q.at \in {"read", "done"} /\ q.op # "list"
                             /\ q.id \in ReviewId /\ q.n \in 1..MaxReviewActs /\ q.here \in BOOLEAN
                             /\ q.row \in Reviews!Row
  BY DEF ReviewFound, Moderation
<1> QED BY <1>1, <1>2, <1>3, <1>4

LEMMA ReviewsSuffice == ReviewsInv => Reviews!TypeOK /\ Reviews!ListIsTrue
<1>1. ASSUME NEW q, ReviewAsked(q)
      PROVE  q.op \in {"list", "approve", "reject", "edit"} /\ q.at \in {"sent", "read", "done", "refused"}
  <2>1. q.op \in {"list"} \cup Moderation /\ q.at \in {"sent", "read", "done", "refused"}
    BY <1>1, ReviewKinds DEF ReviewAsked
  <2> QED BY <2>1 DEF Moderation
<1>2. ReviewsTyped => Reviews!TypeOK
  BY <1>1 DEF ReviewsTyped, Reviews!TypeOK, ReviewsScreen
<1>3. ListFollows => Reviews!ListIsTrue
  BY DEF ListFollows, Reviews!ListIsTrue
<1> QED BY <1>2, <1>3 DEF ReviewsInv

LEMMA ReviewRows ==
    /\ Reviews!NoRows \in Reviews!Rows
    /\ \A rows \in Reviews!Rows : DOMAIN rows \subseteq ReviewId /\ \A r \in DOMAIN rows : rows[r] \in Reviews!Row
  BY DEF Reviews!Rows, Reviews!NoRows

LEMMA ReviewsStart == Reviews!Init => ReviewsInv
<1> SUFFICES ASSUME Reviews!Init PROVE ReviewsInv
  OBVIOUS
<1>1. 0 \in 0..MaxReviewActs
  BY BoundsAssumption
<1>2. ui \in ReviewsScreen
  BY <1>1, ReviewRows DEF Reviews!Init, ReviewsScreen
<1>3. db \in [rows : Reviews!Rows, used : SUBSET ReviewId] /\ DOMAIN db.rows \subseteq db.used
  <2>1. PICK s \in SUBSET ReviewId : db \in [rows : [s -> {Reviews!Submitted(FALSE)}], used : {s}]
    BY DEF Reviews!Init
  <2>2. Reviews!Submitted(FALSE) \in Reviews!Row
    BY DEF Reviews!Submitted, Reviews!Row, Reviews!Status
  <2>3. db.rows \in [s -> Reviews!Row] /\ db.used = s /\ db = [rows |-> db.rows, used |-> db.used]
    BY <2>1, <2>2
  <2>4. db.rows \in Reviews!Rows
    BY <2>3 DEF Reviews!Rows
  <2> QED BY <2>3, <2>4
<1>4. net = {Reviews!List} /\ ghost = [acts |-> 0, old |-> FALSE] /\ Reviews!List \notin ReviewFound
  BY ReviewKinds DEF Reviews!Init
<1>5. ghost \in [acts : 0..MaxReviewActs, old : BOOLEAN]
  BY <1>1, <1>4
<1> QED BY <1>2, <1>3, <1>4, <1>5 DEF ReviewsInv, ReviewsTyped, ReviewAsked, OneList, ListFollows

\* A step that leaves the lists alone, and what was carried out.
LEMMA ReviewsPass ==
    ASSUME ReviewsInv, ReviewsTyped',
           \A q : q.op = "list" => (q \in net' <=> q \in net),
           ghost'.old \/ /\ ~ghost.old /\ ui'.list = ui.list
                         /\ \/ \E q \in net' : q.op # "list" /\ q.at = "done"
                            \/ db'.rows = db.rows /\ \A q \in net : q.op # "list" /\ q.at = "done" => q \in net'
    PROVE  ReviewsInv'
<1>1. OneList'
  BY DEF ReviewsInv, OneList
<1>2. ListFollows'
  <2>1. CASE ghost'.old
    BY <2>1 DEF ListFollows
  <2>2. CASE ~ghost'.old /\ \E q \in net' : q.op # "list" /\ q.at = "done"
    BY <2>2 DEF ListFollows
  <2>3. CASE /\ ~ghost'.old /\ db'.rows = db.rows
             /\ \A q \in net : q.op # "list" /\ q.at = "done" => q \in net'
    <3>1. ui'.list = ui.list /\ ~ghost.old
      BY <2>3
    <3>2. Reviews!List.op = "list" /\ \A q \in ReviewsRead : q.op = "list"
      BY ReviewKinds
    <3> QED BY <2>3, <3>1, <3>2 DEF ReviewsInv, ListFollows
  <2> QED BY <2>1, <2>2, <2>3
<1> QED BY <1>1, <1>2 DEF ReviewsInv

\* A request is sent, here or elsewhere.
LEMMA ReviewsAsked ==
    ASSUME ReviewsInv, NEW op \in Moderation, NEW r \in ReviewId, NEW here \in BOOLEAN,
           Reviews!Asks(op, r, here), ui' \in ReviewsScreen, ui'.list = ui.list
    PROVE  ReviewsInv'
<1> DEFINE q == [op |-> op, at |-> "sent", id |-> r, n |-> ghost.acts + 1, here |-> here]
<1>1. /\ ghost.acts < MaxReviewActs /\ ghost' = [ghost EXCEPT !.acts = @ + 1]
      /\ net' = net \cup {q} /\ UNCHANGED db
  BY DEF Reviews!Asks
<1>2. ghost.acts + 1 \in 1..MaxReviewActs /\ ghost.acts + 1 \in 0..MaxReviewActs
  BY <1>1, BoundsAssumption DEF ReviewsInv, ReviewsTyped
<1>3. ghost' \in [acts : 0..MaxReviewActs, old : BOOLEAN] /\ ghost'.old = ghost.old
  BY <1>1, <1>2 DEF ReviewsInv, ReviewsTyped
<1>4. q \in ReviewAsking /\ q.op # "list"
  BY <1>2 DEF ReviewAsking, Moderation
<1>6. q \notin ReviewFound
  BY <1>4, ReviewKinds DEF ReviewAsking, ReviewFound
<1> HIDE DEF q
<1>5. ReviewsTyped'
  BY <1>1, <1>3, <1>4, <1>6 DEF ReviewsInv, ReviewsTyped, ReviewAsked
<1> QED BY <1>1, <1>3, <1>4, <1>5, ReviewsPass

\* A mutation is over.
LEMMA ReviewSettled ==
    ASSUME ReviewsInv, NEW q \in net
    PROVE  Reviews!Settled(q) \in ReviewsScreen /\ Reviews!Settled(q).list = ui.list
<1>1. 0 \in 0..MaxReviewActs
  BY BoundsAssumption
<1> QED BY <1>1 DEF ReviewsInv, ReviewsTyped, ReviewsScreen, Reviews!Settled

\* A handler saves the row.
LEMMA ReviewUpdated ==
    ASSUME ReviewsInv, NEW q \in net, q.at = "read", q.op # "list", NEW row \in Reviews!Row,
           Reviews!UpdateReview(q, row)
    PROVE  ReviewsInv'
<1>1. q \in ReviewFound /\ q.id \in ReviewId /\ q.id \in db.used /\ q.here \in BOOLEAN
  BY ReviewKinds DEF ReviewsInv, ReviewsTyped, ReviewAsked
<1> DEFINE new == [r \in DOMAIN db.rows \cup {q.id} |-> IF r = q.id THEN row ELSE db.rows[r]]
           done == [q EXCEPT !.at = "done"]
<1>2. /\ db' = [db EXCEPT !.rows = new] /\ UNCHANGED ui
      /\ net' = (net \ {q}) \cup (IF ~q.here THEN {} ELSE {done})
      /\ ghost' = [ghost EXCEPT !.old = @ \/ ~q.here]
  BY DEF Reviews!UpdateReview, Reviews!Step
<1>3. new \in Reviews!Rows /\ DOMAIN new = DOMAIN db.rows \cup {q.id}
  <2>1. \A r \in DOMAIN new : new[r] \in Reviews!Row
    BY ReviewRows DEF ReviewsInv, ReviewsTyped
  <2>2. DOMAIN new \in SUBSET ReviewId
    BY <1>1, ReviewRows DEF ReviewsInv, ReviewsTyped
  <2>3. new \in [DOMAIN db.rows \cup {q.id} -> Reviews!Row]
    BY <2>1
  <2>4. DOMAIN db.rows \cup {q.id} \in SUBSET ReviewId
    BY <2>2
  <2> QED BY <2>3, <2>4 DEF Reviews!Rows
<1>4. done \in ReviewFound /\ done.op = q.op /\ done.at = "done" /\ done.id = q.id
  BY <1>1 DEF ReviewFound
<1> HIDE DEF new, done
<1>5. db' \in [rows : Reviews!Rows, used : SUBSET ReviewId] /\ DOMAIN db'.rows \subseteq db'.used
      /\ db'.used = db.used
  BY <1>1, <1>2, <1>3 DEF ReviewsInv, ReviewsTyped
<1>6. ghost' \in [acts : 0..MaxReviewActs, old : BOOLEAN] /\ (ghost'.old <=> ghost.old \/ ~q.here)
  BY <1>1, <1>2 DEF ReviewsInv, ReviewsTyped
<1>7. ReviewsTyped'
  BY <1>1, <1>2, <1>4, <1>5, <1>6 DEF ReviewsInv, ReviewsTyped, ReviewAsked
<1>8. \A p : p.op = "list" => (p \in net' <=> p \in net)
  BY <1>2, <1>4
<1>9. ghost'.old \/ (~ghost.old /\ ui'.list = ui.list /\ \E p \in net' : p.op # "list" /\ p.at = "done")
  <2>1. CASE q.here
    BY <1>2, <1>4, <1>6, <2>1
  <2>2. CASE ~q.here
    BY <1>6, <2>2
  <2> QED BY <2>1, <2>2
<1> QED BY <1>7, <1>8, <1>9, ReviewsPass

\* Every step of the editor, of the gateway, of other administrators and of sellers keeps it.
LEMMA ReviewsNext == ReviewsInv /\ Reviews!Next => ReviewsInv'
<1> SUFFICES ASSUME ReviewsInv, Reviews!Next PROVE ReviewsInv'
  OBVIOUS
<1>0. /\ ui \in ReviewsScreen /\ db \in [rows : Reviews!Rows, used : SUBSET ReviewId] /\ DOMAIN db.rows \subseteq db.used
      /\ \A q \in net : ReviewAsked(q) /\ (q \in ReviewFound => q.id \in db.used)
      /\ ghost \in [acts : 0..MaxReviewActs, old : BOOLEAN]
  BY DEF ReviewsInv, ReviewsTyped
<1>1. ASSUME NEW r \in ReviewId, Reviews!Approve(r) \/ Reviews!Reject(r) \/ Reviews!Elsewhere(r) PROVE ReviewsInv'
  <2>1. "approve" \in Moderation /\ "reject" \in Moderation /\ {"approve", "reject", "edit"} = Moderation
    BY DEF Moderation
  <2>2. ASSUME NEW op \in Moderation, NEW here \in BOOLEAN, Reviews!Asks(op, r, here)
        PROVE  ghost.acts + 1 \in 0..MaxReviewActs
    BY <1>0, <2>2, BoundsAssumption DEF Reviews!Asks
  <2>3. CASE Reviews!Approve(r)
    <3>1. Reviews!Asks("approve", r, TRUE) /\ ui' = [ui EXCEPT !.approving = ghost.acts + 1]
      BY <2>3 DEF Reviews!Approve
    <3>2. ui' \in ReviewsScreen /\ ui'.list = ui.list
      BY <1>0, <2>1, <2>2, <3>1 DEF ReviewsScreen
    <3> QED BY <2>1, <3>1, <3>2, ReviewsAsked
  <2>4. CASE Reviews!Reject(r)
    <3>1. Reviews!Asks("reject", r, TRUE) /\ ui' = [ui EXCEPT !.rejecting = ghost.acts + 1]
      BY <2>4 DEF Reviews!Reject
    <3>2. ui' \in ReviewsScreen /\ ui'.list = ui.list
      BY <1>0, <2>1, <2>2, <3>1 DEF ReviewsScreen
    <3> QED BY <2>1, <3>1, <3>2, ReviewsAsked
  <2>5. CASE Reviews!Elsewhere(r)
    <3>1. PICK op \in Moderation : Reviews!Asks(op, r, FALSE) /\ UNCHANGED ui
      BY <2>1, <2>5 DEF Reviews!Elsewhere
    <3> QED BY <1>0, <3>1, ReviewsAsked
  <2> QED BY <1>1, <2>3, <2>4, <2>5
<1>2. ASSUME NEW r \in ReviewId, Reviews!DeleteReview(r) PROVE ReviewsInv'
  <2> DEFINE new == [s \in DOMAIN db.rows \ {r} |-> db.rows[s]]
  <2>1. /\ db' = [db EXCEPT !.rows = new] /\ UNCHANGED <<ui, net>> /\ ghost.acts < MaxReviewActs
        /\ ghost' = [acts |-> ghost.acts + 1, old |-> TRUE]
    BY <1>2 DEF Reviews!DeleteReview
  <2>2. new \in Reviews!Rows /\ DOMAIN new \subseteq DOMAIN db.rows
    <3>1. /\ DOMAIN db.rows \subseteq ReviewId /\ \A s \in DOMAIN db.rows : db.rows[s] \in Reviews!Row
      BY <1>0, ReviewRows
    <3>2. new \in [DOMAIN db.rows \ {r} -> Reviews!Row] /\ DOMAIN db.rows \ {r} \in SUBSET ReviewId
      BY <3>1
    <3> QED BY <3>2 DEF Reviews!Rows
  <2> HIDE DEF new
  <2>3. ghost.acts + 1 \in 0..MaxReviewActs
    BY <1>0, <2>1, BoundsAssumption
  <2>4. ReviewsTyped'
    BY <1>0, <2>1, <2>2, <2>3 DEF ReviewsTyped
  <2> QED BY <2>1, <2>4, ReviewsPass
<1>3. ASSUME NEW r \in ReviewId, Reviews!SubmitReview(r) PROVE ReviewsInv'
  <2>1. PICK approved \in BOOLEAN :
          db' = [rows |-> [s \in DOMAIN db.rows \cup {r} |->
                             IF s = r THEN Reviews!Submitted(approved) ELSE db.rows[s]],
                 used |-> db.used \cup {r}]
    BY <1>3 DEF Reviews!SubmitReview
  <2>2. ghost' = [ghost EXCEPT !.old = TRUE] /\ UNCHANGED <<ui, net>>
    BY <1>3 DEF Reviews!SubmitReview
  <2> DEFINE new == [s \in DOMAIN db.rows \cup {r} |->
                       IF s = r THEN Reviews!Submitted(approved) ELSE db.rows[s]]
  <2>3. new \in Reviews!Rows /\ DOMAIN new = DOMAIN db.rows \cup {r}
    <3>1. Reviews!Submitted(approved) \in Reviews!Row
      BY DEF Reviews!Submitted, Reviews!Row, Reviews!Status
    <3>2. /\ DOMAIN db.rows \subseteq ReviewId /\ \A s \in DOMAIN db.rows : db.rows[s] \in Reviews!Row
      BY <1>0, ReviewRows
    <3>3. new \in [DOMAIN db.rows \cup {r} -> Reviews!Row] /\ DOMAIN db.rows \cup {r} \in SUBSET ReviewId
      BY <3>1, <3>2
    <3> QED BY <3>3 DEF Reviews!Rows
  <2>4. db' = [rows |-> new, used |-> db.used \cup {r}]
    BY <2>1
  <2> HIDE DEF new
  <2>5. ReviewsTyped'
    BY <1>0, <2>2, <2>3, <2>4 DEF ReviewsTyped
  <2>6. ghost'.old
    BY <1>0, <2>2
  <2> QED BY <2>2, <2>5, <2>6, ReviewsPass
<1>4. ASSUME NEW q \in net, Reviews!OnSuccess(q) PROVE ReviewsInv'
  <2>1. /\ ui' = Reviews!Settled(q) /\ UNCHANGED <<db, ghost>>
        /\ net' = {p \in net \ {q} : p.op # "list"} \cup {Reviews!List}
    BY <1>4 DEF Reviews!OnSuccess
  <2>2. Reviews!List \notin ReviewFound
    BY ReviewKinds
  <2>3. ReviewsTyped'
    BY <1>0, <2>1, <2>2, ReviewSettled DEF ReviewsTyped, ReviewAsked
  <2> QED BY <2>1, <2>3 DEF ReviewsInv, OneList, ListFollows
<1>5. ASSUME NEW q \in net, Reviews!MutationFails(q) PROVE ReviewsInv'
  <2>1. /\ q.op # "list" /\ ui' = Reviews!Settled(q) /\ net' = net \ {q} /\ UNCHANGED db
        /\ q.at \in {"sent", "done", "refused"}
        /\ ghost' = [ghost EXCEPT !.old = @ \/ q.at # "sent"]
    BY <1>5 DEF Reviews!MutationFails
  <2>2. /\ ghost' \in [acts : 0..MaxReviewActs, old : BOOLEAN] /\ (ghost'.old <=> ghost.old \/ q.at # "sent")
    BY <1>0, <2>1
  <2>3. ReviewsTyped' /\ ui'.list = ui.list
    BY <1>0, <2>1, <2>2, ReviewSettled DEF ReviewsTyped
  <2>4. \A p : p.op = "list" => (p \in net' <=> p \in net)
    BY <2>1
  <2>5. ghost'.old \/ \A p \in net : p.op # "list" /\ p.at = "done" => p \in net'
    BY <2>1, <2>2
  <2> QED BY <2>1, <2>2, <2>3, <2>4, <2>5, ReviewsPass
<1>6. ASSUME NEW q \in net, Reviews!Loaded(q) PROVE ReviewsInv'
  <2>1. /\ q.op = "list" /\ q.at = "read" /\ ui' = [ui EXCEPT !.list = q.rows] /\ net' = net \ {q}
        /\ UNCHANGED <<db, ghost>>
    BY <1>6 DEF Reviews!Loaded
  <2>2. q \in ReviewsRead /\ q.rows \in Reviews!Rows /\ q # Reviews!List
    BY <1>0, <2>1, ReviewKinds DEF ReviewAsked
  <2>3. ui' \in ReviewsScreen /\ ui'.list = q.rows
    BY <1>0, <2>1, <2>2 DEF ReviewsScreen
  <2>4. ReviewsTyped'
    BY <1>0, <2>1, <2>3 DEF ReviewsTyped
  <2>5. \A p \in net : p.op = "list" => p = q
    BY <2>1 DEF ReviewsInv, OneList
  <2>6. \A p \in net' : p.op # "list"
    BY <2>1, <2>5
  <2>7. Reviews!List.op = "list" /\ \A p \in ReviewsRead : p.op = "list"
    BY ReviewKinds
  <2>8. ListFollows'
    BY <2>1, <2>2, <2>3, <2>5, <2>6, <2>7 DEF ReviewsInv, ListFollows
  <2> QED BY <2>4, <2>6, <2>8 DEF ReviewsInv, OneList
<1>7. ASSUME NEW q \in net, Reviews!LoadFails(q) PROVE ReviewsInv'
  <2>1. net' = net \ {q} /\ ghost' = [ghost EXCEPT !.old = TRUE] /\ UNCHANGED <<ui, db>>
    BY <1>7 DEF Reviews!LoadFails
  <2>2. ghost' \in [acts : 0..MaxReviewActs, old : BOOLEAN] /\ ghost'.old
    BY <1>0, <2>1
  <2> QED BY <1>0, <2>1, <2>2 DEF ReviewsInv, ReviewsTyped, OneList, ListFollows
<1>8. ASSUME NEW q \in net, Reviews!AdminListReviews(q) PROVE ReviewsInv'
  <2> DEFINE answer == [op |-> "list", at |-> "read", rows |-> db.rows]
  <2>1. /\ q = Reviews!List /\ net' = (net \ {q}) \cup {answer} /\ UNCHANGED <<ui, db>>
        /\ ghost' = [ghost EXCEPT !.old = FALSE]
    BY <1>8 DEF Reviews!AdminListReviews
  <2>2. answer \in ReviewsRead /\ answer.rows = db.rows /\ answer.op = "list"
    BY <1>0 DEF ReviewsRead
  <2> HIDE DEF answer
  <2>3. answer \notin ReviewFound
    BY <2>2, ReviewKinds
  <2>4. ghost' \in [acts : 0..MaxReviewActs, old : BOOLEAN]
    BY <1>0, <2>1
  <2>5. ReviewsTyped'
    BY <1>0, <2>1, <2>2, <2>3, <2>4 DEF ReviewsTyped, ReviewAsked
  <2>6. \A p \in net' : p.op = "list" => p = answer
    BY <2>1, ReviewKinds DEF ReviewsInv, OneList
  <2> QED BY <2>1, <2>2, <2>5, <2>6 DEF ReviewsInv, OneList, ListFollows
<1>9. ASSUME NEW q \in net, Reviews!GetReviewByID(q) PROVE ReviewsInv'
  <2>1. q.op # "list" /\ q.at = "sent" /\ UNCHANGED <<ui, db, ghost>>
    BY <1>9 DEF Reviews!GetReviewByID
  <2>2. q \in ReviewAsking /\ q.op \in Moderation /\ q.id \in ReviewId /\ q.n \in 1..MaxReviewActs /\ q.here \in BOOLEAN
    BY <1>0, <2>1, ReviewKinds DEF ReviewAsked
  <2> DEFINE found == [op |-> q.op, at |-> "read", id |-> q.id, n |-> q.n, here |-> q.here, row |-> db.rows[q.id]]
             refused == [q EXCEPT !.at = "refused"]
  <2>3. ASSUME q.id \in DOMAIN db.rows PROVE found \in ReviewFound /\ found.id \in db.used /\ found.op # "list"
    BY <1>0, <2>2, <2>3, ReviewRows DEF ReviewFound, Moderation
  <2>4. refused \in ReviewAsking /\ refused.op = q.op /\ refused.at = "refused"
    BY <2>2 DEF ReviewAsking
  <2>5. \/ q.id \in DOMAIN db.rows /\ net' = (net \ {q}) \cup {found}
        \/ net' = (net \ {q}) \cup {refused}
        \/ net' = net \ {q}
    BY <1>9 DEF Reviews!GetReviewByID, Reviews!Step
  <2> HIDE DEF found, refused
  <2>6. refused \notin ReviewFound
    BY <2>4, ReviewKinds
  <2>7. ReviewsTyped'
    BY <1>0, <2>1, <2>3, <2>4, <2>5, <2>6 DEF ReviewsTyped, ReviewAsked
  <2>8. \A p : p.op = "list" => (p \in net' <=> p \in net)
    BY <2>1, <2>3, <2>4, <2>5
  <2>9. \A p \in net : p.op # "list" /\ p.at = "done" => p \in net'
    BY <2>1, <2>5
  <2> QED BY <2>1, <2>7, <2>8, <2>9, ReviewsPass
<1>10. ASSUME NEW q \in net, Reviews!ApproveReview(q) \/ Reviews!RejectReview(q) \/ Reviews!AdminEditReview(q)
       PROVE  ReviewsInv'
  <2>1. PICK row \in Reviews!Row : q.op # "list" /\ q.at = "read" /\ Reviews!UpdateReview(q, row)
    <3>1. /\ [status |-> "approved", shown |-> TRUE] \in Reviews!Row
          /\ [status |-> "rejected", shown |-> FALSE] \in Reviews!Row
      BY DEF Reviews!Row, Reviews!Status
    <3>2. CASE Reviews!ApproveReview(q)
      BY <3>1, <3>2 DEF Reviews!ApproveReview
    <3>3. CASE Reviews!RejectReview(q)
      BY <3>1, <3>3 DEF Reviews!RejectReview
    <3>4. CASE Reviews!AdminEditReview(q)
      <4>1. PICK shown \in BOOLEAN : Reviews!UpdateReview(q, [q.row EXCEPT !.shown = shown])
        BY <3>4 DEF Reviews!AdminEditReview
      <4>2. q.op = "edit" /\ q.at = "read"
        BY <3>4 DEF Reviews!AdminEditReview
      <4>3. q.row \in Reviews!Row
        BY <1>0, <4>2, ReviewKinds DEF ReviewAsked
      <4>4. [q.row EXCEPT !.shown = shown] \in Reviews!Row
        BY <4>3 DEF Reviews!Row
      <4> QED BY <4>1, <4>2, <4>4
    <3> QED BY <1>10, <3>2, <3>3, <3>4
  <2> QED BY <2>1, ReviewUpdated
<1> QED BY <1>1, <1>2, <1>3, <1>4, <1>5, <1>6, <1>7, <1>8, <1>9, <1>10 DEF Reviews!Next

\* A review that was decided on stays so until it is decided on again, or a handler
\* writes back the row it had read before.
LEMMA ReviewsKept == ReviewsInv /\ Reviews!Next => Reviews!DecisionIsKept
<1> SUFFICES ASSUME ReviewsInv, Reviews!Next, NEW r \in db.used,
                    Reviews!State(db.rows, r) # "pending", Reviews!State(db.rows, r) # Reviews!State(db'.rows, r),
                    r \in DOMAIN db'.rows
             PROVE  \E q \in net \ net' : /\ q.op # "list" /\ q.at = "read" /\ q.id = r
                                           /\ \/ q.op # "edit" /\ r \in DOMAIN db.rows
                                              \/ r \notin DOMAIN db.rows \/ q.row # db.rows[r]
  BY DEF Reviews!DecisionIsKept
<1>0. /\ db \in [rows : Reviews!Rows, used : SUBSET ReviewId]
      /\ \A q \in net : ReviewAsked(q)
  BY DEF ReviewsInv, ReviewsTyped
<1>1. ASSUME NEW q \in net, NEW row \in Reviews!Row, q.op # "list", q.at = "read", Reviews!UpdateReview(q, row)
      PROVE  q \notin net' /\ q.id = r /\ (r \in DOMAIN db.rows => row.status # db.rows[r].status)
  <2>1. q \in ReviewFound /\ q.here \in BOOLEAN
    BY <1>0, <1>1, ReviewKinds DEF ReviewAsked
  <2>2. [q EXCEPT !.at = "done"].at = "done"
    BY <2>1 DEF ReviewFound
  <2>3. q \notin net'
    BY <1>1, <2>2 DEF Reviews!UpdateReview, Reviews!Step
  <2> DEFINE new == [s \in DOMAIN db.rows \cup {q.id} |-> IF s = q.id THEN row ELSE db.rows[s]]
  <2>4. db'.rows = new
    BY <1>0, <1>1 DEF Reviews!UpdateReview
  <2>5. q.id = r
    BY <2>4 DEF Reviews!State
  <2>6. r \in DOMAIN db.rows => row.status # db.rows[r].status
    BY <2>4, <2>5 DEF Reviews!State
  <2> QED BY <2>3, <2>5, <2>6
<1>2. /\ [status |-> "approved", shown |-> TRUE] \in Reviews!Row
      /\ [status |-> "rejected", shown |-> FALSE] \in Reviews!Row
  BY DEF Reviews!Row, Reviews!Status
<1>3. ASSUME NEW q \in net, Reviews!ApproveReview(q)
      PROVE  q \notin net' /\ q.op = "approve" /\ q.at = "read" /\ q.id = r
  BY <1>1, <1>2, <1>3 DEF Reviews!ApproveReview
<1>4. ASSUME NEW q \in net, Reviews!RejectReview(q)
      PROVE  q \notin net' /\ q.op = "reject" /\ q.at = "read" /\ q.id = r
  BY <1>1, <1>2, <1>4 DEF Reviews!RejectReview
<1>5. ASSUME NEW q \in net, Reviews!AdminEditReview(q)
      PROVE  /\ q \notin net' /\ q.op = "edit" /\ q.at = "read" /\ q.id = r
             /\ r \notin DOMAIN db.rows \/ q.row # db.rows[r]
  <2>1. PICK shown \in BOOLEAN : Reviews!UpdateReview(q, [q.row EXCEPT !.shown = shown])
    BY <1>5 DEF Reviews!AdminEditReview
  <2>2. q.op = "edit" /\ q.at = "read"
    BY <1>5 DEF Reviews!AdminEditReview
  <2>3. q.row \in Reviews!Row
    BY <1>0, <2>2, ReviewKinds DEF ReviewAsked
  <2>4. [q.row EXCEPT !.shown = shown] \in Reviews!Row /\ [q.row EXCEPT !.shown = shown].status = q.row.status
    BY <2>3 DEF Reviews!Row
  <2> QED BY <1>1, <2>1, <2>2, <2>4
<1>6. ASSUME NEW s \in ReviewId, Reviews!SubmitReview(s) PROVE FALSE
  <2>1. s # r
    BY <1>6 DEF Reviews!SubmitReview
  <2>2. PICK approved \in BOOLEAN :
          db'.rows = [x \in DOMAIN db.rows \cup {s} |->
                             IF x = s THEN Reviews!Submitted(approved) ELSE db.rows[x]]
    BY <1>6 DEF Reviews!SubmitReview
  <2> QED BY <2>1, <2>2 DEF Reviews!State
<1>7. ASSUME NEW s \in ReviewId, Reviews!DeleteReview(s) PROVE FALSE
  <2>1. db'.rows = [x \in DOMAIN db.rows \ {s} |-> db.rows[x]]
    BY <1>0, <1>7 DEF Reviews!DeleteReview
  <2> QED BY <2>1 DEF Reviews!State
<1>8. \/ UNCHANGED db
      \/ \E q \in net : Reviews!ApproveReview(q) \/ Reviews!RejectReview(q) \/ Reviews!AdminEditReview(q)
      \/ \E s \in ReviewId : Reviews!SubmitReview(s) \/ Reviews!DeleteReview(s)
  BY DEF Reviews!Next, Reviews!Approve, Reviews!Reject, Reviews!Elsewhere, Reviews!Asks, Reviews!OnSuccess,
     Reviews!MutationFails, Reviews!Loaded, Reviews!LoadFails, Reviews!AdminListReviews, Reviews!GetReviewByID
<1>9. CASE \E q \in net : Reviews!ApproveReview(q) \/ Reviews!RejectReview(q)
  <2>1. PICK q \in net : Reviews!ApproveReview(q) \/ Reviews!RejectReview(q)
    BY <1>9
  <2>2. q \notin net' /\ q.op \in {"approve", "reject"} /\ q.at = "read" /\ q.id = r
    BY <1>3, <1>4, <2>1
  <2> QED BY <2>2
<1> QED BY <1>5, <1>6, <1>7, <1>8, <1>9

---------------------------------------------------------------------------
(* Rules *)

RulesScreen ==
    [path : {"/shops/rules", "/admin/rules"}, rules : Rules!Rows, open : BOOLEAN,
     editing : Rule \cup {NoRule}, saving : BOOLEAN]
RuleSave == [op : {"save"}, id : Rule \cup {NoRule}]
RuleChange ==
    [op : {"toggle", "delete"}, id : Rule, active : BOOLEAN, list : Rules!Rows, at : {"sent", "answered"}]
RuleAsked(q) == q = Rules!List \/ q \in RuleSave \/ (q \in RuleChange /\ q.id \in DOMAIN q.list)

RulesTyped ==
    /\ ui \in RulesScreen
    /\ db \in [rows : Rules!Rows, used : SUBSET Rule]
    /\ \A q \in net : RuleAsked(q)
    /\ ghost \in [acts : 0..MaxRuleActs, old : BOOLEAN]

\* Unless the list may be old, one request at most is under way: the list itself, or
\* one that was sent when the list was true, with the list it was sent from.
OneAtATime ==
    ~ghost.old =>
        \/ net = {Rules!List}
        \/ net = {} /\ ui.rules = db.rows
        \/ \E q \in RuleSave : net = {q} /\ ui.rules = db.rows
        \/ \E q \in RuleChange :
              /\ net = {q}
              /\ \/ q.at = "sent" /\ ui.rules = q.list /\ db.rows = q.list
                 \/ q.at = "answered" /\ db.rows = Rules!Changed(q, q.list)

RulesInv == RulesTyped /\ OneAtATime

LEMMA RuleKinds ==
    /\ Rules!List.op = "list"
    /\ \A q \in RuleSave : q.op = "save" /\ q.id \in Rule \cup {NoRule}
    /\ \A q \in RuleChange : q.op \in {"toggle", "delete"} /\ q.id \in Rule /\ q.list \in Rules!Rows
                              /\ q.at \in {"sent", "answered"} /\ q.active \in BOOLEAN
<1>1. Rules!List.op = "list"
  BY DEF Rules!List
<1>2. \A q \in RuleSave : q.op = "save" /\ q.id \in Rule \cup {NoRule}
  BY DEF RuleSave
<1>3. \A q \in RuleChange : q.op \in {"toggle", "delete"} /\ q.id \in Rule /\ q.list \in Rules!Rows
                            /\ q.at \in {"sent", "answered"} /\ q.active \in BOOLEAN
  BY DEF RuleChange
<1> QED BY <1>1, <1>2, <1>3

LEMMA RulesSuffice == RulesInv => Rules!TypeOK /\ Rules!ListIsTrue
<1>1. \A q : RuleAsked(q) => q.op \in {"list", "toggle", "delete", "save"}
  BY RuleKinds DEF RuleAsked
<1>2. RulesTyped => Rules!TypeOK
  BY <1>1 DEF RulesTyped, Rules!TypeOK, RulesScreen
<1>3. OneAtATime => Rules!ListIsTrue
  BY DEF OneAtATime, Rules!ListIsTrue
<1> QED BY <1>2, <1>3 DEF RulesInv

\* Rows that are removed, added or changed one at a time.
LEMMA RuleRows ==
    /\ Rules!NoRows \in Rules!Rows /\ Rules!NewRow \in Rules!Row
    /\ \A rows \in Rules!Rows : DOMAIN rows \subseteq Rule /\ \A r \in DOMAIN rows : rows[r] \in Rules!Row
    /\ \A s \in SUBSET Rule : [s -> Rules!Row] \subseteq Rules!Rows
<1>1. Rules!NewRow \in Rules!Row
  BY DEF Rules!NewRow, Rules!Row
<1>2. \A s \in SUBSET Rule : [s -> Rules!Row] \subseteq Rules!Rows
  BY DEF Rules!Rows
<1>3. \A rows \in Rules!Rows : DOMAIN rows \subseteq Rule /\ \A r \in DOMAIN rows : rows[r] \in Rules!Row
  BY DEF Rules!Rows
<1>4. Rules!NoRows \in [{} -> Rules!Row] /\ {} \in SUBSET Rule
  BY DEF Rules!NoRows
<1> QED BY <1>1, <1>2, <1>3, <1>4

LEMMA RuleChanged ==
    ASSUME NEW q \in RuleChange, NEW rows \in Rules!Rows, q.id \in DOMAIN rows
    PROVE  Rules!Changed(q, rows) \in Rules!Rows
<1>1. /\ DOMAIN rows \subseteq Rule /\ \A r \in DOMAIN rows : rows[r] \in Rules!Row
      /\ q.active \in BOOLEAN
  BY RuleKinds, RuleRows
<1>2. CASE q.op = "delete"
  <2>1. Rules!Changed(q, rows) \in [DOMAIN rows \ {q.id} -> Rules!Row] /\ DOMAIN rows \ {q.id} \in SUBSET Rule
    BY <1>1, <1>2 DEF Rules!Changed
  <2> QED BY <2>1, RuleRows
<1>3. CASE q.op # "delete"
  <2>1. [rows[q.id] EXCEPT !.active = q.active] \in Rules!Row
    BY <1>1 DEF Rules!Row
  <2>2. rows \in [DOMAIN rows -> Rules!Row]
    BY <1>1 DEF Rules!Rows
  <2>3. Rules!Changed(q, rows) = [rows EXCEPT ![q.id] = [rows[q.id] EXCEPT !.active = q.active]]
    BY <1>3 DEF Rules!Changed
  <2>4. Rules!Changed(q, rows) \in [DOMAIN rows -> Rules!Row] /\ DOMAIN rows \in SUBSET Rule
    BY <1>1, <2>1, <2>2, <2>3
  <2> QED BY <2>4, RuleRows
<1> QED BY <1>2, <1>3

LEMMA RulesStart == Rules!Init => RulesInv
<1> SUFFICES ASSUME Rules!Init PROVE RulesInv
  OBVIOUS
<1>1. 0 \in 0..MaxRuleActs
  BY BoundsAssumption
<1>2. PICK s \in SUBSET Rule : db = [rows |-> [r \in s |-> Rules!NewRow], used |-> s]
  BY DEF Rules!Init
<1>3. [r \in s |-> Rules!NewRow] \in [s -> Rules!Row]
  BY RuleRows
<1>4. db \in [rows : Rules!Rows, used : SUBSET Rule]
  BY <1>2, <1>3, RuleRows
<1>5. ui \in RulesScreen
  BY RuleRows DEF Rules!Init, RulesScreen
<1>6. net = {Rules!List} /\ ghost = [acts |-> 0, old |-> FALSE]
  BY DEF Rules!Init
<1> QED BY <1>1, <1>4, <1>5, <1>6 DEF RulesInv, RulesTyped, RuleAsked, OneAtATime

\* Something changes on the screen but the list.
LEMMA RulesLocal ==
    ASSUME RulesInv, ui' \in RulesScreen, ui'.rules = ui.rules, UNCHANGED <<net, db, ghost>>
    PROVE  RulesInv'
  BY DEF RulesInv, RulesTyped, OneAtATime

\* A request is sent.
LEMMA RulesSent ==
    ASSUME RulesInv, NEW new \in RulesScreen, NEW q, new.rules = ui.rules, Rules!Acts(new, q),
           \/ q \in RuleSave
           \/ q \in RuleChange /\ q.at = "sent" /\ q.list = ui.rules /\ q.id \in DOMAIN q.list
    PROVE  RulesInv'
<1>1. /\ ghost.acts < MaxRuleActs /\ ghost' = [acts |-> ghost.acts + 1, old |-> ghost.old \/ net # {}]
      /\ ui' = new /\ net' = net \cup {q} /\ UNCHANGED db
  BY DEF Rules!Acts
<1>2. ghost.acts + 1 \in 0..MaxRuleActs /\ ghost.old \in BOOLEAN
  BY <1>1, BoundsAssumption DEF RulesInv, RulesTyped
<1>3. ghost' \in [acts : 0..MaxRuleActs, old : BOOLEAN] /\ (ghost'.old <=> ghost.old \/ net # {})
  BY <1>1, <1>2
<1>4. RulesTyped'
  BY <1>1, <1>3 DEF RulesInv, RulesTyped, RuleAsked
<1>5. OneAtATime'
  <2> SUFFICES ASSUME ~ghost.old, net = {} PROVE OneAtATime'
    BY <1>3 DEF OneAtATime
  <2>1. ui.rules = db.rows
    BY DEF RulesInv, OneAtATime
  <2> QED BY <1>1, <2>1 DEF OneAtATime
<1> QED BY <1>4, <1>5 DEF RulesInv

\* Every step of the page and of the gateway keeps it.
LEMMA RulesNext == RulesInv /\ Rules!Next => RulesInv'
<1> SUFFICES ASSUME RulesInv, Rules!Next PROVE RulesInv'
  OBVIOUS
<1>0. /\ ui \in RulesScreen /\ db \in [rows : Rules!Rows, used : SUBSET Rule]
      /\ \A q \in net : RuleAsked(q)
      /\ ghost \in [acts : 0..MaxRuleActs, old : BOOLEAN]
  BY DEF RulesInv, RulesTyped
<1>1. ASSUME NEW r \in Rule \cup {NoRule}, Rules!OpenModal(r) PROVE RulesInv'
  <2>1. ui' = [ui EXCEPT !.open = TRUE, !.editing = r] /\ UNCHANGED <<net, db, ghost>>
    BY <1>1 DEF Rules!OpenModal, Rules!Local
  <2>2. ui' \in RulesScreen /\ ui'.rules = ui.rules
    BY <1>0, <2>1 DEF RulesScreen
  <2> QED BY <2>1, <2>2, RulesLocal
<1>2. ASSUME Rules!CloseModal PROVE RulesInv'
  <2>1. ui' = [ui EXCEPT !.open = FALSE] /\ UNCHANGED <<net, db, ghost>>
    BY <1>2 DEF Rules!CloseModal, Rules!Local
  <2>2. ui' \in RulesScreen /\ ui'.rules = ui.rules
    BY <1>0, <2>1 DEF RulesScreen
  <2> QED BY <2>1, <2>2, RulesLocal
<1>3. ASSUME Rules!HandleSave PROVE RulesInv'
  <2> DEFINE new == [ui EXCEPT !.saving = TRUE]
             q == [op |-> "save", id |-> ui.editing]
  <2>1. Rules!Acts(new, q)
    BY <1>3 DEF Rules!HandleSave
  <2>2. new \in RulesScreen /\ new.rules = ui.rules
    BY <1>0 DEF RulesScreen
  <2>3. q \in RuleSave
    BY <1>0 DEF RulesScreen, RuleSave
  <2> HIDE DEF new, q
  <2> QED BY <2>1, <2>2, <2>3, RulesSent
<1>4. ASSUME NEW r \in Rule, NEW op \in {"toggle", "delete"}, Rules!Offered(r), Rules!Acts(ui, Rules!Change(op, r))
      PROVE  RulesInv'
  <2>1. r \in DOMAIN ui.rules /\ ui.rules \in Rules!Rows
    BY <1>0, <1>4 DEF Rules!Offered, RulesScreen
  <2>2. /\ Rules!Change(op, r) \in RuleChange /\ Rules!Change(op, r).at = "sent"
        /\ Rules!Change(op, r).list = ui.rules /\ Rules!Change(op, r).id = r
    BY <2>1 DEF Rules!Change, RuleChange
  <2> QED BY <1>0, <1>4, <2>1, <2>2, RulesSent
<1>5. ASSUME Rules!FetchRules PROVE RulesInv'
  <2>1. Rules!List \in net /\ net' = net \ {Rules!List} /\ UNCHANGED db
    BY <1>5 DEF Rules!FetchRules
  <2>2. CASE ui' = [ui EXCEPT !.rules = db.rows] /\ ghost' = [ghost EXCEPT !.old = ghost.old /\ net # {Rules!List}]
    <3>1. ui' \in RulesScreen /\ ui'.rules = db.rows
      BY <1>0, <2>2 DEF RulesScreen
    <3>2. ghost' \in [acts : 0..MaxRuleActs, old : BOOLEAN] /\ (ghost'.old <=> ghost.old /\ net # {Rules!List})
      BY <1>0, <2>2
    <3>3. ~ghost'.old => net = {Rules!List}
      <4>1. \A q \in RuleSave \cup RuleChange : q # Rules!List
        BY RuleKinds
      <4> QED BY <2>1, <3>2, <4>1 DEF RulesInv, OneAtATime
    <3> QED BY <1>0, <2>1, <3>1, <3>2, <3>3 DEF RulesInv, RulesTyped, OneAtATime
  <2>3. CASE UNCHANGED ui /\ ghost' = [ghost EXCEPT !.old = TRUE]
    <3>1. ghost' \in [acts : 0..MaxRuleActs, old : BOOLEAN] /\ ghost'.old
      BY <1>0, <2>3
    <3> QED BY <1>0, <2>1, <2>3, <3>1 DEF RulesInv, RulesTyped, OneAtATime
  <2> QED BY <1>5, <2>2, <2>3 DEF Rules!FetchRules
<1>6. ASSUME NEW q \in net, Rules!Saved(q) PROVE RulesInv'
  <2>1. /\ q.op = "save" /\ ui' = [ui EXCEPT !.open = FALSE, !.saving = FALSE]
        /\ net' = (net \ {q}) \cup {Rules!List} /\ UNCHANGED ghost
    BY <1>6 DEF Rules!Saved
  <2>2. q \in RuleSave
    BY <1>0, <2>1, RuleKinds DEF RuleAsked
  <2>3. ui' \in RulesScreen
    BY <1>0, <2>1 DEF RulesScreen
  <2>4. db.rows \in Rules!Rows /\ DOMAIN db.rows \subseteq Rule /\ db.used \in SUBSET Rule
    BY <1>0, RuleRows
  <2>5. PICK rows \in Rules!Rows : db' = Rules!Write(rows)
    <3>1. ASSUME NEW r \in Rule
          PROVE  [s \in DOMAIN db.rows \cup {r} |-> IF s = r THEN Rules!NewRow ELSE db.rows[s]] \in Rules!Rows
      <4>1. [s \in DOMAIN db.rows \cup {r} |-> IF s = r THEN Rules!NewRow ELSE db.rows[s]]
              \in [DOMAIN db.rows \cup {r} -> Rules!Row]
        BY <2>4, RuleRows
      <4>2. DOMAIN db.rows \cup {r} \in SUBSET Rule
        BY <2>4
      <4> QED BY <4>1, <4>2, RuleRows
    <3>2. ASSUME q.id \in DOMAIN db.rows
          PROVE  [db.rows EXCEPT ![q.id].edited = TRUE] \in Rules!Rows
      <4>1. [db.rows[q.id] EXCEPT !.edited = TRUE] \in Rules!Row
        BY <2>4, <3>2, RuleRows DEF Rules!Row
      <4>2. db.rows \in [DOMAIN db.rows -> Rules!Row] /\ DOMAIN db.rows \in SUBSET Rule
        BY <2>4 DEF Rules!Rows
      <4>3. [db.rows EXCEPT ![q.id].edited = TRUE] \in [DOMAIN db.rows -> Rules!Row]
        BY <4>1, <4>2
      <4> QED BY <4>2, <4>3, RuleRows
    <3> QED BY <1>6, <3>1, <3>2 DEF Rules!Saved
  <2>6. db' \in [rows : Rules!Rows, used : SUBSET Rule]
    BY <2>4, <2>5, RuleRows DEF Rules!Write
  <2>7. RulesTyped'
    BY <1>0, <2>1, <2>3, <2>6 DEF RulesTyped, RuleAsked
  <2>8. ~ghost.old => net' = {Rules!List}
    <3>1. ~ghost.old => net = {q}
      BY <2>1, RuleKinds DEF RulesInv, OneAtATime
    <3> QED BY <2>1, <3>1
  <2> QED BY <2>1, <2>7, <2>8 DEF RulesInv, OneAtATime
<1>7. ASSUME NEW q \in net, Rules!SaveFails(q) PROVE RulesInv'
  <2>1. q.op = "save" /\ ui' = [ui EXCEPT !.saving = FALSE] /\ net' = net \ {q} /\ UNCHANGED <<db, ghost>>
    BY <1>7 DEF Rules!SaveFails
  <2>2. ui' \in RulesScreen /\ ui'.rules = ui.rules
    BY <1>0, <2>1 DEF RulesScreen
  <2>3. ~ghost.old => net = {q} /\ ui.rules = db.rows
    BY <2>1, RuleKinds DEF RulesInv, OneAtATime
  <2> QED BY <1>0, <2>1, <2>2, <2>3 DEF RulesInv, RulesTyped, OneAtATime
<1>8. ASSUME NEW q \in net, Rules!Serve(q) PROVE RulesInv'
  <2> DEFINE r == [q EXCEPT !.at = "answered"]
  <2>1. /\ q.op \in {"toggle", "delete"} /\ q.at = "sent" /\ UNCHANGED <<ui, ghost>>
        /\ net' = (net \ {q}) \cup {r}
        /\ db' = IF q.id \in DOMAIN db.rows THEN Rules!Write(Rules!Changed(q, db.rows)) ELSE db
    BY <1>8 DEF Rules!Serve
  <2>2. q \in RuleChange /\ q.id \in Rule /\ q.active \in BOOLEAN /\ q.id \in DOMAIN q.list
    BY <1>0, <2>1, RuleKinds DEF RuleAsked
  <2>3. /\ r \in RuleChange /\ r.at = "answered" /\ r.op = q.op /\ r.id = q.id
        /\ r.list = q.list /\ r.active = q.active
    BY <2>2 DEF RuleChange
  <2> HIDE DEF r
  <2>4. db.rows \in Rules!Rows /\ DOMAIN db.rows \subseteq Rule /\ db.used \in SUBSET Rule
    BY <1>0, RuleRows
  <2>5. db' \in [rows : Rules!Rows, used : SUBSET Rule]
    <3>1. CASE q.id \in DOMAIN db.rows
      <4>1. Rules!Changed(q, db.rows) \in Rules!Rows
        BY <2>2, <2>4, <3>1, RuleChanged
      <4> QED BY <2>1, <2>4, <3>1, <4>1, RuleRows DEF Rules!Write
    <3> QED BY <1>0, <2>1, <3>1
  <2>6. RulesTyped'
    BY <1>0, <2>1, <2>2, <2>3, <2>5 DEF RulesTyped, RuleAsked
  <2>7. OneAtATime'
    <3> SUFFICES ASSUME ~ghost.old
                 PROVE  net' = {r} /\ db'.rows = Rules!Changed(r, r.list)
      BY <2>1, <2>3 DEF OneAtATime
    <3>1. net = {q} /\ db.rows = q.list
      BY <2>1, RuleKinds DEF RulesInv, OneAtATime
    <3>2. db'.rows = Rules!Changed(q, q.list)
      BY <2>1, <2>2, <3>1 DEF Rules!Write
    <3>3. Rules!Changed(q, q.list) = Rules!Changed(r, r.list)
      BY <2>3 DEF Rules!Changed
    <3> QED BY <2>1, <2>3, <2>2, <3>1, <3>2, <3>3
  <2> QED BY <2>6, <2>7 DEF RulesInv
<1>9. ASSUME NEW q \in net, Rules!Answered(q) PROVE RulesInv'
  <2>1. /\ q.op \in {"toggle", "delete"} /\ q.at = "answered" /\ UNCHANGED <<db, ghost>>
        /\ ui' = [ui EXCEPT !.rules = Rules!Changed(q, q.list)] /\ net' = net \ {q}
    BY <1>9 DEF Rules!Answered
  <2>2. q \in RuleChange /\ q.id \in DOMAIN q.list /\ Rules!Changed(q, q.list) \in Rules!Rows
    <3>1. q \in RuleChange /\ q.id \in DOMAIN q.list
      BY <1>0, <2>1, RuleKinds DEF RuleAsked
    <3> QED BY <3>1, RuleKinds, RuleChanged
  <2>3. ~ghost.old => net = {q} /\ db.rows = Rules!Changed(q, q.list)
    BY <2>1, RuleKinds DEF RulesInv, OneAtATime
  <2>4. ui' \in RulesScreen /\ ui'.rules = Rules!Changed(q, q.list)
    BY <1>0, <2>1, <2>2 DEF RulesScreen
  <2> QED BY <1>0, <2>1, <2>3, <2>4 DEF RulesInv, RulesTyped, OneAtATime
<1>10. ASSUME NEW q \in net, Rules!Fails(q) PROVE RulesInv'
  <2>1. /\ q.op \in {"toggle", "delete"} /\ net' = net \ {q} /\ UNCHANGED <<ui, db>>
        /\ ghost' = [ghost EXCEPT !.old = ghost.old \/ q.at = "answered"]
    BY <1>10 DEF Rules!Fails
  <2>2. /\ ghost' \in [acts : 0..MaxRuleActs, old : BOOLEAN] /\ (ghost'.old <=> ghost.old \/ q.at = "answered")
    BY <1>0, <2>1
  <2>3. ~ghost'.old => net = {q} /\ ui.rules = db.rows
    BY <2>1, <2>2, RuleKinds DEF RulesInv, OneAtATime
  <2> QED BY <1>0, <2>1, <2>2, <2>3 DEF RulesInv, RulesTyped, OneAtATime
<1>11. ASSUME Rules!Handlers PROVE RulesInv'
  BY <1>1, <1>2, <1>3, <1>4, <1>11 DEF Rules!Handlers, Rules!HandleToggle, Rules!HandleDelete
<1> QED BY <1>5, <1>6, <1>7, <1>8, <1>9, <1>10, <1>11 DEF Rules!Next, Rules!ShopRulesPage, Rules!AdminRulesPage

---------------------------------------------------------------------------
(* Conversations *)

Threads == UNION {[s -> Conversations!Thread] : s \in SUBSET Conv}
ConvScreen ==
    [threads : Threads, tab : Tab, selected : Conversations!MaybeConv, mode : Conversations!Mode,
     messages : SUBSET Conv, reply : Conversations!MaybeConv, sending : BOOLEAN, form : Conversations!Form]
ThreadsAsked == [op : {"threads"}]
ThreadAsked == [op : {"open"}, conv : Conv, unread : BOOLEAN]
ModeAsked == [op : {"mode"}, conv : Conv, mode : Conversations!Mode, at : {"sent", "answered"}]
ReplySent == [op : {"send"}, conv : Conv]
CatalogAsked == [op : {"catalog"}]
OrderByHand ==
    [op : {"order"}, name : Conversations!MaybeConv, typed : Conversations!MaybeConv,
     items : Conversations!MaybeConv, customer : Conversations!MaybeConv]
ConvAsked(q) ==
    \/ q \in ThreadsAsked \/ q \in ThreadAsked \/ q \in ModeAsked
    \/ q \in ReplySent \/ q \in CatalogAsked \/ q \in OrderByHand

ConvTyped ==
    /\ ui \in ConvScreen /\ (ui.selected # NoConv => ui.selected \in DOMAIN ui.threads)
    /\ db \in [Conv -> Conversations!Mode]
    /\ \A q \in net : ConvAsked(q) /\ (q.op = "mode" => q.conv \in DOMAIN ui.threads)
    /\ ghost \in [acts : 0..MaxConvActs, unsure : SUBSET Conv, kept : BOOLEAN]

\* Of a conversation that is not unsure one change of mode at most is under way; one
\* that was carried out is the gateway's mode, and what is shown is it otherwise.
ModeFollows ==
    \A c \in Conv \ ghost.unsure :
        /\ \A p, q \in net : p.op = "mode" /\ q.op = "mode" /\ p.conv = c /\ q.conv = c => p = q
        /\ \A q \in net : q.op = "mode" /\ q.conv = c /\ q.at = "answered" => q.mode = db[c]
        /\ c \in DOMAIN ui.threads /\ (\A q \in net : q.op = "mode" /\ q.conv = c => q.at = "sent")
              => ui.threads[c].mode = db[c] /\ (ui.selected = c => ui.mode = db[c])

\* Unless a form was kept, the one that is open is the selected customer's, a closed
\* one is empty, and the orders that were sent are their customers'.
OwnForm ==
    ~ghost.kept =>
        /\ ui.form.open => /\ ui.form.name = ui.selected
                           /\ ui.form.typed \in {NoConv, ui.selected} /\ ui.form.items \in {NoConv, ui.selected}
        /\ ~ui.form.open => ui.form.typed = NoConv /\ ui.form.items = NoConv
        /\ \A q \in net : q.op = "order" => q.typed = q.name /\ q.items = q.name

ConvInv == ConvTyped /\ ModeFollows /\ OwnForm

LEMMA ConvKinds ==
    /\ \A q \in ThreadsAsked : q.op = "threads"
    /\ \A q \in ThreadAsked : q.op = "open" /\ q.conv \in Conv /\ q.unread \in BOOLEAN
    /\ \A q \in ModeAsked : q.op = "mode" /\ q.conv \in Conv /\ q.mode \in Conversations!Mode
                            /\ q.at \in {"sent", "answered"}
    /\ \A q \in ReplySent : q.op = "send" /\ q.conv \in Conv
    /\ \A q \in CatalogAsked : q.op = "catalog"
    /\ \A q \in OrderByHand : q.op = "order" /\ q.customer \in Conversations!MaybeConv
<1>1. \A q \in ThreadsAsked : q.op = "threads"
  BY DEF ThreadsAsked
<1>2. \A q \in ThreadAsked : q.op = "open" /\ q.conv \in Conv /\ q.unread \in BOOLEAN
  BY DEF ThreadAsked
<1>3. \A q \in ModeAsked : q.op = "mode" /\ q.conv \in Conv /\ q.mode \in Conversations!Mode
                            /\ q.at \in {"sent", "answered"}
  BY DEF ModeAsked
<1>4. \A q \in ReplySent : q.op = "send" /\ q.conv \in Conv
  BY DEF ReplySent
<1>5. \A q \in CatalogAsked : q.op = "catalog"
  BY DEF CatalogAsked
<1>6. \A q \in OrderByHand : q.op = "order" /\ q.customer \in Conversations!MaybeConv
  BY DEF OrderByHand
<1> QED BY <1>1, <1>2, <1>3, <1>4, <1>5, <1>6

\* A request is of the kind its operation says.
LEMMA ConvKind ==
    ASSUME NEW q, ConvAsked(q)
    PROVE  /\ q.op \in {"threads", "open", "mode", "send", "catalog", "order"}
           /\ q.op = "open" => q \in ThreadAsked
           /\ q.op = "mode" => q \in ModeAsked
           /\ q.op = "send" => q \in ReplySent
           /\ q.op = "order" => q \in OrderByHand
  BY ConvKinds DEF ConvAsked

LEMMA ConvSuffices ==
    ConvInv => Conversations!TypeOK /\ Conversations!ModeIsTrue /\ Conversations!OrderIsTheCustomers
<1>1. ConvTyped => Conversations!TypeOK
  BY ConvKind DEF ConvTyped, Conversations!TypeOK, ConvScreen, Threads
<1>2. ASSUME ConvTyped, ModeFollows PROVE Conversations!ModeIsTrue
  <2>1. DOMAIN ui.threads \subseteq Conv
    BY <1>2 DEF ConvTyped, ConvScreen, Threads
  <2> QED BY <1>2, <2>1 DEF ModeFollows, Conversations!ModeIsTrue, Conversations!Toggling
<1>3. OwnForm => Conversations!OrderIsTheCustomers
  BY DEF OwnForm, Conversations!OrderIsTheCustomers
<1> QED BY <1>1, <1>2, <1>3 DEF ConvInv

LEMMA ConvStart == Conversations!Init => ConvInv
<1> SUFFICES ASSUME Conversations!Init PROVE ConvInv
  OBVIOUS
<1> DEFINE none == [c \in {} |-> NoConv]
<1>1. /\ db \in [Conv -> Conversations!Mode]
      /\ ui = [threads |-> none, tab |-> "all", selected |-> NoConv,
               mode |-> "ai", messages |-> {}, reply |-> NoConv, sending |-> FALSE,
               form |-> Conversations!EmptyForm]
      /\ net = {[op |-> "threads"]} /\ ghost = [acts |-> 0, unsure |-> {}, kept |-> FALSE]
  BY DEF Conversations!Init
<1>2. none \in [{} -> Conversations!Thread] /\ {} \in SUBSET Conv /\ DOMAIN none = {}
  OBVIOUS
<1>3. none \in Threads
  BY <1>2 DEF Threads
<1> HIDE DEF none
<1>4. Conversations!EmptyForm \in Conversations!Form
  BY DEF Conversations!EmptyForm, Conversations!Form, Conversations!MaybeConv
<1>5. ui \in ConvScreen
  BY <1>1, <1>3, <1>4, ConversationsAssumption DEF ConvScreen, Conversations!MaybeConv, Conversations!Mode
<1>6. 0 \in 0..MaxConvActs
  BY BoundsAssumption
<1>7. ghost \in [acts : 0..MaxConvActs, unsure : SUBSET Conv, kept : BOOLEAN]
  BY <1>1, <1>6
<1>8. [op |-> "threads"] \in ThreadsAsked
  BY DEF ThreadsAsked
<1>9. \A q \in net : ConvAsked(q) /\ q.op = "threads"
  BY <1>1, <1>8 DEF ConvAsked
<1>10. ConvTyped
  BY <1>1, <1>5, <1>7, <1>9 DEF ConvTyped
<1>11. ModeFollows
  BY <1>1, <1>2, <1>9 DEF ModeFollows
<1>12. OwnForm
  BY <1>1, <1>9 DEF OwnForm, Conversations!EmptyForm
<1> QED BY <1>10, <1>11, <1>12 DEF ConvInv

\* The modes are as they were, under way, in the gateway and on the screen.
ModesAsTheyWere ==
    /\ \A q : q.op = "mode" => (q \in net' <=> q \in net)
    /\ db' = db /\ ghost'.unsure = ghost.unsure
    /\ DOMAIN ui'.threads = DOMAIN ui.threads
    /\ \A c \in DOMAIN ui.threads : ui'.threads[c].mode = ui.threads[c].mode
    /\ ui'.selected = ui.selected /\ ui'.mode = ui.mode
LEMMA ModeKept == ModeFollows /\ ModesAsTheyWere => ModeFollows'
  BY DEF ModeFollows, ModesAsTheyWere

\* The seller does something, or an answer comes, that changes no mode and no form.
LEMMA ConvPasses ==
    ASSUME ConvInv, ui' \in ConvScreen, ModesAsTheyWere, ui'.form = ui.form,
           \A q \in net' : q \in net \/ (ConvAsked(q) /\ q.op # "order"),
           ghost' \in [acts : 0..MaxConvActs, unsure : SUBSET Conv, kept : BOOLEAN], ghost'.kept = ghost.kept
    PROVE  ConvInv'
<1>1. ModeFollows'
  BY ModeKept DEF ConvInv
<1>2. OwnForm'
  BY DEF ConvInv, OwnForm, ModesAsTheyWere
<1>3. ConvTyped'
  BY DEF ConvInv, ConvTyped, ModesAsTheyWere
<1> QED BY <1>1, <1>2, <1>3 DEF ConvInv

\* The form is changed, and nothing else.
LEMMA ConvForms ==
    ASSUME ConvInv, NEW form \in Conversations!Form, ui' = [ui EXCEPT !.form = form],
           \A q : q.op = "mode" => (q \in net' <=> q \in net), db' = db,
           \A q \in net' : q \in net \/ ConvAsked(q),
           ghost' \in [acts : 0..MaxConvActs, unsure : SUBSET Conv, kept : BOOLEAN], ghost'.unsure = ghost.unsure,
           OwnForm'
    PROVE  ConvInv'
<1>1. /\ ui' \in ConvScreen /\ ui'.threads = ui.threads /\ ui'.selected = ui.selected /\ ui'.mode = ui.mode
  BY DEF ConvInv, ConvTyped, ConvScreen
<1>2. ModeFollows'
  BY <1>1, ModeKept DEF ConvInv, ModesAsTheyWere
<1>3. ConvTyped'
  BY <1>1 DEF ConvInv, ConvTyped
<1> QED BY <1>2, <1>3 DEF ConvInv

LEMMA ConvCounted ==
    ASSUME ConvInv, NEW new, NEW qs, NEW g, Conversations!Acts(new, qs, g),
           g \in [acts : 0..MaxConvActs, unsure : SUBSET Conv, kept : BOOLEAN], g.acts = ghost.acts
    PROVE  /\ ghost' \in [acts : 0..MaxConvActs, unsure : SUBSET Conv, kept : BOOLEAN]
           /\ ghost'.unsure = g.unsure /\ ghost'.kept = g.kept
           /\ ui' = new /\ net' = net \cup qs /\ UNCHANGED db
<1>1. ghost.acts < MaxConvActs /\ ghost' = [g EXCEPT !.acts = ghost.acts + 1]
      /\ ui' = new /\ net' = net \cup qs /\ UNCHANGED db
  BY DEF Conversations!Acts
<1>2. ghost.acts + 1 \in 0..MaxConvActs
  BY <1>1, BoundsAssumption DEF ConvInv, ConvTyped
<1> QED BY <1>1, <1>2

\* A change of mode is asked for.
LEMMA ConvToggles == ConvInv /\ Conversations!ToggleMode => ConvInv'
<1> SUFFICES ASSUME ConvInv, Conversations!ToggleMode PROVE ConvInv'
  OBVIOUS
<1> DEFINE c == ui.selected
           q == Conversations!Toggle(c)
           g == Conversations!TwoToggles(c)
<1>1. c # NoConv /\ Conversations!Acts(ui, {q}, g)
  BY DEF Conversations!ToggleMode, Conversations!InThread
<1>2. c \in Conv /\ c \in DOMAIN ui.threads
  BY <1>1 DEF ConvInv, ConvTyped, ConvScreen, Conversations!MaybeConv
<1>3. q \in ModeAsked /\ q.op = "mode" /\ q.conv = c /\ q.at = "sent"
  BY <1>2 DEF Conversations!Toggle, Conversations!Other, Conversations!Mode, ModeAsked
<1>4. /\ g \in [acts : 0..MaxConvActs, unsure : SUBSET Conv, kept : BOOLEAN] /\ g.acts = ghost.acts
      /\ g.unsure = (IF Conversations!Toggling(c) THEN ghost.unsure \cup {c} ELSE ghost.unsure)
      /\ g.kept = ghost.kept
  BY <1>2 DEF Conversations!TwoToggles, ConvInv, ConvTyped
<1> HIDE DEF q, g, c
<1>5. /\ ghost' \in [acts : 0..MaxConvActs, unsure : SUBSET Conv, kept : BOOLEAN]
      /\ ghost'.unsure = g.unsure /\ ghost'.kept = ghost.kept
      /\ ui' = ui /\ net' = net \cup {q} /\ UNCHANGED db
  BY <1>1, <1>4, ConvCounted
<1>6. ConvTyped'
  BY <1>2, <1>3, <1>5 DEF ConvInv, ConvTyped, ConvAsked
<1>7. OwnForm'
  BY <1>3, <1>5 DEF ConvInv, OwnForm
<1>8. ModeFollows'
  <2> SUFFICES ASSUME NEW x \in Conv \ ghost'.unsure
               PROVE  /\ \A r, s \in net' : r.op = "mode" /\ s.op = "mode" /\ r.conv = x /\ s.conv = x => r = s
                      /\ \A r \in net' : r.op = "mode" /\ r.conv = x /\ r.at = "answered" => r.mode = db[x]
                      /\ x \in DOMAIN ui.threads /\ (\A r \in net' : r.op = "mode" /\ r.conv = x => r.at = "sent")
                            => ui.threads[x].mode = db[x] /\ (ui.selected = x => ui.mode = db[x])
    BY <1>5 DEF ModeFollows
  <2>1. x \in Conv \ ghost.unsure /\ (x = c => \A r \in net : ~(r.op = "mode" /\ r.conv = x))
    BY <1>4, <1>5 DEF Conversations!Toggling
  <2>2. /\ \A r, s \in net : r.op = "mode" /\ s.op = "mode" /\ r.conv = x /\ s.conv = x => r = s
        /\ \A r \in net : r.op = "mode" /\ r.conv = x /\ r.at = "answered" => r.mode = db[x]
        /\ x \in DOMAIN ui.threads /\ (\A r \in net : r.op = "mode" /\ r.conv = x => r.at = "sent")
              => ui.threads[x].mode = db[x] /\ (ui.selected = x => ui.mode = db[x])
    BY <2>1 DEF ConvInv, ModeFollows
  <2> QED BY <1>3, <1>5, <2>1, <2>2
<1> QED BY <1>6, <1>7, <1>8 DEF ConvInv

\* The gateway carries a change of mode out.
LEMMA ConvUpdates ==
    ASSUME ConvInv, NEW q \in net, Conversations!UpdateMode(q)
    PROVE  ConvInv'
<1> DEFINE r == [q EXCEPT !.at = "answered"]
<1>1. /\ q.op = "mode" /\ q.at = "sent" /\ db' = [db EXCEPT ![q.conv] = q.mode]
      /\ net' = (net \ {q}) \cup {r} /\ UNCHANGED <<ui, ghost>>
  BY DEF Conversations!UpdateMode
<1>2. q \in ModeAsked /\ q.conv \in Conv /\ q.mode \in Conversations!Mode /\ q.conv \in DOMAIN ui.threads
  BY <1>1, ConvKind, ConvKinds DEF ConvInv, ConvTyped
<1>3. r \in ModeAsked /\ r.op = "mode" /\ r.conv = q.conv /\ r.mode = q.mode /\ r.at = "answered"
  BY <1>2 DEF ModeAsked
<1> HIDE DEF r
<1>4. db' \in [Conv -> Conversations!Mode] /\ db'[q.conv] = q.mode
  BY <1>1, <1>2 DEF ConvInv, ConvTyped
<1>5. ConvTyped'
  BY <1>1, <1>2, <1>3, <1>4 DEF ConvInv, ConvTyped, ConvAsked
<1>6. OwnForm'
  BY <1>1, <1>3 DEF ConvInv, OwnForm
<1>7. ModeFollows'
  <2> SUFFICES ASSUME NEW x \in Conv \ ghost.unsure
               PROVE  /\ \A a, b \in net' : a.op = "mode" /\ b.op = "mode" /\ a.conv = x /\ b.conv = x => a = b
                      /\ \A a \in net' : a.op = "mode" /\ a.conv = x /\ a.at = "answered" => a.mode = db'[x]
                      /\ x \in DOMAIN ui.threads /\ (\A a \in net' : a.op = "mode" /\ a.conv = x => a.at = "sent")
                            => ui.threads[x].mode = db'[x] /\ (ui.selected = x => ui.mode = db'[x])
    BY <1>1 DEF ModeFollows
  <2>1. /\ \A a, b \in net : a.op = "mode" /\ b.op = "mode" /\ a.conv = x /\ b.conv = x => a = b
        /\ \A a \in net : a.op = "mode" /\ a.conv = x /\ a.at = "answered" => a.mode = db[x]
        /\ x \in DOMAIN ui.threads /\ (\A a \in net : a.op = "mode" /\ a.conv = x => a.at = "sent")
              => ui.threads[x].mode = db[x] /\ (ui.selected = x => ui.mode = db[x])
    BY DEF ConvInv, ModeFollows
  <2>2. CASE x = q.conv
    <3>1. \A a \in net' : a.op = "mode" /\ a.conv = x => a = r
      BY <1>1, <2>1, <2>2
    <3> QED BY <1>1, <1>3, <1>4, <2>2, <3>1
  <2>3. CASE x # q.conv
    <3>1. db'[x] = db[x]
      BY <1>1, <2>3 DEF ConvInv, ConvTyped
    <3>2. \A a : a.op = "mode" /\ a.conv = x => (a \in net' <=> a \in net)
      BY <1>1, <1>3, <2>3
    <3> QED BY <2>1, <3>1, <3>2
  <2> QED BY <2>2, <2>3
<1> QED BY <1>5, <1>6, <1>7 DEF ConvInv

\* A thread of the list is changed.
LEMMA ThreadChanged ==
    ASSUME ui \in ConvScreen, NEW c, NEW mode \in Conversations!Mode, NEW unread \in BOOLEAN
    PROVE  /\ [ui.threads EXCEPT ![c].mode = mode] \in Threads
           /\ [ui.threads EXCEPT ![c].unread = @ /\ unread] \in Threads
           /\ DOMAIN [ui.threads EXCEPT ![c].mode = mode] = DOMAIN ui.threads
           /\ DOMAIN [ui.threads EXCEPT ![c].unread = @ /\ unread] = DOMAIN ui.threads
           /\ \A x \in DOMAIN ui.threads :
                 /\ [ui.threads EXCEPT ![c].mode = mode][x].mode = (IF x = c THEN mode ELSE ui.threads[x].mode)
                 /\ [ui.threads EXCEPT ![c].unread = @ /\ unread][x].mode = ui.threads[x].mode
<1>1. PICK s \in SUBSET Conv : ui.threads \in [s -> Conversations!Thread]
  BY DEF ConvScreen, Threads
<1>2. \A x \in s : /\ [ui.threads[x] EXCEPT !.mode = mode] \in Conversations!Thread
                   /\ [ui.threads[x] EXCEPT !.mode = mode].mode = mode
                   /\ [ui.threads[x] EXCEPT !.unread = ui.threads[x].unread /\ unread] \in Conversations!Thread
                   /\ [ui.threads[x] EXCEPT !.unread = ui.threads[x].unread /\ unread].mode = ui.threads[x].mode
  BY <1>1 DEF Conversations!Thread
<1>3. /\ [ui.threads EXCEPT ![c].mode = mode] \in [s -> Conversations!Thread]
      /\ [ui.threads EXCEPT ![c].unread = @ /\ unread] \in [s -> Conversations!Thread]
  BY <1>1, <1>2
<1>4. \A x \in s : /\ [ui.threads EXCEPT ![c].mode = mode][x].mode = (IF x = c THEN mode ELSE ui.threads[x].mode)
                   /\ [ui.threads EXCEPT ![c].unread = @ /\ unread][x].mode = ui.threads[x].mode
  BY <1>1, <1>2
<1> QED BY <1>1, <1>3, <1>4 DEF Threads

\* The answer selects the conversation it was asked for.
LEMMA ConvUpdated ==
    ASSUME ConvInv, NEW q \in net, Conversations!ModeUpdated(q)
    PROVE  ConvInv'
<1> DEFINE threads == [ui.threads EXCEPT ![q.conv].mode = q.mode]
           name == IF ui.form.open THEN q.conv ELSE ui.form.name
           form == [ui.form EXCEPT !.name = name]
           asked == IF ui.form.open /\ ui.selected # q.conv THEN {[op |-> "catalog"]} ELSE {}
<1>1. /\ q.op = "mode" /\ q.at = "answered" /\ UNCHANGED db
      /\ ui' = [ui EXCEPT !.selected = q.conv, !.mode = q.mode, !.threads = threads,
                          !.messages = ui.messages \cup {q.conv}, !.form = form]
      /\ net' = (net \ {q}) \cup asked
      /\ ghost' = [ghost EXCEPT !.kept = ghost.kept \/ (ui.form.open /\ ui.selected # q.conv)]
  BY DEF Conversations!ModeUpdated
<1>2. q \in ModeAsked /\ q.conv \in Conv /\ q.mode \in Conversations!Mode /\ q.conv \in DOMAIN ui.threads
  BY <1>1, ConvKind, ConvKinds DEF ConvInv, ConvTyped
<1>3. ui \in ConvScreen /\ ui.form \in Conversations!Form /\ ui.messages \in SUBSET Conv
  BY DEF ConvInv, ConvTyped, ConvScreen
<1>4. /\ threads \in Threads /\ DOMAIN threads = DOMAIN ui.threads
      /\ \A x \in DOMAIN ui.threads : threads[x].mode = (IF x = q.conv THEN q.mode ELSE ui.threads[x].mode)
  BY <1>2, <1>3, ThreadChanged, ZenonT(60)
<1>5. name \in Conversations!MaybeConv
  BY <1>2, <1>3 DEF Conversations!Form, Conversations!MaybeConv
<1>6. \A x \in asked : x \in CatalogAsked /\ x.op = "catalog"
  BY DEF CatalogAsked
<1> HIDE DEF threads, asked, name
<1>7. /\ form \in Conversations!Form /\ form.name = name /\ form.open = ui.form.open
      /\ form.typed = ui.form.typed /\ form.items = ui.form.items
  BY <1>3, <1>5 DEF Conversations!Form
<1> HIDE DEF form
<1>8. /\ ui' \in ConvScreen /\ ui'.selected = q.conv /\ ui'.mode = q.mode /\ ui'.threads = threads
      /\ ui'.form = form
  BY <1>1, <1>2, <1>3, <1>4, <1>7 DEF ConvScreen, Conversations!MaybeConv
<1>9. /\ ghost' \in [acts : 0..MaxConvActs, unsure : SUBSET Conv, kept : BOOLEAN] /\ ghost'.unsure = ghost.unsure
      /\ (ghost'.kept <=> ghost.kept \/ (ui.form.open /\ ui.selected # q.conv))
  BY <1>1 DEF ConvInv, ConvTyped
<1>10. ConvTyped'
  BY <1>1, <1>2, <1>4, <1>6, <1>8, <1>9 DEF ConvInv, ConvTyped, ConvAsked
<1>11. OwnForm'
  BY <1>1, <1>6, <1>7, <1>8, <1>9 DEF ConvInv, OwnForm, name
<1>12. ModeFollows'
  <2> SUFFICES ASSUME NEW x \in Conv \ ghost.unsure
               PROVE  /\ \A a, b \in net' : a.op = "mode" /\ b.op = "mode" /\ a.conv = x /\ b.conv = x => a = b
                      /\ \A a \in net' : a.op = "mode" /\ a.conv = x /\ a.at = "answered" => a.mode = db[x]
                      /\ x \in DOMAIN threads /\ (\A a \in net' : a.op = "mode" /\ a.conv = x => a.at = "sent")
                            => threads[x].mode = db[x] /\ (q.conv = x => q.mode = db[x])
    BY <1>1, <1>8, <1>9 DEF ModeFollows
  <2>1. /\ \A a, b \in net : a.op = "mode" /\ b.op = "mode" /\ a.conv = x /\ b.conv = x => a = b
        /\ \A a \in net : a.op = "mode" /\ a.conv = x /\ a.at = "answered" => a.mode = db[x]
        /\ x \in DOMAIN ui.threads /\ (\A a \in net : a.op = "mode" /\ a.conv = x => a.at = "sent")
              => ui.threads[x].mode = db[x] /\ (ui.selected = x => ui.mode = db[x])
    BY DEF ConvInv, ModeFollows
  <2>2. \A a : a.op = "mode" /\ a # q => (a \in net' <=> a \in net)
    BY <1>1, <1>6
  <2>3. \A a \in net' : a.op = "mode" => a \in net
    BY <1>1, <1>6
  <2>4. CASE x = q.conv
    BY <1>1, <1>4, <2>1, <2>3, <2>4
  <2>5. CASE x # q.conv
    BY <1>1, <1>4, <2>1, <2>2, <2>3, <2>5
  <2> QED BY <2>4, <2>5
<1> QED BY <1>10, <1>11, <1>12 DEF ConvInv

\* Every step of the page and of the gateway keeps it.
LEMMA ConvNext == ConvInv /\ Conversations!Next => ConvInv'
<1> SUFFICES ASSUME ConvInv, Conversations!Next PROVE ConvInv'
  OBVIOUS
<1> DEFINE Notes == [acts : 0..MaxConvActs, unsure : SUBSET Conv, kept : BOOLEAN]
<1>0. /\ ui \in ConvScreen /\ ui.form \in Conversations!Form /\ ui.messages \in SUBSET Conv
      /\ ui.selected \in Conversations!MaybeConv
      /\ db \in [Conv -> Conversations!Mode] /\ \A q \in net : ConvAsked(q)
      /\ ghost \in Notes
  BY DEF ConvInv, ConvTyped, ConvScreen
<1>1. ASSUME NEW c \in Conv, Conversations!SelectConversation(c) PROVE ConvInv'
  <2> DEFINE q == [op |-> "open", conv |-> c, unread |-> ui.threads[c].unread]
             new == [ui EXCEPT !.selected = c, !.mode = ui.threads[c].mode, !.messages = {}]
  <2>1. c \in DOMAIN ui.threads /\ ~ui.form.open /\ Conversations!Acts(new, {q}, ghost)
    BY <1>1 DEF Conversations!SelectConversation, Conversations!OnPage, Conversations!FilteredConversations
  <2>2. ui.threads[c] \in Conversations!Thread
    BY <1>0, <2>1 DEF ConvScreen, Threads
  <2>3. q \in ThreadAsked /\ q.op = "open"
    BY <2>2 DEF ThreadAsked, Conversations!Thread
  <2>4. /\ new \in ConvScreen /\ new.selected = c /\ new.mode = ui.threads[c].mode
        /\ new.threads = ui.threads /\ new.form = ui.form
    BY <1>0, <2>2 DEF ConvScreen, Conversations!MaybeConv, Conversations!Thread
  <2> HIDE DEF q, new, Notes
  <2>5. /\ ghost' \in Notes /\ ghost'.unsure = ghost.unsure /\ ghost'.kept = ghost.kept
        /\ ui' = new /\ net' = net \cup {q} /\ UNCHANGED db
    <3>1. ghost \in [acts : 0..MaxConvActs, unsure : SUBSET Conv, kept : BOOLEAN]
      BY <1>0 DEF Notes
    <3> QED BY <2>1, <3>1, ConvCounted DEF Notes
  <2>6. ConvTyped'
    BY <2>1, <2>3, <2>4, <2>5 DEF ConvInv, ConvTyped, ConvAsked, Notes
  <2>7. OwnForm'
    BY <2>1, <2>3, <2>4, <2>5 DEF ConvInv, OwnForm
  <2>8. ModeFollows'
    <3>1. \A a : a.op = "mode" => (a \in net' <=> a \in net)
      BY <2>3, <2>5
    <3> QED BY <2>1, <2>4, <2>5, <3>1 DEF ConvInv, ModeFollows
  <2> QED BY <2>6, <2>7, <2>8 DEF ConvInv
<1>2. ASSUME NEW new \in ConvScreen, UNCHANGED <<net, db, ghost>>, ui' = new,
             new.threads = ui.threads, new.selected = ui.selected, new.mode = ui.mode, new.form = ui.form
      PROVE  ConvInv'
  <2>1. ModesAsTheyWere
    BY <1>2 DEF ModesAsTheyWere
  <2> QED BY <1>0, <1>2, <2>1, ConvPasses
<1>3. ASSUME NEW tab \in Tab, Conversations!SwitchTab(tab) PROVE ConvInv'
  <2>1. ui' = [ui EXCEPT !.tab = tab] /\ UNCHANGED <<net, db, ghost>>
    BY <1>3 DEF Conversations!SwitchTab, Conversations!Local
  <2>2. /\ [ui EXCEPT !.tab = tab] \in ConvScreen /\ [ui EXCEPT !.tab = tab].threads = ui.threads
        /\ [ui EXCEPT !.tab = tab].selected = ui.selected /\ [ui EXCEPT !.tab = tab].mode = ui.mode
        /\ [ui EXCEPT !.tab = tab].form = ui.form
    BY <1>0 DEF ConvScreen
  <2> QED BY <1>2, <2>1, <2>2
<1>4. ASSUME Conversations!TypeReply PROVE ConvInv'
  <2> DEFINE new == [ui EXCEPT !.reply = ui.selected]
  <2>1. ui' = new /\ UNCHANGED <<net, db, ghost>>
    BY <1>4 DEF Conversations!TypeReply, Conversations!Local
  <2>2. /\ new \in ConvScreen /\ new.threads = ui.threads /\ new.selected = ui.selected
        /\ new.mode = ui.mode /\ new.form = ui.form
    BY <1>0 DEF ConvScreen
  <2> QED BY <1>2, <2>1, <2>2
<1>5. ASSUME Conversations!SendMessage PROVE ConvInv'
  <2> DEFINE q == [op |-> "send", conv |-> ui.selected]
             new == [ui EXCEPT !.sending = TRUE]
  <2>1. ui.selected # NoConv /\ Conversations!Acts(new, {q}, ghost)
    BY <1>5 DEF Conversations!SendMessage, Conversations!Typing, Conversations!InThread
  <2>2. q \in ReplySent /\ q.op = "send"
    BY <1>0, <2>1 DEF ReplySent, Conversations!MaybeConv
  <2>3. /\ new \in ConvScreen /\ new.threads = ui.threads /\ new.selected = ui.selected
        /\ new.mode = ui.mode /\ new.form = ui.form
    BY <1>0 DEF ConvScreen
  <2> HIDE DEF q, new
  <2>4. /\ ghost' \in Notes /\ ghost'.unsure = ghost.unsure /\ ghost'.kept = ghost.kept
        /\ ui' = new /\ net' = net \cup {q} /\ UNCHANGED db
    BY <1>0, <2>1, ConvCounted
  <2>5. ModesAsTheyWere
    BY <2>2, <2>3, <2>4 DEF ModesAsTheyWere
  <2>6. \A a \in net' : a \in net \/ (ConvAsked(a) /\ a.op # "order")
    BY <2>2, <2>4 DEF ConvAsked
  <2> QED BY <2>3, <2>4, <2>5, <2>6, ConvPasses
<1>6. ASSUME NEW form \in Conversations!Form, NEW qs, NEW g \in Notes, g.acts = ghost.acts,
             g.unsure = ghost.unsure,
             \/ Conversations!Acts([ui EXCEPT !.form = form], qs, g)
             \/ Conversations!Local([ui EXCEPT !.form = form], g) /\ qs = {},
             \A q \in qs : ConvAsked(q) /\ q.op # "mode" /\ (q.op = "order" /\ ~g.kept => q.typed = q.name /\ q.items = q.name),
             ~g.kept => /\ ~ghost.kept
                        /\ form.open => /\ form.name = ui.selected
                                        /\ form.typed \in {NoConv, ui.selected} /\ form.items \in {NoConv, ui.selected}
                        /\ ~form.open => form.typed = NoConv /\ form.items = NoConv
      PROVE  ConvInv'
  <2>1. /\ ghost' \in Notes /\ ghost'.unsure = ghost.unsure /\ ghost'.kept = g.kept
        /\ ui' = [ui EXCEPT !.form = form] /\ net' = net \cup qs /\ UNCHANGED db
    <3>1. CASE Conversations!Acts([ui EXCEPT !.form = form], qs, g)
      BY <1>6, <3>1, ConvCounted
    <3>2. CASE Conversations!Local([ui EXCEPT !.form = form], g) /\ qs = {}
      BY <1>6, <3>2 DEF Conversations!Local
    <3> QED BY <1>6, <3>1, <3>2
  <2>2. ui'.form = form /\ ui'.selected = ui.selected
    BY <1>0, <2>1 DEF ConvScreen
  <2>3. OwnForm'
    BY <1>6, <2>1, <2>2 DEF ConvInv, OwnForm
  <2>4. \A q : q.op = "mode" => (q \in net' <=> q \in net)
    BY <1>6, <2>1
  <2>5. \A q \in net' : q \in net \/ ConvAsked(q)
    BY <1>6, <2>1
  <2> QED BY <2>1, <2>3, <2>4, <2>5, ConvForms
<1>7. ASSUME NEW form \in Conversations!Form, NEW g \in Notes, g.acts = ghost.acts, g.unsure = ghost.unsure,
              Conversations!Local([ui EXCEPT !.form = form], g),
              ~g.kept => /\ ~ghost.kept
                         /\ form.open => /\ form.name = ui.selected
                                         /\ form.typed \in {NoConv, ui.selected} /\ form.items \in {NoConv, ui.selected}
                         /\ ~form.open => form.typed = NoConv /\ form.items = NoConv
       PROVE  ConvInv'
  <2>1. \A qs : qs = {} =>
          \A q \in qs : ConvAsked(q) /\ q.op # "mode" /\ (q.op = "order" /\ ~g.kept => q.typed = q.name /\ q.items = q.name)
    OBVIOUS
  <2>2. PICK qs : qs = {}
    OBVIOUS
  <2> HIDE DEF Notes
  <2> QED BY <1>6, <1>7, <2>1, <2>2
<1>8. /\ ~ghost.kept => /\ ui.form.open => /\ ui.form.name = ui.selected
                                            /\ ui.form.typed \in {NoConv, ui.selected} /\ ui.form.items \in {NoConv, ui.selected}
                        /\ ~ui.form.open => ui.form.typed = NoConv /\ ui.form.items = NoConv
      /\ \A q \in net : q.op = "order" /\ ~ghost.kept => q.typed = q.name /\ q.items = q.name
  BY DEF ConvInv, OwnForm
<1>9. [op |-> "catalog"] \in CatalogAsked /\ [op |-> "catalog"].op = "catalog"
  BY DEF CatalogAsked
<1>10. ASSUME Conversations!OpenModal PROVE ConvInv'
  <2> DEFINE form == [ui.form EXCEPT !.open = TRUE, !.name = ui.selected]
  <2>1. ~ui.form.open /\ Conversations!Acts([ui EXCEPT !.form = form], {[op |-> "catalog"]}, ghost)
    BY <1>10 DEF Conversations!OpenModal, Conversations!InThread, Conversations!OnPage
  <2>2. /\ form \in Conversations!Form /\ form.open /\ form.name = ui.selected
        /\ form.typed = ui.form.typed /\ form.items = ui.form.items
    BY <1>0 DEF Conversations!Form
  <2> HIDE DEF form
  <2> QED BY <1>0, <1>6, <1>8, <1>9, <2>1, <2>2 DEF ConvAsked
<1>11. ASSUME Conversations!TypeDetails PROVE ConvInv'
  <2> DEFINE form == [ui.form EXCEPT !.typed = ui.selected]
  <2>1. ui.form.open /\ Conversations!Local([ui EXCEPT !.form = form], ghost)
    BY <1>11 DEF Conversations!TypeDetails, Conversations!InModal
  <2>2. /\ form \in Conversations!Form /\ form.open /\ form.name = ui.form.name
        /\ form.typed = ui.selected /\ form.items = ui.form.items
    BY <1>0, <2>1 DEF Conversations!Form
  <2> HIDE DEF form
  <2> QED BY <1>0, <1>7, <1>8, <2>1, <2>2
<1>12. ASSUME Conversations!UpdateItem \/ Conversations!RemoveItem PROVE ConvInv'
  <2>1. PICK items \in {NoConv, ui.selected} :
          ui.form.open /\ Conversations!Local([ui EXCEPT !.form.items = items], ghost)
    BY <1>12 DEF Conversations!UpdateItem, Conversations!RemoveItem, Conversations!InModal
  <2> DEFINE form == [ui.form EXCEPT !.items = items]
  <2>2. Conversations!Local([ui EXCEPT !.form = form], ghost)
    BY <2>1
  <2>3. /\ form \in Conversations!Form /\ form.open /\ form.name = ui.form.name
        /\ form.typed = ui.form.typed /\ form.items = items
    BY <1>0, <2>1 DEF Conversations!Form, Conversations!MaybeConv
  <2> HIDE DEF form
  <2> QED BY <1>0, <1>7, <1>8, <2>1, <2>2, <2>3
<1>13. ASSUME Conversations!CancelModal PROVE ConvInv'
  <2> DEFINE form == [ui.form EXCEPT !.open = FALSE]
             g == [ghost EXCEPT !.kept = ghost.kept \/ {ui.form.typed, ui.form.items} # {NoConv}]
  <2>1. ui.form.open /\ Conversations!Local([ui EXCEPT !.form = form], g)
    BY <1>13 DEF Conversations!CancelModal, Conversations!InModal
  <2>2. /\ form \in Conversations!Form /\ ~form.open /\ form.name = ui.form.name
        /\ form.typed = ui.form.typed /\ form.items = ui.form.items
    BY <1>0 DEF Conversations!Form
  <2>3. /\ g \in Notes /\ g.acts = ghost.acts /\ g.unsure = ghost.unsure
        /\ (~g.kept => ~ghost.kept /\ ui.form.typed = NoConv /\ ui.form.items = NoConv)
    BY <1>0
  <2> HIDE DEF form, g, Notes
  <2> QED BY <1>0, <1>7, <1>8, <2>1, <2>2, <2>3
<1>14. ASSUME Conversations!HandleSubmit PROVE ConvInv'
  <2> DEFINE form == [ui.form EXCEPT !.submitting = TRUE]
             q == [op |-> "order", name |-> ui.form.name, typed |-> ui.form.typed,
                   items |-> ui.form.items, customer |-> ui.selected]
  <2>1. /\ ui.form.open /\ NoConv \notin {ui.form.typed, ui.form.items}
        /\ Conversations!Acts([ui EXCEPT !.form = form], {q}, ghost)
    BY <1>14 DEF Conversations!HandleSubmit, Conversations!InModal, Conversations!Entered
  <2>2. /\ form \in Conversations!Form /\ form.open /\ form.name = ui.form.name
        /\ form.typed = ui.form.typed /\ form.items = ui.form.items
    BY <1>0, <2>1 DEF Conversations!Form
  <2>3. q \in OrderByHand /\ q.op = "order" /\ (~ghost.kept => q.typed = q.name /\ q.items = q.name)
    BY <1>0, <1>8, <2>1 DEF OrderByHand, Conversations!Form
  <2> HIDE DEF form, q
  <2> QED BY <1>0, <1>6, <1>8, <2>1, <2>2, <2>3 DEF ConvAsked
<1>15. ASSUME NEW q \in net, Conversations!FetchConversations(q) PROVE ConvInv'
  <2>1. PICK unread \in SUBSET Conv :
          /\ ui' = [ui EXCEPT !.threads = [c \in Conv |-> [mode |-> db[c], unread |-> c \in unread]]]
          /\ net' = net \ {q} /\ UNCHANGED <<db, ghost>> /\ q.op = "threads"
    BY <1>15 DEF Conversations!FetchConversations, Conversations!Answer
  <2> DEFINE threads == [c \in Conv |-> [mode |-> db[c], unread |-> c \in unread]]
  <2>2. /\ threads \in [Conv -> Conversations!Thread] /\ DOMAIN threads = Conv
        /\ \A c \in Conv : threads[c].mode = db[c]
    BY <1>0 DEF Conversations!Thread
  <2>3. threads \in Threads
    BY <2>2 DEF Threads
  <2>4. ui' = [ui EXCEPT !.threads = threads]
    BY <2>1
  <2> HIDE DEF threads
  <2>5. /\ ui' \in ConvScreen /\ ui'.threads = threads /\ ui'.selected = ui.selected /\ ui'.mode = ui.mode
        /\ ui'.form = ui.form
    BY <1>0, <2>3, <2>4 DEF ConvScreen
  <2>6. \A r \in net : r.op = "mode" => r.conv \in Conv
    BY <1>0, ConvKind, ConvKinds
  <2>7. ConvTyped'
    BY <1>0, <2>1, <2>2, <2>5, <2>6 DEF ConvInv, ConvTyped, Conversations!MaybeConv
  <2>8. OwnForm'
    BY <2>1, <2>5 DEF ConvInv, OwnForm
  <2>9. ModeFollows'
    <3>1. \A r : r.op = "mode" => (r \in net' <=> r \in net)
      BY <2>1
    <3>2. \A c \in Conv : ui.selected = c => c \in DOMAIN ui.threads
      BY ConversationsAssumption DEF ConvInv, ConvTyped
    <3> QED BY <2>1, <2>2, <2>5, <3>1, <3>2 DEF ConvInv, ModeFollows
  <2> QED BY <2>7, <2>8, <2>9 DEF ConvInv
<1>16. ASSUME NEW q \in net, NEW new \in ConvScreen, Conversations!Answer(q, new), q.op # "mode",
              DOMAIN new.threads = DOMAIN ui.threads, \A c \in DOMAIN ui.threads : new.threads[c].mode = ui.threads[c].mode,
              new.selected = ui.selected, new.mode = ui.mode, new.form = ui.form
       PROVE  ConvInv'
  <2>1. ModesAsTheyWere
    BY <1>16 DEF ModesAsTheyWere, Conversations!Answer
  <2> QED BY <1>0, <1>16, <2>1, ConvPasses DEF Conversations!Answer
<1>17. ASSUME NEW q \in net, Conversations!ShowMessages(q) PROVE ConvInv'
  <2>1. q \in ThreadAsked /\ q.conv \in Conv /\ q.unread \in BOOLEAN /\ q.op = "open"
    BY <1>0, <1>17, ConvKind, ConvKinds DEF Conversations!ShowMessages
  <2> DEFINE threads == [ui.threads EXCEPT ![q.conv].unread = @ /\ ~q.unread]
             read == [ui EXCEPT !.messages = {q.conv}, !.threads = threads]
             shown == [ui EXCEPT !.messages = {q.conv}]
  <2>2. Conversations!Answer(q, read) \/ Conversations!Answer(q, shown)
    BY <1>17 DEF Conversations!ShowMessages
  <2>3. /\ threads \in Threads /\ DOMAIN threads = DOMAIN ui.threads
        /\ \A c \in DOMAIN ui.threads : threads[c].mode = ui.threads[c].mode
    <3>1. "ai" \in Conversations!Mode
      BY DEF Conversations!Mode
    <3>2. PICK other \in BOOLEAN : other = ~q.unread
      BY <2>1
    <3>3. threads = [ui.threads EXCEPT ![q.conv].unread = @ /\ other]
      BY <3>2
    <3>4. ui \in ConvScreen
      BY <1>0
    <3> HIDE DEF threads
    <3>5. /\ [ui.threads EXCEPT ![q.conv].unread = @ /\ other] \in Threads
          /\ DOMAIN [ui.threads EXCEPT ![q.conv].unread = @ /\ other] = DOMAIN ui.threads
          /\ \A x \in DOMAIN ui.threads :
                [ui.threads EXCEPT ![q.conv].unread = @ /\ other][x].mode = ui.threads[x].mode
      BY <3>1, <3>4, ThreadChanged, ZenonT(60)
    <3> QED BY <3>3, <3>5
  <2> HIDE DEF threads
  <2>4. /\ read \in ConvScreen /\ read.threads = threads /\ read.selected = ui.selected
        /\ read.mode = ui.mode /\ read.form = ui.form
    BY <1>0, <2>1, <2>3 DEF ConvScreen
  <2>5. /\ shown \in ConvScreen /\ shown.threads = ui.threads /\ shown.selected = ui.selected
        /\ shown.mode = ui.mode /\ shown.form = ui.form
    BY <1>0, <2>1 DEF ConvScreen
  <2> HIDE DEF read, shown
  <2> QED BY <1>16, <2>1, <2>2, <2>3, <2>4, <2>5
<1>18. ASSUME NEW q \in net, Conversations!ModeFails(q) PROVE ConvInv'
  <2>1. /\ q.op = "mode" /\ net' = net \ {q} /\ UNCHANGED <<ui, db>>
        /\ ghost' = [ghost EXCEPT !.unsure = IF q.at = "answered" THEN @ \cup {q.conv} ELSE @]
    BY <1>18 DEF Conversations!ModeFails
  <2>2. q \in ModeAsked /\ q.conv \in Conv /\ q.at \in {"sent", "answered"}
    BY <1>0, <2>1, ConvKind, ConvKinds
  <2>3. /\ ghost' \in Notes /\ ghost'.kept = ghost.kept
        /\ ghost'.unsure = (IF q.at = "answered" THEN ghost.unsure \cup {q.conv} ELSE ghost.unsure)
    BY <1>0, <2>1, <2>2
  <2>4. ConvTyped'
    BY <1>0, <2>1, <2>3 DEF ConvInv, ConvTyped
  <2>5. OwnForm'
    BY <2>1, <2>3 DEF ConvInv, OwnForm
  <2>6. ModeFollows'
    <3> SUFFICES ASSUME NEW x \in Conv \ ghost'.unsure
                 PROVE  /\ \A a, b \in net' : a.op = "mode" /\ b.op = "mode" /\ a.conv = x /\ b.conv = x => a = b
                        /\ \A a \in net' : a.op = "mode" /\ a.conv = x /\ a.at = "answered" => a.mode = db[x]
                        /\ x \in DOMAIN ui.threads /\ (\A a \in net' : a.op = "mode" /\ a.conv = x => a.at = "sent")
                              => ui.threads[x].mode = db[x] /\ (ui.selected = x => ui.mode = db[x])
      BY <2>1 DEF ModeFollows
    <3>1. x \in Conv \ ghost.unsure /\ (q.conv = x => q.at = "sent")
      BY <2>2, <2>3
    <3>2. /\ \A a, b \in net : a.op = "mode" /\ b.op = "mode" /\ a.conv = x /\ b.conv = x => a = b
          /\ \A a \in net : a.op = "mode" /\ a.conv = x /\ a.at = "answered" => a.mode = db[x]
          /\ x \in DOMAIN ui.threads /\ (\A a \in net : a.op = "mode" /\ a.conv = x => a.at = "sent")
                => ui.threads[x].mode = db[x] /\ (ui.selected = x => ui.mode = db[x])
      BY <3>1 DEF ConvInv, ModeFollows
    <3> QED BY <2>1, <3>1, <3>2
  <2> QED BY <2>4, <2>5, <2>6 DEF ConvInv
<1>19. ASSUME NEW q \in net, Conversations!MessageSent(q) PROVE ConvInv'
  <2>1. q.op = "send" /\ q.conv \in Conv
    BY <1>0, <1>19, ConvKind, ConvKinds DEF Conversations!MessageSent
  <2> DEFINE sent == [ui EXCEPT !.messages = @ \cup {q.conv}, !.reply = NoConv, !.sending = FALSE]
             failed == [ui EXCEPT !.sending = FALSE]
  <2>2. Conversations!Answer(q, sent) \/ Conversations!Answer(q, failed)
    BY <1>19 DEF Conversations!MessageSent
  <2>3. /\ sent \in ConvScreen /\ sent.threads = ui.threads /\ sent.selected = ui.selected
        /\ sent.mode = ui.mode /\ sent.form = ui.form
    BY <1>0, <2>1 DEF ConvScreen, Conversations!MaybeConv
  <2>4. /\ failed \in ConvScreen /\ failed.threads = ui.threads /\ failed.selected = ui.selected
        /\ failed.mode = ui.mode /\ failed.form = ui.form
    BY <1>0 DEF ConvScreen
  <2> HIDE DEF sent, failed
  <2> QED BY <1>16, <2>1, <2>2, <2>3, <2>4
<1>20. ASSUME NEW q \in net, NEW form \in Conversations!Form, Conversations!Answer(q, [ui EXCEPT !.form = form]),
              q.op # "mode",
              ~ghost.kept => /\ form.open => /\ form.name = ui.selected
                                             /\ form.typed \in {NoConv, ui.selected} /\ form.items \in {NoConv, ui.selected}
                             /\ ~form.open => form.typed = NoConv /\ form.items = NoConv
       PROVE  ConvInv'
  <2>1. ui' = [ui EXCEPT !.form = form] /\ net' = net \ {q} /\ UNCHANGED <<db, ghost>>
    BY <1>20 DEF Conversations!Answer
  <2>2. ui'.form = form /\ ui'.selected = ui.selected
    BY <1>0, <2>1 DEF ConvScreen
  <2>3. OwnForm'
    BY <1>8, <1>20, <2>1, <2>2 DEF OwnForm
  <2>4. \A r : r.op = "mode" => (r \in net' <=> r \in net)
    BY <1>20, <2>1
  <2> QED BY <1>0, <2>1, <2>3, <2>4, ConvForms
<1>21. ASSUME NEW q \in net, Conversations!FetchProducts(q) PROVE ConvInv'
  <2>1. PICK loaded \in {ui.form.catalog, TRUE} :
          q.op = "catalog" /\ Conversations!Answer(q, [ui EXCEPT !.form.catalog = loaded])
    BY <1>21 DEF Conversations!FetchProducts
  <2> DEFINE form == [ui.form EXCEPT !.catalog = loaded]
  <2>2. Conversations!Answer(q, [ui EXCEPT !.form = form])
    BY <2>1
  <2>3. /\ form \in Conversations!Form /\ form.open = ui.form.open /\ form.name = ui.form.name
        /\ form.typed = ui.form.typed /\ form.items = ui.form.items
    BY <1>0, <2>1 DEF Conversations!Form
  <2> HIDE DEF form
  <2> QED BY <1>8, <1>20, <2>1, <2>2, <2>3
<1>22. ASSUME NEW q \in net, Conversations!OrderCreated(q) PROVE ConvInv'
  <2> DEFINE form == [Conversations!EmptyForm EXCEPT !.catalog = ui.form.catalog, !.name = q.customer]
  <2>1. q.op = "order" /\ Conversations!Answer(q, [ui EXCEPT !.form = form])
    BY <1>22 DEF Conversations!OrderCreated
  <2>2. q.customer \in Conversations!MaybeConv
    BY <1>0, <2>1, ConvKind, ConvKinds
  <2>3. form \in Conversations!Form /\ ~form.open /\ form.typed = NoConv /\ form.items = NoConv
    BY <1>0, <2>2 DEF Conversations!EmptyForm, Conversations!Form, Conversations!MaybeConv
  <2> HIDE DEF form
  <2> QED BY <1>20, <2>1, <2>3
<1>23. ASSUME NEW q \in net, Conversations!OrderFails(q) PROVE ConvInv'
  <2> DEFINE form == [ui.form EXCEPT !.submitting = FALSE]
  <2>1. q.op = "order" /\ Conversations!Answer(q, [ui EXCEPT !.form = form])
    BY <1>23 DEF Conversations!OrderFails
  <2>2. /\ form \in Conversations!Form /\ form.open = ui.form.open /\ form.name = ui.form.name
        /\ form.typed = ui.form.typed /\ form.items = ui.form.items
    BY <1>0 DEF Conversations!Form
  <2> HIDE DEF form
  <2> QED BY <1>8, <1>20, <2>1, <2>2
<1>24. CASE Conversations!Seller
  BY <1>1, <1>3, <1>4, <1>5, <1>10, <1>11, <1>12, <1>13, <1>14, <1>24, ConvToggles DEF Conversations!Seller
<1>25. ASSUME NEW q \in net, Conversations!Answered(q) PROVE ConvInv'
  BY <1>15, <1>17, <1>18, <1>19, <1>21, <1>22, <1>23, <1>25, ConvUpdates, ConvUpdated DEF Conversations!Answered
<1> QED BY <1>24, <1>25 DEF Conversations!Next

\* Messages of another conversation come with an answer that was asked for in it.
LEMMA ConvForeign == ConvInv /\ Conversations!Next => Conversations!ForeignIsLate
<1> SUFFICES ASSUME ConvInv, Conversations!Next,
                    ui'.selected # NoConv, NEW c \in ui'.messages, c # ui'.selected,
                    ui.selected = NoConv \/ \A x \in ui.messages : x = ui.selected
             PROVE  \E q \in net \ net' : q.op \in {"open", "mode", "send"} /\ q.conv # ui.selected
  BY DEF Conversations!ForeignIsLate, Conversations!Misplaced
<1>0. ui \in ConvScreen /\ \A q \in net : ConvAsked(q)
  BY DEF ConvInv, ConvTyped
<1>1. ASSUME ui'.selected = ui.selected, ui'.messages = ui.messages PROVE FALSE
  BY <1>1
<1>2. ASSUME NEW x \in Conv, Conversations!SelectConversation(x) PROVE FALSE
  <2>1. ui' = [ui EXCEPT !.selected = x, !.mode = ui.threads[x].mode, !.messages = {}]
    BY <1>2 DEF Conversations!SelectConversation, Conversations!Acts
  <2> QED BY <1>0, <2>1 DEF ConvScreen
<1>3. ASSUME Conversations!Seller PROVE FALSE
  <2>1. CASE \E x \in Conv : Conversations!SelectConversation(x)
    BY <1>2, <2>1
  <2>2. CASE ui' = ui \/ (\E new \in {[ui EXCEPT !.sending = TRUE], [ui EXCEPT !.reply = ui.selected]} : ui' = new)
                      \/ (\E tab \in Tab : ui' = [ui EXCEPT !.tab = tab])
    BY <1>0, <1>1, <2>2 DEF ConvScreen
  <2>3. CASE \E form : ui' = [ui EXCEPT !.form = form]
    BY <1>0, <1>1, <2>3 DEF ConvScreen
  <2>4. CASE Conversations!OpenModal
    BY <2>3, <2>4 DEF Conversations!OpenModal, Conversations!Acts
  <2>5. CASE Conversations!TypeDetails \/ Conversations!UpdateItem \/ Conversations!RemoveItem
             \/ Conversations!CancelModal \/ Conversations!HandleSubmit
    BY <2>3, <2>5 DEF Conversations!TypeDetails, Conversations!UpdateItem, Conversations!RemoveItem,
       Conversations!CancelModal, Conversations!HandleSubmit, Conversations!Acts, Conversations!Local
  <2>6. CASE Conversations!ToggleMode \/ Conversations!TypeReply \/ Conversations!SendMessage
             \/ \E tab \in Tab : Conversations!SwitchTab(tab)
    BY <2>2, <2>6 DEF Conversations!ToggleMode, Conversations!TypeReply, Conversations!SendMessage,
       Conversations!SwitchTab, Conversations!Acts, Conversations!Local
  <2> QED BY <1>3, <2>1, <2>4, <2>5, <2>6 DEF Conversations!Seller
<1>4. ASSUME NEW q \in net, Conversations!ShowMessages(q)
      PROVE  q \notin net' /\ q.op = "open" /\ q.conv # ui.selected
  <2>1. /\ q.op = "open" /\ q \notin net'
        /\ \/ ui' = [ui EXCEPT !.messages = {q.conv}, !.threads[q.conv].unread = @ /\ ~q.unread]
           \/ ui' = [ui EXCEPT !.messages = {q.conv}]
    BY <1>4 DEF Conversations!ShowMessages, Conversations!Answer
  <2>2. ui'.messages = {q.conv} /\ ui'.selected = ui.selected
    BY <1>0, <2>1 DEF ConvScreen
  <2> QED BY <2>1, <2>2
<1>5. ASSUME NEW q \in net, Conversations!ModeUpdated(q)
      PROVE  q \notin net' /\ q.op = "mode" /\ q.conv # ui.selected
  <2>1. /\ q.op = "mode" /\ ui'.selected = q.conv /\ ui'.messages = ui.messages \cup {q.conv}
    BY <1>0, <1>5 DEF Conversations!ModeUpdated, ConvScreen
  <2>2. q.conv \in Conv /\ q # [op |-> "catalog"]
    BY <1>0, <2>1, ConvKind, ConvKinds
  <2>3. q \notin net'
    BY <1>5, <2>2 DEF Conversations!ModeUpdated
  <2> QED BY <2>1, <2>2, <2>3, ConversationsAssumption
<1>6. ASSUME NEW q \in net, Conversations!MessageSent(q)
      PROVE  q \notin net' /\ q.op = "send" /\ q.conv # ui.selected
  <2>1. /\ q.op = "send" /\ q \notin net'
        /\ \/ ui' = [ui EXCEPT !.messages = @ \cup {q.conv}, !.reply = NoConv, !.sending = FALSE]
           \/ ui' = [ui EXCEPT !.sending = FALSE]
    BY <1>6 DEF Conversations!MessageSent, Conversations!Answer
  <2>2. ui'.messages \subseteq ui.messages \cup {q.conv} /\ ui'.selected = ui.selected
    BY <1>0, <2>1 DEF ConvScreen
  <2> QED BY <2>1, <2>2
<1>7. ASSUME NEW q \in net,
             \/ Conversations!FetchConversations(q) \/ Conversations!UpdateMode(q) \/ Conversations!ModeFails(q)
             \/ Conversations!FetchProducts(q) \/ Conversations!OrderCreated(q) \/ Conversations!OrderFails(q)
      PROVE  FALSE
  <2>1. \/ ui' = ui \/ (\E threads : ui' = [ui EXCEPT !.threads = threads])
        \/ \E form : ui' = [ui EXCEPT !.form = form]
    BY <1>7 DEF Conversations!FetchConversations, Conversations!UpdateMode, Conversations!ModeFails,
       Conversations!FetchProducts, Conversations!OrderCreated, Conversations!OrderFails, Conversations!Answer
  <2> QED BY <1>0, <1>1, <2>1 DEF ConvScreen
<1>8. CASE \E q \in net : Conversations!Answered(q)
  <2>1. PICK q \in net : Conversations!Answered(q)
    BY <1>8
  <2>2. q \notin net' /\ q.op \in {"open", "mode", "send"} /\ q.conv # ui.selected
    BY <1>4, <1>5, <1>6, <1>7, <2>1 DEF Conversations!Answered
  <2> QED BY <2>2
<1> QED BY <1>3, <1>8 DEF Conversations!Next

---------------------------------------------------------------------------
(* Products *)

Stocks == UNION {[s -> Products!Stock] : s \in SUBSET Product}
ProductsScreen == [products : Stocks, form : Products!Form, uploading : BOOLEAN]
ProductUpload == [op : {"upload"}, id : Products!MaybeProduct]
ProductSave == [op : {"save"}, form : Products!Form]
ProductDelete == [op : {"delete"}, id : Product]
ProductAsked(q) ==
    q = Products!List \/ q \in ProductUpload \/ q \in ProductSave \/ q \in ProductDelete

ProductsTyped ==
    /\ ui \in ProductsScreen
    /\ db \in [stock : Stocks, used : SUBSET Product] /\ DOMAIN db.stock \subseteq db.used
    /\ \A q \in net : ProductAsked(q)
    /\ ghost \in [acts : 0..MaxProductActs, changed : SUBSET Product, strayed : BOOLEAN]

\* A form is of a product there has been; the stock it was opened with is still the
\* row's, unless that was changed.
FormFollows(form) ==
    /\ form.id # NoProduct => form.id \in db.used
    /\ form.id \in DOMAIN db.stock \ ghost.changed => form.opened = db.stock[form.id]

StockFollows ==
    /\ DOMAIN ui.products \subseteq db.used
    /\ \A p \in (DOMAIN ui.products \cap DOMAIN db.stock) \ ghost.changed : ui.products[p] = db.stock[p]
    /\ FormFollows(ui.form)
    /\ \A q \in net : q.op = "save" => FormFollows(q.form)

\* An image in a form is one of its product's, unless an upload ended too late.
ImageFollows ==
    ~ghost.strayed => /\ ui.form.image \in {"none", ui.form.id}
                      /\ \A q \in net : q.op = "save" => q.form.image \in {"none", q.form.id}

ProductsInv == ProductsTyped /\ StockFollows /\ ImageFollows

LEMMA ProductKinds ==
    /\ Products!List.op = "list"
    /\ \A q \in ProductUpload : q.op = "upload" /\ q.id \in Products!MaybeProduct
    /\ \A q \in ProductSave : q.op = "save" /\ q.form \in Products!Form
    /\ \A q \in ProductDelete : q.op = "delete" /\ q.id \in Product
<1>1. Products!List.op = "list"
  BY DEF Products!List
<1>2. \A q \in ProductUpload : q.op = "upload" /\ q.id \in Products!MaybeProduct
  BY DEF ProductUpload
<1>3. \A q \in ProductSave : q.op = "save" /\ q.form \in Products!Form
  BY DEF ProductSave
<1>4. \A q \in ProductDelete : q.op = "delete" /\ q.id \in Product
  BY DEF ProductDelete
<1> QED BY <1>1, <1>2, <1>3, <1>4

LEMMA StockRows ==
    /\ \A rows \in Stocks : DOMAIN rows \subseteq Product /\ \A p \in DOMAIN rows : rows[p] \in Products!Stock
    /\ \A s \in SUBSET Product : [s -> Products!Stock] \subseteq Stocks
    /\ \A rows \in Stocks : rows \in [DOMAIN rows -> Products!Stock]
    /\ 0 \in Products!Stock /\ MaxStock \in Products!Stock
<1>1. 0 \in Products!Stock /\ MaxStock \in Products!Stock
  BY BoundsAssumption DEF Products!Stock
<1> QED BY <1>1 DEF Stocks

LEMMA ProductsSuffice == ProductsInv => Products!TypeOK /\ Products!ImageIsTheProducts
<1>1. \A q : ProductAsked(q) => q.op \in {"list", "upload", "save", "delete"}
  BY ProductKinds DEF ProductAsked
<1>2. ProductsTyped => Products!TypeOK
  BY <1>1, StockRows DEF ProductsTyped, Products!TypeOK, ProductsScreen, Stocks
<1>3. ImageFollows => Products!ImageIsTheProducts
  BY DEF ImageFollows, Products!ImageIsTheProducts
<1> QED BY <1>2, <1>3 DEF ProductsInv

LEMMA EmptyProduct ==
    /\ Products!EmptyForm \in Products!Form /\ Products!EmptyForm.id = NoProduct
    /\ Products!EmptyForm.image = "none"
  BY StockRows DEF Products!EmptyForm, Products!Form, Products!MaybeProduct

LEMMA ProductsStart == Products!Init => ProductsInv
<1> SUFFICES ASSUME Products!Init PROVE ProductsInv
  OBVIOUS
<1> DEFINE none == [p \in {} |-> 0]
<1>1. /\ ui = [products |-> none, form |-> Products!EmptyForm, uploading |-> FALSE]
      /\ net = {[op |-> "list"]} /\ ghost = [acts |-> 0, changed |-> {}, strayed |-> FALSE]
  BY DEF Products!Init
<1>2. PICK old \in SUBSET Product : db = [stock |-> [p \in old |-> MaxStock], used |-> old]
  BY DEF Products!Init
<1>3. [p \in old |-> MaxStock] \in [old -> Products!Stock] /\ DOMAIN [p \in old |-> MaxStock] = old
  BY StockRows
<1>4. none \in [{} -> Products!Stock] /\ {} \in SUBSET Product /\ DOMAIN none = {}
  OBVIOUS
<1>5. none \in Stocks /\ [p \in old |-> MaxStock] \in Stocks
  BY <1>3, <1>4, StockRows
<1> HIDE DEF none
<1>6. 0 \in 0..MaxProductActs
  BY BoundsAssumption
<1>7. \A q \in net : q = Products!List /\ q.op # "save"
  BY <1>1 DEF Products!List
<1>8. ProductsTyped
  BY <1>1, <1>2, <1>3, <1>5, <1>6, <1>7, EmptyProduct DEF ProductsTyped, ProductsScreen, ProductAsked
<1>9. StockFollows
  BY <1>1, <1>2, <1>3, <1>4, <1>7, EmptyProduct, ProductsAssumption DEF StockFollows, FormFollows
<1> QED BY <1>1, <1>7, <1>8, <1>9, EmptyProduct DEF ProductsInv, ImageFollows

\* The form is opened, changed or closed; what was sent stays or is answered.
LEMMA ProductsForms ==
    ASSUME ProductsInv, NEW form \in Products!Form, ui' \in ProductsScreen, ui'.products = ui.products,
           ui'.form = form, FormFollows(form), UNCHANGED db,
           \A q \in net' : q \in net \/ (ProductAsked(q) /\ q.op # "save") \/ (q \in ProductSave /\ q.form = form),
           ghost' \in [acts : 0..MaxProductActs, changed : SUBSET Product, strayed : BOOLEAN],
           ghost'.changed = ghost.changed,
           ~ghost'.strayed => ~ghost.strayed /\ form.image \in {"none", form.id}
    PROVE  ProductsInv'
<1>1. ProductsTyped'
  BY DEF ProductsInv, ProductsTyped, ProductAsked
<1>2. StockFollows'
  BY DEF ProductsInv, StockFollows, FormFollows
<1>3. ImageFollows'
  BY DEF ProductsInv, ImageFollows
<1> QED BY <1>1, <1>2, <1>3 DEF ProductsInv

LEMMA ProductsCounted ==
    ASSUME ProductsInv, NEW new, NEW q, Products!Acts(new, q)
    PROVE  /\ ghost' \in [acts : 0..MaxProductActs, changed : SUBSET Product, strayed : BOOLEAN]
           /\ ghost'.changed = ghost.changed /\ ghost'.strayed = ghost.strayed
           /\ ui' = new /\ net' = net \cup {q} /\ UNCHANGED db
<1>1. ghost.acts < MaxProductActs /\ ghost' = [ghost EXCEPT !.acts = ghost.acts + 1]
      /\ ui' = new /\ net' = net \cup {q} /\ UNCHANGED db
  BY DEF Products!Acts
<1>2. ghost.acts + 1 \in 0..MaxProductActs
  BY <1>1, BoundsAssumption DEF ProductsInv, ProductsTyped
<1> QED BY <1>1, <1>2 DEF ProductsInv, ProductsTyped

\* Rows are sold from, saved to, added or deleted: those whose stock changes are known.
LEMMA ProductsRows ==
    ASSUME ProductsInv, NEW stock \in Stocks, NEW used \in SUBSET Product,
           db' = [stock |-> stock, used |-> used], DOMAIN stock \subseteq used, db.used \subseteq used,
           DOMAIN stock \cap db.used \subseteq DOMAIN db.stock,
           ui' \in ProductsScreen, ui'.products = ui.products,
           ui'.form.id = ui.form.id, ui'.form.opened = ui.form.opened, ui'.form.image = ui.form.image,
           \A q \in net' : q \in net \/ q = Products!List,
           ghost' \in [acts : 0..MaxProductActs, changed : SUBSET Product, strayed : BOOLEAN],
           ghost.changed \subseteq ghost'.changed, ghost'.strayed = ghost.strayed,
           \A p \in (DOMAIN stock \cap DOMAIN db.stock) \ ghost'.changed : stock[p] = db.stock[p]
    PROVE  ProductsInv'
<1>1. db'.stock = stock /\ db'.used = used
  OBVIOUS
<1>2. ProductsTyped'
  BY <1>1 DEF ProductsInv, ProductsTyped, ProductAsked
<1>3. ASSUME NEW form, FormFollows(form)
      PROVE  /\ form.id # NoProduct => form.id \in used
             /\ form.id \in DOMAIN stock \ ghost'.changed => form.opened = stock[form.id]
  <2>1. NoProduct \notin DOMAIN stock
    BY ProductsAssumption
  <2> QED BY <1>3, <2>1 DEF FormFollows
<1>4. StockFollows'
  <2>1. DOMAIN ui'.products \subseteq db'.used
    BY <1>1 DEF ProductsInv, StockFollows
  <2>2. \A p \in (DOMAIN ui'.products \cap DOMAIN db'.stock) \ ghost'.changed : ui'.products[p] = db'.stock[p]
    BY <1>1 DEF ProductsInv, StockFollows
  <2>3. FormFollows(ui.form) /\ \A q \in net : q.op = "save" => FormFollows(q.form)
    BY DEF ProductsInv, StockFollows
  <2>4. FormFollows(ui.form)'
    BY <1>1, <1>3, <2>3 DEF FormFollows
  <2>5. (\A q \in net : q.op = "save" => FormFollows(q.form))'
    BY <1>1, <1>3, <2>3, ProductKinds DEF FormFollows
  <2> QED BY <2>1, <2>2, <2>4, <2>5 DEF StockFollows
<1>5. ImageFollows'
  BY ProductKinds DEF ProductsInv, ImageFollows
<1> QED BY <1>2, <1>4, <1>5 DEF ProductsInv

\* Every step of the page, of the gateway and of orders elsewhere keeps it.
LEMMA ProductsNext == ProductsInv /\ Products!Next => ProductsInv'
<1> SUFFICES ASSUME ProductsInv, Products!Next PROVE ProductsInv'
  OBVIOUS
<1> DEFINE Notes == [acts : 0..MaxProductActs, changed : SUBSET Product, strayed : BOOLEAN]
<1>0. /\ ui \in ProductsScreen /\ ui.form \in Products!Form /\ ui.products \in Stocks
      /\ db \in [stock : Stocks, used : SUBSET Product] /\ DOMAIN db.stock \subseteq db.used
      /\ \A q \in net : ProductAsked(q)
      /\ ghost \in Notes
      /\ FormFollows(ui.form) /\ \A q \in net : q.op = "save" => FormFollows(q.form)
      /\ (~ghost.strayed => ui.form.image \in {"none", ui.form.id})
  BY DEF ProductsInv, ProductsTyped, ProductsScreen, StockFollows, ImageFollows
<1>1. ASSUME NEW q \in {Products!List} \cup ProductUpload \cup ProductDelete, NEW new \in ProductsScreen,
             new.products = ui.products, new.form = ui.form, Products!Acts(new, q)
      PROVE  ProductsInv'
  <2>1. ProductAsked(q) /\ q.op # "save"
    BY ProductKinds DEF ProductAsked
  <2> QED BY <1>0, <1>1, <2>1, ProductsCounted, ProductsForms
<1>2. ASSUME Products!Search PROVE ProductsInv'
  BY <1>0, <1>1, <1>2 DEF Products!Search
<1>3. ASSUME NEW x \in Product, Products!HandleDelete(x) PROVE ProductsInv'
  <2>1. [op |-> "delete", id |-> x] \in ProductDelete
    BY DEF ProductDelete
  <2> QED BY <1>0, <1>1, <1>3, <2>1 DEF Products!HandleDelete
<1>4. ASSUME Products!HandleImageUpload PROVE ProductsInv'
  <2>1. [op |-> "upload", id |-> ui.form.id] \in ProductUpload
    BY <1>0 DEF ProductUpload, Products!Form
  <2> DEFINE new == [ui EXCEPT !.uploading = TRUE]
  <2>2. new \in ProductsScreen /\ new.products = ui.products /\ new.form = ui.form
    BY <1>0 DEF ProductsScreen
  <2>3. Products!Acts(new, [op |-> "upload", id |-> ui.form.id])
    BY <1>4 DEF Products!HandleImageUpload
  <2> QED BY <1>1, <2>1, <2>2, <2>3
<1>5. ASSUME Products!HandleSave PROVE ProductsInv'
  <2> DEFINE q == [op |-> "save", form |-> ui.form]
  <2>1. q \in ProductSave /\ q.form = ui.form
    BY <1>0 DEF ProductSave
  <2>2. Products!Acts(ui, q)
    BY <1>5 DEF Products!HandleSave
  <2> HIDE DEF q
  <2> QED BY <1>0, <2>1, <2>2, ProductsCounted, ProductsForms
<1>6. ASSUME NEW form \in Products!Form, Products!Local([ui EXCEPT !.form = form]), FormFollows(form),
             ~ghost.strayed => form.image \in {"none", form.id}
      PROVE  ProductsInv'
  <2>1. ui' = [ui EXCEPT !.form = form] /\ UNCHANGED <<net, db, ghost>>
    BY <1>6 DEF Products!Local
  <2>2. ui' \in ProductsScreen /\ ui'.products = ui.products /\ ui'.form = form
    BY <1>0, <2>1 DEF ProductsScreen
  <2> QED BY <1>0, <1>6, <2>1, <2>2, ProductsForms
<1>7. ASSUME Products!OpenNew PROVE ProductsInv'
  <2> DEFINE form == [Products!EmptyForm EXCEPT !.shown = TRUE]
  <2>1. form \in Products!Form /\ form.id = NoProduct /\ form.image = "none"
    BY EmptyProduct DEF Products!Form
  <2>2. Products!Local([ui EXCEPT !.form = form])
    BY <1>7 DEF Products!OpenNew
  <2> HIDE DEF form
  <2>3. NoProduct \notin DOMAIN db.stock
    BY <1>0, ProductsAssumption
  <2> QED BY <1>6, <2>1, <2>2, <2>3 DEF FormFollows
<1>8. ASSUME NEW x \in Product, Products!OpenEdit(x) PROVE ProductsInv'
  <2> DEFINE form == [shown |-> TRUE, id |-> x, stock |-> ui.products[x],
                      opened |-> ui.products[x], image |-> "none"]
  <2>1. x \in DOMAIN ui.products /\ Products!Local([ui EXCEPT !.form = form])
    BY <1>8 DEF Products!OpenEdit
  <2>2. ui.products[x] \in Products!Stock
    BY <1>0, <2>1, StockRows
  <2>3. form \in Products!Form /\ form.id = x /\ form.opened = ui.products[x] /\ form.image = "none"
    BY <2>2 DEF Products!Form, Products!MaybeProduct
  <2> HIDE DEF form
  <2>4. FormFollows(form)
    BY <2>1, <2>3 DEF ProductsInv, StockFollows, FormFollows
  <2> QED BY <1>6, <2>1, <2>3, <2>4
<1>9. ASSUME Products!EnterStock \/ Products!CloseForm PROVE ProductsInv'
  <2>1. PICK stock \in Products!Stock, shown \in BOOLEAN :
          Products!Local([ui EXCEPT !.form = [ui.form EXCEPT !.stock = stock, !.shown = shown]])
    <3>1. CASE Products!EnterStock
      <4>1. PICK n \in Products!Stock : ui.form.shown /\ Products!Local([ui EXCEPT !.form.stock = n])
        BY <3>1 DEF Products!EnterStock
      <4>2. [ui.form EXCEPT !.stock = n] = [ui.form EXCEPT !.stock = n, !.shown = TRUE]
        BY <1>0, <4>1 DEF Products!Form
      <4> QED BY <4>1, <4>2
    <3>2. CASE Products!CloseForm
      <4>1. Products!Local([ui EXCEPT !.form.shown = FALSE]) /\ ui.form.stock \in Products!Stock
        BY <1>0, <3>2 DEF Products!CloseForm, Products!Form
      <4>2. [ui.form EXCEPT !.shown = FALSE] = [ui.form EXCEPT !.stock = ui.form.stock, !.shown = FALSE]
        BY <1>0 DEF Products!Form
      <4> QED BY <4>1, <4>2
    <3> QED BY <1>9, <3>1, <3>2
  <2> DEFINE form == [ui.form EXCEPT !.stock = stock, !.shown = shown]
  <2>2. /\ form \in Products!Form /\ form.id = ui.form.id /\ form.opened = ui.form.opened
        /\ form.image = ui.form.image
    BY <1>0 DEF Products!Form
  <2>3. Products!Local([ui EXCEPT !.form = form])
    BY <2>1
  <2> HIDE DEF form
  <2> QED BY <1>0, <1>6, <2>2, <2>3 DEF FormFollows
<1>10. ASSUME NEW q \in net, Products!FetchProducts(q) PROVE ProductsInv'
  <2>1. PICK found \in SUBSET DOMAIN db.stock :
          /\ ui' = [ui EXCEPT !.products = [x \in found |-> db.stock[x]]]
          /\ net' = net \ {q} /\ UNCHANGED <<db, ghost>>
    BY <1>10 DEF Products!FetchProducts, Products!Answer
  <2> DEFINE rows == [x \in found |-> db.stock[x]]
  <2>2. rows \in [found -> Products!Stock] /\ found \in SUBSET Product
    BY <1>0, StockRows
  <2>3. rows \in Stocks /\ DOMAIN rows = found /\ \A x \in found : rows[x] = db.stock[x]
    BY <2>2, StockRows
  <2>4. ui' = [ui EXCEPT !.products = rows]
    BY <2>1
  <2> HIDE DEF rows
  <2>5. ui' \in ProductsScreen /\ ui'.products = rows /\ ui'.form = ui.form
    BY <1>0, <2>3, <2>4 DEF ProductsScreen
  <2>6. ProductsTyped'
    BY <1>0, <2>1, <2>5 DEF ProductsTyped
  <2>7. StockFollows'
    BY <1>0, <2>1, <2>3, <2>5 DEF StockFollows, FormFollows
  <2>8. ImageFollows'
    BY <2>1, <2>5 DEF ProductsInv, ImageFollows
  <2> QED BY <2>6, <2>7, <2>8 DEF ProductsInv
<1>11. ASSUME NEW q \in net, Products!DeleteProduct(q) PROVE ProductsInv'
  <2>1. CASE Products!Fails(q)
    BY <1>0, <2>1, ProductsForms DEF Products!Fails, ProductsScreen
  <2>2. CASE ~Products!Fails(q)
    <3> DEFINE stock == [x \in DOMAIN db.stock \ {q.id} |-> db.stock[x]]
    <3>1. db' = [db EXCEPT !.stock = stock] /\ net' = (net \ {q}) \cup {Products!List} /\ UNCHANGED <<ui, ghost>>
      BY <1>11, <2>2 DEF Products!DeleteProduct
    <3>2. stock \in [DOMAIN db.stock \ {q.id} -> Products!Stock] /\ DOMAIN db.stock \ {q.id} \in SUBSET Product
      BY <1>0, StockRows
    <3>3. stock \in Stocks /\ DOMAIN stock = DOMAIN db.stock \ {q.id} /\ \A x \in DOMAIN stock : stock[x] = db.stock[x]
      BY <3>2, StockRows
    <3> HIDE DEF stock
    <3>4. db' = [stock |-> stock, used |-> db.used] /\ db.used \in SUBSET Product
      BY <1>0, <3>1
    <3>5. /\ DOMAIN stock \subseteq db.used /\ DOMAIN stock \cap db.used \subseteq DOMAIN db.stock
          /\ \A x \in (DOMAIN stock \cap DOMAIN db.stock) \ ghost'.changed : stock[x] = db.stock[x]
      BY <1>0, <3>3
    <3> QED BY <1>0, <3>1, <3>3, <3>4, <3>5, ProductsRows
  <2> QED BY <2>1, <2>2
<1>12. ASSUME NEW q \in net, Products!Uploaded(q) PROVE ProductsInv'
  <2>1. q \in ProductUpload /\ q.id \in Products!MaybeProduct
    BY <1>0, <1>12, ProductKinds DEF ProductAsked, Products!Uploaded
  <2>2. CASE /\ ui' = [ui EXCEPT !.uploading = FALSE, !.form.image = q.id]
             /\ net' = net \ {q} /\ UNCHANGED db
             /\ ghost' = [ghost EXCEPT !.strayed = @ \/ ui.form.id # q.id]
    <3> DEFINE form == [ui.form EXCEPT !.image = q.id]
    <3>1. /\ form \in Products!Form /\ form.id = ui.form.id /\ form.opened = ui.form.opened /\ form.image = q.id
      BY <1>0, <2>1 DEF Products!Form
    <3>2. ui' = [ui EXCEPT !.uploading = FALSE, !.form = form]
      BY <2>2
    <3> HIDE DEF form
    <3>3. ui' \in ProductsScreen /\ ui'.products = ui.products /\ ui'.form = form
      BY <1>0, <3>1, <3>2 DEF ProductsScreen
    <3>4. ghost' \in Notes /\ ghost'.changed = ghost.changed /\ (ghost'.strayed <=> ghost.strayed \/ ui.form.id # q.id)
      BY <1>0, <2>2
    <3>5. FormFollows(form)
      BY <1>0, <3>1 DEF FormFollows
    <3> QED BY <2>2, <3>1, <3>3, <3>4, <3>5, ProductsForms
  <2>3. CASE Products!Answer(q, [ui EXCEPT !.uploading = FALSE], {})
    <3>1. ui' = [ui EXCEPT !.uploading = FALSE] /\ net' = net \ {q} /\ UNCHANGED <<db, ghost>>
      BY <2>3 DEF Products!Answer
    <3>2. ui' \in ProductsScreen /\ ui'.products = ui.products /\ ui'.form = ui.form
      BY <1>0, <3>1 DEF ProductsScreen
    <3> QED BY <1>0, <3>1, <3>2, ProductsForms
  <2> QED BY <1>12, <2>2, <2>3 DEF Products!Uploaded
<1>13. ASSUME NEW q \in net, Products!Saved(q) PROVE ProductsInv'
  <2>1. /\ q.op = "save" /\ ui' = [ui EXCEPT !.form.shown = FALSE] /\ net' = (net \ {q}) \cup {Products!List}
        /\ ghost' = [ghost EXCEPT !.changed = @ \cup {x \in DOMAIN db.stock : db'.stock[x] # db.stock[x]}]
    BY <1>13 DEF Products!Saved
  <2>2. q \in ProductSave /\ q.form \in Products!Form /\ q.form.stock \in Products!Stock
    <3>1. q \in ProductSave /\ q.form \in Products!Form
      BY <1>0, <2>1, ProductKinds DEF ProductAsked
    <3> QED BY <3>1 DEF Products!Form
  <2>3. /\ ui' \in ProductsScreen /\ ui'.products = ui.products /\ ui'.form.id = ui.form.id
        /\ ui'.form.opened = ui.form.opened /\ ui'.form.image = ui.form.image
    <3> DEFINE form == [ui.form EXCEPT !.shown = FALSE]
    <3>1. /\ form \in Products!Form /\ form.id = ui.form.id /\ form.opened = ui.form.opened
          /\ form.image = ui.form.image
      BY <1>0 DEF Products!Form
    <3>2. ui' = [ui EXCEPT !.form = form]
      BY <2>1
    <3> HIDE DEF form
    <3> QED BY <1>0, <3>1, <3>2 DEF ProductsScreen
  <2>4. DOMAIN db.stock \subseteq Product /\ db.used \in SUBSET Product /\ db.stock \in [DOMAIN db.stock -> Products!Stock]
    BY <1>0, StockRows
  <2>5. /\ ghost' \in Notes /\ ghost.changed \subseteq ghost'.changed /\ ghost'.strayed = ghost.strayed
        /\ \A x \in DOMAIN db.stock \ ghost'.changed : db'.stock[x] = db.stock[x]
    BY <1>0, <2>1, <2>4
  <2>6. PICK stock \in Stocks, used \in SUBSET Product :
          /\ db' = [stock |-> stock, used |-> used] /\ DOMAIN stock \subseteq used /\ db.used \subseteq used
          /\ DOMAIN stock \cap db.used \subseteq DOMAIN db.stock
    <3>1. CASE \E x \in Product \ db.used :
                 db' = [db EXCEPT !.used = @ \cup {x}, !.stock = [o \in DOMAIN @ \cup {x} |->
                                                IF o = x THEN q.form.stock ELSE @[o]]]
      <4>1. PICK x \in Product \ db.used :
              db' = [db EXCEPT !.used = db.used \cup {x}, !.stock = [o \in DOMAIN db.stock \cup {x} |->
                                                IF o = x THEN q.form.stock ELSE db.stock[o]]]
        BY <3>1
      <4> DEFINE stock == [o \in DOMAIN db.stock \cup {x} |-> IF o = x THEN q.form.stock ELSE db.stock[o]]
      <4>2. stock \in [DOMAIN db.stock \cup {x} -> Products!Stock] /\ DOMAIN db.stock \cup {x} \in SUBSET Product
        BY <2>2, <2>4
      <4>3. stock \in Stocks /\ DOMAIN stock = DOMAIN db.stock \cup {x}
        BY <4>2, StockRows
      <4>4. db' = [db EXCEPT !.used = db.used \cup {x}, !.stock = stock]
        BY <4>1
      <4> HIDE DEF stock
      <4>5. db' = [stock |-> stock, used |-> db.used \cup {x}] /\ db.used \cup {x} \in SUBSET Product
        BY <1>0, <4>4
      <4>6. DOMAIN stock \subseteq db.used \cup {x} /\ DOMAIN stock \cap db.used \subseteq DOMAIN db.stock
        BY <1>0, <4>3
      <4> QED BY <4>3, <4>5, <4>6
    <3>2. CASE q.form.id \in DOMAIN db.stock /\ db' = [db EXCEPT !.stock[q.form.id] = q.form.stock]
      <4> DEFINE stock == [db.stock EXCEPT ![q.form.id] = q.form.stock]
      <4>1. stock \in [DOMAIN db.stock -> Products!Stock]
        BY <2>2, <2>4
      <4>2. stock \in Stocks /\ DOMAIN stock = DOMAIN db.stock
        BY <2>4, <4>1, StockRows
      <4>3. db' = [db EXCEPT !.stock = stock]
        BY <3>2
      <4> HIDE DEF stock
      <4>4. db' = [stock |-> stock, used |-> db.used]
        BY <1>0, <4>3
      <4> QED BY <1>0, <2>4, <4>2, <4>4
    <3> QED BY <1>13, <3>1, <3>2 DEF Products!Saved
  <2>7. \A x \in (DOMAIN stock \cap DOMAIN db.stock) \ ghost'.changed : stock[x] = db.stock[x]
    BY <2>5, <2>6
  <2>8. \A r \in net' : r \in net \/ r = Products!List
    BY <2>1
  <2> QED BY <2>3, <2>5, <2>6, <2>7, <2>8, ProductsRows
<1>14. ASSUME NEW x \in Product, Products!Sold(x) PROVE ProductsInv'
  <2>1. /\ x \in DOMAIN db.stock /\ db.stock[x] > 0 /\ db' = [db EXCEPT !.stock[x] = @ - 1]
        /\ ghost' = [ghost EXCEPT !.changed = @ \cup {x}] /\ UNCHANGED <<ui, net>>
    BY <1>14 DEF Products!Sold
  <2> DEFINE stock == [db.stock EXCEPT ![x] = db.stock[x] - 1]
  <2>2. db.stock \in [DOMAIN db.stock -> Products!Stock] /\ DOMAIN db.stock \in SUBSET Product
    BY <1>0, StockRows
  <2>3. db.stock[x] - 1 \in Products!Stock
    <3>1. db.stock[x] \in 0..MaxStock /\ MaxStock \in Nat
      BY <2>1, <2>2, BoundsAssumption DEF Products!Stock
    <3> QED BY <2>1, <3>1 DEF Products!Stock
  <2>4. stock \in [DOMAIN db.stock -> Products!Stock] /\ \A o \in DOMAIN db.stock \ {x} : stock[o] = db.stock[o]
    BY <2>1, <2>2, <2>3
  <2>5. stock \in Stocks /\ DOMAIN stock = DOMAIN db.stock
    BY <2>2, <2>4, StockRows
  <2>6. db' = [db EXCEPT !.stock = stock]
    BY <2>1
  <2> HIDE DEF stock
  <2>7. db' = [stock |-> stock, used |-> db.used] /\ db.used \in SUBSET Product
    BY <1>0, <2>6
  <2>8. ghost' \in Notes /\ ghost'.changed = ghost.changed \cup {x} /\ ghost'.strayed = ghost.strayed
    BY <1>0, <2>1
  <2>9. \A o \in (DOMAIN stock \cap DOMAIN db.stock) \ ghost'.changed : stock[o] = db.stock[o]
    BY <2>4, <2>5, <2>8
  <2> QED BY <1>0, <2>1, <2>5, <2>7, <2>8, <2>9, ProductsRows
<1>15. ASSUME NEW q \in net, Products!SaveFails(q) PROVE ProductsInv'
  <2>1. net' = net \ {q} /\ UNCHANGED <<ui, db, ghost>>
    BY <1>15 DEF Products!SaveFails, Products!Fails
  <2> QED BY <1>0, <2>1, ProductsForms
<1>16. CASE Products!Seller
  BY <1>2, <1>3, <1>4, <1>5, <1>7, <1>8, <1>9, <1>16 DEF Products!Seller
<1>17. ASSUME NEW q \in net, Products!Answered(q) PROVE ProductsInv'
  BY <1>10, <1>11, <1>12, <1>13, <1>15, <1>17 DEF Products!Answered
<1> QED BY <1>14, <1>16, <1>17 DEF Products!Next

\* A stock that is saved over was entered, unless it was changed under the form.
LEMMA ProductsSaved == ProductsInv /\ Products!Next => Products!StockIsEntered
<1> SUFFICES ASSUME ProductsInv, Products!Next,
                    NEW x \in (DOMAIN db.stock \cap DOMAIN db'.stock) \ ghost.changed,
                    db'.stock[x] # db.stock[x], net' # net
             PROVE  \E q \in net : q.op = "save" /\ q.form.stock # q.form.opened
  BY DEF Products!StockIsEntered
<1>0. /\ db \in [stock : Stocks, used : SUBSET Product] /\ DOMAIN db.stock \subseteq db.used
      /\ \A q \in net : q.op = "save" => FormFollows(q.form)
  BY DEF ProductsInv, ProductsTyped, StockFollows
<1>1. UNCHANGED db => FALSE
  OBVIOUS
<1>2. ASSUME Products!Seller PROVE UNCHANGED db
  BY <1>2 DEF Products!Seller, Products!HandleDelete, Products!OpenEdit, Products!Search, Products!OpenNew,
     Products!EnterStock, Products!CloseForm, Products!HandleImageUpload, Products!HandleSave,
     Products!Acts, Products!Local
<1>3. ASSUME NEW q \in net, Products!FetchProducts(q) \/ Products!Uploaded(q) \/ Products!SaveFails(q) PROVE UNCHANGED db
  BY <1>3 DEF Products!FetchProducts, Products!Uploaded, Products!SaveFails, Products!Fails, Products!Answer
<1>4. ASSUME NEW q \in net, Products!DeleteProduct(q) PROVE FALSE
  <2>1. db'.stock = [o \in DOMAIN db.stock \ {q.id} |-> db.stock[o]]
    BY <1>0, <1>1, <1>4 DEF Products!DeleteProduct, Products!Fails
  <2> QED BY <2>1
<1>5. ASSUME NEW q \in net, Products!Saved(q) PROVE q.op = "save" /\ q.form.stock # q.form.opened
  <2>1. CASE \E n \in Product \ db.used :
               db' = [db EXCEPT !.used = @ \cup {n}, !.stock = [o \in DOMAIN @ \cup {n} |->
                                                IF o = n THEN q.form.stock ELSE @[o]]]
    <3>1. PICK n \in Product \ db.used :
            db' = [db EXCEPT !.used = db.used \cup {n}, !.stock = [o \in DOMAIN db.stock \cup {n} |->
                                                IF o = n THEN q.form.stock ELSE db.stock[o]]]
      BY <2>1
    <3>2. db'.stock = [o \in DOMAIN db.stock \cup {n} |-> IF o = n THEN q.form.stock ELSE db.stock[o]]
      BY <1>0, <3>1
    <3>3. x # n
      BY <1>0
    <3> QED BY <3>2, <3>3
  <2>2. CASE q.form.id \in DOMAIN db.stock /\ db' = [db EXCEPT !.stock[q.form.id] = q.form.stock]
    <3>1. db'.stock = [db.stock EXCEPT ![q.form.id] = q.form.stock]
      BY <1>0, <2>2
    <3>2. q.op = "save"
      BY <1>5 DEF Products!Saved
    <3>3. x = q.form.id /\ q.form.stock # db.stock[x]
      BY <1>0, <3>1, StockRows
    <3> QED BY <1>0, <3>2, <3>3 DEF FormFollows
  <2> QED BY <1>5, <2>1, <2>2 DEF Products!Saved
<1>6. ASSUME NEW o \in Product, Products!Sold(o) PROVE FALSE
  BY <1>6 DEF Products!Sold
<1>7. CASE \E q \in net : Products!Answered(q)
  <2>1. PICK q \in net : Products!Answered(q)
    BY <1>7
  <2>2. q.op = "save" /\ q.form.stock # q.form.opened
    BY <1>1, <1>3, <1>4, <1>5, <2>1 DEF Products!Answered
  <2> QED BY <2>2
<1> QED BY <1>1, <1>2, <1>6, <1>7 DEF Products!Next

---------------------------------------------------------------------------
(* The keys a save stores *)

\* What a page shows and what was sent of a service's secret was entered there.  The
\* shop's page starts with none and is loaded once, before anything can be entered.
SecretsEntered(keys, entered) ==
    \A p \in Payment : keys[p]["secret"] # "" => <<p, "secret">> \in entered
KeysOfPage ==
    /\ ui.path = "shop" =>
          /\ SecretsEntered(ui.keys, ghost.entered)
          /\ Shop!Load \in net => ui.loading
          /\ ui.loading => \A p \in Payment : ui.keys[p]["secret"] = ""
    /\ ui.path = "integrations" =>
          \A p \in Shop!Provider, f \in Shop!Field :
              ui.keys[p][f] = "entered" => <<p, f>> \in ghost.entered
KeysOfSave(q) ==
    /\ q \in ShopSave => SecretsEntered(q.keys, q.entered)
    /\ q \in KeySave => /\ q.live => ui.path = "integrations"
                        /\ \A f \in Shop!Field : q.keys[f] = "entered" => <<q.tab, f>> \in q.entered

OriginInv == KeysInv /\ KeysOfPage /\ \A q \in net : KeysOfSave(q)

LEMMA SaveKinds ==
    /\ Shop!Load \notin ShopSave /\ Shop!Load \notin KeySave
    /\ \A q \in ShopSave : q \notin KeySave /\ q.op \in {"post", "put"}
    /\ \A q \in KeySave : q.op = "integrations"
    /\ Shop!Load.op = "load"
<1>1. Shop!Load.op = "load"
  BY DEF Shop!Load
<1>2. \A q \in ShopSave : q.op \in {"post", "put"}
  BY DEF ShopSave
<1>3. \A q \in KeySave : q.op = "integrations"
  BY DEF KeySave
<1> QED BY <1>1, <1>2, <1>3

LEMMA BlankOrigin ==
    ASSUME NEW path \in {"shop", "integrations"}, NEW tab \in Shop!Provider, ui' = Shop!Blank(path, tab)
    PROVE  KeysOfPage'
<1>1. /\ \A p \in Shop!Provider, f \in Shop!Field : ui'.keys[p][f] = ""
      /\ ui'.loading
  BY DEF Shop!Blank, Shop!NoKeys
<1>2. Payment \subseteq Shop!Provider /\ "secret" \in Shop!Field
  BY DEF Shop!Provider, Shop!Field
<1> QED BY <1>1, <1>2 DEF KeysOfPage, SecretsEntered

LEMMA OriginStart == Shop!Init => OriginInv
<1> SUFFICES ASSUME Shop!Init PROVE OriginInv
  OBVIOUS
<1>1. PICK path \in {"shop", "integrations"}, tab \in Payment : ui = Shop!Blank(path, tab)
  BY DEF Shop!Init
<1>2. /\ \A p \in Shop!Provider, f \in Shop!Field : ui.keys[p][f] = ""
      /\ ui.loading
  BY <1>1 DEF Shop!Blank, Shop!NoKeys
<1>3. Payment \subseteq Shop!Provider /\ "secret" \in Shop!Field
  BY DEF Shop!Provider, Shop!Field
<1>4. KeysOfPage
  BY <1>2, <1>3 DEF KeysOfPage, SecretsEntered
<1>5. \A q \in net : KeysOfSave(q)
  BY SaveKinds DEF Shop!Init, KeysOfSave
<1> QED BY <1>4, <1>5, KeysInit DEF OriginInv

\* What is under way stays so when the page stays.
LEMMA OriginStays ==
    ASSUME OriginInv, ui'.path = ui.path, NEW q \in net
    PROVE  KeysOfSave(q)'
  BY DEF OriginInv, KeysOfSave, SecretsEntered

\* A field is entered, in one of the pages.
LEMMA OriginEntered ==
    ASSUME OriginInv, NEW p \in Shop!Provider, NEW f \in Shop!Field, NEW text \in Shop!Text \ {Shop!Mask},
           Shop!Enter(p, f, text), ~ui.loading
    PROVE  KeysOfPage' /\ UNCHANGED net /\ ui'.path = ui.path
<1>1. ui \in ShopScreen /\ ui.keys \in Shop!Keys(Shop!Provider) /\ ghost \in ShopNotes
  BY DEF OriginInv, KeysInv, ShopScreen
<1> DEFINE keys == [ui.keys EXCEPT ![p][f] = text]
<1>2. \A r \in Shop!Provider, g \in Shop!Field : keys[r][g] = IF r = p /\ g = f THEN text ELSE ui.keys[r][g]
  BY <1>1 DEF Shop!Keys
<1>3. ui' = [ui EXCEPT !.keys = keys] /\ UNCHANGED net
  BY DEF Shop!Enter
<1> HIDE DEF keys
<1>4. ui'.keys = keys /\ ui'.path = ui.path /\ ui'.loading = ui.loading
  BY <1>1, <1>3 DEF ShopScreen
<1>5. ghost'.entered = ghost.entered \cup {<<p, f>>}
  BY <1>1 DEF Shop!Enter, ShopNotes
<1>6. Payment \subseteq Shop!Provider /\ "secret" \in Shop!Field
  BY DEF Shop!Provider, Shop!Field
<1>7. CASE ui.path = "shop"
  <2>1. \A r \in Payment : keys[r]["secret"] # "" => <<r, "secret">> \in ghost'.entered
    BY <1>2, <1>5, <1>6, <1>7 DEF OriginInv, KeysOfPage, SecretsEntered
  <2>2. Shop!Load \notin net'
    BY <1>3, <1>7 DEF OriginInv, KeysOfPage
  <2> QED BY <1>4, <1>7, <2>1, <2>2, <1>3 DEF KeysOfPage, SecretsEntered
<1>8. CASE ui.path = "integrations"
  <2>1. \A r \in Shop!Provider, g \in Shop!Field : keys[r][g] = "entered" => <<r, g>> \in ghost'.entered
    BY <1>2, <1>5, <1>8 DEF OriginInv, KeysOfPage
  <2> QED BY <1>4, <1>8, <2>1, <1>3 DEF KeysOfPage
<1> QED BY <1>1, <1>3, <1>4, <1>7, <1>8 DEF ShopScreen

LEMMA OriginNext == OriginInv /\ Shop!Next => OriginInv'
<1> SUFFICES ASSUME OriginInv, Shop!Next PROVE KeysOfPage' /\ \A q \in net' : KeysOfSave(q)'
  BY KeysNext DEF OriginInv
<1>0. /\ ui \in ShopScreen /\ ui.keys \in Shop!Keys(Shop!Provider) /\ ghost \in ShopNotes /\ db \in ShopRow
      /\ KeysOfPage /\ \A q \in net : KeysOfSave(q) /\ (q = Shop!Load \/ q \in KeySave \/ q \in ShopSave)
      /\ Payment \subseteq Shop!Provider /\ "secret" \in Shop!Field
  BY DEF OriginInv, KeysInv, ShopScreen, Shop!Provider, Shop!Field
<1>1. ASSUME NEW path \in {"shop", "integrations"}, Shop!Visit(path)
      PROVE  KeysOfPage' /\ \A q \in net' : KeysOfSave(q)'
  <2>1. PICK tab \in Payment : ui' = Shop!Blank(path, tab)
    BY <1>1 DEF Shop!Visit
  <2>2. net' = {[q EXCEPT !.live = FALSE] : q \in net \ {Shop!Load}} \cup {Shop!Load}
    BY <1>1 DEF Shop!Visit
  <2>3. /\ \A q \in KeySave : LET left == [q EXCEPT !.live = FALSE]
                              IN  left \in KeySave /\ left.live = FALSE /\ left.keys = q.keys
                                  /\ left.entered = q.entered /\ left.tab = q.tab
        /\ \A q \in ShopSave : LET left == [q EXCEPT !.live = FALSE]
                               IN  left \in ShopSave /\ left.keys = q.keys /\ left.entered = q.entered
    BY DEF KeySave, ShopSave
  <2>4. ASSUME NEW q \in net \ {Shop!Load} PROVE KeysOfSave([q EXCEPT !.live = FALSE])'
    <3>1. CASE q \in KeySave
      BY <1>0, <2>3, <3>1, SaveKinds DEF KeysOfSave, SecretsEntered
    <3>2. CASE q \in ShopSave
      BY <1>0, <2>3, <3>2, SaveKinds DEF KeysOfSave, SecretsEntered
    <3> QED BY <1>0, <3>1, <3>2
  <2>5. KeysOfSave(Shop!Load)'
    BY SaveKinds DEF KeysOfSave
  <2> QED BY <1>0, <2>1, <2>2, <2>4, <2>5, BlankOrigin
<1>2. ASSUME Shop!FetchShopAndRules PROVE KeysOfPage' /\ \A q \in net' : KeysOfSave(q)'
  <2> DEFINE keys == [p \in Shop!Provider |->
                        IF p \in Courier THEN db.json[p]
                        ELSE [f \in Shop!Field |-> IF f = "secret" THEN "" ELSE db.columns[p][f]]]
  <2>1. /\ ui.path = "shop" /\ Shop!Load \in net /\ net' = net \ {Shop!Load}
        /\ \/ ui' = [ui EXCEPT !.loading = FALSE, !.name = "entered", !.mode = db.mode, !.keys = keys]
           \/ ui' = [ui EXCEPT !.loading = FALSE, !.isNew = TRUE]
    BY <1>2 DEF Shop!FetchShopAndRules
  <2>2. \A p \in Payment : keys[p]["secret"] = ""
    BY <1>0, ServicesAssumption
  <2> HIDE DEF keys
  <2>3. ui'.path = "shop" /\ ui'.loading = FALSE /\ ui'.keys \in {keys, ui.keys}
    BY <1>0, <2>1 DEF ShopScreen
  <2>4. \A p \in Payment : ui'.keys[p]["secret"] = ""
    BY <1>0, <2>1, <2>2, <2>3 DEF KeysOfPage
  <2> QED BY <1>0, <2>1, <2>3, <2>4, OriginStays DEF KeysOfPage, SecretsEntered
<1>3. ASSUME Shop!LoadIntegrations PROVE KeysOfPage' /\ \A q \in net' : KeysOfSave(q)'
  <2> DEFINE keys == [p \in Shop!Provider |-> [f \in Shop!Field |-> IF p \in Shop!Configured THEN Shop!Mask ELSE ""]]
  <2>1. /\ ui.path = "integrations" /\ net' \subseteq net
        /\ \/ ui' = [ui EXCEPT !.loading = FALSE, !.configured = Shop!Configured, !.keys = keys]
           \/ ui' = [ui EXCEPT !.loading = FALSE] /\ UNCHANGED ghost
    BY <1>3 DEF Shop!LoadIntegrations
  <2>2. \A p \in Shop!Provider, f \in Shop!Field : keys[p][f] # "entered"
    BY DEF Shop!Mask
  <2> HIDE DEF keys
  <2>3. /\ ui'.path = "integrations"
        /\ ui'.keys = keys \/ (ui'.keys = ui.keys /\ ghost' = ghost)
    BY <1>0, <2>1 DEF ShopScreen
  <2> QED BY <1>0, <2>1, <2>2, <2>3, OriginStays DEF KeysOfPage
<1>4. ASSUME Shop!EnterShop \/ Shop!SetMode \/ Shop!SetActiveTab
      PROVE  KeysOfPage' /\ \A q \in net' : KeysOfSave(q)'
  <2>1. /\ ui'.keys = ui.keys /\ ui'.path = ui.path /\ ui'.loading = ui.loading
        /\ UNCHANGED <<net, ghost>>
    BY <1>0, <1>4 DEF Shop!EnterShop, Shop!SetMode, Shop!SetActiveTab, ShopScreen
  <2> QED BY <1>0, <2>1, OriginStays DEF KeysOfPage, SecretsEntered
<1>5. ASSUME Shop!EnterPayment \/ Shop!EnterCourier \/ Shop!PaymentPanel \/ Shop!CourierPanel
      PROVE  KeysOfPage' /\ \A q \in net' : KeysOfSave(q)'
  <2>1. PICK p \in Shop!Provider, f \in Shop!Field, text \in Shop!Text \ {Shop!Mask} :
          Shop!Enter(p, f, text) /\ ~ui.loading
    BY <1>0, <1>5 DEF Shop!EnterPayment, Shop!EnterCourier, Shop!PaymentPanel, Shop!CourierPanel, Shop!Provider
  <2> QED BY <2>1, OriginEntered, OriginStays
<1>6. ASSUME Shop!HandleSaveShop PROVE KeysOfPage' /\ \A q \in net' : KeysOfSave(q)'
  <2>0. PICK q : q = [op |-> IF ui.isNew THEN "post" ELSE "put", mode |-> ui.mode, keys |-> ui.keys,
                      entered |-> ghost.entered, live |-> TRUE]
    OBVIOUS
  <2>1. Shop!Send(q) /\ ui.path = "shop" /\ ~ui.loading
    BY <1>6, <2>0 DEF Shop!HandleSaveShop
  <2>2. q \notin KeySave /\ q # Shop!Load /\ q.keys = ui.keys /\ q.entered = ghost.entered
    BY <2>0 DEF KeySave, Shop!Load
  <2>3. /\ ui'.keys = ui.keys /\ ui'.path = ui.path /\ ui'.loading = ui.loading
        /\ ghost'.entered = ghost.entered /\ net' = net \cup {q}
    BY <1>0, <2>1 DEF Shop!Send, ShopScreen, ShopNotes
  <2>4. KeysOfSave(q)'
    <3>1. SecretsEntered(ui.keys, ghost.entered)
      BY <1>0, <2>1 DEF KeysOfPage
    <3>2. q.keys = ui.keys /\ q.entered = ghost.entered /\ q \notin KeySave
      BY <2>2
    <3>3. SecretsEntered(q.keys, q.entered)
      BY <3>1, <3>2
    <3> QED BY <3>2, <3>3 DEF KeysOfSave, SecretsEntered
  <2>5. Shop!Load \notin net'
    BY <1>0, <2>1, <2>2, <2>3 DEF KeysOfPage
  <2>6. KeysOfPage'
    <3>1. SecretsEntered(ui.keys, ghost.entered)
      BY <1>0, <2>1 DEF KeysOfPage
    <3>2. ui'.keys = ui.keys /\ ghost'.entered = ghost.entered
      BY <2>3
    <3>3. SecretsEntered(ui'.keys, ghost'.entered)
      BY <3>1, <3>2
    <3> QED BY <2>1, <2>3, <2>5, <3>3 DEF KeysOfPage, SecretsEntered
  <2> QED BY <2>3, <2>4, <2>6, OriginStays
<1>7. ASSUME Shop!HandleSaveIntegrations PROVE KeysOfPage' /\ \A q \in net' : KeysOfSave(q)'
  <2>0. PICK q : q = [op |-> "integrations", tab |-> ui.tab, keys |-> ui.keys[ui.tab],
                      entered |-> ghost.entered, live |-> TRUE]
    OBVIOUS
  <2>1. Shop!Send(q) /\ ui.path = "integrations" /\ ~ui.loading
    BY <1>7, <2>0 DEF Shop!HandleSaveIntegrations
  <2>2. q \notin ShopSave /\ q.keys = ui.keys[ui.tab] /\ q.tab = ui.tab /\ q.entered = ghost.entered
    BY <2>0 DEF ShopSave
  <2>3. /\ ui'.keys = ui.keys /\ ui'.path = ui.path /\ ui'.loading = ui.loading
        /\ ghost'.entered = ghost.entered /\ net' = net \cup {q}
    BY <1>0, <2>1 DEF Shop!Send, ShopScreen, ShopNotes
  <2>4. ui.tab \in Shop!Provider
    BY <1>0 DEF ShopScreen
  <2>5. KeysOfSave(q)'
    BY <1>0, <2>1, <2>2, <2>3, <2>4 DEF KeysOfSave, KeysOfPage
  <2> QED BY <1>0, <2>1, <2>3, <2>5, OriginStays DEF KeysOfPage
<1>8. ASSUME NEW q \in net, Shop!ShopSaved(q) \/ Shop!IntegrationsSaved(q) \/ Shop!SaveFails(q)
      PROVE  KeysOfPage' /\ \A r \in net' : KeysOfSave(r)'
  <2>1. /\ ui'.keys = ui.keys /\ ui'.path = ui.path /\ UNCHANGED ghost
    BY <1>0, <1>8 DEF Shop!ShopSaved, Shop!IntegrationsSaved, Shop!SaveFails, Shop!Heard, ShopScreen
  <2>2. CASE net' \subseteq net /\ ui'.loading = ui.loading
    BY <1>0, <2>1, <2>2, OriginStays DEF KeysOfPage, SecretsEntered
  <2>3. CASE Shop!IntegrationsSaved(q)
    <3>1. q.op = "integrations" /\ q \in KeySave
      BY <1>0, <2>3, SaveKinds DEF Shop!IntegrationsSaved
    <3>2. CASE q.live
      <4>1. ui.path = "integrations" /\ net' \subseteq net \cup {Shop!Load}
        BY <1>0, <2>3, <3>1, <3>2 DEF KeysOfSave, Shop!IntegrationsSaved
      <4>2. KeysOfSave(Shop!Load)'
        BY SaveKinds DEF KeysOfSave
      <4> QED BY <1>0, <2>1, <4>1, <4>2, OriginStays DEF KeysOfPage
    <3>3. CASE ~q.live
      BY <2>2, <2>3, <3>3 DEF Shop!IntegrationsSaved, Shop!Heard
    <3> QED BY <3>2, <3>3
  <2>4. CASE Shop!ShopSaved(q) \/ Shop!SaveFails(q)
    BY <1>0, <2>2, <2>4 DEF Shop!ShopSaved, Shop!SaveFails, Shop!Heard, ShopScreen
  <2> QED BY <1>8, <2>3, <2>4
<1> QED BY <1>1, <1>2, <1>3, <1>4, <1>5, <1>6, <1>7, <1>8 DEF Shop!Next

\* A key in the row comes from a save in whose form it was entered.
LEMMA KeysSaved == OriginInv /\ Shop!Next => Shop!KeysAreEntered
<1> SUFFICES ASSUME OriginInv, Shop!Next, NEW p \in Shop!Provider, NEW f \in Shop!Field,
                    db'.columns[p][f] \notin {db.columns[p][f], ""}
             PROVE  \E q \in net \ net' : <<p, f>> \in q.entered \/ (f = "id" /\ q.op = "put")
  BY DEF Shop!KeysAreEntered
<1>0. /\ db \in ShopRow /\ db.columns \in Shop!Keys(Shop!Provider)
      /\ \A q \in net : KeysOfSave(q) /\ (q = Shop!Load \/ q \in KeySave \/ q \in ShopSave)
  BY DEF OriginInv, KeysInv, ShopRow
<1>1. UNCHANGED db => FALSE
  OBVIOUS
<1>2. ASSUME NEW q \in net, Shop!Served(q), q \notin net'
      PROVE  \E r \in net \ net' : <<p, f>> \in r.entered \/ (f = "id" /\ r.op = "put")
  <2>1. CASE q.op = "post" /\ Shop!CreateShop(q)
    BY <2>1 DEF Shop!CreateShop, Shop!NoKeys
  <2>2. CASE q.op = "put" /\ Shop!UpdateMyShop(q)
    <3>1. q \in ShopSave /\ KeysOfSave(q)
      BY <1>0, <2>2, SaveKinds
    <3>2. db'.columns = [r \in Shop!Provider |-> IF r \in Payment THEN q.keys[r] ELSE db.columns[r]]
      BY <1>0, <2>2 DEF Shop!UpdateMyShop, ShopRow
    <3>3. p \in Payment /\ q.keys[p][f] # ""
      BY <3>2
    <3> QED BY <1>2, <2>2, <3>1, <3>3 DEF KeysOfSave, SecretsEntered, Shop!Field
  <2>3. CASE q.op = "integrations" /\ Shop!UpdateIntegrations(q)
    <3>1. q \in KeySave /\ KeysOfSave(q)
      BY <1>0, <2>3, SaveKinds
    <3>2. q.tab \in Shop!Provider /\ q.keys \in [Shop!Field -> Shop!Text]
      BY <3>1 DEF KeySave
    <3> DEFINE row == [g \in Shop!Field |-> IF q.keys[g] = Shop!Mask THEN db.columns[q.tab][g] ELSE q.keys[g]]
    <3>3. db' = [db EXCEPT !.columns = [db.columns EXCEPT ![q.tab] = row]]
      BY <1>1, <2>3 DEF Shop!UpdateIntegrations
    <3>4. db'.columns = [db.columns EXCEPT ![q.tab] = row]
      BY <1>0, <3>3 DEF ShopRow
    <3>5. p = q.tab /\ row[f] \notin {db.columns[p][f], ""}
      BY <1>0, <3>2, <3>4 DEF Shop!Keys
    <3>6. q.keys[f] = "entered"
      BY <3>2, <3>5 DEF Shop!Text
    <3> QED BY <1>2, <3>1, <3>5, <3>6 DEF KeysOfSave
  <2> QED BY <1>2, <2>1, <2>2, <2>3 DEF Shop!Served
<1>3. ASSUME NEW q \in net, Shop!ShopSaved(q) \/ Shop!IntegrationsSaved(q) \/ Shop!SaveFails(q)
      PROVE  Shop!Served(q) /\ q \notin net'
  <2>1. Shop!Served(q)
    BY <1>1, <1>3 DEF Shop!ShopSaved, Shop!IntegrationsSaved, Shop!SaveFails
  <2>2. q \notin net'
    BY <1>0, <1>3, SaveKinds DEF Shop!ShopSaved, Shop!IntegrationsSaved, Shop!SaveFails
  <2> QED BY <2>1, <2>2
<1>4. ASSUME ~\E q \in net : Shop!ShopSaved(q) \/ Shop!IntegrationsSaved(q) \/ Shop!SaveFails(q)
      PROVE  UNCHANGED db
  BY <1>4 DEF Shop!Next, Shop!Visit, Shop!FetchShopAndRules, Shop!LoadIntegrations, Shop!EnterShop, Shop!SetMode,
     Shop!EnterPayment, Shop!EnterCourier, Shop!SetActiveTab, Shop!PaymentPanel, Shop!CourierPanel, Shop!Enter,
     Shop!HandleSaveShop, Shop!HandleSaveIntegrations, Shop!Send
<1> QED BY <1>1, <1>2, <1>3, <1>4

---------------------------------------------------------------------------
(* The editors of the landing page's sections *)

EditorsScreen ==
    [tab : Section, form : Editors!Content \cup {NoForm}, saving : BOOLEAN,
     data : [Section -> Editors!Version], invalid : SUBSET Section]
EditorsRows == [row : [Section -> Editors!Content], saves : [Section -> 0..MaxContentActs]]
SectionGet == [op : {"get"}, section : Section]
SectionPut ==
    [op : {"put"}, section : Section, value : Editors!Content, at : {"sent", "written"}, live : BOOLEAN]
EditorsNotes == [acts : 1..MaxContentActs, hasty : BOOLEAN]

EditorsTyped ==
    /\ ui \in EditorsScreen /\ db \in EditorsRows /\ ghost \in EditorsNotes
    /\ \A q \in net : q \in SectionGet \/ q \in SectionPut

\* Every text comes from an edit there has been.
Written(content) == \A p \in Editors!Part : content[p] <= ghost.acts
TextsWritten ==
    /\ \A s \in Section : Written(db.row[s])
    /\ ui.form # NoForm => Written(ui.form)
    /\ \A q \in net : q.op = "put" => Written(q.value)

\* Every save, of those that are counted and of those that are still to be, was an act.
Unserved(s) == {q \in net : q.op = "put" /\ q.section = s /\ q.at = "sent"}
SavesCounted ==
    \A s \in Section :
        IsFiniteSet(Unserved(s)) /\ db.saves[s] + Cardinality(Unserved(s)) < ghost.acts

\* As long as no editor was left and no save given up during one: at most one save
\* is under way, the one of the editor that shows so; each text is as old as its
\* row's or younger, be it in the form, in the save, or, after it, in the row.
Younger(new, old) == \A p \in Editors!Part : new[p] # 0 => new[p] >= old[p]
SavesFollow ==
    ~ghost.hasty =>
        /\ \A q \in net : q.op = "put" => q.live /\ q.section = ui.tab /\ ui.saving
        /\ \A q, r \in net : q.op = "put" /\ r.op = "put" => q = r
        /\ ui.form # NoForm => Younger(ui.form, db.row[ui.tab])
        /\ \A q \in net : q.op = "put" /\ q.at = "sent" =>
              Younger(q.value, db.row[q.section]) /\ (ui.form # NoForm => Younger(ui.form, q.value))

EditorsInv == EditorsTyped /\ TextsWritten /\ SavesCounted /\ SavesFollow

LEMMA EditorKinds ==
    /\ \A q \in SectionGet : q.op = "get" /\ q.section \in Section
    /\ \A q \in SectionPut : /\ q.op = "put" /\ q.section \in Section /\ q.value \in Editors!Content
                             /\ q.at \in {"sent", "written"} /\ q.live \in BOOLEAN
    /\ \A s \in Section : Editors!Get(s) \in SectionGet
<1>1. \A q \in SectionGet : q.op = "get" /\ q.section \in Section
  BY DEF SectionGet
<1>2. \A q \in SectionPut : /\ q.op = "put" /\ q.section \in Section /\ q.value \in Editors!Content
                            /\ q.at \in {"sent", "written"} /\ q.live \in BOOLEAN
  BY DEF SectionPut
<1>3. \A s \in Section : Editors!Get(s) \in SectionGet
  BY DEF Editors!Get, SectionGet
<1> QED BY <1>1, <1>2, <1>3

LEMMA EditorsSuffice == EditorsInv => Editors!TypeOK
<1>1. \A q : q \in SectionGet \/ q \in SectionPut => q.op \in {"get", "put"} /\ q.section \in Section
  BY EditorKinds
<1> QED BY <1>1 DEF EditorsInv, EditorsTyped, Editors!TypeOK, EditorsScreen, EditorsRows, EditorsNotes

LEMMA NoTexts ==
    /\ Editors!Blank \in Editors!Content /\ Editors!Stored \in Editors!Content
    /\ \A p \in Editors!Part : Editors!Blank[p] = 0 /\ Editors!Stored[p] = 1
    /\ \A s, v : Editors!Opened(s, v) \in {Editors!Blank, NoForm}
    /\ \A c \in Editors!Content, p \in Editors!Part : c[p] \in Nat
<1>1. MaxContentActs \in Nat /\ MaxContentActs # 0
  BY BoundsAssumption, ContentAssumption
<1>2. 0 \in 0..MaxContentActs /\ 1 \in 0..MaxContentActs /\ 0..MaxContentActs \subseteq Nat
  BY <1>1
<1> QED BY <1>2 DEF Editors!Blank, Editors!Stored, Editors!Content, Editors!Opened

LEMMA EditorsStart == Editors!Init => EditorsInv
<1> SUFFICES ASSUME Editors!Init PROVE EditorsInv
  OBVIOUS
<1>1. PICK s \in Section :
        /\ ui = [tab |-> s, form |-> Editors!Opened(s, Editors!NoData), saving |-> FALSE,
                 data |-> [x \in Section |-> Editors!NoData], invalid |-> {}]
        /\ net = {Editors!Get(s)}
  BY DEF Editors!Init
<1>2. /\ db = [row |-> [x \in Section |-> Editors!Stored], saves |-> [x \in Section |-> 0]]
      /\ ghost = [acts |-> 1, hasty |-> FALSE]
  BY DEF Editors!Init
<1>3. 1 \in 1..MaxContentActs /\ 0 \in 0..MaxContentActs /\ Editors!NoData \in Editors!Version
  BY BoundsAssumption, ContentAssumption DEF Editors!NoData, Editors!Version
<1>4. \A q \in net : q \in SectionGet /\ q.op # "put"
  BY <1>1, EditorKinds
<1>5. EditorsTyped
  BY <1>1, <1>2, <1>3, <1>4, NoTexts DEF EditorsTyped, EditorsScreen, EditorsRows, EditorsNotes
<1>6. TextsWritten
  <2>1. Written(Editors!Stored) /\ Written(Editors!Blank)
    BY <1>2, NoTexts DEF Written
  <2> QED BY <1>1, <1>2, <1>4, <2>1, NoTexts DEF TextsWritten
<1>7. SavesCounted
  <2>1. \A x \in Section : Unserved(x) = {}
    BY <1>4 DEF Unserved
  <2> QED BY <1>2, <2>1, FS_EmptySet DEF SavesCounted
<1>8. SavesFollow
  <2>1. Younger(Editors!Blank, Editors!Stored)
    BY NoTexts DEF Younger
  <2> QED BY <1>1, <1>2, <1>4, <2>1, NoTexts DEF SavesFollow
<1> QED BY <1>5, <1>6, <1>7, <1>8 DEF EditorsInv

\* An act more, of a form that was shown.
LEMMA EditorActs ==
    ASSUME EditorsInv, ghost.acts < MaxContentActs, NEW hasty \in BOOLEAN,
           ghost' = [[ghost EXCEPT !.hasty = hasty] EXCEPT !.acts = @ + 1]
    PROVE  /\ ghost' \in EditorsNotes /\ ghost'.acts = ghost.acts + 1 /\ ghost'.hasty = hasty
           /\ ghost.acts \in Nat /\ ghost'.acts \in 0..MaxContentActs
<1>1. ghost \in EditorsNotes /\ MaxContentActs \in Nat
  BY BoundsAssumption DEF EditorsInv, EditorsTyped
<1>2. ghost.acts \in 1..MaxContentActs
  BY <1>1 DEF EditorsNotes
<1>3. ghost.acts + 1 \in 1..MaxContentActs
  BY <1>1, <1>2
<1>4. ghost' = [acts |-> ghost.acts + 1, hasty |-> hasty]
  BY <1>1 DEF EditorsNotes
<1>5. ghost' \in EditorsNotes
  BY <1>3, <1>4 DEF EditorsNotes
<1> QED BY <1>1, <1>2, <1>3, <1>4, <1>5

\* A text that was written stays so.
LEMMA WrittenStays ==
    ASSUME EditorsInv, ghost'.acts \in {ghost.acts, ghost.acts + 1}, NEW c \in Editors!Content, Written(c)
    PROVE  Written(c)'
<1>1. ghost.acts \in Nat /\ \A p \in Editors!Part : c[p] \in Nat
  BY NoTexts, BoundsAssumption DEF EditorsInv, EditorsTyped, EditorsNotes
<1> QED BY <1>1 DEF Written

\* Where nothing is sent and nothing served, the count holds.
LEMMA CountStays ==
    ASSUME EditorsInv, UNCHANGED db, ghost'.acts \in {ghost.acts, ghost.acts + 1},
           \A s \in Section : Unserved(s)' \subseteq Unserved(s)
    PROVE  SavesCounted'
<1>1. ghost.acts \in Nat
  BY BoundsAssumption DEF EditorsInv, EditorsTyped, EditorsNotes
<1>2. ASSUME NEW s \in Section
      PROVE  IsFiniteSet(Unserved(s)') /\ db.saves[s] + Cardinality(Unserved(s)') < ghost'.acts
  <2>1. IsFiniteSet(Unserved(s)) /\ db.saves[s] + Cardinality(Unserved(s)) < ghost.acts
    BY DEF EditorsInv, SavesCounted
  <2>2. IsFiniteSet(Unserved(s)') /\ Cardinality(Unserved(s)') <= Cardinality(Unserved(s))
    BY <2>1, FS_Subset
  <2>3. Cardinality(Unserved(s)') \in Nat /\ Cardinality(Unserved(s)) \in Nat /\ db.saves[s] \in Nat
    BY <2>1, <2>2, FS_CardinalityType DEF EditorsInv, EditorsTyped, EditorsRows
  <2> QED BY <1>1, <2>1, <2>2, <2>3
<1> QED BY <1>2 DEF SavesCounted

\* The form changes, or nothing of the editor; what is under way is as it was, but
\* for queries and what has been answered.
LEMMA EditorFills ==
    ASSUME EditorsInv, UNCHANGED db, ui' \in EditorsScreen, ui'.tab = ui.tab, ui'.saving = ui.saving,
           ghost' \in EditorsNotes, ghost'.acts \in {ghost.acts, ghost.acts + 1}, ghost'.hasty = ghost.hasty,
           \A q \in net' : q \in net \/ q \in SectionGet,
           ui'.form # NoForm =>
               \/ ui'.form = ui.form
               \/ Written(ui.form)' /\ \A p \in Editors!Part :
                     ui'.form[p] \in {0, ghost'.acts} \/ (ui.form # NoForm /\ ui'.form[p] = ui.form[p])
    PROVE  EditorsInv'
<1>0. /\ db.row \in [Section -> Editors!Content] /\ ui.tab \in Section /\ ghost.acts \in Nat
      /\ \A q \in net : q \in SectionGet \/ q \in SectionPut
      /\ \A q \in net' : q.op = "put" => q \in net /\ q \in SectionPut
  BY EditorKinds, BoundsAssumption DEF EditorsInv, EditorsTyped, EditorsScreen, EditorsRows, EditorsNotes
<1>1. EditorsTyped'
  BY <1>0 DEF EditorsInv, EditorsTyped
<1>2. TextsWritten'
  <2>1. \A s \in Section : Written(db.row[s])'
    BY <1>0, WrittenStays DEF EditorsInv, TextsWritten
  <2>2. \A q \in net' : q.op = "put" => Written(q.value)'
    BY <1>0, WrittenStays, EditorKinds DEF EditorsInv, TextsWritten
  <2>3. ui'.form # NoForm => Written(ui.form)'
    <3>1. PICK c : c = ui.form
      OBVIOUS
    <3>2. c # NoForm => c \in Editors!Content /\ Written(c)
      BY <3>1 DEF EditorsInv, EditorsTyped, EditorsScreen, TextsWritten
    <3>3. c # NoForm => Written(c)'
      BY <3>2, WrittenStays
    <3>4. ui'.form = c /\ c # NoForm => Written(ui.form)'
      BY <3>3 DEF Written
    <3> QED BY <3>1, <3>4
  <2> QED BY <2>1, <2>2, <2>3 DEF TextsWritten, Written
<1>3. SavesCounted'
  BY <1>0, CountStays DEF Unserved
<1>4. SavesFollow'
  <2> SUFFICES ASSUME ~ghost'.hasty PROVE SavesFollow'
    BY DEF SavesFollow
  <2>1. SavesFollow /\ ~ghost.hasty
    BY DEF EditorsInv
  <2>2. ASSUME NEW old \in Editors!Content, Written(old), ui.form # NoForm => Younger(ui.form, old),
               ui'.form # NoForm
        PROVE  Younger(ui'.form, old)
    <3>1. CASE ui'.form = ui.form
      BY <2>2, <3>1
    <3>2. CASE \A p \in Editors!Part :
                 ui'.form[p] \in {0, ghost'.acts} \/ (ui.form # NoForm /\ ui'.form[p] = ui.form[p])
      <4>1. \A p \in Editors!Part : old[p] \in Nat /\ old[p] <= ghost.acts
        BY <2>2, NoTexts DEF Written
      <4> QED BY <1>0, <2>2, <3>2, <4>1 DEF Younger
    <3> QED BY <2>2, <3>1, <3>2
  <2>3. ui'.form # NoForm => Younger(ui'.form, db.row[ui.tab])
    BY <1>0, <2>1, <2>2 DEF SavesFollow, EditorsInv, TextsWritten
  <2>4. ASSUME NEW q \in net', q.op = "put", q.at = "sent"
        PROVE  Younger(q.value, db.row[q.section]) /\ (ui'.form # NoForm => Younger(ui'.form, q.value))
    <3>1. q \in net /\ q.value \in Editors!Content /\ Written(q.value)
      BY <1>0, <2>4, EditorKinds DEF EditorsInv, TextsWritten
    <3> QED BY <2>1, <2>2, <2>4, <3>1 DEF SavesFollow
  <2>5. ui'.form # NoForm => Younger(ui'.form, db'.row[ui'.tab])
    BY <2>3
  <2> QED BY <1>0, <2>1, <2>4, <2>5 DEF SavesFollow, Younger
<1> QED BY <1>1, <1>2, <1>3, <1>4 DEF EditorsInv

\* Texts that were written have come to other places.
LEMMA TextsMoved ==
    ASSUME EditorsInv, ghost'.acts \in {ghost.acts, ghost.acts + 1},
           \A s \in Section : \E c \in Editors!Content : Written(c) /\ db'.row[s] = c,
           ui'.form # NoForm => \E c \in Editors!Content : Written(c) /\ ui'.form = c,
           \A q \in net' : q.op = "put" => q.value \in Editors!Content /\ Written(q.value)
    PROVE  TextsWritten'
<1>1. \A c \in Editors!Content : Written(c) => \A p \in Editors!Part : c[p] <= ghost'.acts
  <2>1. ghost.acts \in Nat /\ \A c \in Editors!Content, p \in Editors!Part : c[p] \in Nat
    BY NoTexts, BoundsAssumption DEF EditorsInv, EditorsTyped, EditorsNotes
  <2> QED BY <2>1 DEF Written
<1> QED BY <1>1 DEF TextsWritten, Written

\* No save is under way in an editor that does not show so.
LEMMA NoneUnderWay == EditorsInv /\ ~ghost.hasty /\ ~ui.saving => \A q \in net : q.op # "put"
  BY DEF EditorsInv, SavesFollow

\* A save has been answered, and its editor shows so.
LEMMA EditorAnswered ==
    ASSUME EditorsInv, NEW q \in net, q.op = "put", UNCHANGED <<db, ghost>>,
           ui' \in EditorsScreen, ui'.tab = ui.tab, ui'.form = ui.form, ui.saving /\ ~q.live => ui'.saving,
           \A r \in net' : (r \in net /\ r # q) \/ r \in SectionGet
    PROVE  EditorsInv'
<1>1. \A r \in net' : r.op = "put" => r \in net /\ r # q
  BY EditorKinds
<1>2. EditorsTyped'
  BY <1>1 DEF EditorsInv, EditorsTyped
<1>3. TextsWritten'
  BY <1>1 DEF EditorsInv, TextsWritten, Written
<1>4. SavesCounted'
  BY <1>1, CountStays DEF Unserved
<1>5. SavesFollow'
  <2> SUFFICES ASSUME ~ghost'.hasty PROVE SavesFollow'
    BY DEF SavesFollow
  <2>1. SavesFollow /\ ~ghost.hasty
    BY DEF EditorsInv
  <2>2. \A r \in net' : r.op # "put"
    BY <1>1, <2>1 DEF SavesFollow
  <2>3. ui'.form # NoForm => Younger(ui'.form, db'.row[ui'.tab])
    BY <2>1 DEF SavesFollow
  <2> QED BY <2>2, <2>3 DEF SavesFollow, Younger
<1> QED BY <1>2, <1>3, <1>4, <1>5 DEF EditorsInv

LEMMA EditorsNext == EditorsInv /\ Editors!Next => EditorsInv'
<1> SUFFICES ASSUME EditorsInv, Editors!Next PROVE EditorsInv'
  OBVIOUS
<1>0. /\ ui \in EditorsScreen /\ db \in EditorsRows /\ ghost \in EditorsNotes
      /\ \A q \in net : q \in SectionGet \/ q \in SectionPut
      /\ ui.tab \in Section /\ db.row \in [Section -> Editors!Content]
      /\ db.saves \in [Section -> 0..MaxContentActs] /\ ghost.acts \in Nat /\ ghost.hasty \in BOOLEAN
      /\ ui.form # NoForm => ui.form \in Editors!Content /\ Written(ui.form)
      /\ \A s \in Section : db.row[s] \in Editors!Content /\ Written(db.row[s])
      /\ \A q \in net : q.op = "put" => q \in SectionPut /\ q.value \in Editors!Content /\ Written(q.value)
  BY BoundsAssumption, EditorKinds
     DEF EditorsInv, EditorsTyped, EditorsScreen, EditorsRows, EditorsNotes, TextsWritten
<1>1. ASSUME Editors!Edit PROVE EditorsInv'
  <2>1. PICK p \in Editors!Part :
          /\ ui.form # NoForm /\ ghost.acts < MaxContentActs /\ ghost' = [ghost EXCEPT !.acts = @ + 1]
          /\ ui' = [ui EXCEPT !.form[p] = ghost.acts + 1] /\ net' = net /\ UNCHANGED db
    BY <1>1 DEF Editors!Edit, Editors!Ready, Editors!Act
  <2>2. ghost' = [[ghost EXCEPT !.hasty = ghost.hasty] EXCEPT !.acts = @ + 1]
    BY <1>0, <2>1 DEF EditorsNotes
  <2>3. /\ ghost' \in EditorsNotes /\ ghost'.acts = ghost.acts + 1 /\ ghost'.hasty = ghost.hasty
        /\ ghost'.acts \in 0..MaxContentActs
    BY <1>0, <2>1, <2>2, EditorActs
  <2> DEFINE form == [ui.form EXCEPT ![p] = ghost.acts + 1]
  <2>4. /\ form \in Editors!Content
        /\ \A x \in Editors!Part : form[x] = ghost'.acts \/ form[x] = ui.form[x]
    BY <1>0, <2>1, <2>3 DEF Editors!Content
  <2>5. ui' = [ui EXCEPT !.form = form]
    BY <2>1
  <2> HIDE DEF form
  <2>6. ui' \in EditorsScreen /\ ui'.tab = ui.tab /\ ui'.saving = ui.saving /\ ui'.form = form
    BY <1>0, <2>4, <2>5 DEF EditorsScreen
  <2>7. \A x \in Editors!Part : ui'.form[x] <= ghost'.acts
    <3>1. \A x \in Editors!Part : ui.form[x] \in Nat /\ ui.form[x] <= ghost.acts
      BY <1>0, <2>1, NoTexts DEF EditorsInv, TextsWritten, Written
    <3> QED BY <1>0, <2>3, <2>4, <2>6, <3>1
  <2>8. Written(ui.form)'
    BY <2>7 DEF Written
  <2> QED BY <2>1, <2>3, <2>4, <2>6, <2>8, EditorFills
<1>2. ASSUME Editors!Save PROVE EditorsInv'
  <2>1. PICK put : put = Editors!Put
    OBVIOUS
  <2>2. /\ ui.form # NoForm /\ ~ui.saving /\ ghost.acts < MaxContentActs
        /\ ghost' = [ghost EXCEPT !.acts = @ + 1]
        /\ ui' = [ui EXCEPT !.saving = TRUE] /\ net' = net \cup {put} /\ UNCHANGED db
    BY <1>2, <2>1 DEF Editors!Save, Editors!Ready, Editors!Act
  <2>3. ghost' = [[ghost EXCEPT !.hasty = ghost.hasty] EXCEPT !.acts = @ + 1]
    BY <1>0, <2>2 DEF EditorsNotes
  <2>4. /\ ghost' \in EditorsNotes /\ ghost'.acts = ghost.acts + 1 /\ ghost'.hasty = ghost.hasty
        /\ ghost'.acts \in 0..MaxContentActs
    BY <1>0, <2>2, <2>3, EditorActs
  <2>5. /\ put \in SectionPut /\ put.op = "put" /\ put.section = ui.tab /\ put.value = ui.form
        /\ put.at = "sent" /\ put.live
    BY <1>0, <2>1, <2>2 DEF Editors!Put, SectionPut
  <2>6. ui' \in EditorsScreen /\ ui'.tab = ui.tab /\ ui'.saving /\ ui'.form = ui.form
    BY <1>0, <2>2 DEF EditorsScreen
  <2>7. EditorsTyped'
    BY <1>0, <2>2, <2>4, <2>5, <2>6 DEF EditorsTyped
  <2>8. TextsWritten'
    BY <1>0, <2>2, <2>4, <2>5, <2>6, TextsMoved
  <2>9. SavesCounted'
    <3>1. ASSUME NEW s \in Section
          PROVE  IsFiniteSet(Unserved(s)') /\ db.saves[s] + Cardinality(Unserved(s)') < ghost'.acts
      <4>1. IsFiniteSet(Unserved(s)) /\ db.saves[s] + Cardinality(Unserved(s)) < ghost.acts
        BY DEF EditorsInv, SavesCounted
      <4> DEFINE more == Unserved(s) \cup {put}
      <4>2. /\ IsFiniteSet(more) /\ Cardinality(more) <= Cardinality(Unserved(s)) + 1
            /\ Cardinality(more) \in Nat /\ Cardinality(Unserved(s)) \in Nat
        <5>1. Cardinality(Unserved(s)) \in Nat
          BY <4>1, FS_CardinalityType
        <5>2. /\ IsFiniteSet(more)
              /\ Cardinality(more) = IF put \in Unserved(s) THEN Cardinality(Unserved(s)) ELSE Cardinality(Unserved(s)) + 1
          BY <4>1, FS_AddElement
        <5> QED BY <5>1, <5>2
      <4>3. Unserved(s)' \subseteq more
        BY <2>2 DEF Unserved
      <4>4. IsFiniteSet(Unserved(s)') /\ Cardinality(Unserved(s)') <= Cardinality(more)
        BY <4>2, <4>3, FS_Subset
      <4>5. Cardinality(Unserved(s)') \in Nat /\ db.saves[s] \in Nat
        BY <1>0, <4>4, FS_CardinalityType
      <4> HIDE DEF more
      <4> QED BY <1>0, <2>4, <4>1, <4>2, <4>4, <4>5
    <3> QED BY <2>2, <3>1 DEF SavesCounted
  <2>10. SavesFollow'
    <3> SUFFICES ASSUME ~ghost'.hasty PROVE SavesFollow'
      BY DEF SavesFollow
    <3>1. \A q \in net : q.op # "put"
      BY <2>2, <2>4, NoneUnderWay
    <3>2. \A q \in net' : q.op = "put" => q = put
      BY <2>2, <3>1
    <3>3. Younger(ui.form, db.row[ui.tab])
      BY <2>2, <2>4 DEF EditorsInv, SavesFollow
    <3>4. Younger(ui.form, ui.form)
      BY <1>0, <2>2, NoTexts DEF Younger
    <3>5. Younger(put.value, db.row[put.section]) /\ Younger(ui.form, put.value)
      BY <2>5, <3>3, <3>4
    <3>6. Younger(ui'.form, db'.row[ui'.tab]) /\ Younger(put.value, db'.row[put.section]) /\ Younger(ui'.form, put.value)
      BY <2>2, <2>6, <3>3, <3>5
    <3> QED BY <2>5, <2>6, <3>2, <3>6 DEF SavesFollow, Younger
  <2> QED BY <2>7, <2>8, <2>9, <2>10 DEF EditorsInv
<1>3. ASSUME NEW s \in Section, Editors!SwitchTab(s) PROVE EditorsInv'
  <2>1. PICK asked \in {{}, {Editors!Get(s)}} :
          /\ ghost.acts < MaxContentActs /\ UNCHANGED db
          /\ ghost' = [[ghost EXCEPT !.hasty = @ \/ Editors!Saving(ui.tab) # {}] EXCEPT !.acts = @ + 1]
          /\ ui' = [ui EXCEPT !.tab = s, !.form = Editors!Opened(s, ui.data[s]), !.saving = FALSE]
          /\ net' = Editors!Unmounted \cup asked
    BY <1>3 DEF Editors!SwitchTab, Editors!Act
  <2>2. PICK hasty \in BOOLEAN : hasty <=> ghost.hasty \/ Editors!Saving(ui.tab) # {}
    OBVIOUS
  <2>3. ghost' = [[ghost EXCEPT !.hasty = hasty] EXCEPT !.acts = @ + 1]
    BY <1>0, <2>1, <2>2
  <2>4. ghost' \in EditorsNotes /\ ghost'.acts = ghost.acts + 1 /\ ghost'.hasty = hasty
    BY <2>1, <2>3, EditorActs
  <2>5. PICK form \in {Editors!Blank, NoForm} : form = Editors!Opened(s, ui.data[s])
    BY NoTexts
  <2>6. ui' \in EditorsScreen /\ ui'.tab = s /\ ui'.form = form /\ ui'.saving = FALSE
    BY <1>0, <2>1, <2>5, NoTexts DEF EditorsScreen
  <2> DEFINE Left(q) == [q EXCEPT !.live = FALSE]
  <2>7. \A q \in SectionPut : /\ Left(q) \in SectionPut /\ Left(q).op = "put" /\ Left(q).section = q.section
                              /\ Left(q).value = q.value /\ Left(q).at = q.at
    BY DEF SectionPut
  <2>8. \A r \in net' : \/ r \in SectionGet /\ r.op = "get"
                        \/ \E q \in net : q.op = "put" /\ q \in SectionPut /\ r = Left(q)
    <3>1. asked \subseteq SectionGet
      BY EditorKinds
    <3>2. \A r \in Editors!Unmounted : \E q \in net : r = IF q.op = "put" THEN Left(q) ELSE q
      BY DEF Editors!Unmounted
    <3> HIDE DEF Left
    <3> QED BY <1>0, <2>1, <3>1, <3>2, EditorKinds
  <2> HIDE DEF Left
  <2>9. EditorsTyped'
    BY <1>0, <2>1, <2>4, <2>6, <2>7, <2>8 DEF EditorsTyped
  <2>10. TextsWritten'
    <3>1. Written(Editors!Blank)
      BY <1>0, NoTexts DEF Written
    <3>2. \A q \in net' : q.op = "put" => q.value \in Editors!Content /\ Written(q.value)
      BY <1>0, <2>7, <2>8
    <3> QED BY <1>0, <2>1, <2>4, <2>6, <3>1, <3>2, NoTexts, TextsMoved
  <2>11. SavesCounted'
    <3>1. ASSUME NEW x \in Section
          PROVE  IsFiniteSet(Unserved(x)') /\ db.saves[x] + Cardinality(Unserved(x)') < ghost'.acts
      <4>1. IsFiniteSet(Unserved(x)) /\ db.saves[x] + Cardinality(Unserved(x)) < ghost.acts
        BY DEF EditorsInv, SavesCounted
      <4> DEFINE T == {Left(q) : q \in Unserved(x)}
                 left == [q \in Unserved(x) |-> Left(q)]
      <4>2. left \in Surjection(Unserved(x), T)
        BY DEF Surjection
      <4>3. IsFiniteSet(T) /\ Cardinality(T) <= Cardinality(Unserved(x))
        BY <4>1, <4>2, FS_Surjection
      <4>4. Unserved(x)' \subseteq T
        BY <2>7, <2>8 DEF Unserved
      <4>5. IsFiniteSet(Unserved(x)') /\ Cardinality(Unserved(x)') <= Cardinality(T)
        BY <4>3, <4>4, FS_Subset
      <4>6. /\ Cardinality(Unserved(x)') \in Nat /\ Cardinality(T) \in Nat /\ Cardinality(Unserved(x)) \in Nat
            /\ db.saves[x] \in Nat
        BY <1>0, <4>1, <4>3, <4>5, FS_CardinalityType
      <4> HIDE DEF T
      <4> QED BY <1>0, <2>4, <4>1, <4>3, <4>5, <4>6
    <3> QED BY <2>1, <3>1 DEF SavesCounted
  <2>12. SavesFollow'
    <3> SUFFICES ASSUME ~ghost'.hasty PROVE SavesFollow'
      BY DEF SavesFollow
    <3>1. ~ghost.hasty /\ Editors!Saving(ui.tab) = {}
      BY <2>2, <2>4
    <3>2. \A q \in net : q.op # "put"
      BY <3>1 DEF EditorsInv, SavesFollow, Editors!Saving
    <3>3. \A q \in net' : q.op # "put"
      BY <2>8, <3>2
    <3>4. ui'.form # NoForm => \A p \in Editors!Part : ui'.form[p] = 0
      BY <2>6, NoTexts
    <3> QED BY <3>3, <3>4 DEF SavesFollow, Younger
  <2> QED BY <2>9, <2>10, <2>11, <2>12 DEF EditorsInv
<1>4. ASSUME NEW q \in net, Editors!Loaded(q) \/ Editors!LoadFails(q) PROVE EditorsInv'
  <2>1. q.section \in Section /\ net' \subseteq net /\ UNCHANGED <<db, ghost>>
    BY <1>0, <1>4, EditorKinds DEF Editors!Loaded, Editors!LoadFails
  <2>2. CASE Editors!Loaded(q)
    <3>1. PICK v \in 0..db.saves[q.section], form \in {Editors!Blank, ui.form} :
            ui' = [ui EXCEPT !.data[q.section] = v, !.invalid = ui.invalid \ {q.section}, !.form = form]
      BY <2>2 DEF Editors!Loaded
    <3>2. v \in Editors!Version
      <4>1. db.saves[q.section] \in 0..MaxContentActs
        BY <1>0, <2>1
      <4> QED BY <4>1, BoundsAssumption DEF Editors!Version
    <3> DEFINE data == [ui.data EXCEPT ![q.section] = v]
    <3>3. data \in [Section -> Editors!Version]
      BY <1>0, <3>2 DEF EditorsScreen
    <3>4. ui' = [ui EXCEPT !.data = data, !.invalid = ui.invalid \ {q.section}, !.form = form]
      BY <3>1
    <3>5. form \in Editors!Content \cup {NoForm}
      BY <1>0, <3>1, NoTexts DEF EditorsScreen
    <3> HIDE DEF data
    <3>6. ui' \in EditorsScreen /\ ui'.tab = ui.tab /\ ui'.saving = ui.saving /\ ui'.form = form
      BY <1>0, <3>3, <3>4, <3>5 DEF EditorsScreen
    <3>7. form = Editors!Blank => Written(ui.form)'
      BY <1>0, <2>1, <3>6, NoTexts DEF Written
    <3>8. form = Editors!Blank => \A p \in Editors!Part : ui'.form[p] = 0
      BY <3>6, NoTexts
    <3> QED BY <1>0, <2>1, <3>1, <3>6, <3>7, <3>8, EditorFills
  <2>3. CASE Editors!LoadFails(q)
    BY <1>0, <2>1, <2>3, EditorFills DEF Editors!LoadFails
  <2> QED BY <1>4, <2>2, <2>3
<1>5. ASSUME NEW q \in net, Editors!Saved(q) PROVE EditorsInv'
  <2>1. /\ q \in SectionPut /\ q.section \in Section /\ q.op = "put" /\ UNCHANGED <<db, ghost>>
        /\ ui' = [ui EXCEPT !.saving = @ /\ ~q.live, !.invalid = @ \cup {q.section}]
        /\ \A r \in net' : (r \in net /\ r # q) \/ r \in SectionGet
    BY <1>0, <1>5, EditorKinds DEF Editors!Saved
  <2>2. /\ ui' \in EditorsScreen /\ ui'.tab = ui.tab /\ ui'.form = ui.form
        /\ ui.saving /\ ~q.live => ui'.saving
    BY <1>0, <2>1, EditorKinds DEF EditorsScreen
  <2> QED BY <2>1, <2>2, EditorAnswered
<1>6. ASSUME NEW q \in net, Editors!SaveFails(q) PROVE EditorsInv'
  <2>1. /\ q \in SectionPut /\ q.op = "put" /\ UNCHANGED db
        /\ ui' = [ui EXCEPT !.saving = @ /\ ~q.live]
    BY <1>0, <1>6 DEF Editors!SaveFails
  <2>2. /\ ui' \in EditorsScreen /\ ui'.tab = ui.tab /\ ui'.form = ui.form
        /\ ui.saving /\ ~q.live => ui'.saving
    BY <1>0, <2>1, EditorKinds DEF EditorsScreen
  <2>3. CASE net' = net \ {q} /\ UNCHANGED ghost
    BY <2>1, <2>2, <2>3, EditorAnswered
  <2>4. CASE /\ q.at = "sent" /\ net' = (net \ {q}) \cup {[q EXCEPT !.live = FALSE]}
             /\ ghost' = [ghost EXCEPT !.hasty = TRUE]
    <3> DEFINE left == [q EXCEPT !.live = FALSE]
    <3>1. left \in SectionPut /\ left.section = q.section /\ left.value = q.value /\ left.at = "sent" /\ left.op = "put"
      BY <2>1, <2>4 DEF SectionPut
    <3> HIDE DEF left
    <3>2. ghost' \in EditorsNotes /\ ghost'.acts = ghost.acts /\ ghost'.hasty
      BY <1>0, <2>4 DEF EditorsNotes
    <3>3. net' = (net \ {q}) \cup {left}
      BY <2>4 DEF left
    <3>4. EditorsTyped'
      BY <1>0, <2>1, <2>2, <3>1, <3>2, <3>3 DEF EditorsTyped
    <3>5. TextsWritten'
      BY <1>0, <2>1, <2>2, <3>1, <3>2, <3>3, TextsMoved
    <3>6. SavesCounted'
      <4>1. ASSUME NEW s \in Section
            PROVE  IsFiniteSet(Unserved(s)') /\ db.saves[s] + Cardinality(Unserved(s)') < ghost'.acts
        <5>1. IsFiniteSet(Unserved(s)) /\ db.saves[s] + Cardinality(Unserved(s)) < ghost.acts
          BY DEF EditorsInv, SavesCounted
        <5>2. Cardinality(Unserved(s)) \in Nat /\ db.saves[s] \in Nat
          BY <1>0, <5>1, FS_CardinalityType
        <5>3. CASE q.section # s
          <6>1. Unserved(s)' = Unserved(s)
            BY <3>1, <3>3, <5>3 DEF Unserved
          <6> QED BY <3>2, <5>1, <6>1
        <5>4. CASE q.section = s
          <6> DEFINE rest == Unserved(s) \ {q}
                     moved == rest \cup {left}
          <6>1. q \in Unserved(s)
            BY <2>1, <2>4, <5>4 DEF Unserved
          <6>2. IsFiniteSet(rest) /\ Cardinality(rest) = Cardinality(Unserved(s)) - 1
            BY <5>1, <6>1, FS_RemoveElement
          <6>3. /\ IsFiniteSet(moved)
                /\ Cardinality(moved) = IF left \in rest THEN Cardinality(rest) ELSE Cardinality(rest) + 1
            BY <6>2, FS_AddElement
          <6>4. Unserved(s)' = moved
            BY <3>1, <3>3, <5>4 DEF Unserved
          <6> HIDE DEF rest, moved
          <6>5. IsFiniteSet(Unserved(s)') /\ Cardinality(Unserved(s)') <= Cardinality(Unserved(s))
                /\ Cardinality(Unserved(s)') \in Nat
            BY <5>2, <6>2, <6>3, <6>4, FS_CardinalityType
          <6> QED BY <1>0, <3>2, <5>1, <5>2, <6>5
        <5> QED BY <5>3, <5>4
      <4> QED BY <2>1, <4>1 DEF SavesCounted
    <3>7. SavesFollow'
      BY <3>2 DEF SavesFollow
    <3> QED BY <3>4, <3>5, <3>6, <3>7 DEF EditorsInv
  <2> QED BY <1>6, <2>3, <2>4 DEF Editors!SaveFails
<1>7. ASSUME NEW q \in net, Editors!UpdateSection(q) PROVE EditorsInv'
  <2>1. /\ q \in SectionPut /\ q.op = "put" /\ q.at = "sent" /\ q.section \in Section
        /\ q.value \in Editors!Content /\ Written(q.value) /\ UNCHANGED <<ui, ghost>>
    BY <1>0, <1>7, EditorKinds DEF Editors!UpdateSection
  <2> DEFINE served == [q EXCEPT !.at = "written"]
             row == [db.row EXCEPT ![q.section] = q.value]
             saves == [db.saves EXCEPT ![q.section] = db.saves[q.section] + 1]
  <2>2. /\ served \in SectionPut /\ served.section = q.section /\ served.value = q.value
        /\ served.at = "written" /\ served.op = "put" /\ served.live = q.live
    BY <2>1 DEF SectionPut
  <2>3. /\ row \in [Section -> Editors!Content] /\ row[q.section] = q.value
        /\ \A s \in Section \ {q.section} : row[s] = db.row[s]
    BY <1>0, <2>1
  <2>4. db' = [db EXCEPT !.row = row, !.saves = saves] /\ net' = (net \ {q}) \cup {served}
    BY <1>7 DEF Editors!UpdateSection
  <2>5. ASSUME NEW s \in Section
        PROVE  /\ IsFiniteSet(Unserved(s)') /\ saves[s] + Cardinality(Unserved(s)') < ghost.acts
               /\ saves[s] \in 0..MaxContentActs
    <3>1. IsFiniteSet(Unserved(s)) /\ db.saves[s] + Cardinality(Unserved(s)) < ghost.acts
      BY DEF EditorsInv, SavesCounted
    <3>2. Cardinality(Unserved(s)) \in Nat /\ db.saves[s] \in Nat /\ ghost.acts \in 1..MaxContentActs
      BY <1>0, <3>1, FS_CardinalityType DEF EditorsNotes
    <3>3. CASE q.section # s
      <4>1. Unserved(s)' = Unserved(s)
        BY <2>2, <2>4, <3>3 DEF Unserved
      <4> QED BY <1>0, <2>1, <3>1, <3>3, <4>1
    <3>4. CASE q.section = s
      <4>1. q \in Unserved(s) /\ Unserved(s)' = Unserved(s) \ {q}
        BY <2>1, <2>2, <2>4, <3>4 DEF Unserved
      <4>2. IsFiniteSet(Unserved(s)') /\ Cardinality(Unserved(s)') = Cardinality(Unserved(s)) - 1
        BY <3>1, <4>1, FS_RemoveElement
      <4>3. saves[s] = db.saves[s] + 1
        BY <1>0, <3>4
      <4>4. Cardinality(Unserved(s)') \in Nat
        BY <4>2, FS_CardinalityType
      <4> HIDE DEF saves
      <4> QED BY <3>1, <3>2, <4>2, <4>3, <4>4, BoundsAssumption
    <3> QED BY <3>3, <3>4
  <2>6. saves \in [Section -> 0..MaxContentActs]
    BY <1>0, <2>5
  <2> HIDE DEF served, row, saves
  <2>7. db' \in EditorsRows /\ db'.row = row /\ db'.saves = saves
    BY <1>0, <2>3, <2>4, <2>6 DEF EditorsRows
  <2>8. EditorsTyped'
    BY <1>0, <2>1, <2>2, <2>4, <2>7 DEF EditorsTyped
  <2>9. TextsWritten'
    <3>1. \A s \in Section : \E c \in Editors!Content : Written(c) /\ db'.row[s] = c
      BY <1>0, <2>1, <2>3, <2>7
    <3>2. ui'.form # NoForm => \E c \in Editors!Content : Written(c) /\ ui'.form = c
      BY <1>0, <2>1
    <3>3. \A r \in net' : r.op = "put" => r.value \in Editors!Content /\ Written(r.value)
      BY <1>0, <2>1, <2>2, <2>4
    <3> QED BY <2>1, <3>1, <3>2, <3>3, TextsMoved
  <2>10. SavesCounted'
    BY <2>1, <2>5, <2>7 DEF SavesCounted
  <2>11. SavesFollow'
    <3> SUFFICES ASSUME ~ghost'.hasty PROVE SavesFollow'
      BY DEF SavesFollow
    <3>1. SavesFollow /\ ~ghost.hasty
      BY <2>1 DEF EditorsInv
    <3>2. \A r \in net' : r.op = "put" => r = served
      BY <2>1, <2>4, <3>1 DEF SavesFollow
    <3>3. q.live /\ q.section = ui.tab /\ ui.saving
      BY <2>1, <3>1 DEF SavesFollow
    <3>4. ui.form # NoForm => Younger(ui.form, q.value)
      BY <2>1, <3>1 DEF SavesFollow
    <3>5. ui'.form # NoForm => Younger(ui'.form, db'.row[ui'.tab])
      BY <2>1, <2>3, <2>7, <3>3, <3>4
    <3> QED BY <2>1, <2>2, <3>2, <3>3, <3>5 DEF SavesFollow, Younger
  <2> QED BY <2>8, <2>9, <2>10, <2>11 DEF EditorsInv
<1> QED BY <1>1, <1>2, <1>3, <1>4, <1>5, <1>6, <1>7 DEF Editors!Next, Editors!HeroForm, Editors!FAQItems, Editors!BannerForm

\* A text that a save brings is younger than the one it replaces, or none.
LEMMA EditorsSaved == EditorsInv /\ Editors!Next => Editors!OldTextStaysAway
<1> SUFFICES ASSUME EditorsInv, Editors!Next, NEW s \in Section, NEW p \in Editors!Part,
                    db'.row[s][p] < db.row[s][p], ~ghost.hasty
             PROVE  db'.row[s][p] = 0
  BY DEF Editors!OldTextStaysAway
<1>0. /\ db \in EditorsRows /\ db.row \in [Section -> Editors!Content] /\ db.row[s][p] \in Nat
      /\ \A q \in net : q \in SectionGet \/ q \in SectionPut
  BY NoTexts DEF EditorsInv, EditorsTyped, EditorsRows
<1>1. db'.row # db.row
  BY <1>0
<1>2. PICK q \in net : Editors!UpdateSection(q)
  BY <1>1 DEF Editors!Next, Editors!HeroForm, Editors!FAQItems, Editors!BannerForm, Editors!Edit, Editors!Save,
     Editors!SwitchTab, Editors!Act, Editors!Loaded, Editors!LoadFails, Editors!Saved, Editors!SaveFails
<1>3. /\ q.op = "put" /\ q.at = "sent"
      /\ db'.row = [db.row EXCEPT ![q.section] = q.value]
  BY <1>0, <1>2 DEF Editors!UpdateSection, EditorsRows
<1>4. s = q.section /\ db'.row[s][p] = q.value[p]
  BY <1>0, <1>3
<1>5. Younger(q.value, db.row[s]) /\ q.value[p] \in Nat
  BY <1>0, <1>3, <1>4, EditorKinds, NoTexts DEF EditorsInv, SavesFollow
<1> QED BY <1>0, <1>4, <1>5 DEF Younger

---------------------------------------------------------------------------
(* The modal in which a post is written *)

PostScreen ==
    [shown : BOOLEAN, id : Post!MaybeProduct, text : Post!MaybeProduct, generating : BOOLEAN,
     publishing : BOOLEAN, pages : BOOLEAN]
PostNotes == [runs : 0..MaxRuns, publishes : 0..MaxPublishes, strayed : BOOLEAN]
PostPages == [op : {"pages"}, id : Post!MaybeProduct]
PostRun == [op : {"run"}, id : Post!MaybeProduct, run : Post!Run]
PostPoll == [op : {"poll", "status"}, id : Post!MaybeProduct, run : Post!Run, n : Nat]
PostPublish == [op : {"publish"}, id : Post!MaybeProduct, text : Post!MaybeProduct]
PostAsked(q) == q \in PostPages \/ q \in PostRun \/ q \in PostPoll \/ q \in PostPublish

PostTyped ==
    /\ ui \in PostScreen /\ ghost \in PostNotes
    /\ db \in [Post!Run -> {"none", "queued", "completed", "failed"}]
    /\ \A q \in net : PostAsked(q)

\* Until a text comes too late, the modal's text is its product's, and so is each
\* one that is published.
TextFollows ==
    ~ghost.strayed => /\ ui.text \in {NoProduct, ui.id}
                      /\ \A q \in net : q.op = "publish" => q.text = q.id

\* The spinner's cause is a request that starts the task or an interval: the answer
\* to a question for the status alone would not be enough.
CauseFollows == ui.generating => \E q \in net : q.op \in {"run", "poll"}

PostInv == PostTyped /\ TextFollows /\ CauseFollows

LEMMA PostKinds ==
    /\ \A q \in PostPages : q.op = "pages" /\ q.id \in Post!MaybeProduct
    /\ \A q \in PostRun : q.op = "run" /\ q.id \in Post!MaybeProduct /\ q.run \in Post!Run
    /\ \A q \in PostPoll : /\ q.op \in {"poll", "status"} /\ q.id \in Post!MaybeProduct /\ q.run \in Post!Run
                           /\ q.n \in Nat
    /\ \A q \in PostPublish : q.op = "publish"
<1>1. \A q \in PostPages : q.op = "pages" /\ q.id \in Post!MaybeProduct
  BY DEF PostPages
<1>2. \A q \in PostRun : q.op = "run" /\ q.id \in Post!MaybeProduct /\ q.run \in Post!Run
  BY DEF PostRun
<1>3. \A q \in PostPoll : /\ q.op \in {"poll", "status"} /\ q.id \in Post!MaybeProduct /\ q.run \in Post!Run
                          /\ q.n \in Nat
  BY DEF PostPoll
<1>4. \A q \in PostPublish : q.op = "publish"
  BY DEF PostPublish
<1> QED BY <1>1, <1>2, <1>3, <1>4

LEMMA PostSuffices == PostInv => Post!TypeOK /\ Post!TextIsTheProducts /\ Post!SpinnerHasCause
<1>1. \A q : PostAsked(q) => q.op \in {"pages", "run", "poll", "status", "publish"}
  BY PostKinds DEF PostAsked
<1>2. PostTyped => Post!TypeOK
  BY <1>1 DEF PostTyped, Post!TypeOK, PostScreen, PostNotes
<1>3. TextFollows => Post!TextIsTheProducts
  BY DEF TextFollows, Post!TextIsTheProducts
<1>4. CauseFollows => Post!SpinnerHasCause
  BY DEF CauseFollows, Post!SpinnerHasCause
<1> QED BY <1>2, <1>3, <1>4 DEF PostInv

LEMMA PostStart == Post!Init => PostInv
<1> SUFFICES ASSUME Post!Init PROVE PostInv
  OBVIOUS
<1>1. PostTyped
  BY BoundsAssumption DEF Post!Init, PostTyped, PostScreen, PostNotes, Post!MaybeProduct
<1>2. TextFollows /\ CauseFollows
  BY DEF Post!Init, TextFollows, CauseFollows
<1> QED BY <1>1, <1>2 DEF PostInv

\* A generation is asked for; the text stays or goes.
LEMMA PostGenerates ==
    ASSUME PostInv, NEW p \in Post!MaybeProduct, NEW new \in PostScreen, NEW rest \in SUBSET net,
           Post!GenerateFBPost(p, new, rest), new.text \in {NoProduct, new.id} \/ ghost.strayed
    PROVE  PostInv'
<1> DEFINE q == [op |-> "run", id |-> p, run |-> ghost.runs + 1]
<1>0. ghost \in PostNotes /\ ghost.runs \in 0..MaxRuns /\ MaxRuns \in Nat /\ \A r \in net : PostAsked(r)
  BY BoundsAssumption DEF PostInv, PostTyped, PostNotes
<1>1. /\ ghost.runs < MaxRuns /\ ghost' = [ghost EXCEPT !.runs = @ + 1]
      /\ ui' = [new EXCEPT !.generating = TRUE] /\ UNCHANGED db /\ net' = rest \cup {q}
  BY DEF Post!GenerateFBPost
<1>2. ghost.runs + 1 \in Post!Run /\ ghost.runs + 1 \in 0..MaxRuns
  BY <1>0, <1>1 DEF Post!Run
<1>3. q \in PostRun /\ q.op = "run"
  BY <1>2 DEF PostRun
<1> HIDE DEF q
<1>4. ghost' \in PostNotes /\ ghost'.strayed = ghost.strayed
  BY <1>0, <1>1, <1>2 DEF PostNotes
<1>5. ui' \in PostScreen /\ ui'.text = new.text /\ ui'.id = new.id
  BY <1>1 DEF PostScreen
<1>6. PostTyped'
  BY <1>0, <1>1, <1>3, <1>4, <1>5 DEF PostInv, PostTyped, PostAsked
<1>7. TextFollows'
  BY <1>1, <1>3, <1>4, <1>5 DEF PostInv, TextFollows
<1>8. CauseFollows'
  BY <1>1, <1>3 DEF CauseFollows
<1> QED BY <1>6, <1>7, <1>8 DEF PostInv

\* The modal changes, and what was under way stays or is answered.
LEMMA PostPasses ==
    ASSUME PostInv, ui' \in PostScreen, UNCHANGED db,
           ghost' \in PostNotes, ghost'.strayed <=> ghost.strayed,
           \A q \in net' : q \in net \/ (PostAsked(q) /\ (q.op = "publish" => ghost.strayed \/ q.text = q.id)),
           ghost.strayed \/ ui'.text \in {NoProduct, ui'.id},
           ui'.generating => /\ ui.generating
                             /\ \A q \in net : q.op \in {"run", "poll"} => \E r \in net' : r.op \in {"run", "poll"}
    PROVE  PostInv'
<1>1. PostTyped'
  BY DEF PostInv, PostTyped
<1>2. TextFollows'
  BY DEF PostInv, TextFollows
<1>3. CauseFollows'
  BY DEF PostInv, CauseFollows
<1> QED BY <1>1, <1>2, <1>3 DEF PostInv

LEMMA PostNext == PostInv /\ Post!Next => PostInv'
<1> SUFFICES ASSUME PostInv, Post!Next PROVE PostInv'
  OBVIOUS
<1>0. /\ ui \in PostScreen /\ ghost \in PostNotes /\ \A q \in net : PostAsked(q)
      /\ db \in [Post!Run -> {"none", "queued", "completed", "failed"}]
      /\ Product \subseteq Post!MaybeProduct /\ NoProduct \in Post!MaybeProduct
      /\ ui.id \in Post!MaybeProduct /\ ui.text \in Post!MaybeProduct
      /\ ghost.strayed \/ ui.text \in {NoProduct, ui.id}
      /\ \A q \in net : q.op = "publish" => ghost.strayed \/ q.text = q.id
  BY DEF PostInv, PostTyped, TextFollows, PostScreen, Post!MaybeProduct
<1>1. ASSUME NEW p \in Product, Post!OpenFBModal(p) PROVE PostInv'
  <2>1. /\ Post!Shown(p) \in PostScreen /\ Post!Shown(p).text = NoProduct
        /\ Post!Shown(p).generating = ui.generating
    BY <1>0 DEF Post!Shown, PostScreen
  <2>2. CASE Post!GenerateFBPost(p, Post!Shown(p), net)
    BY <1>0, <2>1, <2>2, PostGenerates
  <2>3. CASE Post!AskForPages(p, Post!Shown(p))
    <3>1. PICK q : q = [op |-> "pages", id |-> p]
      OBVIOUS
    <3>2. q \in PostPages /\ q.op = "pages"
      BY <1>0, <3>1 DEF PostPages
    <3>3. ui' = Post!Shown(p) /\ net' = net \cup {q} /\ UNCHANGED <<db, ghost>>
      BY <2>3, <3>1 DEF Post!AskForPages
    <3> QED BY <1>0, <2>1, <3>2, <3>3, PostPasses DEF PostAsked
  <2> QED BY <1>1, <2>2, <2>3 DEF Post!OpenFBModal
<1>2. ASSUME Post!Regenerate PROVE PostInv'
  BY <1>0, <1>2, PostGenerates DEF Post!Regenerate
<1>3. ASSUME Post!CloseFBModal \/ Post!EditText PROVE PostInv'
  <2>1. /\ ui' \in PostScreen /\ ui'.id = ui.id /\ ui'.text \in {ui.text, ui.id} /\ ui'.generating = ui.generating
        /\ UNCHANGED <<net, db, ghost>>
    BY <1>0, <1>3 DEF Post!CloseFBModal, Post!EditText, PostScreen
  <2> QED BY <1>0, <2>1, PostPasses
<1>4. ASSUME Post!PublishToFB PROVE PostInv'
  <2>1. PICK q : q = [op |-> "publish", id |-> ui.id, text |-> ui.text]
    OBVIOUS
  <2>2. q \in PostPublish /\ q.op = "publish" /\ q.text = ui.text /\ q.id = ui.id
    BY <1>0, <2>1 DEF PostPublish
  <2>3. /\ ui.text # NoProduct /\ ghost.publishes < MaxPublishes
        /\ ghost' = [ghost EXCEPT !.publishes = @ + 1]
        /\ ui' = [ui EXCEPT !.publishing = TRUE] /\ net' = net \cup {q} /\ UNCHANGED db
    BY <1>4, <2>1 DEF Post!PublishToFB
  <2>4. ghost' \in PostNotes /\ ghost'.strayed = ghost.strayed
    BY <1>0, <2>3, ActCounted, BoundsAssumption DEF PostNotes
  <2>5. ui' \in PostScreen /\ ui'.id = ui.id /\ ui'.text = ui.text /\ ui'.generating = ui.generating
    BY <1>0, <2>3 DEF PostScreen
  <2> QED BY <1>0, <2>2, <2>3, <2>4, <2>5, PostPasses DEF PostAsked
<1>5. ASSUME NEW q \in net, Post!PagesFetched(q) PROVE PostInv'
  <2>1. PICK found \in BOOLEAN :
          q.op = "pages" /\ Post!GenerateFBPost(q.id, [ui EXCEPT !.pages = @ \/ found], net \ {q})
    BY <1>5 DEF Post!PagesFetched
  <2> DEFINE new == [ui EXCEPT !.pages = @ \/ found]
  <2>2. new \in PostScreen /\ new.text = ui.text /\ new.id = ui.id
    BY <1>0 DEF PostScreen
  <2>3. q.id \in Post!MaybeProduct
    BY <1>0, <2>1, PostKinds DEF PostAsked
  <2>4. Post!GenerateFBPost(q.id, new, net \ {q})
    BY <2>1
  <2> HIDE DEF new
  <2> QED BY <1>0, <2>2, <2>3, <2>4, PostGenerates
<1>6. ASSUME NEW q \in net, Post!TaskStarted(q) PROVE PostInv'
  <2>1. q \in PostRun /\ q.id \in Post!MaybeProduct /\ q.run \in Post!Run
    BY <1>0, <1>6, PostKinds DEF PostAsked, Post!TaskStarted
  <2>2. PICK r : r = [op |-> "poll", id |-> q.id, run |-> q.run, n |-> 0]
    OBVIOUS
  <2>3. r \in PostPoll /\ r.op = "poll"
    BY <2>1, <2>2 DEF PostPoll
  <2>4. net' = (net \ {q}) \cup {r} /\ db' = [db EXCEPT ![q.run] = "queued"] /\ UNCHANGED <<ui, ghost>>
    BY <1>6, <2>2 DEF Post!TaskStarted
  <2>5. PostTyped'
    BY <1>0, <2>1, <2>3, <2>4 DEF PostTyped, PostAsked
  <2>6. TextFollows' /\ CauseFollows'
    BY <1>0, <2>3, <2>4 DEF TextFollows, CauseFollows
  <2> QED BY <2>5, <2>6 DEF PostInv
<1>7. ASSUME NEW q \in net, Post!TaskRefused(q) PROVE PostInv'
  <2>1. ui' = [ui EXCEPT !.generating = FALSE] /\ net' = net \ {q} /\ UNCHANGED <<db, ghost>>
    BY <1>7 DEF Post!TaskRefused, Post!Answer
  <2>2. ui' \in PostScreen /\ ui'.id = ui.id /\ ui'.text = ui.text /\ ~ui'.generating
    BY <1>0, <2>1 DEF PostScreen
  <2> QED BY <1>0, <2>1, <2>2, PostPasses
<1>8. ASSUME NEW q \in net, Post!Poll(q) PROVE PostInv'
  <2>1. q \in PostPoll /\ q.op = "poll" /\ q.n \in Nat
    BY <1>0, <1>8, PostKinds DEF PostAsked, Post!Poll
  <2>2. CASE Post!Answer(q, ui, {[q EXCEPT !.n = @ + 1],
                                 [op |-> "status", id |-> q.id, run |-> q.run, n |-> q.n]})
    <3>1. PICK r, a : r = [q EXCEPT !.n = @ + 1] /\ a = [op |-> "status", id |-> q.id, run |-> q.run, n |-> q.n]
      OBVIOUS
    <3>2. r \in PostPoll /\ r.op = "poll" /\ a \in PostPoll /\ a.op = "status"
      BY <2>1, <3>1, PostKinds DEF PostPoll
    <3>3. net' = (net \ {q}) \cup {r, a} /\ UNCHANGED <<ui, db, ghost>>
      BY <2>2, <3>1 DEF Post!Answer
    <3> QED BY <1>0, <3>2, <3>3, PostPasses DEF PostAsked
  <2>3. CASE Post!Answer(q, [ui EXCEPT !.generating = FALSE], {})
    <3>1. ui' = [ui EXCEPT !.generating = FALSE] /\ net' = net \ {q} /\ UNCHANGED <<db, ghost>>
      BY <2>3 DEF Post!Answer
    <3>2. ui' \in PostScreen /\ ui'.id = ui.id /\ ui'.text = ui.text /\ ~ui'.generating
      BY <1>0, <3>1 DEF PostScreen
    <3> QED BY <1>0, <3>1, <3>2, PostPasses
  <2> QED BY <1>8, <2>2, <2>3 DEF Post!Poll
<1>9. ASSUME NEW q \in net, Post!TaskCompleted(q) PROVE PostInv'
  <2>1. q.id \in Post!MaybeProduct
    BY <1>0, <1>9, PostKinds DEF PostAsked, Post!TaskCompleted
  <2>2. /\ ui' = [[ui EXCEPT !.text = q.id] EXCEPT !.generating = FALSE] /\ net' \subseteq net /\ UNCHANGED db
        /\ ghost' = [ghost EXCEPT !.strayed = @ \/ ui.id # q.id]
    BY <1>9 DEF Post!TaskCompleted, Post!ClearInterval
  <2>3. ui' \in PostScreen /\ ui'.id = ui.id /\ ui'.text = q.id /\ ~ui'.generating
    BY <1>0, <2>1, <2>2 DEF PostScreen
  <2>4. ghost' \in PostNotes /\ (ghost'.strayed <=> ghost.strayed \/ ui.id # q.id)
    BY <1>0, <2>2 DEF PostNotes
  <2>5. PostTyped'
    BY <1>0, <2>2, <2>3, <2>4 DEF PostTyped
  <2>6. TextFollows' /\ CauseFollows'
    BY <1>0, <2>2, <2>3, <2>4 DEF TextFollows, CauseFollows
  <2> QED BY <2>5, <2>6 DEF PostInv
<1>10. ASSUME NEW q \in net, Post!TaskPending(q) PROVE PostInv'
  <2>1. q.op = "status" /\ net' = net \ {q} /\ UNCHANGED <<ui, db, ghost>>
    BY <1>10 DEF Post!TaskPending, Post!Answer
  <2> QED BY <1>0, <2>1, PostPasses
<1>11. ASSUME NEW q \in net, Post!TaskFailed(q) PROVE PostInv'
  <2>1. ui' = [ui EXCEPT !.generating = FALSE] /\ net' \subseteq net /\ UNCHANGED <<db, ghost>>
    BY <1>11 DEF Post!TaskFailed, Post!ClearInterval
  <2>2. ui' \in PostScreen /\ ui'.id = ui.id /\ ui'.text = ui.text /\ ~ui'.generating
    BY <1>0, <2>1 DEF PostScreen
  <2> QED BY <1>0, <2>1, <2>2, PostPasses
<1>12. ASSUME NEW q \in net, Post!Published(q) PROVE PostInv'
  <2>1. PICK shown \in {FALSE, ui.shown} : ui' = [ui EXCEPT !.publishing = FALSE, !.shown = shown]
    BY <1>12 DEF Post!Published, Post!Answer
  <2>2. q.op = "publish" /\ net' = net \ {q} /\ UNCHANGED <<db, ghost>>
    BY <1>12 DEF Post!Published, Post!Answer
  <2>3. ui' \in PostScreen /\ ui'.id = ui.id /\ ui'.text = ui.text /\ ui'.generating = ui.generating
    BY <1>0, <2>1 DEF PostScreen
  <2> QED BY <1>0, <2>2, <2>3, PostPasses
<1>13. ASSUME NEW r \in Post!Run, Post!TaskEnds(r) PROVE PostInv'
  <2>1. UNCHANGED <<ui, net, ghost>> /\ db' \in [Post!Run -> {"none", "queued", "completed", "failed"}]
    BY <1>0, <1>13 DEF Post!TaskEnds
  <2> QED BY <1>0, <2>1 DEF PostInv, PostTyped, TextFollows, CauseFollows
<1>14. CASE Post!Seller
  BY <1>1, <1>2, <1>3, <1>4, <1>14 DEF Post!Seller
<1>15. ASSUME NEW q \in net, Post!Answered(q) PROVE PostInv'
  BY <1>5, <1>6, <1>7, <1>8, <1>9, <1>10, <1>11, <1>12, <1>15 DEF Post!Answered
<1> QED BY <1>13, <1>14, <1>15 DEF Post!Next

---------------------------------------------------------------------------
(* The creative page *)

MaybeOwn == Creative!Own \cup {Creative!None}
CreativeScreen ==
    [tab : Creative!Kind, loading : BOOLEAN, pending : MaybeOwn, open : BOOLEAN,
     result : [Creative!Kind -> MaybeOwn], status : {"idle", "queued", "completed", "failed"},
     publishing : BOOLEAN]
CreativeNotes ==
    [runs : 0..MaxGenerations, sockets : 0..MaxSockets, posts : 0..MaxPosts,
     turned : BOOLEAN, unheard : BOOLEAN, again : BOOLEAN]
CreativeTasks == [Creative!Task -> [state : {"none", "queued", "ended"}, kind : Creative!Kind]]
CreativeRun == [op : {"run"}, task : Creative!Own, kind : Creative!Kind, at : {"sent", "answered"}]
CreativeEvent == [op : {"event"}, task : Creative!Task, ok : BOOLEAN]
CreativePost == [op : {"pages", "publish"}, post : [Creative!Kind -> MaybeOwn], last : 0..MaxGenerations]

CreativeTyped ==
    /\ ui \in CreativeScreen /\ db \in CreativeTasks /\ ghost \in CreativeNotes
    /\ \A q \in net : q \in CreativeRun \/ q \in CreativeEvent \/ q \in CreativePost

\* A task is asked for once and named by the page when the answer has come; an event
\* or a result is that of a task that has ended.
TasksFollow ==
    /\ ui.pending <= ghost.runs
    /\ \A t \in Creative!Own : t > ghost.runs => db[t].state = "none"
    /\ \A q \in net : q.op = "run" => /\ q.task <= ghost.runs /\ q.task # ui.pending
                                      /\ q.at = "sent" => db[q.task].state = "none"
    /\ \A q, r \in net : q.op = "run" /\ r.op = "run" /\ q.task = r.task => q = r
    /\ \A q \in net : q.op = "event" => db[q.task].state = "ended"
    /\ \A k \in Creative!Kind : ui.result[k] # Creative!None => db[ui.result[k]].state = "ended"

\* Something is still to be heard of a task.
Expected(t) == db[t].state = "queued" \/ \E q \in net : q.op = "event" /\ q.task = t
\* As long as nothing went unheard: what the page waits for is expected, and so is
\* what a request's answer will have it wait for.
WaitFollows ==
    ~ghost.unheard =>
        /\ \A q \in net : q.op = "run" /\ q.at = "answered" => Expected(q.task)
        /\ ui.loading => (\E q \in net : q.op = "run") \/ (ui.pending # Creative!None /\ Expected(ui.pending))

\* As long as no result came twice: a request is the last one, the page is done with
\* a task before it asks for another, and a result shown is the last task's.
LastFollows ==
    ~ghost.again =>
        /\ \A q \in net : q.op = "run" => q.task = ghost.runs /\ ui.loading
        /\ ui.pending # Creative!None /\ (~ui.loading \/ ui.pending # ghost.runs) =>
              db[ui.pending].state = "ended" /\ ~Expected(ui.pending)
        /\ \A q, r \in net : q.op = "event" /\ r.op = "event" /\ q.task = r.task => q = r
        /\ \A k \in Creative!Kind : ui.result[k] # Creative!None => ui.result[k] = ghost.runs

\* As long as the tab is the one the last task was asked for under, its kind is the
\* tab's.
KindFollows ==
    ~ghost.turned =>
        /\ \A q \in net : q.op = "run" /\ q.task = ghost.runs => q.kind = ui.tab
        /\ ghost.runs # 0 /\ db[ghost.runs].state # "none" => db[ghost.runs].kind = ui.tab
        /\ ~ghost.again => \A k \in Creative!Kind : ui.result[k] # Creative!None => k = ui.tab

CreativeInv == CreativeTyped /\ TasksFollow /\ WaitFollows /\ LastFollows /\ KindFollows

LEMMA CreativeKinds ==
    /\ \A q \in CreativeRun : /\ q.op = "run" /\ q.task \in Creative!Own /\ q.kind \in Creative!Kind
                              /\ q.at \in {"sent", "answered"}
    /\ \A q \in CreativeEvent : q.op = "event" /\ q.task \in Creative!Task /\ q.ok \in BOOLEAN
    /\ \A q \in CreativePost : q.op \in {"pages", "publish"}
<1>1. \A q \in CreativeRun : /\ q.op = "run" /\ q.task \in Creative!Own /\ q.kind \in Creative!Kind
                             /\ q.at \in {"sent", "answered"}
  BY DEF CreativeRun
<1>2. \A q \in CreativeEvent : q.op = "event" /\ q.task \in Creative!Task /\ q.ok \in BOOLEAN
  BY DEF CreativeEvent
<1>3. \A q \in CreativePost : q.op \in {"pages", "publish"}
  BY DEF CreativePost
<1> QED BY <1>1, <1>2, <1>3

LEMMA CreativeNames ==
    /\ Creative!None \notin Creative!Task /\ Creative!Own \subseteq Creative!Task
    /\ \A t \in Creative!Own : t \in Nat /\ t # 0 /\ t \notin Foreign
    /\ \A t \in MaybeOwn : t \in Nat
<1>1. MaxGenerations \in Nat
  BY BoundsAssumption
<1>2. \A t \in Creative!Own : t \in Nat /\ t # 0 /\ t \in 0..MaxGenerations
  BY <1>1 DEF Creative!Own
<1>3. 0 \notin Foreign
  BY <1>1, CreativeAssumption
<1> QED BY <1>2, <1>3, CreativeAssumption DEF Creative!None, Creative!Task, MaybeOwn

LEMMA CreativeSuffices ==
    CreativeInv => Creative!TypeOK /\ Creative!WaitsForSomething /\ Creative!ResultIsWhatWasAsked
<1> SUFFICES ASSUME CreativeInv
             PROVE  Creative!TypeOK /\ Creative!WaitsForSomething /\ Creative!ResultIsWhatWasAsked
  OBVIOUS
<1>0. /\ ui \in CreativeScreen /\ db \in CreativeTasks /\ ghost \in CreativeNotes
      /\ \A q \in net : q \in CreativeRun \/ q \in CreativeEvent \/ q \in CreativePost
      /\ ui.result \in [Creative!Kind -> MaybeOwn]
  BY DEF CreativeInv, CreativeTyped, CreativeScreen
<1>1. Creative!TypeOK
  <2>1. MaybeOwn \subseteq Creative!Task \cup {Creative!None}
    BY CreativeNames DEF MaybeOwn
  <2>2. ui.result \in [Creative!Kind -> Creative!Task \cup {Creative!None}]
    BY <1>0, <2>1
  <2>3. \A q \in net : q.op \in {"run", "event", "pages", "publish"}
    BY <1>0, CreativeKinds
  <2>4. ui \in [tab : Creative!Kind, loading : BOOLEAN, pending : Creative!Task \cup {Creative!None}, open : BOOLEAN,
               result : [Creative!Kind -> Creative!Task \cup {Creative!None}],
               status : {"idle", "queued", "completed", "failed"}, publishing : BOOLEAN]
    BY <1>0, <2>1, <2>2 DEF CreativeScreen
  <2> QED BY <1>0, <2>3, <2>4 DEF Creative!TypeOK, CreativeTasks, CreativeNotes
<1>2. Creative!WaitsForSomething
  BY DEF CreativeInv, WaitFollows, Expected, Creative!WaitsForSomething
<1>3. Creative!ResultIsWhatWasAsked
  <2> SUFFICES ASSUME NEW k \in Creative!Kind, ui.result[k] # Creative!None
               PROVE  /\ ui.result[k] \in Creative!Own
                      /\ ghost.again \/ ui.result[k] = ghost.runs
                      /\ ghost.again \/ ghost.turned \/ db[ui.result[k]].kind = k
    BY DEF Creative!ResultIsWhatWasAsked
  <2>1. ui.result[k] \in Creative!Own
    BY <1>0 DEF MaybeOwn
  <2>2. ghost.again \/ ui.result[k] = ghost.runs
    BY DEF CreativeInv, LastFollows
  <2>3. db[ui.result[k]].state = "ended" /\ ui.result[k] # 0
    BY <2>1, CreativeNames DEF CreativeInv, TasksFollow
  <2>4. ghost.again \/ ghost.turned \/ db[ui.result[k]].kind = k
    BY <2>2, <2>3 DEF CreativeInv, KindFollows
  <2> QED BY <2>1, <2>2, <2>4
<1> QED BY <1>1, <1>2, <1>3

LEMMA CreativeStart == Creative!Init => CreativeInv
<1> SUFFICES ASSUME Creative!Init PROVE CreativeInv
  OBVIOUS
<1>1. /\ ui = [tab |-> "caption", loading |-> FALSE, pending |-> Creative!None, open |-> FALSE,
               result |-> Creative!NoResult, status |-> "idle", publishing |-> FALSE]
      /\ net = {} /\ ghost = [runs |-> 0, sockets |-> 0, posts |-> 0, turned |-> FALSE, unheard |-> FALSE,
                              again |-> FALSE]
  BY DEF Creative!Init
<1>2. PICK k \in Creative!Kind :
        db = [t \in Creative!Task |-> [state |-> IF t \in Foreign THEN "queued" ELSE "none", kind |-> k]]
  BY DEF Creative!Init
<1>3. Creative!NoResult \in [Creative!Kind -> MaybeOwn] /\ \A x \in Creative!Kind : Creative!NoResult[x] = Creative!None
  BY DEF Creative!NoResult, MaybeOwn
<1>4. ui \in CreativeScreen
  BY <1>1, <1>3 DEF CreativeScreen, Creative!Kind, MaybeOwn
<1>5. ghost \in CreativeNotes
  BY <1>1, BoundsAssumption DEF CreativeNotes
<1>6. db \in CreativeTasks /\ \A t \in Creative!Own : db[t].state = "none"
  BY <1>2, CreativeNames DEF CreativeTasks
<1>7. CreativeTyped
  BY <1>1, <1>4, <1>5, <1>6 DEF CreativeTyped
<1>8. TasksFollow
  BY <1>1, <1>3, <1>6 DEF TasksFollow, Creative!None
<1>9. WaitFollows /\ LastFollows /\ KindFollows
  BY <1>1, <1>3 DEF WaitFollows, LastFollows, KindFollows
<1> QED BY <1>7, <1>8, <1>9 DEF CreativeInv

\* Nothing changes that a task is asked for, ended or shown by.
LEMMA CreativePasses ==
    ASSUME CreativeInv, ui' \in CreativeScreen, ghost' \in CreativeNotes, UNCHANGED db,
           ui'.tab = ui.tab, ui'.loading = ui.loading, ui'.pending = ui.pending, ui'.result = ui.result,
           ghost'.runs = ghost.runs, ghost'.turned = ghost.turned, ghost'.unheard = ghost.unheard,
           ghost'.again = ghost.again,
           \A q \in net' : q \in net \/ q \in CreativePost,
           \A q \in net : q.op \in {"run", "event"} => q \in net'
    PROVE  CreativeInv'
<1>1. /\ \A q \in net : q.op = "run" => q \in net'
      /\ \A q \in net : q.op = "event" => q \in net'
      /\ \A q \in net' : q.op = "run" => q \in net
      /\ \A q \in net' : q.op = "event" => q \in net
  BY CreativeKinds
<1>2. CreativeTyped'
  BY DEF CreativeInv, CreativeTyped
<1>3. TasksFollow'
  BY <1>1 DEF CreativeInv, TasksFollow
<1>4. \A t : Expected(t) => Expected(t)'
  BY <1>1 DEF Expected
<1>5. \A t : Expected(t)' => Expected(t)
  BY <1>1 DEF Expected
<1>6. WaitFollows'
  <2> SUFFICES ASSUME ~ghost'.unheard PROVE WaitFollows'
    BY DEF WaitFollows
  <2>1. \A q \in net' : q.op = "run" /\ q.at = "answered" => Expected(q.task)'
    BY <1>1, <1>4 DEF CreativeInv, WaitFollows
  <2>2. ui'.loading => (\E q \in net' : q.op = "run") \/ (ui'.pending # Creative!None /\ Expected(ui.pending)')
    BY <1>1, <1>4 DEF CreativeInv, WaitFollows, Expected
  <2> QED BY <2>1, <2>2 DEF WaitFollows, Expected
<1>7. LastFollows'
  BY <1>1 DEF CreativeInv, LastFollows, Expected
<1>8. KindFollows'
  BY <1>1 DEF CreativeInv, KindFollows
<1> QED BY <1>2, <1>3, <1>6, <1>7, <1>8 DEF CreativeInv

\* The socket, if it is open, is told once.
LEMMA EventTold ==
    ASSUME NEW t, Creative!Tell(t)
    PROVE  \E told : /\ \A e, d \in told : e = d
                     /\ \A e \in told : \E ok \in BOOLEAN : e = [op |-> "event", task |-> t, ok |-> ok]
                     /\ net' = net \cup told /\ UNCHANGED ui
                     /\ ui.open => told # {}
<1>1. PICK ok \in BOOLEAN :
        net' = net \cup (IF ui.open THEN {[op |-> "event", task |-> t, ok |-> ok]} ELSE {}) /\ UNCHANGED ui
  BY DEF Creative!Tell
<1> DEFINE told == IF ui.open THEN {[op |-> "event", task |-> t, ok |-> ok]} ELSE {}
<1>2. /\ \A e, d \in told : e = d
      /\ \A e \in told : e = [op |-> "event", task |-> t, ok |-> ok]
      /\ ui.open => told # {}
  OBVIOUS
<1>3. net' = net \cup told
  BY <1>1
<1> HIDE DEF told
<1> QED BY <1>1, <1>2, <1>3

LEMMA CreativeNext == CreativeInv /\ Creative!Next => CreativeInv'
<1> SUFFICES ASSUME CreativeInv, Creative!Next PROVE CreativeInv'
  OBVIOUS
<1>0. /\ ui \in CreativeScreen /\ db \in CreativeTasks /\ ghost \in CreativeNotes
      /\ \A q \in net : q \in CreativeRun \/ q \in CreativeEvent \/ q \in CreativePost
      /\ ui.result \in [Creative!Kind -> MaybeOwn] /\ ui.pending \in MaybeOwn /\ ui.tab \in Creative!Kind
      /\ ghost.runs \in Nat
      /\ TasksFollow /\ WaitFollows /\ LastFollows /\ KindFollows
  BY BoundsAssumption DEF CreativeInv, CreativeTyped, CreativeScreen, CreativeNotes
<1>1. ASSUME Creative!Connect PROVE CreativeInv'
  <2>1. ui' = [ui EXCEPT !.open = TRUE] /\ UNCHANGED <<net, db, ghost>>
    BY <1>1 DEF Creative!Connect
  <2>2. /\ ui' \in CreativeScreen /\ ui'.tab = ui.tab /\ ui'.loading = ui.loading /\ ui'.pending = ui.pending
        /\ ui'.result = ui.result
    BY <1>0, <2>1 DEF CreativeScreen
  <2> QED BY <1>0, <2>1, <2>2, CreativePasses
<1>2. ASSUME Creative!SwitchTab \/ Creative!TokenRefreshed PROVE CreativeInv'
  <2>1. PICK tab \in Creative!Kind : Creative!Reconnect([ui EXCEPT !.tab = tab])
    <3>1. [ui EXCEPT !.tab = ui.tab] = ui
      BY <1>0 DEF CreativeScreen
    <3> QED BY <1>0, <1>2, <3>1 DEF Creative!SwitchTab, Creative!TokenRefreshed
  <2> DEFINE lost == \E q \in net : q.op = "event" /\ q.task \in Creative!Own
             new == [ui EXCEPT !.tab = tab]
  <2>2. /\ ghost.sockets < MaxSockets /\ ui' = [new EXCEPT !.open = FALSE] /\ UNCHANGED db
        /\ net' = {q \in net : q.op # "event"}
        /\ ghost' = [ghost EXCEPT !.sockets = @ + 1, !.turned = @ \/ new.tab # ui.tab, !.unheard = @ \/ lost]
    BY <2>1 DEF Creative!Reconnect
  <2>3. /\ ui' \in CreativeScreen /\ ui'.tab = tab /\ ui'.loading = ui.loading /\ ui'.pending = ui.pending
        /\ ui'.result = ui.result /\ new.tab = tab
    BY <1>0, <2>2 DEF CreativeScreen
  <2> HIDE DEF new
  <2>4. PICK turned \in BOOLEAN, unheard \in BOOLEAN :
          (turned <=> ghost.turned \/ tab # ui.tab) /\ (unheard <=> ghost.unheard \/ lost)
    <3>1. \A b : \E x \in BOOLEAN : x <=> b
      OBVIOUS
    <3> QED BY <3>1
  <2>5. ghost' = [ghost EXCEPT !.sockets = @ + 1, !.turned = turned, !.unheard = unheard]
    BY <1>0, <2>2, <2>3, <2>4 DEF CreativeNotes
  <2>6. /\ ghost' \in CreativeNotes /\ ghost'.runs = ghost.runs /\ ghost'.again = ghost.again
        /\ ghost'.turned = turned /\ ghost'.unheard = unheard
    <3>1. ghost.sockets \in 0..MaxSockets /\ ghost.sockets < MaxSockets /\ MaxSockets \in Nat
      BY <1>0, <2>2, BoundsAssumption DEF CreativeNotes
    <3>2. ghost.sockets + 1 \in 0..MaxSockets
      BY <3>1
    <3> HIDE DEF lost
    <3> QED BY <1>0, <2>5, <3>2 DEF CreativeNotes
  <2>7. CreativeTyped'
    BY <1>0, <2>2, <2>3, <2>6 DEF CreativeTyped
  <2>8. TasksFollow'
    BY <1>0, <2>2, <2>3, <2>6 DEF TasksFollow
  <2>9. \A t : Expected(t)' => Expected(t)
    BY <2>2 DEF Expected
  <2>10. ASSUME ~unheard, NEW t \in Creative!Own, Expected(t) PROVE Expected(t)'
    BY <2>2, <2>4, <2>10 DEF Expected
  <2>11. WaitFollows'
    <3> SUFFICES ASSUME ~ghost'.unheard PROVE WaitFollows'
      BY DEF WaitFollows
    <3>1. ~unheard /\ ~ghost.unheard
      BY <2>4, <2>6
    <3>2. \A q \in net' : q.op = "run" /\ q.at = "answered" => Expected(q.task)'
      <4> SUFFICES ASSUME NEW q \in net', q.op = "run", q.at = "answered" PROVE Expected(q.task)'
        OBVIOUS
      <4>1. q \in net /\ q.task \in Creative!Own
        BY <1>0, <2>2, CreativeKinds
      <4>2. Expected(q.task)
        BY <1>0, <3>1, <4>1 DEF WaitFollows
      <4> QED BY <2>10, <3>1, <4>1, <4>2
    <3>3. ui'.loading => (\E q \in net' : q.op = "run") \/ (ui'.pending # Creative!None /\ Expected(ui.pending)')
      <4> SUFFICES ASSUME ui.loading, ~\E q \in net : q.op = "run"
                   PROVE  ui.pending # Creative!None /\ Expected(ui.pending)'
        BY <2>2, <2>3
      <4>1. PICK t : t = ui.pending
        OBVIOUS
      <4>2. t # Creative!None /\ Expected(t) /\ t \in Creative!Own
        BY <1>0, <3>1, <4>1 DEF WaitFollows, MaybeOwn
      <4>3. Expected(t)'
        BY <2>10, <3>1, <4>2
      <4> QED BY <2>3, <4>1, <4>2, <4>3 DEF Expected
    <3> QED BY <3>2, <3>3 DEF WaitFollows, Expected
  <2>12. LastFollows'
    BY <1>0, <2>2, <2>3, <2>6 DEF LastFollows, Expected
  <2>13. KindFollows'
    <3> SUFFICES ASSUME ~ghost'.turned PROVE KindFollows'
      BY DEF KindFollows
    <3>1. ~ghost.turned /\ tab = ui.tab
      BY <2>4, <2>6
    <3> QED BY <1>0, <2>2, <2>3, <2>6, <3>1 DEF KindFollows
  <2> QED BY <2>7, <2>8, <2>11, <2>12, <2>13 DEF CreativeInv
<1>3. ASSUME NEW q \in net, Creative!TaskCompleted(q) \/ Creative!TaskFailed(q) PROVE CreativeInv'
  <2>1. q \in CreativeEvent /\ q.op = "event" /\ q.task = ui.pending
    BY <1>0, <1>3, CreativeKinds DEF Creative!TaskCompleted, Creative!TaskFailed
  <2>2. ui.pending \in Creative!Own /\ ui.pending # Creative!None /\ ui.pending \in Creative!Task
    BY <1>0, <2>1, CreativeKinds, CreativeNames DEF MaybeOwn
  <2>3. db[ui.pending].state = "ended" /\ Expected(ui.pending)
    BY <1>0, <2>1 DEF TasksFollow, Expected
  <2> DEFINE shown == [ui.result EXCEPT ![ui.tab] = q.task]
  <2>4. PICK result \in {ui.result, shown}, status \in {"completed", "failed"} :
          ui' = [ui EXCEPT !.status = status, !.loading = FALSE, !.result = result]
    <3>1. CASE Creative!TaskCompleted(q)
      <4>1. ui' = [ui EXCEPT !.status = "completed", !.loading = FALSE, !.result = shown]
        BY <3>1 DEF Creative!TaskCompleted, Creative!Answer
      <4> QED BY <4>1
    <3>2. CASE Creative!TaskFailed(q)
      <4>1. ui' = [ui EXCEPT !.status = "failed", !.loading = FALSE]
        BY <3>2 DEF Creative!TaskFailed, Creative!Answer
      <4>2. ui' = [ui EXCEPT !.status = "failed", !.loading = FALSE, !.result = ui.result]
        BY <1>0, <4>1 DEF CreativeScreen
      <4> QED BY <4>2
    <3> QED BY <1>3, <3>1, <3>2
  <2>5. net' = net \ {q} /\ UNCHANGED <<db, ghost>>
    BY <1>3 DEF Creative!TaskCompleted, Creative!TaskFailed, Creative!Answer
  <2>6. /\ result \in [Creative!Kind -> MaybeOwn]
        /\ \A k \in Creative!Kind : result[k] = ui.result[k] \/ (k = ui.tab /\ result[k] = ui.pending)
    BY <1>0, <2>1, <2>4
  <2> HIDE DEF shown
  <2>7. /\ ui' \in CreativeScreen /\ ui'.tab = ui.tab /\ ui'.loading = FALSE /\ ui'.pending = ui.pending
        /\ ui'.result = result
    BY <1>0, <2>4, <2>6 DEF CreativeScreen
  <2>8. CreativeTyped'
    BY <1>0, <2>5, <2>7 DEF CreativeTyped
  <2>9. TasksFollow'
    BY <1>0, <2>3, <2>5, <2>6, <2>7 DEF TasksFollow
  <2>10. WaitFollows'
    <3> SUFFICES ASSUME ~ghost'.unheard PROVE WaitFollows'
      BY DEF WaitFollows
    <3>1. \A r \in net' : r.op = "run" /\ r.at = "answered" => Expected(r.task)'
      <4> SUFFICES ASSUME NEW r \in net', r.op = "run", r.at = "answered" PROVE Expected(r.task)'
        OBVIOUS
      <4>1. r \in net /\ r.task # q.task /\ Expected(r.task)
        BY <1>0, <2>1, <2>5 DEF TasksFollow, WaitFollows
      <4> QED BY <2>5, <4>1 DEF Expected
    <3> QED BY <2>7, <3>1 DEF WaitFollows, Expected
  <2>11. LastFollows'
    <3> SUFFICES ASSUME ~ghost'.again PROVE LastFollows'
      BY DEF LastFollows
    <3>1. ~ghost.again
      BY <2>5
    <3>2. ui.loading /\ ui.pending = ghost.runs
      BY <1>0, <2>2, <2>3, <3>1 DEF LastFollows
    <3>3. \A r \in net : r.op # "run"
      BY <1>0, <3>1, <3>2 DEF LastFollows, TasksFollow
    <3>4. \A r \in net' : ~(r.op = "event" /\ r.task = ui.pending)
      BY <1>0, <2>1, <2>5, <3>1 DEF LastFollows
    <3>5. db'[ui'.pending].state = "ended" /\ ~Expected(ui.pending)'
      BY <2>3, <2>5, <2>7, <3>4 DEF Expected
    <3>6. \A k \in Creative!Kind : ui'.result[k] # Creative!None => ui'.result[k] = ghost'.runs
      BY <1>0, <2>5, <2>6, <2>7, <3>1, <3>2 DEF LastFollows
    <3>7. \A r, s \in net' : r.op = "event" /\ s.op = "event" /\ r.task = s.task => r = s
      BY <1>0, <2>5, <3>1 DEF LastFollows
    <3> QED BY <2>5, <3>3, <3>5, <3>6, <3>7 DEF LastFollows, Expected
  <2>12. KindFollows'
    BY <1>0, <2>5, <2>6, <2>7 DEF KindFollows
  <2> QED BY <2>8, <2>9, <2>10, <2>11, <2>12 DEF CreativeInv
<1>4. ASSUME NEW q \in net, Creative!Ignored(q) PROVE CreativeInv'
  <2>1. /\ q.op = "event" /\ q.task # ui.pending /\ UNCHANGED <<ui, db>> /\ net' = net \ {q}
        /\ ghost' = [ghost EXCEPT !.unheard = @ \/ q.task \in Creative!Own]
    BY <1>4 DEF Creative!Ignored
  <2>2. /\ ghost' \in CreativeNotes /\ ghost'.runs = ghost.runs /\ ghost'.again = ghost.again
        /\ ghost'.turned = ghost.turned /\ (ghost'.unheard <=> ghost.unheard \/ q.task \in Creative!Own)
    BY <1>0, <2>1 DEF CreativeNotes
  <2>3. CreativeTyped'
    BY <1>0, <2>1, <2>2 DEF CreativeTyped
  <2>4. TasksFollow'
    BY <1>0, <2>1, <2>2 DEF TasksFollow
  <2>5. ASSUME ~ghost'.unheard PROVE WaitFollows'
    <3>1. ASSUME NEW t \in Creative!Own, Expected(t) PROVE Expected(t)'
      BY <2>1, <2>2, <2>5, <3>1 DEF Expected
    <3>2. \A r \in net' : r.op = "run" /\ r.at = "answered" => Expected(r.task)'
      <4> SUFFICES ASSUME NEW r \in net', r.op = "run", r.at = "answered" PROVE Expected(r.task)'
        OBVIOUS
      <4>1. r.task \in Creative!Own /\ Expected(r.task)
        BY <1>0, <2>1, <2>2, <2>5, CreativeKinds DEF WaitFollows
      <4> QED BY <3>1, <4>1
    <3>3. ui.loading => (\E r \in net' : r.op = "run") \/ (ui.pending # Creative!None /\ Expected(ui.pending)')
      <4> SUFFICES ASSUME ui.loading, ~\E r \in net : r.op = "run"
                   PROVE  ui.pending # Creative!None /\ Expected(ui.pending)'
        BY <2>1
      <4>1. ui.pending # Creative!None /\ Expected(ui.pending)
        BY <1>0, <2>2, <2>5 DEF WaitFollows
      <4> QED BY <2>1, <4>1 DEF Expected
    <3> QED BY <2>1, <3>2, <3>3 DEF WaitFollows, Expected
  <2>6. LastFollows'
    BY <1>0, <2>1, <2>2 DEF LastFollows, Expected
  <2>7. KindFollows'
    BY <1>0, <2>1, <2>2 DEF KindFollows
  <2> QED BY <2>3, <2>4, <2>5, <2>6, <2>7 DEF CreativeInv, WaitFollows
<1>5. ASSUME Creative!HandleGenerate PROVE CreativeInv'
  <2>1. PICK run : run = [op |-> "run", task |-> ghost.runs + 1, kind |-> ui.tab, at |-> "sent"]
    OBVIOUS
  <2>2. /\ ~ui.loading /\ ghost.runs < MaxGenerations
        /\ ghost' = [ghost EXCEPT !.runs = @ + 1, !.turned = FALSE]
        /\ ui' = [ui EXCEPT !.loading = TRUE, !.status = "queued", !.result = Creative!NoResult]
        /\ net' = net \cup {run} /\ UNCHANGED db
    BY <1>5, <2>1 DEF Creative!HandleGenerate
  <2>3. ghost.runs + 1 \in Creative!Own /\ ghost.runs + 1 \in 0..MaxGenerations
    BY <1>0, <2>2, BoundsAssumption DEF Creative!Own
  <2>4. /\ run \in CreativeRun /\ run.op = "run" /\ run.task = ghost.runs + 1 /\ run.kind = ui.tab
        /\ run.at = "sent"
    BY <1>0, <2>1, <2>3 DEF CreativeRun
  <2>5. /\ ghost' \in CreativeNotes /\ ghost'.runs = ghost.runs + 1 /\ ghost'.turned = FALSE
        /\ ghost'.unheard = ghost.unheard /\ ghost'.again = ghost.again
    BY <1>0, <2>2, <2>3 DEF CreativeNotes
  <2>6. Creative!NoResult \in [Creative!Kind -> MaybeOwn] /\ \A k \in Creative!Kind : Creative!NoResult[k] = Creative!None
    BY DEF Creative!NoResult, MaybeOwn
  <2>7. /\ ui' \in CreativeScreen /\ ui'.tab = ui.tab /\ ui'.loading /\ ui'.pending = ui.pending
        /\ ui'.result = Creative!NoResult
    BY <1>0, <2>2, <2>6 DEF CreativeScreen
  <2>8. CreativeTyped'
    BY <1>0, <2>2, <2>4, <2>5, <2>7 DEF CreativeTyped
  <2>9. ui.pending \in Nat /\ \A t \in Creative!Own : t \in Nat
    BY <1>0, CreativeNames
  <2>10. \A q \in net : q.op = "run" => q.task \in Nat /\ q.task <= ghost.runs
    BY <1>0, <2>9, CreativeKinds DEF TasksFollow
  <2>11. TasksFollow'
    <3>1. ui.pending <= ghost.runs + 1 /\ \A t \in Creative!Own : t > ghost.runs + 1 => db[t].state = "none"
      BY <1>0, <2>9 DEF TasksFollow
    <3>2. run.task # ui.pending /\ db[run.task].state = "none"
      BY <1>0, <2>3, <2>4, <2>9 DEF TasksFollow
    <3>3. \A q \in net' : q.op = "run" => /\ q.task <= ghost.runs + 1 /\ q.task # ui.pending
                                          /\ q.at = "sent" => db[q.task].state = "none"
      BY <1>0, <2>2, <2>4, <2>10, <3>2 DEF TasksFollow
    <3>4. \A q, r \in net' : q.op = "run" /\ r.op = "run" /\ q.task = r.task => q = r
      BY <1>0, <2>2, <2>4, <2>10 DEF TasksFollow
    <3>5. \A q \in net' : q.op = "event" => db[q.task].state = "ended"
      BY <1>0, <2>2, <2>4 DEF TasksFollow
    <3>6. ui'.pending <= ghost'.runs /\ \A t \in Creative!Own : t > ghost'.runs => db'[t].state = "none"
      BY <2>2, <2>5, <2>7, <3>1
    <3>7. \A q \in net' : q.op = "run" => /\ q.task <= ghost'.runs /\ q.task # ui'.pending
                                          /\ q.at = "sent" => db'[q.task].state = "none"
      BY <2>2, <2>5, <2>7, <3>3
    <3>8. \A q \in net' : q.op = "event" => db'[q.task].state = "ended"
      BY <2>2, <3>5
    <3>9. \A k \in Creative!Kind : ui'.result[k] # Creative!None => db'[ui'.result[k]].state = "ended"
      BY <2>6, <2>7
    <3> QED BY <3>4, <3>6, <3>7, <3>8, <3>9 DEF TasksFollow
  <2>12. WaitFollows'
    <3>1. \A t : Expected(t) => Expected(t)'
      BY <2>2 DEF Expected
    <3> SUFFICES ASSUME ~ghost'.unheard PROVE WaitFollows'
      BY DEF WaitFollows
    <3>2. \A q \in net' : q.op = "run" /\ q.at = "answered" => Expected(q.task)'
      BY <1>0, <2>2, <2>4, <2>5, <3>1 DEF WaitFollows
    <3>3. \E q \in net' : q.op = "run"
      BY <2>2, <2>4
    <3> QED BY <3>2, <3>3 DEF WaitFollows, Expected
  <2>13. LastFollows'
    <3> SUFFICES ASSUME ~ghost'.again PROVE LastFollows'
      BY DEF LastFollows
    <3>1. \A q \in net : q.op # "run"
      BY <1>0, <2>2, <2>5 DEF LastFollows
    <3>2. \A q \in net' : q.op = "run" => q.task = ghost'.runs /\ ui'.loading
      BY <2>2, <2>4, <2>5, <2>7, <3>1
    <3>3. ui.pending # Creative!None => db[ui.pending].state = "ended" /\ ~Expected(ui.pending)
      BY <1>0, <2>2, <2>5 DEF LastFollows
    <3>4. ui'.pending # Creative!None => db'[ui'.pending].state = "ended" /\ ~Expected(ui.pending)'
      BY <2>2, <2>4, <2>7, <3>3 DEF Expected
    <3>5. \A q, r \in net' : q.op = "event" /\ r.op = "event" /\ q.task = r.task => q = r
      BY <1>0, <2>2, <2>4, <2>5 DEF LastFollows
    <3>6. \A k \in Creative!Kind : ui'.result[k] # Creative!None => ui'.result[k] = ghost'.runs
      BY <2>6, <2>7
    <3> QED BY <3>2, <3>4, <3>5, <3>6 DEF LastFollows, Expected
  <2>14. KindFollows'
    <3>1. \A q \in net' : q.op = "run" /\ q.task = ghost'.runs => q.kind = ui'.tab
      BY <1>0, <2>2, <2>4, <2>5, <2>7, <2>10
    <3>2. db'[ghost'.runs].state = "none"
      BY <1>0, <2>2, <2>3, <2>5 DEF TasksFollow
    <3> QED BY <2>6, <2>7, <3>1, <3>2 DEF KindFollows
  <2> QED BY <2>8, <2>11, <2>12, <2>13, <2>14 DEF CreativeInv
<1>6. ASSUME NEW q \in net, Creative!RunAgent(q) PROVE CreativeInv'
  <2>1. q \in CreativeRun /\ q.op = "run" /\ q.at = "sent" /\ q.task \in Creative!Own /\ q.kind \in Creative!Kind
    BY <1>0, <1>6, CreativeKinds DEF Creative!RunAgent
  <2>2. PICK run : run = [q EXCEPT !.at = "answered"]
    OBVIOUS
  <2>3. run \in CreativeRun /\ run.op = "run" /\ run.task = q.task /\ run.kind = q.kind /\ run.at = "answered"
    BY <2>1, <2>2 DEF CreativeRun
  <2>4. /\ db' = [db EXCEPT ![q.task] = [state |-> "queued", kind |-> q.kind]]
        /\ net' = (net \ {q}) \cup {run} /\ UNCHANGED <<ui, ghost>>
    BY <1>6, <2>2 DEF Creative!RunAgent
  <2>5. q.task \in Creative!Task /\ q.task # 0 /\ q.task \in Nat
    BY <2>1, CreativeNames
  <2>6. /\ db' \in CreativeTasks /\ db'[q.task].state = "queued" /\ db'[q.task].kind = q.kind
        /\ \A t \in Creative!Task : t # q.task => db'[t] = db[t]
    <3>1. db'[q.task] = [state |-> "queued", kind |-> q.kind]
      BY <1>0, <2>4, <2>5 DEF CreativeTasks
    <3>2. [state |-> "queued", kind |-> q.kind] \in [state : {"none", "queued", "ended"}, kind : Creative!Kind]
      BY <2>1
    <3>3. db' \in CreativeTasks
      BY <1>0, <2>4, <3>2 DEF CreativeTasks
    <3>4. \A t \in Creative!Task : t # q.task => db'[t] = db[t]
      BY <1>0, <2>4 DEF CreativeTasks
    <3> QED BY <3>1, <3>3, <3>4
  <2>7. db[q.task].state = "none" /\ q.task <= ghost.runs /\ q.task # ui.pending
    BY <1>0, <2>1 DEF TasksFollow
  <2>0. /\ \A r \in net : r.op = "run" => r.task \in Creative!Task
        /\ \A r \in net : r.op = "event" => r.task \in Creative!Task
        /\ ui.pending # Creative!None => ui.pending \in Creative!Task
        /\ \A k \in Creative!Kind : ui.result[k] # Creative!None => ui.result[k] \in Creative!Task
        /\ ghost.runs # 0 => ghost.runs \in Creative!Task
        /\ Creative!Own \subseteq Creative!Task
    <3>1. ghost.runs # 0 => ghost.runs \in Creative!Own
      BY <1>0, BoundsAssumption DEF CreativeNotes, Creative!Own
    <3> QED BY <1>0, <3>1, CreativeKinds, CreativeNames DEF MaybeOwn
  <2>8. CreativeTyped'
    BY <1>0, <2>3, <2>4, <2>6 DEF CreativeTyped
  <2>9. /\ \A r \in net : r.op = "run" /\ r # q => r.task # q.task
        /\ \A r \in net : r.op = "event" => r.task # q.task
        /\ \A k \in Creative!Kind : ui.result[k] # Creative!None => ui.result[k] # q.task
    BY <1>0, <2>1, <2>7 DEF TasksFollow
  <2>10. TasksFollow'
    <3>1. \A t \in Creative!Own : t > ghost.runs => db'[t].state = "none"
      <4>1. \A t \in Creative!Own : t \in Nat
        BY CreativeNames
      <4> QED BY <1>0, <2>0, <2>5, <2>6, <2>7, <4>1 DEF TasksFollow
    <3>2. \A r \in net' : r.op = "run" => /\ r.task <= ghost.runs /\ r.task # ui.pending
                                          /\ r.at = "sent" => db'[r.task].state = "none"
      BY <1>0, <2>0, <2>1, <2>3, <2>4, <2>6, <2>7, <2>9 DEF TasksFollow
    <3>3. \A r, s \in net' : r.op = "run" /\ s.op = "run" /\ r.task = s.task => r = s
      BY <1>0, <2>3, <2>4, <2>9 DEF TasksFollow
    <3>4. \A r \in net' : r.op = "event" => db'[r.task].state = "ended"
      BY <1>0, <2>0, <2>3, <2>4, <2>6, <2>9 DEF TasksFollow
    <3>5. \A k \in Creative!Kind : ui.result[k] # Creative!None => db'[ui.result[k]].state = "ended"
      BY <1>0, <2>0, <2>6, <2>9 DEF TasksFollow
    <3>6. ui.pending <= ghost.runs
      BY <1>0 DEF TasksFollow
    <3>7. ui' = ui /\ ghost' = ghost
      BY <2>4
    <3> QED BY <3>1, <3>2, <3>3, <3>4, <3>5, <3>6, <3>7 DEF TasksFollow
  <2>11. WaitFollows'
    <3> SUFFICES ASSUME ~ghost'.unheard PROVE WaitFollows'
      BY DEF WaitFollows
    <3>1. \A t \in Creative!Task : t # q.task /\ Expected(t) => Expected(t)'
      BY <2>1, <2>4, <2>6 DEF Expected
    <3>2. Expected(q.task)'
      BY <2>6 DEF Expected
    <3>3. \A r \in net' : r.op = "run" /\ r.at = "answered" => Expected(r.task)'
      BY <1>0, <2>0, <2>3, <2>4, <2>9, <3>1, <3>2 DEF WaitFollows
    <3>4. \E r \in net' : r.op = "run"
      BY <2>3, <2>4
    <3> QED BY <3>3, <3>4 DEF WaitFollows, Expected
  <2>12. LastFollows'
    <3> SUFFICES ASSUME ~ghost'.again PROVE LastFollows'
      BY DEF LastFollows
    <3>1. \A r \in net' : r.op = "run" => r.task = ghost.runs /\ ui.loading
      BY <1>0, <2>1, <2>3, <2>4 DEF LastFollows
    <3>2. \A r \in net' : r.op = "event" => r \in net
      BY <2>3, <2>4
    <3>3. ui.pending # Creative!None /\ (~ui.loading \/ ui.pending # ghost.runs) =>
            db'[ui.pending].state = "ended" /\ ~Expected(ui.pending)'
      BY <1>0, <2>0, <2>4, <2>6, <2>7, <3>2 DEF LastFollows, Expected
    <3>4. \A r, s \in net' : r.op = "event" /\ s.op = "event" /\ r.task = s.task => r = s
      BY <1>0, <2>4, <3>2 DEF LastFollows
    <3>5. \A k \in Creative!Kind : ui.result[k] # Creative!None => ui.result[k] = ghost.runs
      BY <1>0, <2>4 DEF LastFollows
    <3> QED BY <2>4, <3>1, <3>3, <3>4, <3>5 DEF LastFollows, Expected
  <2>13. KindFollows'
    <3> SUFFICES ASSUME ~ghost'.turned PROVE KindFollows'
      BY DEF KindFollows
    <3>1. \A r \in net' : r.op = "run" /\ r.task = ghost.runs => r.kind = ui.tab
      BY <1>0, <2>1, <2>3, <2>4 DEF KindFollows
    <3>2. ghost.runs # 0 /\ db'[ghost.runs].state # "none" => db'[ghost.runs].kind = ui.tab
      BY <1>0, <2>0, <2>1, <2>4, <2>6 DEF KindFollows
    <3>3. ~ghost.again => \A k \in Creative!Kind : ui.result[k] # Creative!None => k = ui.tab
      BY <1>0, <2>4 DEF KindFollows
    <3> QED BY <2>4, <3>1, <3>2, <3>3 DEF KindFollows
  <2> QED BY <2>8, <2>10, <2>11, <2>12, <2>13 DEF CreativeInv
<1>7. ASSUME NEW q \in net, Creative!Queued(q) PROVE CreativeInv'
  <2>1. q \in CreativeRun /\ q.op = "run" /\ q.at = "answered" /\ q.task \in Creative!Own
    BY <1>0, <1>7, CreativeKinds DEF Creative!Queued
  <2>2. ui' = [ui EXCEPT !.pending = q.task] /\ net' = net \ {q} /\ UNCHANGED <<db, ghost>>
    BY <1>7 DEF Creative!Queued, Creative!Answer
  <2>3. /\ ui' \in CreativeScreen /\ ui'.tab = ui.tab /\ ui'.loading = ui.loading /\ ui'.pending = q.task
        /\ ui'.result = ui.result
    BY <1>0, <2>1, <2>2 DEF CreativeScreen, MaybeOwn
  <2>4. CreativeTyped'
    BY <1>0, <2>2, <2>3 DEF CreativeTyped
  <2>5. TasksFollow'
    BY <1>0, <2>1, <2>2, <2>3 DEF TasksFollow
  <2>6. \A t : Expected(t) => Expected(t)'
    BY <2>1, <2>2 DEF Expected
  <2>7. WaitFollows'
    <3> SUFFICES ASSUME ~ghost'.unheard PROVE WaitFollows'
      BY DEF WaitFollows
    <3>1. \A r \in net : r.op = "run" /\ r.at = "answered" => Expected(r.task)'
      BY <1>0, <2>2, <2>6 DEF WaitFollows
    <3>2. q.task # Creative!None /\ Expected(q.task)'
      BY <2>1, <3>1, CreativeNames DEF Creative!None
    <3> QED BY <2>2, <2>3, <3>1, <3>2 DEF WaitFollows, Expected
  <2>8. LastFollows'
    BY <1>0, <2>1, <2>2, <2>3 DEF LastFollows, Expected
  <2>9. KindFollows'
    BY <1>0, <2>2, <2>3 DEF KindFollows
  <2> QED BY <2>4, <2>5, <2>7, <2>8, <2>9 DEF CreativeInv
<1>8. ASSUME NEW q \in net, Creative!SubmitFails(q) PROVE CreativeInv'
  <2>1. /\ q.op = "run" /\ ui' = [ui EXCEPT !.loading = FALSE, !.status = "failed"] /\ net' = net \ {q}
        /\ UNCHANGED <<db, ghost>>
    BY <1>8 DEF Creative!SubmitFails, Creative!Answer
  <2>2. /\ ui' \in CreativeScreen /\ ui'.tab = ui.tab /\ ui'.loading = FALSE /\ ui'.pending = ui.pending
        /\ ui'.result = ui.result
    BY <1>0, <2>1 DEF CreativeScreen
  <2>3. CreativeTyped'
    BY <1>0, <2>1, <2>2 DEF CreativeTyped
  <2>4. TasksFollow'
    BY <1>0, <2>1, <2>2 DEF TasksFollow
  <2>5. \A t : Expected(t) => Expected(t)'
    BY <2>1 DEF Expected
  <2>6. WaitFollows'
    <3>1. \A r \in net' : ~ghost'.unheard /\ r.op = "run" /\ r.at = "answered" => Expected(r.task)'
      BY <1>0, <2>1, <2>5 DEF WaitFollows
    <3> QED BY <2>2, <3>1 DEF WaitFollows, Expected
  <2>7. LastFollows'
    <3> SUFFICES ASSUME ~ghost'.again PROVE LastFollows'
      BY DEF LastFollows
    <3>1. q.task = ghost.runs /\ ui.pending # ghost.runs
      BY <1>0, <2>1 DEF LastFollows, TasksFollow
    <3>2. \A r \in net' : r.op # "run"
      BY <1>0, <2>1 DEF LastFollows, TasksFollow
    <3>3. ui.pending # Creative!None => db[ui.pending].state = "ended" /\ ~Expected(ui.pending)
      BY <1>0, <2>1, <3>1 DEF LastFollows
    <3> QED BY <1>0, <2>1, <2>2, <3>2, <3>3 DEF LastFollows, Expected
  <2>8. KindFollows'
    BY <1>0, <2>1, <2>2 DEF KindFollows
  <2> QED BY <2>3, <2>4, <2>6, <2>7, <2>8 DEF CreativeInv
<1>9. ASSUME NEW t \in Creative!Task, Creative!TaskEnds(t) PROVE CreativeInv'
  <2>1. PICK told : /\ \A e, d \in told : e = d
                    /\ \A e \in told : \E ok \in BOOLEAN : e = [op |-> "event", task |-> t, ok |-> ok]
                    /\ net' = net \cup told /\ UNCHANGED ui
                    /\ ui.open => told # {}
    BY <1>9, EventTold DEF Creative!TaskEnds
  <2>2. /\ db[t].state = "queued" /\ db' = [db EXCEPT ![t].state = "ended"]
        /\ ghost' = [ghost EXCEPT !.unheard = @ \/ (~ui.open /\ t \in Creative!Own)]
    BY <1>9 DEF Creative!TaskEnds
  <2>3. \A e \in told : e \in CreativeEvent /\ e.op = "event" /\ e.task = t
    BY <2>1 DEF CreativeEvent
  <2>4. /\ db' \in CreativeTasks /\ db'[t].state = "ended" /\ db'[t].kind = db[t].kind
        /\ \A x \in Creative!Task : x # t => db'[x] = db[x]
    BY <1>0, <2>2 DEF CreativeTasks
  <2>5. /\ ghost' \in CreativeNotes /\ ghost'.runs = ghost.runs /\ ghost'.again = ghost.again
        /\ ghost'.turned = ghost.turned /\ (ghost'.unheard <=> ghost.unheard \/ (~ui.open /\ t \in Creative!Own))
    BY <1>0, <2>2 DEF CreativeNotes
  <2>6. CreativeTyped'
    BY <1>0, <2>1, <2>3, <2>4, <2>5 DEF CreativeTyped
  <2>7. /\ \A r \in net : r.op = "run" => r.task \in Creative!Own /\ r.task \in Creative!Task
        /\ \A r \in net : r.op = "event" => r.task \in Creative!Task /\ r.task # t
        /\ ui.pending # Creative!None => ui.pending \in Creative!Own /\ ui.pending \in Creative!Task
        /\ \A k \in Creative!Kind : ui.result[k] # Creative!None => ui.result[k] \in Creative!Task
        /\ ghost.runs # 0 => ghost.runs \in Creative!Task
        /\ Creative!Own \subseteq Creative!Task
    <3>1. ghost.runs # 0 => ghost.runs \in Creative!Own
      BY <1>0, BoundsAssumption DEF CreativeNotes, Creative!Own
    <3>2. \A r \in net : r.op = "event" => r.task # t
      BY <1>0, <2>2 DEF TasksFollow
    <3> QED BY <1>0, <3>1, <3>2, CreativeKinds, CreativeNames DEF MaybeOwn
  <2>8. \A r \in net' : r.op = "run" => r \in net
    BY <2>1, <2>3
  <2>9. TasksFollow'
    <3>1. \A x \in Creative!Own : x > ghost.runs => db'[x].state = "none"
      BY <1>0, <2>2, <2>4, <2>7 DEF TasksFollow
    <3>2. \A r \in net' : r.op = "run" => /\ r.task <= ghost.runs /\ r.task # ui.pending
                                          /\ r.at = "sent" => db'[r.task].state = "none"
      BY <1>0, <2>2, <2>4, <2>7, <2>8 DEF TasksFollow
    <3>3. \A r, s \in net' : r.op = "run" /\ s.op = "run" /\ r.task = s.task => r = s
      BY <1>0, <2>8 DEF TasksFollow
    <3>4. \A r \in net' : r.op = "event" => db'[r.task].state = "ended"
      BY <1>0, <2>1, <2>3, <2>4, <2>7 DEF TasksFollow
    <3>5. \A k \in Creative!Kind : ui.result[k] # Creative!None => db'[ui.result[k]].state = "ended"
      BY <1>0, <2>4, <2>7 DEF TasksFollow
    <3>6. ui.pending <= ghost.runs
      BY <1>0 DEF TasksFollow
    <3> QED BY <2>1, <2>5, <3>1, <3>2, <3>3, <3>4, <3>5, <3>6 DEF TasksFollow
  <2>10. ASSUME ~ghost'.unheard, NEW x \in Creative!Own, Expected(x) PROVE Expected(x)'
    <3>1. CASE x = t
      <4>1. PICK e \in told : TRUE
        BY <2>1, <2>5, <2>10, <3>1
      <4> QED BY <2>1, <2>3, <3>1, <4>1 DEF Expected
    <3>2. CASE x # t
      BY <2>1, <2>4, <2>7, <2>10, <3>2 DEF Expected
    <3> QED BY <3>1, <3>2
  <2>11. ASSUME ~ghost'.unheard PROVE WaitFollows'
    <3>1. \A r \in net' : r.op = "run" /\ r.at = "answered" => Expected(r.task)'
      <4> SUFFICES ASSUME NEW r \in net', r.op = "run", r.at = "answered" PROVE Expected(r.task)'
        OBVIOUS
      <4>1. r.task \in Creative!Own /\ Expected(r.task)
        BY <1>0, <2>5, <2>7, <2>8, <2>11 DEF WaitFollows
      <4> QED BY <2>10, <2>11, <4>1
    <3>2. ui.loading => (\E r \in net' : r.op = "run") \/ (ui.pending # Creative!None /\ Expected(ui.pending)')
      <4> SUFFICES ASSUME ui.loading, ~\E r \in net : r.op = "run"
                   PROVE  ui.pending # Creative!None /\ Expected(ui.pending)'
        BY <2>1
      <4>1. PICK x : x = ui.pending
        OBVIOUS
      <4>2. x # Creative!None /\ Expected(x) /\ x \in Creative!Own
        BY <1>0, <2>5, <2>7, <2>11, <4>1 DEF WaitFollows
      <4>3. Expected(x)'
        BY <2>10, <2>11, <4>2
      <4> QED BY <2>1, <4>1, <4>2, <4>3 DEF Expected
    <3> QED BY <2>1, <3>1, <3>2 DEF WaitFollows, Expected
  <2>12. LastFollows'
    <3> SUFFICES ASSUME ~ghost'.again PROVE LastFollows'
      BY DEF LastFollows
    <3>1. \A r \in net' : r.op = "run" => r.task = ghost.runs /\ ui.loading
      BY <1>0, <2>5, <2>8 DEF LastFollows
    <3>2. ui.pending # Creative!None /\ (~ui.loading \/ ui.pending # ghost.runs) =>
            db'[ui.pending].state = "ended" /\ ~Expected(ui.pending)'
      <4> SUFFICES ASSUME ui.pending # Creative!None, ~ui.loading \/ ui.pending # ghost.runs
                   PROVE  db'[ui.pending].state = "ended" /\ ~Expected(ui.pending)'
        OBVIOUS
      <4>1. db[ui.pending].state = "ended" /\ ~Expected(ui.pending)
        BY <1>0, <2>5 DEF LastFollows
      <4>2. ui.pending # t
        BY <2>2, <4>1
      <4> QED BY <2>1, <2>3, <2>4, <2>7, <4>1, <4>2 DEF Expected
    <3>3. \A r, s \in net' : r.op = "event" /\ s.op = "event" /\ r.task = s.task => r = s
      BY <1>0, <2>1, <2>3, <2>5, <2>7 DEF LastFollows
    <3>4. \A k \in Creative!Kind : ui.result[k] # Creative!None => ui.result[k] = ghost.runs
      BY <1>0, <2>5 DEF LastFollows
    <3> QED BY <2>1, <2>5, <3>1, <3>2, <3>3, <3>4 DEF LastFollows, Expected
  <2>13. KindFollows'
    <3> SUFFICES ASSUME ~ghost'.turned PROVE KindFollows'
      BY DEF KindFollows
    <3>1. \A r \in net' : r.op = "run" /\ r.task = ghost.runs => r.kind = ui.tab
      BY <1>0, <2>5, <2>8 DEF KindFollows
    <3>2. ghost.runs # 0 /\ db'[ghost.runs].state # "none" => db'[ghost.runs].kind = ui.tab
      BY <1>0, <2>2, <2>4, <2>5, <2>7 DEF KindFollows
    <3>3. ~ghost.again => \A k \in Creative!Kind : ui.result[k] # Creative!None => k = ui.tab
      BY <1>0, <2>5 DEF KindFollows
    <3> QED BY <2>1, <2>5, <3>1, <3>2, <3>3 DEF KindFollows
  <2> QED BY <2>6, <2>9, <2>11, <2>12, <2>13 DEF CreativeInv, WaitFollows
<1>10. ASSUME NEW t \in Creative!Task, Creative!TaskEndsAgain(t) PROVE CreativeInv'
  <2>1. PICK told : /\ \A e \in told : \E ok \in BOOLEAN : e = [op |-> "event", task |-> t, ok |-> ok]
                    /\ net' = net \cup told /\ UNCHANGED ui
    BY <1>10, EventTold DEF Creative!TaskEndsAgain
  <2>2. db[t].state = "ended" /\ UNCHANGED db /\ ghost' = [ghost EXCEPT !.again = TRUE]
    BY <1>10 DEF Creative!TaskEndsAgain
  <2>3. \A e \in told : e \in CreativeEvent /\ e.op = "event" /\ e.task = t
    BY <2>1 DEF CreativeEvent
  <2>4. /\ ghost' \in CreativeNotes /\ ghost'.runs = ghost.runs /\ ghost'.again
        /\ ghost'.turned = ghost.turned /\ ghost'.unheard = ghost.unheard
    BY <1>0, <2>2 DEF CreativeNotes
  <2>5. CreativeTyped'
    BY <1>0, <2>1, <2>2, <2>3, <2>4 DEF CreativeTyped
  <2>6. /\ \A r \in net' : r.op = "run" => r \in net
        /\ \A r \in net' : r.op = "event" => r \in net \/ r.task = t
    BY <2>1, <2>3
  <2>7. TasksFollow'
    BY <1>0, <2>1, <2>2, <2>4, <2>6 DEF TasksFollow
  <2>8. \A x : Expected(x) => Expected(x)'
    BY <2>1, <2>2 DEF Expected
  <2>9. WaitFollows'
    <3> SUFFICES ASSUME ~ghost'.unheard PROVE WaitFollows'
      BY DEF WaitFollows
    <3>1. \A r \in net' : r.op = "run" /\ r.at = "answered" => Expected(r.task)'
      BY <1>0, <2>4, <2>6, <2>8 DEF WaitFollows
    <3>2. ui.loading => (\E r \in net' : r.op = "run") \/ (ui.pending # Creative!None /\ Expected(ui.pending))
      BY <1>0, <2>1, <2>4 DEF WaitFollows
    <3>3. Expected(ui.pending) => Expected(ui.pending)'
      BY <2>1, <2>2 DEF Expected
    <3> QED BY <2>1, <3>1, <3>2, <3>3 DEF WaitFollows, Expected
  <2>10. LastFollows'
    BY <2>4 DEF LastFollows
  <2>11. KindFollows'
    BY <1>0, <2>1, <2>2, <2>4, <2>6 DEF KindFollows
  <2> QED BY <2>5, <2>7, <2>9, <2>10, <2>11 DEF CreativeInv
<1>11. ASSUME Creative!HandlePublish PROVE CreativeInv'
  <2>1. PICK r : r = [op |-> "pages", post |-> ui.result, last |-> ghost.runs]
    OBVIOUS
  <2>2. /\ ghost.posts < MaxPosts /\ ghost' = [ghost EXCEPT !.posts = @ + 1]
        /\ ui' = [ui EXCEPT !.publishing = TRUE] /\ net' = net \cup {r} /\ UNCHANGED db
    BY <1>11, <2>1 DEF Creative!HandlePublish
  <2>3. r \in CreativePost
    BY <1>0, <2>1 DEF CreativePost, CreativeNotes
  <2>4. /\ ui' \in CreativeScreen /\ ui'.tab = ui.tab /\ ui'.loading = ui.loading /\ ui'.pending = ui.pending
        /\ ui'.result = ui.result
    BY <1>0, <2>2 DEF CreativeScreen
  <2>5. /\ ghost' \in CreativeNotes /\ ghost'.runs = ghost.runs /\ ghost'.turned = ghost.turned
        /\ ghost'.unheard = ghost.unheard /\ ghost'.again = ghost.again
    BY <1>0, <2>2, ActCounted, BoundsAssumption DEF CreativeNotes
  <2> QED BY <2>2, <2>3, <2>4, <2>5, CreativePasses
<1>12. ASSUME NEW q \in net, Creative!PagesFetched(q) \/ Creative!Published(q) PROVE CreativeInv'
  <2>1. q \in CreativePost /\ q.op \in {"pages", "publish"}
    BY <1>0, <1>12, CreativeKinds DEF Creative!PagesFetched, Creative!Published
  <2>2. PICK r : r = [q EXCEPT !.op = "publish"]
    OBVIOUS
  <2>3. r \in CreativePost
    BY <2>1, <2>2 DEF CreativePost
  <2>4. /\ ui' = ui \/ ui' = [ui EXCEPT !.publishing = FALSE]
        /\ net' \subseteq (net \ {q}) \cup {r} /\ net \ {q} \subseteq net' /\ UNCHANGED <<db, ghost>>
    BY <1>12, <2>2 DEF Creative!PagesFetched, Creative!Published, Creative!Answer
  <2>5. /\ ui' \in CreativeScreen /\ ui'.tab = ui.tab /\ ui'.loading = ui.loading /\ ui'.pending = ui.pending
        /\ ui'.result = ui.result
    BY <1>0, <2>4 DEF CreativeScreen
  <2> QED BY <1>0, <2>1, <2>3, <2>4, <2>5, CreativePasses
<1> QED BY <1>1, <1>2, <1>3, <1>4, <1>5, <1>6, <1>7, <1>8, <1>9, <1>10, <1>11, <1>12 DEF Creative!Next

---------------------------------------------------------------------------
(* The pages *)

\* What holds of the page that a behaviour is of.
PagesInv ==
    /\ page = "orders" => OrdersInv
    /\ page = "conversations" => ConvInv
    /\ page = "products" => ProductsInv
    /\ page = "post" => PostInv
    /\ page = "rules" => RulesInv
    /\ page = "shop" => OriginInv
    /\ page = "creative" => CreativeInv
    /\ page = "content" => EditorsInv
    /\ page = "account" => AccountInv
    /\ page = "twofactor" => TwoStepInv
    /\ page = "reviews" => ReviewsInv

LEMMA PagesStart == Init => PagesInv
BY OrdersStart, ConvStart, ProductsStart, PostStart, RulesStart, OriginStart, CreativeStart, EditorsStart,
   AccountStart, TwoStepStart, ReviewsStart DEF Init, PagesInv

LEMMA PagesNext == PagesInv /\ Next => PagesInv'
BY OrdersNext, ConvNext, ProductsNext, PostNext, RulesNext, OriginNext, CreativeNext, EditorsNext,
   AccountNext, TwoStepNext, ReviewsNext DEF Next, PagesInv

LEMMA PagesStay == PagesInv /\ UNCHANGED vars => PagesInv'
<1> SUFFICES ASSUME PagesInv, UNCHANGED vars PROVE PagesInv'
  OBVIOUS
<1>1. page' = page /\ ui' = ui /\ net' = net /\ db' = db /\ ghost' = ghost
  BY DEF vars
<1>2. OrdersInv => OrdersInv'
  BY <1>1 DEF OrdersInv, OrdersTyped, NewestList, TextUnspent
<1>3. ConvInv => ConvInv'
  BY <1>1 DEF ConvInv, ConvTyped, ModeFollows, OwnForm
<1>4. ProductsInv => ProductsInv'
  BY <1>1 DEF ProductsInv, ProductsTyped, StockFollows, FormFollows, ImageFollows
<1>5. PostInv => PostInv'
  BY <1>1 DEF PostInv, PostTyped, TextFollows, CauseFollows
<1>6. RulesInv => RulesInv'
  BY <1>1 DEF RulesInv, RulesTyped, OneAtATime
<1>7. OriginInv => OriginInv'
  BY <1>1 DEF OriginInv, KeysInv, KeysOfPage, KeysOfSave, SecretsEntered
<1>8. CreativeInv => CreativeInv'
  BY <1>1 DEF CreativeInv, CreativeTyped, TasksFollow, WaitFollows, Expected, LastFollows, KindFollows
<1>9. EditorsInv => EditorsInv'
  BY <1>1 DEF EditorsInv, EditorsTyped, TextsWritten, Written, SavesCounted, Unserved, SavesFollow, Younger
<1>10. AccountInv => AccountInv'
  BY <1>1 DEF AccountInv, AccountTyped, RequestsAreOne, AcceptedAreUsed, OneSetter, ToldInForce
<1>11. TwoStepInv => TwoStepInv'
  BY <1>1 DEF TwoStepInv, TwoStep!SecretIsTheApps
<1>12. ReviewsInv => ReviewsInv'
  BY <1>1 DEF ReviewsInv, ReviewsTyped, OneList, ListFollows
<1> QED BY <1>1, <1>2, <1>3, <1>4, <1>5, <1>6, <1>7, <1>8, <1>9, <1>10, <1>11, <1>12 DEF PagesInv

\* The inductive invariant of every page, for any rows, answers and bounds: all that
\* the theorems below say of the pages follows from it.
THEOREM PagesInvariant == Spec => []PagesInv
<1>1. PagesInv /\ [Next]_vars => PagesInv'
  BY PagesNext, PagesStay
<1> QED BY PagesStart, <1>1, PTL DEF Spec

\* TypeOK of every behaviour: no answer, in whatever order it comes, brings a page, a
\* row or a request out of the shape that its component declares.
THEOREM PagesTyped == Spec => []TypeOK
<1>1. PagesInv => TypeOK
  BY OrdersSuffice, ConvSuffices, ProductsSuffice, PostSuffices, RulesSuffice, KeysSuffice,
     CreativeSuffices, EditorsSuffice, AccountSuffices, TwoStepSuffices, ReviewsSuffice
     DEF PagesInv, OriginInv, TypeOK
<1> QED BY <1>1, PagesInvariant, PTL

\* ListsAreTrue for any orders, conversations, rules, reviews and bounds.  The races
\* that the four lists know are those that their components' histories name.
THEOREM ListsTrue == Spec => []ListsAreTrue
<1>1. PagesInv => ListsAreTrue
  BY OrdersSuffice, ConvSuffices, RulesSuffice, ReviewsSuffice DEF PagesInv, ListsAreTrue
<1> QED BY <1>1, PagesInvariant, PTL

\* FormsAreTheirOwn of every behaviour: however often a form is opened for another
\* customer or product while an answer is out, what it sends is its own.
THEOREM FormsTheirOwn == Spec => []FormsAreTheirOwn
<1>1. PagesInv => FormsAreTheirOwn
  BY ConvSuffices, ProductsSuffice, PostSuffices DEF PagesInv, FormsAreTheirOwn
<1> QED BY <1>1, PagesInvariant, PTL

\* SpinnersHaveACause of every behaviour: the modal's task has its request or its
\* interval, and the creative page's one an answer or an event still to come, unless
\* the event was lost or came before the answer.
THEOREM SpinnersCaused == Spec => []SpinnersHaveACause
<1>1. PagesInv => SpinnersHaveACause
  BY PostSuffices, CreativeSuffices DEF PagesInv, SpinnersHaveACause
<1> QED BY <1>1, PagesInvariant, PTL

\* MaskIsNoKey of every behaviour: whatever the pages show, a mask is never sent by
\* the shop's page nor stored by the integrations' handler.
THEOREM MaskIsNeverKey == Spec => []MaskIsNoKey
<1>1. PagesInv => MaskIsNoKey
  BY KeysSuffice DEF PagesInv, OriginInv, MaskIsNoKey
<1> QED BY <1>1, PagesInvariant, PTL

\* CredentialsAreAsSaid of every behaviour: while nothing crossed, the request that is
\* under way decides which password was last said to be set, and a handler of
\* two-factor sign-in writes for the user that it read.
THEOREM CredentialsInForce == Spec => []CredentialsAreAsSaid
<1>1. PagesInv => CredentialsAreAsSaid
  BY AccountSuffices, TwoStepSuffices DEF PagesInv, CredentialsAreAsSaid
<1> QED BY <1>1, PagesInvariant, PTL

\* DecisionsAreKept for any orders, reviews and bounds: an order verified in the
\* gateway, and a review approved or rejected, lose that only by a decision meant to
\* (OrderDetailModal's decisions and forms, content/service.go:153-197).
THEOREM DecisionsKept == Spec => DecisionsAreKept
<1> DEFINE Kept == (page = "orders" => Orders!VerifiedIsKept) /\ (page = "reviews" => Reviews!DecisionIsKept)
<1>1. PagesInv /\ [Next]_vars => [Kept]_vars
  BY OrdersKept, ReviewsKept DEF Next, PagesInv
<1> QED BY <1>1, PagesInvariant, PTL DEF Spec, DecisionsAreKept

\* SavesAreEntered of every behaviour: whatever the order of answers and however often
\* a page was left, a save sends what its form was given.
THEOREM SavesEntered == Spec => SavesAreEntered
<1> DEFINE Sent == /\ page = "orders" => Orders!TextIsSpent
                   /\ page = "products" => Products!StockIsEntered
                   /\ page = "shop" => Shop!KeysAreEntered
                   /\ page = "content" => Editors!OldTextStaysAway
<1>1. PagesInv /\ [Next]_vars => [Sent]_vars
  BY OrdersSpend, ProductsSaved, KeysSaved, EditorsSaved DEF Next, PagesInv
<1> QED BY <1>1, PagesInvariant, PTL DEF Spec, SavesAreEntered

\* AnswersAreTheirOwn of every behaviour: messages reach the thread they were asked
\* for in, and a result the tab of its task, but for the answers that came late,
\* twice or after the tab was changed.
THEOREM AnswersTheirOwn == Spec => AnswersAreTheirOwn
<1> DEFINE Shown == /\ page = "conversations" => Conversations!ForeignIsLate
                    /\ page = "creative" => Creative!ResultIsWhatWasAsked'
<1>1. CreativeInv' => Creative!ResultIsWhatWasAsked'
  BY CreativeSuffices, PTL
<1>2. PagesInv /\ [Next]_vars => [Shown]_vars
  BY ConvForeign, CreativeNext, <1>1 DEF Next, PagesInv
<1> QED BY <1>2, PagesInvariant, PTL DEF Spec, AnswersAreTheirOwn

\* CodesAreSpent of every behaviour: a code that a request was accepted with is marked
\* in its row from then on, and the handlers look among the unmarked ones.
THEOREM CodesNotAcceptedAgain == Spec => CodesAreSpent
<1> DEFINE Spent == page = "account" => Account!CodesAreSpent
<1>1. PagesInv /\ [Next]_vars => [Spent]_vars
  BY AccountCodes DEF Next, PagesInv
<1> QED BY <1>1, PagesInvariant, PTL DEF Spec, CodesAreSpent

==============================================================================
