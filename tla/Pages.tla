-------------------------------- MODULE Pages --------------------------------
(***************************************************************************)
(* The pages of the web client, each with the gateway it talks to.  A      *)
(* behaviour is that of one page (one family of pages, for the shop's and  *)
(* the account's): nothing they keep is shared.                            *)
(***************************************************************************)
EXTENDS Naturals, FiniteSets

CONSTANTS
    InitRow, Order, NoOrder, Filter, MaxLists, MaxActs, MaxChanges,
    Conv, NoConv, Tab, MaxConvActs,
    Product, NoProduct, MaxStock, MaxProductActs, PollLimit, MaxRuns, MaxPublishes,
    Rule, NoRule, MaxRuleActs,
    Payment, Courier, MaxShopActs,
    Foreign, MaxGenerations, MaxSockets, MaxPosts,
    Section, NoForm, MaxContentActs,
    Password, NoPassword, MaxCodes, MaxAccountActs, MaxUnderWay,
    Secret, NoSecret, MaxTwoFactorActs,
    ReviewId, MaxReviewActs

ASSUME BoundsAssumption ==
    /\ MaxShopActs \in Nat /\ MaxTwoFactorActs \in Nat /\ MaxAccountActs \in Nat /\ MaxCodes \in Nat
    /\ MaxLists \in Nat /\ MaxActs \in Nat /\ MaxChanges \in Nat /\ MaxReviewActs \in Nat
    /\ MaxRuleActs \in Nat /\ MaxConvActs \in Nat /\ MaxProductActs \in Nat /\ MaxContentActs \in Nat
    /\ MaxStock \in Nat /\ MaxRuns \in Nat /\ MaxPublishes \in Nat
    /\ MaxGenerations \in Nat /\ MaxSockets \in Nat /\ MaxPosts \in Nat

VARIABLES page, ui, net, db, ghost
vars == <<page, ui, net, db, ghost>>

Orders == INSTANCE OrdersPage
Conversations == INSTANCE ConversationsPage
Products == INSTANCE ProductsPage
Post == INSTANCE PostModal
Rules == INSTANCE RulesPages
Shop == INSTANCE ShopPages
Creative == INSTANCE CreativePage
Editors == INSTANCE ContentPage
Account == INSTANCE AccountPages
TwoStep == INSTANCE TwoFactor
Reviews == INSTANCE ReviewModeration

\* The filter starts with no choice, a page with its first list, rows are rows, and
\* no order is none.
ASSUME OrdersAssumption ==
    /\ "" \in Filter /\ MaxLists # 0 /\ InitRow \subseteq Orders!Row /\ NoOrder \notin Order

ASSUME ConversationsAssumption == "all" \in Tab /\ NoConv \notin Conv
ASSUME ProductsAssumption == NoProduct \notin Product
\* A service is for payment or for delivery.
ASSUME ServicesAssumption == Payment \cap Courier = {}
\* The editors' first texts count as an act.
ASSUME ContentAssumption == MaxContentActs # 0
\* No other page's task has a number of the creative page's, or that of none.
ASSUME CreativeAssumption == Foreign \cap (0..MaxGenerations) = {}

Init ==
    \/ page = "orders" /\ Orders!Init
    \/ page = "conversations" /\ Conversations!Init
    \/ page = "products" /\ Products!Init
    \/ page = "post" /\ Post!Init
    \/ page = "rules" /\ Rules!Init
    \/ page = "shop" /\ Shop!Init
    \/ page = "creative" /\ Creative!Init
    \/ page = "content" /\ Editors!Init
    \/ page = "account" /\ Account!Init
    \/ page = "twofactor" /\ TwoStep!Init
    \/ page = "reviews" /\ Reviews!Init

Next ==
    /\ UNCHANGED page
    /\ \/ page = "orders" /\ Orders!Next
       \/ page = "conversations" /\ Conversations!Next
       \/ page = "products" /\ Products!Next
       \/ page = "post" /\ Post!Next
       \/ page = "rules" /\ Rules!Next
       \/ page = "shop" /\ Shop!Next
       \/ page = "creative" /\ Creative!Next
       \/ page = "content" /\ Editors!Next
       \/ page = "account" /\ Account!Next
       \/ page = "twofactor" /\ TwoStep!Next
       \/ page = "reviews" /\ Reviews!Next

Spec == Init /\ [][Next]_vars

-----------------------------------------------------------------------------
\* The state of every page is of the shape its component declares.
TypeOK ==
    /\ page = "orders" => Orders!TypeOK
    /\ page = "conversations" => Conversations!TypeOK
    /\ page = "products" => Products!TypeOK
    /\ page = "post" => Post!TypeOK
    /\ page = "rules" => Rules!TypeOK
    /\ page = "shop" => Shop!TypeOK
    /\ page = "creative" => Creative!TypeOK
    /\ page = "content" => Editors!TypeOK
    /\ page = "account" => Account!TypeOK
    /\ page = "twofactor" => TwoStep!TypeOK
    /\ page = "reviews" => Reviews!TypeOK

\* What a list on the screen shows is what the gateway has: orders of the chosen
\* filter, the handling mode of a conversation, the rules with their switches, the
\* reviews with their status; each page with the races that make it untrue
\* (dashboard/orders, conversations and rules, admin/content).
ListsAreTrue ==
    /\ page = "orders" => Orders!ListAnswersFilter
    /\ page = "conversations" => Conversations!ModeIsTrue
    /\ page = "rules" => Rules!ListIsTrue
    /\ page = "reviews" => Reviews!ListIsTrue

\* A form that is opened for one customer or product and then another is sent with
\* what was entered, uploaded or generated for the one it names, but for the races
\* each page states (CreateOrderModal, dashboard/products and its post modal).
FormsAreTheirOwn ==
    /\ page = "conversations" => Conversations!OrderIsTheCustomers
    /\ page = "products" => Products!ImageIsTheProducts
    /\ page = "post" => Post!TextIsTheProducts

\* A page that shows that the AI is at work waits for something that can still end
\* it, or has missed the event that would have (post modal, dashboard/creative).
SpinnersHaveACause ==
    /\ page = "post" => Post!SpinnerHasCause
    /\ page = "creative" => Creative!WaitsForSomething

\* The mask the integrations page shows for a key is never stored as the key
\* (dashboard/settings/integrations, dashboard/shop).
MaskIsNoKey == page = "shop" => Shop!MaskIsNoKey

\* What the person was told to sign in with does: the password last said to be set,
\* and the secret the app was given; unless two requests for a new one overlapped or
\* the gateway's ignored write failed (register, reset, 2fa/enable, 2fa/verify).
CredentialsAreAsSaid ==
    /\ page = "account" => Account!PasswordIsAsSaid
    /\ page = "twofactor" => TwoStep!SecretIsTheApps

\* An order verified in the gateway loses that only by a form or a decision that
\* was meant to take it back (dashboard/orders); a review that was approved or
\* rejected becomes something else only by another decision, or by a handler that
\* had read the row before (content/service.go:153-197).
DecisionsAreKept ==
    [][/\ page = "orders" => Orders!VerifiedIsKept
       /\ page = "reviews" => Reviews!DecisionIsKept]_vars

\* A save sends what was entered for its row: a TrxID goes with one order, a stock
\* that was not touched is not written, a service's key is one that was entered, an
\* editor's older text does not come back (dashboard/orders, products, shop and
\* settings/integrations, admin/content).
SavesAreEntered ==
    [][/\ page = "orders" => Orders!TextIsSpent
       /\ page = "products" => Products!StockIsEntered
       /\ page = "shop" => Shop!KeysAreEntered
       /\ page = "content" => Editors!OldTextStaysAway]_vars

\* An answer or event shows up where it was asked for: messages in their thread, a
\* task's result on the page and under the tab that asked for it, unless it came
\* late, twice or after the tab was changed (dashboard/conversations, creative).
AnswersAreTheirOwn ==
    [][/\ page = "conversations" => Conversations!ForeignIsLate
       /\ page = "creative" => Creative!ResultIsWhatWasAsked']_vars

\* A one-time code that was accepted is not accepted again, unless two requests had
\* found it before (auth/handler.go:304-316, verify-otp, reset-password).
CodesAreSpent == [][page = "account" => Account!CodesAreSpent]_vars

\* "AdminGetHero returns the hero section for admin editing" (content/handler.go:169):
\* the administrator's save of a section keeps what nothing was entered in.
UnenteredIsKept == [][page = "content" => Editors!UnenteredIsKept]_vars
=============================================================================
