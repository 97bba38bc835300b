------------------------------- MODULE TwoFactor -------------------------------
(***************************************************************************)
(* Turning two-factor sign-in on for one account: the gateway stores a new *)
(* secret, and a code made with it confirms it.  Both handlers read the    *)
(* user and write one column later.  The settings page's button sends      *)
(* neither request yet, so they come from any client that is signed in.    *)
(***************************************************************************)
EXTENDS Naturals, FiniteSets

CONSTANTS
    Secret, NoSecret,
    MaxTwoFactorActs    \* bound: requests sent

VARIABLES
    ui,             \* the secrets the person's app was given
    net,            \* requests under way
    db,             \* the user's row, and the secrets generated so far
    ghost           \* the bound's counter, and whether two requests crossed

vars == <<ui, net, db, ghost>>

Stored == Secret \cup {NoSecret}
TypeOK ==
    /\ ui \in [app : SUBSET Secret]
    /\ \A q \in net : /\ q.op \in {"enable", "verify"} /\ q.n \in 1..MaxTwoFactorActs
                      /\ q.at \in {"sent", "read", "served", "refused"} /\ q.secret \in Stored
    /\ db \in [enabled : BOOLEAN, secret : Stored, generated : SUBSET Secret]
    /\ ghost \in [acts : 0..MaxTwoFactorActs, crossed : BOOLEAN]

Init ==
    /\ ui = [app |-> {}] /\ net = {}
    /\ db = [enabled |-> FALSE, secret |-> NoSecret, generated |-> {}]
    /\ ghost = [acts |-> 0, crossed |-> FALSE]

-----------------------------------------------------------------------------
Ask(op, secret) ==
    /\ ghost.acts < MaxTwoFactorActs /\ ghost' = [ghost EXCEPT !.acts = @ + 1]
    /\ net' = net \cup {[op |-> op, n |-> ghost.acts + 1, at |-> "sent", secret |-> secret]}
    /\ UNCHANGED <<ui, db>>
AskEnable == Ask("enable", NoSecret)
AskVerify == \E secret \in ui.app : Ask("verify", secret)

Answered(q) ==
    /\ q.at \in {"served", "refused"} /\ net' = net \ {q}
    /\ ui' = IF q.op = "enable" /\ q.at = "served" THEN [ui EXCEPT !.app = @ \cup {q.secret}] ELSE ui
    /\ UNCHANGED <<db, ghost>>
Lost(q) == q.at # "read" /\ net' = net \ {q} /\ UNCHANGED <<ui, db, ghost>>

-----------------------------------------------------------------------------
Goes(q, at) == net' = (net \ {q}) \cup {[q EXCEPT !.at = at]}
FirstUser(q, op, refused) ==
    /\ q.op = op /\ q.at = "sent" /\ UNCHANGED <<ui, db, ghost>>
    /\ net' = (net \ {q}) \cup
         IF refused THEN {[q EXCEPT !.at = "refused"]}
         ELSE {[op |-> op, n |-> q.n, at |-> "read", secret |-> q.secret, user |-> [db EXCEPT !.generated = {}]]}

\* The handler's check was of a user who is no longer the row it writes to.
Crosses(q) == IF q.op = "enable" THEN q.user.enabled # db.enabled ELSE q.user.secret # db.secret
Writes(q, op, row) ==
    /\ q.op = op /\ q.at = "read" /\ UNCHANGED ui
    /\ db' = row
    /\ ghost' = [ghost EXCEPT !.crossed = @ \/ Crosses(q)]

\* Success is answered whether the secret could be written or not.
Generate(q) ==
    \E s \in Secret \ db.generated, written \in BOOLEAN :
       /\ Writes(q, "enable", [db EXCEPT !.generated = @ \cup {s},
                                         !.secret = IF written THEN s ELSE @])
       /\ net' = (net \ {q}) \cup {[op |-> "enable", n |-> q.n, at |-> "served", secret |-> s]}

\* Bug: a secret in use is replaced by one that was never confirmed.
EnableAgain(q) == FirstUser(q, "enable", FALSE) \/ Generate(q)

Enable2FA(q) == FirstUser(q, "enable", db.enabled) \/ Generate(q)

\* The code is checked with the secret that was read, which is confirmed with it.
Verify2FA(q) ==
    \/ FirstUser(q, "verify", db.secret = NoSecret \/ q.secret # db.secret)
    \/ \E written \in BOOLEAN :
          /\ Writes(q, "verify", [db EXCEPT !.enabled = @ \/ written])
          /\ Goes(q, "served")

Next ==
    \/ AskEnable \/ AskVerify
    \/ \E q \in net : Answered(q) \/ Lost(q) \/ Enable2FA(q) \/ Verify2FA(q)

Spec == Init /\ [][Next]_vars

-----------------------------------------------------------------------------
\* Once two-factor sign-in is on, the secret it checks is one the person's app has,
\* unless a handler wrote after what it had checked of the user was changed by another.
SecretIsTheApps == db.enabled => db.secret \in ui.app \/ ghost.crossed
=============================================================================
