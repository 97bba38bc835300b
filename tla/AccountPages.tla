---------------------------- MODULE AccountPages ----------------------------
(***************************************************************************)
(* One person's account: the pages to register, to enter the code of a     *)
(* mail, to sign in, to ask for a new password and to change it, and the   *)
(* gateway's one-time codes.  A page that is left, or whose request is     *)
(* given up, does not stop the request in the gateway; an answer that is   *)
(* still awaited moves the person on, whatever page is open by then.       *)
(***************************************************************************)
EXTENDS Naturals, FiniteSets, Sequences

CONSTANTS
    Password, NoPassword,
    MaxCodes,       \* bound: codes sent
    MaxAccountActs, \* bound: forms sent
    MaxUnderWay     \* bound: requests at a time

VARIABLES
    ui,             \* the page that is open, and the password last said to be set
    net,            \* requests under way, in the browser or in the gateway
    db,             \* the account, the codes sent, and how many of them are too old
    ghost           \* the bound's counter, and history no step depends on

vars == <<ui, net, db, ghost>>

Path == {"login", "register", "verify", "forgot", "sent", "reset", "dashboard"}
Purpose == {"email_verify", "password_reset"}
Word == Password \cup {NoPassword}
SetsPassword == {"register", "reset", "change"}

TypeOK ==
    /\ ui \in [path : Path, told : Word]
    /\ db.status \in {"none", "pending", "active"} /\ db.password \in Word
    /\ db.codes \in Seq([purpose : Purpose, used : BOOLEAN]) /\ Len(db.codes) <= MaxCodes
    /\ db.expired \in 0..Len(db.codes)
    /\ \A q \in net : q.at \in {"sent", "found", "served", "refused"} /\ q.word \in Word
    /\ ghost \in [acts : 0..MaxAccountActs, accepted : SUBSET (1..MaxCodes), crossed : BOOLEAN, unwritten : BOOLEAN]

Init ==
    /\ ui = [path |-> "login", told |-> NoPassword]
    /\ net = {}
    /\ db = [status |-> "none", password |-> NoPassword, codes |-> <<>>, expired |-> 0]
    /\ ghost = [acts |-> 0, accepted |-> {}, crossed |-> FALSE, unwritten |-> FALSE]

-----------------------------------------------------------------------------
(* The pages. *)

Links == [login |-> {"register", "forgot"}, register |-> {"login"}, verify |-> {"login"},
          forgot |-> {"login"}, sent |-> {"login", "reset"}, reset |-> {"login"},
          dashboard |-> {"login"}]
Left(requests) == {[q EXCEPT !.mounted = FALSE] : q \in requests}
Loading == \E q \in net : q.mounted
Go(path) ==
    /\ path \in Links[ui.path] /\ net' = Left(net)
    /\ ui' = [ui EXCEPT !.path = path] /\ UNCHANGED <<db, ghost>>

\* waits: the form's button is disabled until the answer.
Submit(op, code, old, word, waits) ==
    /\ ghost.acts < MaxAccountActs /\ Cardinality(net) < MaxUnderWay /\ (waits => ~Loading)
    /\ net' = net \cup {[id |-> ghost.acts, op |-> op, code |-> code, old |-> old, word |-> word,
                         at |-> "sent", heard |-> TRUE, mounted |-> waits]}
    /\ ghost' = [ghost EXCEPT !.acts = @ + 1,
                     !.crossed = @ \/ (op \in SetsPassword /\ \E q \in net : q.op \in SetsPassword)]
    /\ UNCHANGED <<ui, db>>

HandleRegister == ui.path = "register" /\ \E w \in Password : Submit("register", 0, NoPassword, w, TRUE)
HandleLogin == ui.path = "login" /\ \E w \in Password : Submit("login", 0, NoPassword, w, TRUE)
LoginWithGoogle ==
    ui.path \in {"login", "register"} /\ Submit("google", 0, NoPassword, NoPassword, TRUE)
\* The person enters a code of any mail.
HandleVerify ==
    ui.path = "verify" /\ \E c \in DOMAIN db.codes : Submit("verify", c, NoPassword, NoPassword, TRUE)
HandleResend == ui.path = "verify" /\ Submit("resend", 0, NoPassword, NoPassword, FALSE)
HandleForgot == ui.path = "forgot" /\ Submit("forgot", 0, NoPassword, NoPassword, TRUE)
HandleReset ==
    ui.path = "reset" /\ \E c \in DOMAIN db.codes, w \in Password : Submit("reset", c, NoPassword, w, TRUE)
ChangePassword ==
    ui.path = "dashboard" /\ \E o, w \in Password : Submit("change", 0, o, w, TRUE)

Leads == [register |-> "verify", verify |-> "login", reset |-> "login", forgot |-> "sent",
          login |-> "dashboard", google |-> "dashboard"]
\* The route is pushed even when another page is open; only the forgot page shows
\* its own second half.
LeadsTo(q) == IF q.op \in DOMAIN Leads /\ (q.op = "forgot" => q.mounted) THEN Leads[q.op] ELSE ui.path
Served(q) ==
    /\ q.at = "served" /\ q.heard /\ UNCHANGED <<db, ghost>>
    /\ ui' = [path |-> LeadsTo(q), told |-> IF q.op \in SetsPassword THEN q.word ELSE ui.told]
    /\ net' = IF LeadsTo(q) = ui.path THEN net \ {q} ELSE Left(net \ {q})
\* Bug: the notice stands where it is shown after a refusal too.
ToldAnyway(q) ==
    /\ q.at = "refused" /\ q.heard /\ net' = net \ {q} /\ UNCHANGED <<db, ghost>>
    /\ ui' = [ui EXCEPT !.told = IF q.op \in SetsPassword THEN q.word ELSE @]
Refused(q) ==
    /\ q.at = "refused" /\ q.heard /\ net' = net \ {q} /\ UNCHANGED <<ui, db, ghost>>
\* No answer: a new password may be set, or be set later.
ConnectionFails(q) ==
    /\ q.heard /\ UNCHANGED <<db, ghost>>
    /\ net' = (net \ {q}) \cup (IF q.at \in {"served", "refused"} \/ q.op = "login" THEN {}
                                ELSE {[q EXCEPT !.heard = FALSE, !.mounted = FALSE]})
    /\ ui' = [ui EXCEPT !.told = IF q.op \in SetsPassword THEN NoPassword ELSE @]

-----------------------------------------------------------------------------
(* The gateway. *)

Goes(q, at) ==
    net' = IF ~q.heard /\ at # "found" THEN net \ {q} ELSE (net \ {q}) \cup {[q EXCEPT !.at = at]}
WithCode(d, purpose) ==
    [d EXCEPT !.codes = Append(@, [purpose |-> purpose, used |-> FALSE])]
Arrives(q, op) == q.op = op /\ q.at = "sent" /\ UNCHANGED ui

Register(q) ==
    /\ Arrives(q, "register") /\ UNCHANGED ghost
    /\ \/ db.status # "none" /\ Goes(q, "refused") /\ UNCHANGED db
       \/ /\ db.status = "none" /\ Len(db.codes) < MaxCodes /\ Goes(q, "served")
          /\ db' = WithCode([db EXCEPT !.status = "pending", !.password = q.word], "email_verify")
Login(q) ==
    /\ Arrives(q, "login") /\ UNCHANGED <<db, ghost>>
    /\ Goes(q, IF db.status = "active" /\ db.password = q.word THEN "served" ELSE "refused")
\* A pending account is let in, and stays pending.
GoogleCallback(q) ==
    /\ Arrives(q, "google") /\ Goes(q, "served") /\ UNCHANGED ghost
    /\ db' = [db EXCEPT !.status = IF @ = "none" THEN "active" ELSE @]
\* Whether there is such an account is not told.
SendCode(q, op, purpose) ==
    /\ Arrives(q, op) /\ Goes(q, "served") /\ UNCHANGED ghost
    /\ \/ db.status = "none" /\ UNCHANGED db
       \/ db.status # "none" /\ Len(db.codes) < MaxCodes /\ db' = WithCode(db, purpose)
ResendOTP(q) == SendCode(q, "resend", "email_verify")
ForgotPassword(q) == SendCode(q, "forgot", "password_reset")
\* Ten minutes after it was sent.
Expire ==
    /\ db.expired < Len(db.codes) /\ db' = [db EXCEPT !.expired = @ + 1]
    /\ UNCHANGED <<ui, net, ghost>>

Valid(purpose) ==
    {c \in (db.expired + 1)..Len(db.codes) : db.codes[c].purpose = purpose /\ ~db.codes[c].used}
Newest(c, purpose) == c \in Valid(purpose) /\ \A d \in Valid(purpose) : d <= c
\* The newest valid code is read; what is entered is compared with it alone.
FindCode(q, op, purpose) ==
    /\ Arrives(q, op) /\ UNCHANGED <<db, ghost>>
    /\ Goes(q, IF Newest(q.code, purpose) THEN "found" ELSE "refused")
\* Bug: the code stays what it was.
Unspent(d, c) == d
Spent(d, c) == [d EXCEPT !.codes[c].used = TRUE]
Accept(q, op) ==
    /\ q.op = op /\ q.at = "found" /\ Goes(q, "served") /\ UNCHANGED ui
VerifyEmail(q) ==
    \/ FindCode(q, "verify", "email_verify")
    \/ /\ Accept(q, "verify")
       /\ db' = [Spent(db, q.code) EXCEPT !.status = "active"]
       /\ ghost' = [ghost EXCEPT !.accepted = @ \cup {q.code}]
\* Success is answered whether the password could be written or not.
ResetPassword(q) ==
    \/ FindCode(q, "reset", "password_reset")
    \/ /\ Accept(q, "reset")
       /\ \E ok \in BOOLEAN :
             /\ db' = [Spent(db, q.code) EXCEPT !.password = IF ok THEN q.word ELSE @]
             /\ ghost' = [ghost EXCEPT !.accepted = @ \cup {q.code}, !.unwritten = @ \/ ~ok]
UpdatePassword(q) ==
    /\ Arrives(q, "change")
    /\ \/ db.password # q.old /\ Goes(q, "refused") /\ UNCHANGED <<db, ghost>>
       \/ /\ db.password = q.old /\ Goes(q, "served")
          /\ \E ok \in BOOLEAN :
                /\ db' = [db EXCEPT !.password = IF ok THEN q.word ELSE @]
                /\ ghost' = [ghost EXCEPT !.unwritten = @ \/ ~ok]

-----------------------------------------------------------------------------
Next ==
    \/ \E path \in Path : Go(path)
    \/ HandleRegister \/ HandleLogin \/ LoginWithGoogle \/ HandleVerify \/ HandleResend
    \/ HandleForgot \/ HandleReset \/ ChangePassword
    \/ \E q \in net : \/ Served(q) \/ Refused(q) \/ ConnectionFails(q)
                      \/ Register(q) \/ Login(q) \/ GoogleCallback(q) \/ ResendOTP(q)
                      \/ ForgotPassword(q) \/ VerifyEmail(q) \/ ResetPassword(q) \/ UpdatePassword(q)
    \/ Expire

-----------------------------------------------------------------------------
\* The password the pages last said was set is the account's, unless two requests
\* for a new one overlapped, or the gateway answered success without writing it.
PasswordIsAsSaid ==
    \/ ui.told \in {NoPassword, db.password}
    \/ ghost.crossed \/ ghost.unwritten
    \/ \E q \in net : q.op \in SetsPassword

\* A code that one request was accepted with is not found by another: it is accepted
\* twice only by requests that had both found it before either marked it.
CodesAreSpent ==
    \A q \in net : q.at = "sent" /\ q.code \in ghost.accepted => [q EXCEPT !.at = "found"] \notin net'
=============================================================================
