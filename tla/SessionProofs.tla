---------------------------- MODULE SessionProofs ----------------------------
(***************************************************************************)
(* Proofs about Session, for any number of accounts, tabs, requests and    *)
(* reloads.  The rotation of the refresh tokens is what has to be followed: *)
(* which pairs can still be exchanged, which answers are on their way, and  *)
(* what the stores and the requests still hold.                            *)
(***************************************************************************)
EXTENDS Session, TLAPS

USE DEF serverVars, browserVars, boundVars, At, Step, Settle, Idle, LoggedOut, IsAuthenticated

Numbers == DOMAIN issued
Under(r) == ~At(r, "idle")

\* Stores and requests hold pairs that were issued; a refresh has a token, and
\* nothing else does; its answer has a pair.
NumbersOK ==
    /\ \A t \in Tab : auth[t].pair \in Numbers \cup {0}
    /\ stored.pair \in Numbers \cup {0}
    /\ \A r \in Request : Under(r) =>
          /\ req[r].pair \in Numbers \cup {0} /\ req[r].token \in Numbers \cup {0}
          /\ req[r].kind = "login" => req[r].user \in User
          /\ Refreshing(r) <=> req[r].token # 0
          /\ At(r, "refreshed") => req[r].pair # 0
TypeInv == TypeOK /\ NumbersOK

---------------------------------------------------------------------------
(* Tokens, stores and requests *)

\* The row of a pair.
Row == [user : User, from : Pair \cup {0}, tab : Tab \cup {NoTab}]

\* Issuing a pair adds its number and its row, and changes no other.
LEMMA Issued ==
    ASSUME TypeInv, NewPair \in Pair, NEW u \in User, NEW p \in Pair \cup {0},
           NEW t \in Tab \cup {NoTab}, Issue(u, p, t)
    PROVE  /\ issued' \in Seq(Row)
           /\ DOMAIN issued' = Numbers \cup {NewPair} /\ NewPair \notin Numbers
           /\ issued'[NewPair].user = u /\ issued'[NewPair].from = p /\ issued'[NewPair].tab = t
           /\ \A i \in Numbers : issued'[i] = issued[i]
           /\ 0 \notin Numbers
<1> DEFINE e == [user |-> u, from |-> p, tab |-> t]
<1>1. e \in Row
  BY DEF Row
<1>2. issued \in Seq(Row)
  BY DEF TypeInv, TypeOK, Row
<1> HIDE DEF e
<1>3. issued' = Append(issued, e)
  BY DEF Issue, e
<1>4. /\ issued' \in Seq(Row)
      /\ Len(issued') = Len(issued) + 1 /\ Len(issued) \in Nat
      /\ issued'[Len(issued) + 1] = e
      /\ \A i \in 1..Len(issued) : issued'[i] = issued[i]
      /\ DOMAIN issued' = 1..Len(issued') /\ DOMAIN issued = 1..Len(issued)
  BY <1>1, <1>2, <1>3
<1>5. e.user = u /\ e.from = p /\ e.tab = t
  BY DEF e
<1>6. DOMAIN issued' = Numbers \cup {NewPair} /\ NewPair \notin Numbers /\ 0 \notin Numbers
  BY <1>4 DEF NewPair, Numbers
<1> QED BY <1>4, <1>5, <1>6 DEF NewPair, Numbers

\* A request that is under way has all its fields, those of its step.
LEMMA RequestUnderWay ==
    ASSUME TypeInv, NEW r \in Request, Under(r)
    PROVE  req[r] \in RequestState
  BY DEF TypeInv, TypeOK, Under

\* Changing a store gives the tab and localStorage that value, and no other tab
\* anything.
LEMMA StoreSet ==
    ASSUME TypeInv, NEW a \in Auth, NEW u, SetStore(u, a)
    PROVE  /\ auth' \in [Tab -> Auth] /\ stored' \in Auth
           /\ \A t \in Tab : auth'[t] = IF t = u THEN a ELSE auth[t]
           /\ stored' = IF u \in Tab THEN a ELSE stored
  BY DEF TypeInv, TypeOK, SetStore

\* The requests after a step that only moves request r on.
Moved(r, s) ==
    /\ req' \in [Request -> RequestState \cup {Idle}]
    /\ req'[r] \in RequestState /\ req'[r].pc = s
    /\ req'[r].kind = req[r].kind /\ req'[r].tab = req[r].tab /\ req'[r].user = req[r].user
    /\ \A q \in Request : q # r => req'[q] = req[q]

\* The store of somebody who is not signed in.
LEMMA LoggedOutIs == LoggedOut \in Auth /\ LoggedOut.pair = 0 /\ LoggedOut.user = NoUser
  BY DEF Auth

\* A pair belongs to an account.
LEMMA IssuedTo ==
    ASSUME TypeInv, NEW i \in Numbers
    PROVE  issued[i].user \in User
<1>1. issued \in Seq(Row) /\ DOMAIN issued = 1..Len(issued)
  BY DEF TypeInv, TypeOK, Row
<1>2. issued[i] \in Row
  BY <1>1 DEF Numbers
<1> QED BY <1>2 DEF Row

\* A step that changes nothing else is such a move ...
LEMMA RequestSteps ==
    ASSUME TypeInv, NEW r \in Request, Under(r),
           NEW s \in {"sent", "granted", "refresh", "checked", "refreshed"}, Step(r, s)
    PROVE  Moved(r, s) /\ req'[r].pair = req[r].pair /\ req'[r].token = req[r].token
<1>1. req[r] \in RequestState
  BY RequestUnderWay
<1> QED BY <1>1 DEF TypeInv, TypeOK, Moved, RequestState

\* ... and so is the answer that brings a pair.
LEMMA RequestAnswered ==
    ASSUME TypeInv, NEW r \in Request, Under(r), NEW s \in {"granted", "refreshed"},
           NEW p \in Pair, req' = [req EXCEPT ![r].pc = s, ![r].pair = p]
    PROVE  Moved(r, s) /\ req'[r].pair = p /\ req'[r].token = req[r].token
<1>1. req[r] \in RequestState
  BY RequestUnderWay
<1> QED BY <1>1 DEF TypeInv, TypeOK, Moved, RequestState

\* A request that comes to an end is idle, and no other request changes.
LEMMA RequestSettles ==
    ASSUME TypeInv, NEW r \in Request, Settle(r)
    PROVE  /\ req' \in [Request -> RequestState \cup {Idle}] /\ req'[r] = Idle
           /\ \A q \in Request : q # r => req'[q] = req[q]
  BY DEF TypeInv, TypeOK

\* A refresh begins with the pair that the store of the request's tab holds.
LEMMA RefreshBegins ==
    ASSUME TypeInv, NEW r \in Request, Refresh(r)
    PROVE  /\ Moved(r, "refresh") /\ req[r].tab \in Tab /\ req'[r].pair = 0
           /\ req'[r].token = auth[req[r].tab].pair
           /\ auth[req[r].tab].pair \in Numbers /\ auth[req[r].tab].pair # 0
<1> DEFINE k == auth[req[r].tab].pair
<1>1. /\ Under(r) /\ req[r].tab \in Tab /\ k # 0
      /\ k \in Pair \cup {0} /\ k \in Numbers /\ 0 \in Pair \cup {0}
  BY DEF Refresh, Unauthorized, Under, TypeInv, TypeOK, NumbersOK, Auth
<1>2. req[r] \in RequestState
  BY <1>1, RequestUnderWay
<1>3. /\ DOMAIN req = Request /\ \A q \in Request : q # r => req'[q] = req[q]
      /\ DOMAIN req' = Request
      /\ req'[r] = [req[r] EXCEPT !.pc = "refresh", !.token = k, !.pair = 0, !.retried = TRUE]
  BY DEF Refresh, TypeInv, TypeOK
<1> DEFINE b == req'[r].retried
<1>4. /\ req'[r].pc = "refresh" /\ req'[r].pair = 0 /\ req'[r].token = k /\ b = TRUE
      /\ req'[r].kind = req[r].kind /\ req'[r].tab = req[r].tab /\ req'[r].user = req[r].user
  BY <1>2, <1>3 DEF RequestState
<1>5. req'[r] = [kind |-> req[r].kind, tab |-> req[r].tab, pc |-> "refresh", user |-> req[r].user,
                 pair |-> 0, token |-> k, retried |-> b]
  BY <1>2, <1>3 DEF RequestState
<1>6. b \in BOOLEAN
  BY <1>4
<1> HIDE DEF b
<1>7. req'[r] \in RequestState
  BY <1>1, <1>2, <1>5, <1>6 DEF RequestState
<1>8. req' \in [Request -> RequestState \cup {Idle}]
  BY <1>3, <1>7 DEF Refresh, TypeInv, TypeOK
<1> QED BY <1>1, <1>3, <1>4, <1>7, <1>8 DEF Moved

---------------------------------------------------------------------------
(* Type correctness *)

\* What the stores and requests hold stays issued when the store of a tab takes
\* such a pair and a request comes to an end.
LEMMA SettleWithStore ==
    ASSUME TypeInv, NEW r \in Request, Settle(r), NEW a \in Auth,
           a.pair \in Numbers \cup {0}, NEW u, SetStore(u, a) \/ UNCHANGED browserVars,
           issued' = issued, live' \subseteq Numbers, stale' = stale, lost' \subseteq Numbers,
           UNCHANGED boundVars
    PROVE  TypeInv'
<1>1. TypeOK'
  BY RequestSettles, StoreSet DEF TypeInv, TypeOK, Numbers
<1>2. NumbersOK'
  BY RequestSettles, StoreSet DEF TypeInv, TypeOK, NumbersOK, Numbers, Under, Refreshing
<1> QED BY <1>1, <1>2 DEF TypeInv

\* The same when a request goes on with issued pairs.
LEMMA MoveWithStore ==
    ASSUME TypeInv, NEW r \in Request, Under(r), NEW s, Moved(r, s),
           NEW a \in Auth, a.pair \in Numbers \cup {0}, NEW u,
           SetStore(u, a) \/ UNCHANGED browserVars,
           req'[r].pair \in Numbers \cup {0}, req'[r].token \in Numbers \cup {0},
           s # "refreshed", s \in {"refresh", "checked"} <=> req'[r].token # 0,
           issued' = issued, live' \subseteq Numbers, stale' \subseteq Numbers, lost' \subseteq Numbers,
           UNCHANGED boundVars
    PROVE  TypeInv'
<1>1. TypeOK'
  BY StoreSet DEF TypeInv, TypeOK, Moved, Numbers
<1>2. s # "idle"
  BY DEF Moved, RequestState
<1>3. NumbersOK'
  BY <1>2, StoreSet DEF TypeInv, TypeOK, NumbersOK, Moved, Numbers, Under, Refreshing
<1> QED BY <1>1, <1>3 DEF TypeInv

\* The same when the answer is a new pair.
LEMMA MoveWithNewPair ==
    ASSUME TypeInv, NEW r \in Request, Under(r), NEW s \in {"granted", "refreshed"},
           NewPair \in Pair, req' = [req EXCEPT ![r].pc = s, ![r].pair = NewPair],
           s = "refreshed" <=> req[r].token # 0,
           NEW v \in User, NEW p \in Pair \cup {0}, Issue(v, p, req[r].tab),
           live' \subseteq Numbers \cup {NewPair}, UNCHANGED <<stale, browserVars, lost, boundVars>>
    PROVE  TypeInv'
<1>1. req[r].tab \in Tab \cup {NoTab}
  BY RequestUnderWay DEF RequestState
<1>2. /\ issued' \in Seq(Row) /\ DOMAIN issued' = Numbers \cup {NewPair}
  BY <1>1, Issued
<1>3. Moved(r, s) /\ req'[r].pair = NewPair /\ req'[r].token = req[r].token
  BY RequestAnswered
<1>4. TypeOK'
  BY <1>2, <1>3 DEF TypeInv, TypeOK, Moved, Numbers, Row
<1>5. NumbersOK'
  BY <1>2, <1>3 DEF TypeInv, NumbersOK, Moved, Numbers, Under, Refreshing
<1> QED BY <1>4, <1>5 DEF TypeInv

\* Every variable keeps its type, and stores and requests hold issued pairs.
LEMMA TypeInductive == TypeInv /\ [Next]_vars => TypeInv'
<1> SUFFICES ASSUME TypeInv, [Next]_vars PROVE TypeInv'
  OBVIOUS
<1> USE SessionAssumption
<1>n. /\ LoggedOut \in Auth /\ LoggedOut.pair \in Numbers \cup {0}
      /\ live \subseteq Numbers /\ stale \subseteq Numbers /\ lost \subseteq Numbers
      /\ DOMAIN issued = 1..Len(issued) /\ Len(issued) \in Nat /\ issued \in Seq(Row)
  BY DEF TypeInv, TypeOK, Auth, Numbers, Row
<1>r. \A r \in Request : Under(r) =>
         /\ req[r] \in RequestState
         /\ req[r].pair \in Numbers \cup {0} /\ req[r].token \in Numbers \cup {0}
         /\ Refreshing(r) <=> req[r].token # 0
         /\ req[r].pair \in Pair \cup {0} /\ req[r].token \in Pair \cup {0}
  BY RequestUnderWay DEF TypeInv, NumbersOK, RequestState
<1>1. ASSUME NEW r \in Request, NEW t \in Tab, NEW kind \in Kind, NEW u \in User \cup {NoUser},
             Send(r, t, kind, u)
      PROVE  TypeInv'
  <2>1. sends' \in 0..MaxSends
    BY <1>1 DEF Send, TypeInv, TypeOK
  <2> DEFINE e == [kind |-> kind, tab |-> t, pc |-> "sent", user |-> u,
                   pair |-> auth[t].pair, token |-> 0, retried |-> FALSE]
  <2>2. e \in RequestState
    BY DEF TypeInv, TypeOK, RequestState, Auth
  <2>3. e.pc = "sent" /\ e.pair = auth[t].pair /\ e.token = 0 /\ e.user = u /\ e.kind = kind
    OBVIOUS
  <2>4. kind = "login" => u \in User
    BY <1>1 DEF Send
  <2>5. req' = [req EXCEPT ![r] = e]
    BY <1>1 DEF Send
  <2> HIDE DEF e
  <2>6. TypeOK'
    BY <1>1, <2>1, <2>2, <2>5 DEF Send, TypeInv, TypeOK
  <2>7. NumbersOK'
    BY <1>1, <2>3, <2>4, <2>5 DEF Send, TypeInv, TypeOK, NumbersOK, Numbers, Under, Refreshing
  <2> QED BY <2>6, <2>7 DEF TypeInv
<1>2. ASSUME NEW r \in Request, Progress(r), UNCHANGED boundVars PROVE TypeInv'
  <2> USE <1>n
  <2>u. Under(r)
    BY <1>2 DEF Progress, Served, LoginGranted, OnLogin, LogoutGranted, OnLogout, Refresh, GiveUp,
         Unauthorized, CheckRefresh, Exchange, ExchangeFails, OnRefreshed, OnRefused, ConnectionFails,
         Under
  <2>r. /\ req[r] \in RequestState
        /\ req[r].pair \in Numbers \cup {0} /\ req[r].token \in Numbers \cup {0}
        /\ Refreshing(r) <=> req[r].token # 0
        /\ req[r].pair \in Pair \cup {0} /\ req[r].token \in Pair \cup {0}
    BY <1>r, <2>u
  <2>1. CASE Served(r)
    BY <1>2, <2>1, SettleWithStore DEF Served
  <2>2. CASE LoginGranted(r)
    <3>1. req[r].user \in User
      BY <2>2, <2>u DEF LoginGranted, TypeInv, NumbersOK
    <3> QED BY <1>2, <2>2, <2>u, <2>r, <3>1, MoveWithNewPair DEF LoginGranted, Refreshing
  <2>3. CASE OnLogin(r)
    <3>1. [user |-> req[r].user, pair |-> req[r].pair] \in Auth
      BY <2>r DEF RequestState, Auth
    <3> QED BY <1>2, <2>3, <2>r, <3>1, SettleWithStore DEF OnLogin, SetAuth
  <2>4. CASE LogoutGranted(r)
    <3>1. stale' \subseteq Numbers
      BY <2>4, <2>r DEF LogoutGranted, Accepted
    <3>2. /\ Moved(r, "granted")
          /\ req'[r].pair = req[r].pair /\ req'[r].token = 0
      BY <2>4, <2>u, <2>r, RequestSteps DEF LogoutGranted, Refreshing
    <3> QED BY <1>2, <2>4, <2>u, <2>r, <3>1, <3>2, MoveWithStore DEF LogoutGranted
  <2>5. CASE OnLogout(r)
    BY <1>2, <2>5, SettleWithStore DEF OnLogout, Logout
  <2>6. CASE Refresh(r)
    <3>1. Moved(r, "refresh") /\ req'[r].pair = 0 /\ req'[r].token \in Numbers \cup {0} /\ req'[r].token # 0
      BY <2>6, RefreshBegins
    <3>2. UNCHANGED <<issued, live, stale, auth, stored, lost, boundVars>>
      BY <1>2, <2>6 DEF Refresh
    <3> HIDE <1>2, <2>6
    <3> QED BY <2>u, <3>1, <3>2, LoggedOutIs, MoveWithStore
  <2>7. CASE GiveUp(r)
    BY <1>2, <2>7, SettleWithStore DEF GiveUp, Logout
  <2>8. CASE CheckRefresh(r)
    <3>1. /\ Moved(r, "checked") /\ req[r].token # 0
          /\ req'[r].pair = req[r].pair /\ req'[r].token = req[r].token
      BY <2>8, <2>u, <2>r, RequestSteps DEF CheckRefresh, Refreshing
    <3> QED BY <1>2, <2>8, <2>u, <2>r, <3>1, MoveWithStore DEF CheckRefresh
  <2>9. CASE Exchange(r)
    <3>1. req[r].token \in Numbers /\ req[r].token # 0
      BY <2>9, <2>r DEF Exchange, Refreshing
    <3>2. issued[req[r].token].user \in User
      BY <3>1, IssuedTo
    <3> QED BY <1>2, <2>9, <2>u, <2>r, <3>1, <3>2, MoveWithNewPair DEF Exchange
  <2>10. CASE ExchangeFails(r)
    <3>1. req[r].token \in Numbers
      BY <2>10, <2>r DEF ExchangeFails, Refreshing
    <3> QED BY <1>2, <2>10, <3>1, SettleWithStore DEF ExchangeFails, Logout
  <2>11. CASE OnRefreshed(r)
    <3>1. /\ req' \in [Request -> RequestState \cup {Idle}]
          /\ Moved(r, "sent") /\ req'[r].pair = req[r].pair /\ req'[r].token = 0
      BY <2>11, <2>r DEF OnRefreshed, TypeInv, TypeOK, Moved, RequestState
    <3>2. [user |-> auth[req[r].tab].user, pair |-> req[r].pair] \in Auth
      BY <2>11, <2>r DEF OnRefreshed, RequestState, Auth, TypeInv, TypeOK
    <3>3. SetStore(req[r].tab, [user |-> auth[req[r].tab].user, pair |-> req[r].pair])
      BY <2>11 DEF OnRefreshed, SetAuth
    <3>4. UNCHANGED <<issued, live, stale, lost, boundVars>>
      BY <1>2, <2>11 DEF OnRefreshed
    <3> HIDE <1>2, <2>11
    <3> QED BY <2>u, <2>r, <3>1, <3>2, <3>3, <3>4, MoveWithStore
  <2>12. CASE OnRefused(r)
    BY <1>2, <2>12, SettleWithStore DEF OnRefused, Logout
  <2>13. CASE ConnectionFails(r)
    <3>1. SetStore(req[r].tab, LoggedOut) \/ UNCHANGED browserVars
      BY <2>13 DEF ConnectionFails, Logout
    <3>2. lost' \subseteq Numbers
        <4>1. At(r, "refreshed") => req[r].pair \in Numbers
        BY <2>r, <2>u DEF TypeInv, NumbersOK
      <4> QED BY <2>13, <4>1 DEF ConnectionFails
    <3> QED BY <1>2, <2>13, <3>1, <3>2, SettleWithStore DEF ConnectionFails
  <2> QED BY <1>2, <2>1, <2>2, <2>3, <2>4, <2>5, <2>6, <2>7, <2>8, <2>9, <2>10, <2>11, <2>12, <2>13
          DEF Progress
<1>3. ASSUME NEW i \in Pair, Expire(i), UNCHANGED boundVars PROVE TypeInv'
  BY <1>3 DEF Expire, TypeInv, TypeOK, NumbersOK, Numbers, Under, Refreshing
<1>4. ASSUME NEW t \in Tab, Reload(t) PROVE TypeInv'
  <2>1. reloads' \in 0..MaxReloads
    BY <1>4 DEF Reload, TypeInv, TypeOK
  <2>2. ASSUME NEW r \in Request
        PROVE  /\ req'[r] \in RequestState \cup {Idle}
               /\ req'[r].pc = req[r].pc /\ (Under(r) =>
                     /\ req'[r].pair = req[r].pair /\ req'[r].token = req[r].token
                     /\ req'[r].user = req[r].user /\ req'[r].kind = req[r].kind)
    BY <1>4, <1>r DEF Reload, TypeInv, TypeOK, RequestState, Under
  <2>3. lost' \subseteq Numbers
    <3>1. \A q \in Request : At(q, "refreshed") => req[q].pair \in Numbers
      BY DEF TypeInv, NumbersOK, Under
    <3> QED BY <1>4, <1>n, <3>1 DEF Reload
  <2>4. TypeOK'
    BY <1>4, <2>1, <2>2, <2>3 DEF Reload, TypeInv, TypeOK, Numbers
  <2>5. NumbersOK'
    BY <1>4, <2>2 DEF Reload, TypeInv, TypeOK, NumbersOK, Numbers, Under, Refreshing
  <2> QED BY <2>4, <2>5 DEF TypeInv
<1>5. CASE UNCHANGED vars
  BY <1>5 DEF vars, TypeInv, TypeOK, NumbersOK, Numbers, Under, Refreshing
<1> QED BY <1>1, <1>2, <1>3, <1>4, <1>5 DEF Next

---------------------------------------------------------------------------
(* Answers on their way *)

\* The answer to a login or to an exchange is on its way.
Answered(r) == At(r, "refreshed") \/ (At(r, "granted") /\ req[r].kind = "login")

\* Its pair is live, and nobody else has it: no store, no other answer, and no
\* refresh that would exchange it.
AnsweredOK == \A r \in Request : Answered(r) =>
    /\ req[r].pair \in live
    /\ stored.pair # req[r].pair /\ \A t \in Tab : auth[t].pair # req[r].pair
    /\ \A q \in Request : Refreshing(q) => req[q].token # req[r].pair
    /\ \A q \in Request : Answered(q) /\ q # r => req[q].pair # req[r].pair

\* While an answer is on its way, its pair stays live and gets into no other hands.
LEMMA AnsweredInductive == TypeInv /\ TypeInv' /\ AnsweredOK /\ [Next]_vars => AnsweredOK'
<1> SUFFICES ASSUME TypeInv, TypeInv', AnsweredOK, [Next]_vars PROVE AnsweredOK'
  OBVIOUS
<1>n. live \subseteq Numbers /\ 0 \notin live
  BY DEF TypeInv, TypeOK, Numbers
<1>r. \A r \in Request : Under(r) =>
         /\ req[r] \in RequestState
         /\ req[r].pair \in Numbers \cup {0} /\ req[r].token \in Numbers \cup {0}
  BY RequestUnderWay DEF TypeInv, NumbersOK
<1>1. ASSUME NEW r \in Request, NEW t \in Tab, NEW kind \in Kind, NEW u \in User \cup {NoUser},
             Send(r, t, kind, u)
      PROVE  AnsweredOK'
  BY <1>1 DEF Send, AnsweredOK, Answered, Refreshing, TypeInv, TypeOK
<1>2. ASSUME NEW r \in Request, Progress(r) PROVE AnsweredOK'
  <2>a. ASSUME Settle(r), NEW q \in Request
        PROVE  /\ Answered(q)' => q # r /\ Answered(q) /\ req'[q] = req[q]
               /\ Refreshing(q)' => q # r /\ Refreshing(q) /\ req'[q] = req[q]
    <3>1. CASE q = r
      BY <2>a, <3>1, RequestSettles DEF Answered, Refreshing
    <3>2. CASE q # r
      BY <2>a, <3>2, RequestSettles DEF Answered, Refreshing
    <3> QED BY <3>1, <3>2
  <2>s. ASSUME Settle(r), NEW a \in Auth, NEW t,
               SetStore(t, a) \/ UNCHANGED browserVars, live' = live,
               \A q \in Request : q # r /\ Answered(q) => a.pair # req[q].pair
        PROVE  AnsweredOK'
    BY <2>a, <2>s, StoreSet DEF AnsweredOK
  <2>1. CASE Served(r)
    BY <2>1, <2>a DEF Served, AnsweredOK
  <2>2. CASE LoginGranted(r)
    <3>1. req[r].user \in User /\ req[r] \in RequestState /\ Under(r)
      BY <1>r, <2>2 DEF LoginGranted, TypeInv, NumbersOK, Under
    <3>2. NewPair \notin Numbers /\ NewPair # 0 /\ NewPair \in Pair
      <4>1. Issue(req[r].user, 0, req[r].tab) /\ req[r].tab \in Tab \cup {NoTab} /\ NewPair \in Pair
        BY <2>2, <3>1 DEF LoginGranted, RequestState
      <4> QED BY <3>1, <4>1, Issued DEF Pair
    <3>3. Moved(r, "granted") /\ req'[r].pair = NewPair
      BY <2>2, <3>1, <3>2, RequestAnswered DEF LoginGranted
    <3> QED BY <1>r, <2>2, <3>2, <3>3 DEF LoginGranted, AnsweredOK, Answered, Refreshing, Moved,
               TypeInv, NumbersOK, Under
  <2>3. CASE OnLogin(r)
    <3>1. [user |-> req[r].user, pair |-> req[r].pair] \in Auth
      BY <1>r, <2>3 DEF OnLogin, RequestState, Auth, Under
    <3> QED BY <2>3, <2>s, <3>1 DEF OnLogin, SetAuth, AnsweredOK, Answered
  <2>4. CASE LogoutGranted(r)
    <3>1. Moved(r, "granted")
      BY <2>4, RequestSteps DEF LogoutGranted, Under
    <3> QED BY <2>4, <3>1 DEF LogoutGranted, AnsweredOK, Answered, Refreshing, Moved
  <2>5. CASE OnLogout(r)
    BY <1>n, <2>5, <2>s, LoggedOutIs DEF OnLogout, Logout, AnsweredOK
  <2>6. CASE Refresh(r)
    <3>1. /\ Moved(r, "refresh") /\ req[r].tab \in Tab
          /\ req'[r].token = auth[req[r].tab].pair
      BY <2>6, RefreshBegins
    <3>2. UNCHANGED <<live, auth, stored>>
      BY <2>6 DEF Refresh
    <3>3. \A q \in Request : Answered(q)' => q # r /\ Answered(q) /\ req'[q] = req[q]
      BY <3>1 DEF Answered, Moved
    <3>4. \A q \in Request : q # r => req'[q] = req[q]
      BY <3>1 DEF Moved
    <3> QED BY <3>1, <3>2, <3>3, <3>4 DEF AnsweredOK, Refreshing
  <2>7. CASE GiveUp(r)
    BY <1>n, <2>7, <2>s, LoggedOutIs DEF GiveUp, Logout, AnsweredOK
  <2>8. CASE CheckRefresh(r)
    <3>1. Moved(r, "checked") /\ req'[r].token = req[r].token
      BY <2>8, RequestSteps DEF CheckRefresh, Under
    <3> QED BY <2>8, <3>1 DEF CheckRefresh, AnsweredOK, Answered, Refreshing, Moved
  <2>9. CASE Exchange(r)
    <3>1. req[r] \in RequestState /\ Under(r) /\ req[r].token \in Numbers
      BY <1>r, <2>9 DEF Exchange, TypeInv, NumbersOK, Under, Refreshing
    <3>2. issued[req[r].token].user \in User
      BY <3>1, IssuedTo
    <3>3. NewPair \notin Numbers /\ NewPair # 0 /\ NewPair \in Pair
      BY <2>9, <3>1, <3>2, Issued DEF Exchange, RequestState, Pair
    <3>4. Moved(r, "refreshed") /\ req'[r].pair = NewPair /\ req'[r].token = req[r].token
      BY <2>9, <3>1, <3>3, RequestAnswered DEF Exchange
    <3> QED BY <1>r, <2>9, <3>1, <3>3, <3>4 DEF Exchange, AnsweredOK, Answered, Refreshing, Moved,
               TypeInv, NumbersOK, Under
  <2>10. CASE ExchangeFails(r)
    <3>1. \A q \in Request : Answered(q)' => req[q].pair \in live'
      BY <2>10, <2>a DEF ExchangeFails, AnsweredOK, Refreshing
    <3> QED BY <1>n, <2>10, <2>a, <3>1, StoreSet, LoggedOutIs DEF ExchangeFails, Logout, AnsweredOK
  <2>11. CASE OnRefreshed(r)
    <3>1. /\ req'[r].pc = "sent" /\ \A q \in Request : q # r => req'[q] = req[q]
      BY <1>r, <2>11 DEF OnRefreshed, TypeInv, TypeOK, RequestState, Under
    <3>2. [user |-> auth[req[r].tab].user, pair |-> req[r].pair] \in Auth
      BY <1>r, <2>11 DEF OnRefreshed, RequestState, Auth, TypeInv, TypeOK, Under
    <3>3. /\ \A t \in Tab : auth'[t].pair \in {auth[t].pair, req[r].pair}
          /\ stored'.pair \in {stored.pair, req[r].pair}
      BY <2>11, <3>2, StoreSet DEF OnRefreshed, SetAuth
    <3>4. \A q \in Request :
             /\ Answered(q)' => q # r /\ Answered(q) /\ req'[q] = req[q]
             /\ Refreshing(q)' => q # r /\ Refreshing(q) /\ req'[q] = req[q]
      BY <3>1 DEF Answered, Refreshing
    <3>5. Answered(r) /\ live' = live
      BY <2>11 DEF OnRefreshed, Answered
    <3> QED BY <3>3, <3>4, <3>5 DEF AnsweredOK
  <2>12. CASE OnRefused(r)
    BY <1>n, <2>12, <2>s, LoggedOutIs DEF OnRefused, Logout, AnsweredOK
  <2>13. CASE ConnectionFails(r)
    BY <1>n, <2>13, <2>s, LoggedOutIs DEF ConnectionFails, Logout, AnsweredOK
  <2> QED BY <1>2, <2>1, <2>2, <2>3, <2>4, <2>5, <2>6, <2>7, <2>8, <2>9, <2>10, <2>11, <2>12, <2>13
          DEF Progress
<1>3. ASSUME NEW i \in Pair, Expire(i), UNCHANGED boundVars PROVE AnsweredOK'
  BY <1>3 DEF Expire, AnsweredOK, Answered, Refreshing
<1>4. ASSUME NEW t \in Tab, Reload(t) PROVE AnsweredOK'
  <2>1. ASSUME NEW q \in Request
        PROVE  /\ req'[q].pc = req[q].pc
               /\ Under(q) => /\ req'[q].pair = req[q].pair /\ req'[q].token = req[q].token
                              /\ req'[q].kind = req[q].kind
    BY <1>4, <1>r DEF Reload, TypeInv, TypeOK, RequestState, Under
  <2>2. /\ \A u \in Tab : auth'[u].pair \in {auth[u].pair, stored.pair}
        /\ live' = live /\ stored' = stored
    BY <1>4 DEF Reload, TypeInv, TypeOK
  <2> QED BY <2>1, <2>2 DEF AnsweredOK, Answered, Refreshing, Under
<1>5. CASE UNCHANGED vars
  BY <1>5 DEF vars, AnsweredOK, Answered, Refreshing
<1> QED BY <1>1, <1>2, <1>3, <1>4, <1>5 DEF Next

---------------------------------------------------------------------------
(* What a step may do to pairs, answers and tokens *)

\* Exchanging or granting a login issues the next pair; its row names the account,
\* the pair it replaces and the tab.
LEMMA LoginIssues ==
    ASSUME TypeInv, NEW r \in Request, LoginGranted(r)
    PROVE  /\ DOMAIN issued' = Numbers \cup {NewPair} /\ NewPair \notin Numbers
           /\ issued'[NewPair].user = req[r].user /\ issued'[NewPair].from = 0
           /\ \A i \in Numbers : issued'[i] = issued[i]
           /\ Moved(r, "granted") /\ req'[r].pair = NewPair
<1>1. req[r].user \in User /\ req[r].tab \in Tab \cup {NoTab} /\ Under(r)
  BY RequestUnderWay DEF LoginGranted, TypeInv, NumbersOK, Under, RequestState
<1>2. NewPair \in Pair /\ Issue(req[r].user, 0, req[r].tab)
  BY DEF LoginGranted
<1>3. Moved(r, "granted") /\ req'[r].pair = NewPair
  BY <1>1, <1>2, RequestAnswered DEF LoginGranted
<1> QED BY <1>1, <1>2, <1>3, Issued

\* The row of an exchange names the owner of the token it was made for.
LEMMA ExchangeIssues ==
    ASSUME TypeInv, NEW r \in Request, Exchange(r)
    PROVE  /\ DOMAIN issued' = Numbers \cup {NewPair} /\ NewPair \notin Numbers
           /\ req[r].token \in Numbers /\ req[r].token # 0
           /\ issued'[NewPair].user = issued[req[r].token].user
           /\ issued'[NewPair].from = req[r].token /\ issued'[NewPair].tab = req[r].tab
           /\ \A i \in Numbers : issued'[i] = issued[i]
           /\ Moved(r, "refreshed") /\ req'[r].pair = NewPair /\ req'[r].token = req[r].token
<1>1. /\ req[r].tab \in Tab \cup {NoTab} /\ Under(r)
      /\ req[r].token \in Numbers /\ req[r].token # 0 /\ req[r].token \in Pair \cup {0}
  BY RequestUnderWay DEF Exchange, TypeInv, NumbersOK, Under, RequestState, Refreshing
<1>2. NewPair \in Pair /\ Issue(issued[req[r].token].user, req[r].token, req[r].tab)
  BY DEF Exchange
<1>3. Moved(r, "refreshed") /\ req'[r].pair = NewPair /\ req'[r].token = req[r].token
  BY <1>1, <1>2, RequestAnswered DEF Exchange
<1>4. PICK u \in User : u = issued[req[r].token].user
  BY <1>1, IssuedTo
<1>5. Issue(u, req[r].token, req[r].tab)
  BY <1>2, <1>4
<1>6. /\ DOMAIN issued' = Numbers \cup {NewPair} /\ NewPair \notin Numbers
      /\ issued'[NewPair].user = u
      /\ issued'[NewPair].from = req[r].token /\ issued'[NewPair].tab = req[r].tab
      /\ \A i \in Numbers : issued'[i] = issued[i]
  BY <1>1, <1>2, <1>5, Issued
<1> QED BY <1>1, <1>3, <1>4, <1>6

\* The rows of pairs never change.
LEMMA RowsStay ==
    ASSUME TypeInv, [Next]_vars, NEW i \in Numbers
    PROVE  i \in DOMAIN issued' /\ issued'[i] = issued[i]
<1>1. ASSUME NEW r \in Request, Progress(r) PROVE i \in DOMAIN issued' /\ issued'[i] = issued[i]
  <2>1. CASE LoginGranted(r)
    BY <2>1, LoginIssues
  <2>2. CASE Exchange(r)
    BY <2>2, ExchangeIssues
  <2>3. CASE issued' = issued
    BY <2>3 DEF Numbers
  <2> QED BY <1>1, <2>1, <2>2, <2>3 DEF Progress, Served, OnLogin, LogoutGranted, OnLogout, Refresh,
          GiveUp, CheckRefresh, ExchangeFails, OnRefreshed, OnRefused, ConnectionFails
<1>2. CASE issued' = issued
  BY <1>2 DEF Numbers
<1> QED BY <1>1, <1>2 DEF Next, Send, Expire, Reload, vars

\* An answer was on its way already, the same one, or the gateway gives it now.
Same(r) ==
    /\ req'[r].pc = req[r].pc /\ req'[r].pair = req[r].pair /\ req'[r].token = req[r].token
    /\ req'[r].kind = req[r].kind /\ req'[r].user = req[r].user
LEMMA WhenceAnswers ==
    ASSUME TypeInv, [Next]_vars, NEW q \in Request, Answered(q)'
    PROVE  (Answered(q) /\ Same(q)) \/ LoginGranted(q) \/ Exchange(q)
<1> USE DEF Answered, Same
<1>1. ASSUME NEW r \in Request, NEW t \in Tab, NEW kind \in Kind, NEW u \in User \cup {NoUser},
             Send(r, t, kind, u)
      PROVE  Answered(q) /\ Same(q)
  BY <1>1 DEF Send, TypeInv, TypeOK
<1>2. ASSUME NEW r \in Request, Progress(r)
      PROVE  (Answered(q) /\ Same(q)) \/ LoginGranted(q) \/ Exchange(q)
  <2>1. CASE Settle(r)
    BY <2>1, RequestSettles
  <2>2. CASE LoginGranted(r)
    BY <2>2, LoginIssues DEF Moved
  <2>3. CASE Exchange(r)
    BY <2>3, ExchangeIssues DEF Moved
  <2>4. CASE LogoutGranted(r) \/ CheckRefresh(r)
    BY <2>4, RequestSteps DEF LogoutGranted, CheckRefresh, Moved, Under
  <2>5. CASE Refresh(r)
    BY <2>5, RefreshBegins DEF Moved
  <2>6. CASE OnRefreshed(r)
    BY <2>6 DEF OnRefreshed, TypeInv, TypeOK, RequestState
  <2> QED BY <1>2, <2>1, <2>2, <2>3, <2>4, <2>5, <2>6 DEF Progress, Served, OnLogin, OnLogout,
          GiveUp, ExchangeFails, OnRefused, ConnectionFails
<1>3. ASSUME NEW t \in Tab, Reload(t) PROVE Answered(q) /\ Same(q)
  <2>1. req[q].pc # "idle" => req[q] \in RequestState
    BY RequestUnderWay DEF Under
  <2> QED BY <1>3, <2>1 DEF Reload, RequestState, TypeInv, TypeOK
<1>4. CASE req' = req
  BY <1>4
<1> QED BY <1>1, <1>2, <1>3, <1>4 DEF Next, Expire, vars

---------------------------------------------------------------------------
(* Whose tokens they are *)

\* An answer brings tokens of the account that asked: the one that logs in, or
\* the one whose refresh token is exchanged.
UsersOK == \A r \in Request :
    /\ At(r, "refreshed") => issued[req[r].pair].user = issued[req[r].token].user
    /\ At(r, "granted") /\ req[r].kind = "login" => issued[req[r].pair].user = req[r].user

\* Tokens on their way belong to the account that asked for them.
LEMMA UsersInductive == TypeInv /\ AnsweredOK /\ UsersOK /\ [Next]_vars => UsersOK'
<1> SUFFICES ASSUME TypeInv, AnsweredOK, UsersOK, [Next]_vars, NEW q \in Request, Answered(q)'
             PROVE  /\ At(q, "refreshed")' => issued'[req'[q].pair].user = issued'[req'[q].token].user
                    /\ At(q, "granted")' /\ req'[q].kind = "login" =>
                          issued'[req'[q].pair].user = req'[q].user
  BY DEF UsersOK, Answered
<1>1. CASE Answered(q) /\ Same(q)
  <2>1. req[q].pair \in Numbers
    BY <1>1 DEF AnsweredOK, TypeInv, TypeOK, Numbers
  <2>2. At(q, "refreshed") => req[q].token \in Numbers
    BY DEF TypeInv, NumbersOK, Under, Refreshing
  <2> QED BY <1>1, <2>1, <2>2, RowsStay DEF UsersOK, Same
<1>2. CASE LoginGranted(q)
  BY <1>2, LoginIssues DEF Moved
<1>3. CASE Exchange(q)
  BY <1>3, ExchangeIssues DEF Moved
<1> QED BY <1>1, <1>2, <1>3, WhenceAnswers

---------------------------------------------------------------------------
(* What became of a token *)

\* A token can be exchanged, or was exchanged, or its exchange failed.
DeadOK == \A p \in Numbers : p \in live \cup lost \/ \E i \in Numbers : issued[i].from = p

\* Tab t may hold token p: it can be exchanged, another tab exchanged it, or the
\* answer of the exchange is lost or on its way to t.
OnItsWay(i, t) == \E r \in Request : At(r, "refreshed") /\ req[r].pair = i /\ req[r].tab = t
Held(t, p) ==
    \/ p \in live \cup lost \cup {0}
    \/ \E i \in Numbers :
          issued[i].from = p /\ (issued[i].tab # t \/ i \in lost \/ OnItsWay(i, t))
HeldOK == \A t \in Tab : Held(t, auth[t].pair) /\ Held(t, stored.pair)

\* A token that is no longer live after a step was exchanged or lost in it.
LEMMA TokensEnd ==
    ASSUME TypeInv, [Next]_vars, NEW p \in live, p \notin live' \cup lost'
    PROVE  \E r \in Request : Exchange(r) /\ req[r].token = p
<1>1. \A r \in Request : Progress(r) => p \in live' \cup lost' \/ (Exchange(r) /\ req[r].token = p)
  BY DEF Progress, Served, LoginGranted, OnLogin, LogoutGranted, OnLogout, Refresh, GiveUp,
     CheckRefresh, Exchange, ExchangeFails, OnRefreshed, OnRefused, ConnectionFails
<1> QED BY <1>1 DEF Next, Send, Expire, Reload, vars

\* What is lost stays lost.
LEMMA LostStays == [Next]_vars => lost \subseteq lost'
  BY DEF Next, Send, Expire, Reload, vars, Progress, Served, LoginGranted, OnLogin, LogoutGranted,
     OnLogout, Refresh, GiveUp, CheckRefresh, Exchange, ExchangeFails, OnRefreshed, OnRefused,
     ConnectionFails

\* Every token that is not live any more has a reason.
LEMMA DeadInductive == TypeInv /\ DeadOK /\ [Next]_vars => DeadOK'
<1> SUFFICES ASSUME TypeInv, DeadOK, [Next]_vars, NEW p \in DOMAIN issued', p \notin live' \cup lost'
             PROVE  \E i \in DOMAIN issued' : issued'[i].from = p
  BY DEF DeadOK, Numbers
<1>1. CASE \E i \in Numbers : issued[i].from = p
  BY <1>1, RowsStay
<1>2. CASE p \in live
  <2>1. PICK r \in Request : Exchange(r) /\ req[r].token = p
    BY <1>2, TokensEnd
  <2> QED BY <2>1, ExchangeIssues
<1>3. CASE p \notin Numbers
  <2>1. ASSUME NEW r \in Request, Progress(r) PROVE p \in live'
    <3>1. CASE LoginGranted(r)
      BY <1>3, <3>1, LoginIssues DEF LoginGranted
    <3>2. CASE Exchange(r)
      BY <1>3, <3>2, ExchangeIssues DEF Exchange
    <3>3. CASE issued' = issued
      BY <1>3, <3>3 DEF Numbers
    <3> QED BY <2>1, <3>1, <3>2, <3>3 DEF Progress, Served, OnLogin, LogoutGranted, OnLogout,
            Refresh, GiveUp, CheckRefresh, ExchangeFails, OnRefreshed, OnRefused, ConnectionFails
  <2>2. CASE issued' = issued
    BY <1>3, <2>2 DEF Numbers
  <2> QED BY <2>1, <2>2 DEF Next, Send, Expire, Reload, vars
<1> QED BY <1>1, <1>2, <1>3, LostStays DEF DeadOK

\* An exchange's answer that is on its way to a tab arrives, is lost or stays on its way.
LEMMA WayEnds ==
    ASSUME TypeInv, [Next]_vars, NEW t \in Tab, NEW r \in Request, At(r, "refreshed"), req[r].tab = t
    PROVE  \/ At(r, "refreshed")' /\ req'[r].pair = req[r].pair /\ req'[r].tab = t
           \/ req[r].pair \in lost'
           \/ OnRefreshed(r)
<1>1. ASSUME NEW q \in Request, NEW u \in Tab, NEW kind \in Kind, NEW v \in User \cup {NoUser},
             Send(q, u, kind, v)
      PROVE  req'[r] = req[r]
  BY <1>1 DEF Send, TypeInv, TypeOK
<1>2. ASSUME NEW q \in Request, Progress(q)
      PROVE  req'[r] = req[r] \/ req[r].pair \in lost' \/ OnRefreshed(r)
  <2>1. CASE q # r
    BY <1>2, <2>1 DEF Progress, Served, LoginGranted, OnLogin, LogoutGranted, OnLogout, Refresh, GiveUp,
       CheckRefresh, Exchange, ExchangeFails, OnRefreshed, OnRefused, ConnectionFails, TypeInv, TypeOK
  <2>2. CASE q = r
    BY <1>2, <2>2 DEF Progress, Served, LoginGranted, OnLogin, LogoutGranted, OnLogout, Refresh, GiveUp,
       CheckRefresh, Exchange, ExchangeFails, OnRefused, ConnectionFails, Unauthorized
  <2> QED BY <2>1, <2>2
<1>3. ASSUME NEW u \in Tab, Reload(u)
      PROVE  req'[r] = req[r] \/ req[r].pair \in lost'
  BY <1>3 DEF Reload, TypeInv, TypeOK
<1>4. CASE req' = req
  BY <1>4
<1> QED BY <1>1, <1>2, <1>3, <1>4 DEF Next, Expire, vars

\* What a tab may hold it may hold after any step, but for the tab's own refresh.
LEMMA HeldStays ==
    ASSUME TypeInv, [Next]_vars, NEW t \in Tab, NEW p, Held(t, p),
           \A r \in Request : req[r].tab = t => ~OnRefreshed(r)
    PROVE  Held(t, p)'
<1> USE DEF Held, OnItsWay
<1>1. CASE p \in lost \cup {0}
  BY <1>1, LostStays
<1>2. CASE p \in live
  <2>1. CASE p \in live' \cup lost'
    BY <2>1
  <2>2. CASE p \notin live' \cup lost'
    <3>1. PICK r \in Request : Exchange(r) /\ req[r].token = p
      BY <1>2, <2>2, TokensEnd
    <3>2. /\ NewPair \in DOMAIN issued' /\ issued'[NewPair].from = p /\ issued'[NewPair].tab = req[r].tab
          /\ At(r, "refreshed")' /\ req'[r].pair = NewPair /\ req'[r].tab = req[r].tab
      BY <3>1, ExchangeIssues DEF Moved
    <3> QED BY <3>2 DEF Numbers
  <2> QED BY <2>1, <2>2
<1>3. CASE \E i \in Numbers :
              issued[i].from = p /\ (issued[i].tab # t \/ i \in lost \/ OnItsWay(i, t))
  <2>1. PICK i \in Numbers : issued[i].from = p /\ (issued[i].tab # t \/ i \in lost \/ OnItsWay(i, t))
    BY <1>3
  <2>2. i \in DOMAIN issued' /\ issued'[i] = issued[i]
    BY <2>1, RowsStay
  <2>3. issued'[i].tab # t \/ i \in lost' \/ OnItsWay(i, t)'
    BY <2>1, <2>2, LostStays, WayEnds
  <2> QED BY <2>1, <2>2, <2>3 DEF Numbers
<1> QED BY <1>1, <1>2, <1>3

\* A step takes a store from localStorage, clears it or signs it in with a live pair.
LEMMA StoresChange ==
    ASSUME TypeInv, AnsweredOK, [Next]_vars, NEW t \in Tab
    PROVE  /\ auth'[t].pair \in {auth[t].pair, stored.pair, 0} \cup live'
           /\ stored'.pair \in {stored.pair, 0} \cup live'
<1>1. ASSUME NEW r \in Request, Progress(r)
      PROVE  /\ auth'[t].pair \in {auth[t].pair, 0} \cup live'
             /\ stored'.pair \in {stored.pair, 0} \cup live'
  <2>1. CASE SetStore(req[r].tab, LoggedOut) \/ UNCHANGED browserVars
    BY <2>1, StoreSet, LoggedOutIs
  <2>2. CASE OnLogin(r) \/ OnRefreshed(r)
    <3> DEFINE a == [user |-> IF At(r, "granted") THEN req[r].user ELSE auth[req[r].tab].user,
                     pair |-> req[r].pair]
    <3>1. SetStore(req[r].tab, a) /\ req[r].pair \in live' /\ Under(r)
      BY <2>2 DEF OnLogin, OnRefreshed, SetAuth, AnsweredOK, Answered, Under
    <3>2. a \in Auth /\ a.pair = req[r].pair
      BY <2>2, <3>1, RequestUnderWay DEF OnRefreshed, OnLogin, RequestState, Auth, TypeInv, TypeOK
    <3> HIDE DEF a
    <3> QED BY <3>1, <3>2, StoreSet
  <2> QED BY <1>1, <2>1, <2>2 DEF Progress, Served, LoginGranted, LogoutGranted, OnLogout, Refresh,
          GiveUp, CheckRefresh, Exchange, ExchangeFails, OnRefused, ConnectionFails, Logout
<1>2. ASSUME NEW u \in Tab, Reload(u)
      PROVE  auth'[t].pair \in {auth[t].pair, stored.pair} /\ stored' = stored
  BY <1>2 DEF Reload, TypeInv, TypeOK
<1> QED BY <1>1, <1>2 DEF Next, Send, Expire, vars

\* What stores hold can be exchanged, or the reason why it cannot is known.
LEMMA HeldInductive == TypeInv /\ AnsweredOK /\ HeldOK /\ [Next]_vars => HeldOK'
<1> SUFFICES ASSUME TypeInv, AnsweredOK, HeldOK, [Next]_vars, NEW t \in Tab
             PROVE  Held(t, auth[t].pair)' /\ Held(t, stored.pair)'
  BY DEF HeldOK
<1>1. CASE \A r \in Request : req[r].tab = t => ~OnRefreshed(r)
  <2>1. \A p : Held(t, p) \/ p \in live' \cup {0} => Held(t, p)'
    BY <1>1, HeldStays DEF Held
  <2>2. Held(t, auth[t].pair) /\ Held(t, stored.pair)
    BY DEF HeldOK
  <2>3. \A p \in {auth[t].pair, stored.pair, 0} \cup live' : Held(t, p)'
    BY <2>1, <2>2
  <2> QED BY <2>3, StoresChange DEF Held, OnItsWay
<1>2. ASSUME NEW r \in Request, OnRefreshed(r), req[r].tab = t
      PROVE  Held(t, auth[t].pair)' /\ Held(t, stored.pair)'
  <2>1. auth'[t].pair \in live' /\ stored'.pair \in live'
    BY <1>2 DEF OnRefreshed, SetAuth, SetStore, AnsweredOK, Answered, TypeInv, TypeOK
  <2> QED BY <2>1 DEF Held
<1> QED BY <1>1, <1>2

---------------------------------------------------------------------------
(* What the runs check of Session, for every instance *)

\* What the properties of Session follow from.
SessionInv == TypeInv /\ AnsweredOK /\ UsersOK /\ DeadOK /\ HeldOK

\* The parts hold at the start and in every step.
THEOREM SessionInvariant == Spec => []SessionInv
<1>1. Init => SessionInv
  <2> SUFFICES ASSUME Init PROVE SessionInv
    OBVIOUS
  <2>1. issued = <<>> /\ DOMAIN issued = {}
    BY DEF Init
  <2>2. TypeOK
    BY <2>1, SessionAssumption DEF Init, TypeOK, Auth
  <2>3. NumbersOK /\ AnsweredOK /\ UsersOK /\ DeadOK /\ HeldOK
    BY <2>1 DEF Init, NumbersOK, Under, Refreshing, AnsweredOK, Answered, UsersOK, DeadOK, HeldOK, Held,
       Numbers
  <2> QED BY <2>2, <2>3 DEF SessionInv, TypeInv
<1>2. SessionInv /\ [Next]_vars => SessionInv'
  BY TypeInductive, AnsweredInductive, UsersInductive, DeadInductive, HeldInductive DEF SessionInv
<1> QED BY <1>1, <1>2, PTL DEF Spec

\* Every variable has its type in every reachable state.
THEOREM TypeCorrect == Spec => []TypeOK
<1>1. SessionInv => TypeOK
  BY DEF SessionInv, TypeInv
<1> QED BY <1>1, SessionInvariant, PTL

\* The refresh token that a tab falls back on (lib/api.ts) can be exchanged at
\* the gateway, unless another tab exchanged it or the answer was lost: two
\* requests of one tab that race to exchange a token never leave the tab with
\* one that was used.
THEOREM FallbackIsLive == Spec => []HeldTokenIsLive
<1>1. SessionInv => HeldTokenIsLive
  <2> SUFFICES ASSUME SessionInv, NEW t \in Tab, auth[t].pair # 0,
                      \A r \in Request : Refreshing(r) => req[r].tab # t
               PROVE  \/ auth[t].pair \in live \cup lost
                      \/ \E i \in DOMAIN issued :
                            issued[i].from = auth[t].pair /\ (issued[i].tab # t \/ i \in lost)
    BY DEF HeldTokenIsLive
  <2>1. Held(t, auth[t].pair)
    BY DEF SessionInv, HeldOK
  <2>2. \A i : ~OnItsWay(i, t)
    BY DEF OnItsWay, Refreshing
  <2> QED BY <2>1, <2>2 DEF Held, Numbers
<1> QED BY <1>1, SessionInvariant, PTL

\* What changes the store of a tab: a reload, an answer to one of its requests, or
\* a logout that ends one of them.
LEMMA WhoChangesAStore ==
    ASSUME TypeInv, [Next]_vars, NEW t \in Tab, auth'[t] # auth[t]
    PROVE  \/ auth'[t] = stored /\ reloads' # reloads
           \/ \E r \in Request :
                 /\ req[r].tab = t
                 /\ \/ OnLogin(r) \/ OnRefreshed(r)
                    \/ auth'[t] = LoggedOut /\ Settle(r) /\ Progress(r)
<1>1. ASSUME NEW r \in Request, Progress(r)
      PROVE  /\ req[r].tab = t
             /\ \/ OnLogin(r) \/ OnRefreshed(r)
                \/ auth'[t] = LoggedOut /\ Settle(r) /\ Progress(r)
  <2>1. CASE SetStore(req[r].tab, LoggedOut) /\ Settle(r)
    BY <1>1, <2>1 DEF SetStore, TypeInv, TypeOK
  <2>2. CASE OnLogin(r) \/ OnRefreshed(r)
    BY <2>2 DEF OnLogin, OnRefreshed, SetAuth, SetStore, TypeInv, TypeOK
  <2>3. CASE UNCHANGED browserVars
    BY <2>3
  <2> QED BY <1>1, <2>1, <2>2, <2>3 DEF Progress, Served, LoginGranted, LogoutGranted, OnLogout, Refresh,
          GiveUp, CheckRefresh, Exchange, ExchangeFails, OnRefused, ConnectionFails, Logout
<1>2. ASSUME NEW u \in Tab, Reload(u) PROVE auth'[t] = stored /\ reloads' # reloads
  BY <1>2 DEF Reload, TypeInv, TypeOK
<1> QED BY <1>1, <1>2 DEF Next, Send, Expire, vars

\* The user in a tab's store and the owner of its tokens part only when the tab
\* loads such a store, or a refresh that began with other tokens is answered.
THEOREM MixedOnlyByLateAnswer == Spec => MixedByLateAnswer
<1>1. SessionInv /\ SessionInv' /\ [Next]_vars =>
        [\A t \in Tab : Mixed(auth[t])' /\ ~Mixed(auth[t]) =>
            \/ auth'[t] = stored
            \/ \E r \in Request :
                   At(r, "refreshed") /\ req[r].tab = t /\ req[r].token # auth[t].pair]_vars
  <2> SUFFICES ASSUME SessionInv, [Next]_vars, NEW t \in Tab,
                      Mixed(auth[t])', ~Mixed(auth[t]), auth'[t] # stored
               PROVE  \E r \in Request :
                         At(r, "refreshed") /\ req[r].tab = t /\ req[r].token # auth[t].pair
    OBVIOUS
  <2> USE DEF Mixed
  <2>1. auth'[t] # auth[t]
    <3>1. auth[t].pair # 0 => auth[t].pair \in Numbers
      BY DEF SessionInv, TypeInv, NumbersOK
    <3> QED BY <3>1, RowsStay DEF SessionInv
  <2>2. PICK r \in Request :
              /\ req[r].tab = t
              /\ OnLogin(r) \/ OnRefreshed(r) \/ auth'[t] = LoggedOut
    BY <2>1, WhoChangesAStore DEF SessionInv
  <2>3. CASE OnLogin(r)
    BY <2>2, <2>3 DEF OnLogin, SetAuth, SetStore, SessionInv, UsersOK, TypeInv, TypeOK
  <2>4. CASE OnRefreshed(r)
    <3>1. auth'[t] = [user |-> auth[t].user, pair |-> req[r].pair] /\ issued' = issued
      BY <2>2, <2>4 DEF OnRefreshed, SetAuth, SetStore, SessionInv, TypeInv, TypeOK
    <3>2. At(r, "refreshed") /\ issued[req[r].pair].user = issued[req[r].token].user
      BY <2>4 DEF OnRefreshed, SessionInv, UsersOK
    <3>3. req[r].token # 0
      BY <3>2 DEF SessionInv, TypeInv, NumbersOK, Under, Refreshing
    <3> QED BY <2>2, <3>1, <3>2, <3>3
  <2> QED BY <2>2, <2>3, <2>4, LoggedOutIs
<1> QED BY <1>1, SessionInvariant, PTL DEF Spec, MixedByLateAnswer

\* A session that could go on ends by the seller's logout, a reload or a failed
\* exchange: never by a wrong password or an answer to another tab.
THEOREM NoSessionEndsWithoutReason == Spec => SessionEndsForAReason
<1>1. SessionInv /\ SessionInv' /\ [Next]_vars =>
        [\A t \in Tab : auth[t].pair \in live /\ ~IsAuthenticated(auth'[t]) =>
            reloads' # reloads \/ \E r \in Request : Ends(r, t)]_vars
  <2> SUFFICES ASSUME SessionInv, SessionInv', [Next]_vars, NEW t \in Tab,
                      auth[t].pair \in live, ~IsAuthenticated(auth'[t]), reloads' = reloads
               PROVE  \E r \in Request : Ends(r, t)
    OBVIOUS
  <2>1. auth[t].pair # 0
    BY DEF SessionInv, TypeInv, TypeOK
  <2>2. PICK r \in Request :
              /\ req[r].tab = t
              /\ OnLogin(r) \/ OnRefreshed(r) \/ (auth'[t] = LoggedOut /\ Settle(r) /\ Progress(r))
    BY <2>1, WhoChangesAStore DEF SessionInv
  <2>3. ~OnLogin(r) /\ ~OnRefreshed(r)
    BY <2>2 DEF OnLogin, OnRefreshed, SetAuth, SetStore, SessionInv, AnsweredOK, Answered,
       TypeInv, TypeOK
  <2>4. Settle(r) /\ Progress(r)
    BY <2>2, <2>3
  <2>5. req'[r] = Idle /\ Under(r)
    BY <2>4, RequestSettles DEF Progress, Served, LoginGranted, LogoutGranted, OnLogout, Refresh,
       GiveUp, Unauthorized, CheckRefresh, Exchange, ExchangeFails, OnRefused, ConnectionFails, Under,
       SessionInv, OnLogin, OnRefreshed
  <2>6. req[r].kind = "logout" \/ RefreshFailed(r)
    <3>1. At(r, "refresh") => RefreshFailed(r)
      BY DEF SessionInv, DeadOK, TypeInv, NumbersOK, Under, Refreshing, RefreshFailed, Numbers
    <3>2. auth[t].pair # 0 /\ auth'[t].pair = 0
      BY <2>1
    <3> QED BY <2>2, <2>3, <2>4, <3>1, <3>2 DEF Progress, Served, LoginGranted, LogoutGranted, OnLogout,
            Refresh, GiveUp, Unauthorized, CheckRefresh, Exchange, ExchangeFails, OnRefused,
            ConnectionFails, RefreshFailed
  <2> QED BY <2>2, <2>5, <2>6 DEF Ends, Under
<1> QED BY <1>1, SessionInvariant, PTL DEF Spec, SessionEndsForAReason

==============================================================================
