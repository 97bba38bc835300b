------------------------------- MODULE Session -------------------------------
(***************************************************************************)
(* The session of a seller's browser: the tabs of one browser, each with   *)
(* its own copy of the auth store over one localStorage entry, the         *)
(* requests they send through lib/api.ts, and the gateway's rotating       *)
(* refresh tokens.  A pair of tokens is its number: access token i and     *)
(* refresh token i are issued together.  Requests, refreshes, logins and   *)
(* logouts interleave freely; a tab may be reloaded or closed and a        *)
(* connection may fail at any step.                                        *)
(***************************************************************************)
EXTENDS Naturals, Sequences, FiniteSets

CONSTANTS
    User, NoUser,   \* accounts, and the store's null user
    Tab, NoTab,     \* tabs, and the tab of a request whose tab is gone
    Request,        \* requests that can be under way at one time
    MaxPairs,       \* bound: token pairs ever issued
    MaxSends,       \* bound: requests the seller's actions send
    MaxReloads      \* bound: tabs opened or reloaded

ASSUME SessionAssumption ==
    NoUser \notin User /\ NoTab \notin Tab /\ MaxPairs \in Nat /\ MaxSends \in Nat /\ MaxReloads \in Nat

VARIABLES
    issued,         \* issued[i]: whose pair i is, the pair it replaced, the tab
    live,           \* pairs whose refresh token is in the table, not revoked
    stale,          \* pairs whose access token has expired or is blocked
    auth,           \* auth[t]: the auth store in tab t's memory
    stored,         \* the "xeni-auth" entry of localStorage
    req,            \* the requests
    lost,           \* pairs whose exchange failed, or whose tab never got the answer
    sends, reloads

serverVars == <<issued, live, stale>>
browserVars == <<auth, stored>>
vars == <<serverVars, browserVars, req, lost, sends, reloads>>
boundVars == <<sends, reloads>>

Pair == 1..MaxPairs
Auth == [user : User \cup {NoUser}, pair : Pair \cup {0}]
LoggedOut == [user |-> NoUser, pair |-> 0]
IsAuthenticated(a) == a.pair # 0

\* pc: "sent" to the API, "granted" by it (a login or a logout), "refresh"
\* sent, "checked" and then exchanged ("refreshed") by the gateway.
Kind == {"call", "login", "logout"}
RequestState ==
    [kind : Kind, tab : Tab \cup {NoTab}, pc : {"sent", "granted", "refresh", "checked", "refreshed"},
     user : User \cup {NoUser}, pair : Pair \cup {0}, token : Pair \cup {0}, retried : BOOLEAN]
Idle == [pc |-> "idle"]

TypeOK ==
    /\ issued \in Seq([user : User, from : Pair \cup {0}, tab : Tab \cup {NoTab}])
    /\ live \subseteq DOMAIN issued /\ stale \subseteq DOMAIN issued /\ lost \subseteq DOMAIN issued
    /\ auth \in [Tab -> Auth] /\ stored \in Auth
    /\ sends \in 0..MaxSends /\ reloads \in 0..MaxReloads
    /\ req \in [Request -> RequestState \cup {Idle}]

Init ==
    /\ issued = <<>> /\ live = {} /\ stale = {} /\ lost = {} /\ sends = 0 /\ reloads = 0
    /\ stored = LoggedOut /\ auth = [t \in Tab |-> LoggedOut]
    /\ req = [r \in Request |-> Idle]

At(r, pc) == req[r].pc = pc
Step(r, pc) == req' = [req EXCEPT ![r].pc = pc]
Settle(r) == req' = [req EXCEPT ![r] = Idle]

-----------------------------------------------------------------------------
(* The store.  Every change is persisted; another tab does not see it. *)

SetStore(t, a) ==
    IF t \in Tab THEN auth' = [auth EXCEPT ![t] = a] /\ stored' = a
    ELSE UNCHANGED browserVars

\* Bug: logout forgets the user and keeps the tokens.
LogoutKeepsTokens(t) ==
    SetStore(t, IF t \in Tab THEN [auth[t] EXCEPT !.user = NoUser] ELSE LoggedOut)
Logout(t) == SetStore(t, LoggedOut)

SetAuth(t, u, pair) == SetStore(t, [user |-> u, pair |-> pair])

\* A tab is opened or reloaded: its store comes from localStorage, and nobody
\* waits for the answers to its requests any more.
Reload(t) ==
    /\ auth[t] # stored \/ \E r \in Request : ~At(r, "idle") /\ req[r].tab = t
    /\ reloads < MaxReloads /\ reloads' = reloads + 1
    /\ auth' = [auth EXCEPT ![t] = stored]
    /\ req' = [r \in Request |-> IF req[r] # Idle /\ req[r].tab = t
                                 THEN [req[r] EXCEPT !.tab = NoTab] ELSE req[r]]
    /\ lost' = lost \cup {req[r].pair : r \in {q \in Request : At(q, "refreshed") /\ req[q].tab = t}}
    /\ UNCHANGED <<serverVars, stored, sends>>

-----------------------------------------------------------------------------
(* Requests and their answers. *)

\* The request interceptor attaches the access token the store holds.
Send(r, t, kind, u) ==
    /\ At(r, "idle") /\ sends < MaxSends /\ sends' = sends + 1
    /\ kind = "logout" => IsAuthenticated(auth[t])
    /\ u \in (IF kind = "login" THEN User ELSE {NoUser})
    /\ req' = [req EXCEPT ![r] = [kind |-> kind, tab |-> t, pc |-> "sent", user |-> u,
                                  pair |-> auth[t].pair, token |-> 0, retried |-> FALSE]]
    /\ UNCHANGED <<serverVars, browserVars, lost, reloads>>

Accepted(r) == req[r].pair # 0 /\ req[r].pair \notin stale

Served(r) ==
    /\ At(r, "sent") /\ req[r].kind = "call" /\ Accepted(r)
    /\ Settle(r) /\ UNCHANGED <<serverVars, browserVars, lost>>

Issue(u, from, t) == issued' = Append(issued, [user |-> u, from |-> from, tab |-> t])
NewPair == Len(issued) + 1

\* Bug: the row is not that of the token the answer carries.
LoginStoresOtherRow(r) ==
    /\ At(r, "sent") /\ req[r].kind = "login" /\ NewPair \in Pair
    /\ Issue(req[r].user, 0, req[r].tab) /\ live' = live \cup {NewPair + 1}
    /\ req' = [req EXCEPT ![r].pc = "granted", ![r].pair = NewPair]
    /\ UNCHANGED <<stale, browserVars, lost>>
\* The right password: a new pair, and a row for its refresh token.
LoginGranted(r) ==
    /\ At(r, "sent") /\ req[r].kind = "login" /\ NewPair \in Pair
    /\ Issue(req[r].user, 0, req[r].tab) /\ live' = live \cup {NewPair}
    /\ req' = [req EXCEPT ![r].pc = "granted", ![r].pair = NewPair]
    /\ UNCHANGED <<stale, browserVars, lost>>

OnLogin(r) ==
    /\ At(r, "granted") /\ req[r].kind = "login"
    /\ SetAuth(req[r].tab, req[r].user, req[r].pair)
    /\ Settle(r) /\ UNCHANGED <<serverVars, lost>>

\* Logging out blocks the access token; the refresh token stays valid.
LogoutGranted(r) ==
    /\ At(r, "sent") /\ req[r].kind = "logout" /\ Accepted(r)
    /\ stale' = stale \cup {req[r].pair}
    /\ Step(r, "granted") /\ UNCHANGED <<issued, live, browserVars, lost>>

\* The answer to a logout, or its failure, clears the store.
OnLogout(r) ==
    /\ At(r, "granted") /\ req[r].kind = "logout"
    /\ Logout(req[r].tab)
    /\ Settle(r) /\ UNCHANGED <<serverVars, lost>>

-----------------------------------------------------------------------------
(* The response interceptor on 401: an access token that is missing,       *)
(* expired or blocked, or a wrong password.                                 *)

Unauthorized(r) ==
    At(r, "sent") /\ (req[r].kind = "login" \/ ~Accepted(r)) /\ req[r].tab \in Tab

\* The first time, exchange the refresh token the store holds by then.
Refresh(r) ==
    /\ Unauthorized(r) /\ ~req[r].retried /\ IsAuthenticated(auth[req[r].tab])
    /\ LET a == auth[req[r].tab] IN
       req' = [req EXCEPT ![r].pc = "refresh", ![r].token = a.pair, ![r].pair = 0, ![r].retried = TRUE]
    /\ UNCHANGED <<serverVars, browserVars, lost>>

\* Bug: every 401 that is not refreshed logs out.
GiveUpLogsOut(r) ==
    /\ Unauthorized(r) /\ (req[r].retried \/ ~IsAuthenticated(auth[req[r].tab]))
    /\ Logout(req[r].tab)
    /\ Settle(r) /\ UNCHANGED <<serverVars, lost>>
GiveUp(r) ==
    /\ Unauthorized(r)
    /\ \/ ~req[r].retried /\ ~IsAuthenticated(auth[req[r].tab]) /\ Logout(req[r].tab)
       \/ req[r].retried /\ req[r].kind = "logout" /\ Logout(req[r].tab)
       \/ req[r].retried /\ req[r].kind # "logout" /\ UNCHANGED browserVars
    /\ Settle(r) /\ UNCHANGED <<serverVars, lost>>

\* The gateway finds the row, and revokes it in a second statement.
CheckRefresh(r) ==
    /\ At(r, "refresh") /\ req[r].token \in live
    /\ Step(r, "checked") /\ UNCHANGED <<serverVars, browserVars, lost>>

Exchange(r) ==
    /\ At(r, "checked") /\ NewPair \in Pair
    /\ Issue(issued[req[r].token].user, req[r].token, req[r].tab)
    /\ live' = (live \ {req[r].token}) \cup {NewPair}
    /\ req' = [req EXCEPT ![r].pc = "refreshed", ![r].pair = NewPair]
    /\ UNCHANGED <<stale, browserVars, lost>>

\* The gateway fails after it revoked the row.
ExchangeFails(r) ==
    /\ At(r, "checked")
    /\ live' = live \ {req[r].token}
    /\ Logout(req[r].tab)
    /\ lost' = lost \cup {req[r].token}
    /\ Settle(r) /\ UNCHANGED <<issued, stale>>

\* Bug: only the access token of the answer is used, for the retry.
RetryWithoutStoring(r) ==
    /\ At(r, "refreshed") /\ req[r].tab \in Tab
    /\ Step(r, "sent") /\ UNCHANGED <<serverVars, browserVars, lost>>
\* The answer carries no user: the store's own user, null after a logout, stays.
OnRefreshed(r) ==
    /\ At(r, "refreshed") /\ req[r].tab \in Tab
    /\ SetAuth(req[r].tab, auth[req[r].tab].user, req[r].pair)
    /\ req' = [req EXCEPT ![r].pc = "sent", ![r].token = 0]
    /\ UNCHANGED <<serverVars, lost>>

OnRefused(r) ==
    /\ At(r, "refresh") /\ req[r].token \notin live
    /\ Logout(req[r].tab)
    /\ Settle(r) /\ UNCHANGED <<serverVars, lost>>

\* No answer: a plain request fails; a failed refresh or logout logs out.
ConnectionFails(r) ==
    /\ req[r].pc \in {"sent", "granted", "refresh", "refreshed"}
    /\ IF req[r].kind = "logout" \/ req[r].pc \in {"refresh", "refreshed"}
       THEN Logout(req[r].tab) ELSE UNCHANGED browserVars
    /\ lost' = IF req[r].pc = "refreshed" THEN lost \cup {req[r].pair} ELSE lost
    /\ Settle(r) /\ UNCHANGED serverVars

\* The expiry of an access token; one that nobody holds is not worth a step.
Expire(i) ==
    /\ i \in DOMAIN issued \ stale
    /\ (\E t \in Tab : auth[t].pair = i) \/ (\E r \in Request : req[r] # Idle /\ req[r].pair = i)
    /\ stale' = stale \cup {i}
    /\ UNCHANGED <<issued, live, browserVars, req, lost>>

-----------------------------------------------------------------------------
Progress(r) ==
    \/ Served(r) \/ LoginGranted(r) \/ OnLogin(r) \/ LogoutGranted(r) \/ OnLogout(r)
    \/ Refresh(r) \/ GiveUp(r) \/ CheckRefresh(r) \/ Exchange(r) \/ ExchangeFails(r)
    \/ OnRefreshed(r) \/ OnRefused(r) \/ ConnectionFails(r)

Next ==
    \/ \E r \in Request, t \in Tab, kind \in Kind, u \in User \cup {NoUser} : Send(r, t, kind, u)
    \/ \E r \in Request : Progress(r) /\ UNCHANGED boundVars
    \/ \E i \in Pair : Expire(i) /\ UNCHANGED boundVars
    \/ \E t \in Tab : Reload(t)

Spec == Init /\ [][Next]_vars

-----------------------------------------------------------------------------
Refreshing(r) == req[r].pc \in {"refresh", "checked", "refreshed"}

\* The user of a store is not the one its tokens were issued to.
Mixed(a) == IsAuthenticated(a) /\ a.user # issued[a.pair].user

\* The rotation protocol of lib/api.ts and the gateway: the refresh token a tab
\* falls back on can still be exchanged, even after two of its requests raced to
\* exchange the same one, unless another tab exchanged it or the answer was lost.
HeldTokenIsLive ==
    \A t \in Tab :
        LET p == auth[t].pair IN
        p # 0 /\ (\A r \in Request : Refreshing(r) => req[r].tab # t)
            => \/ p \in live \cup lost
               \/ \E i \in DOMAIN issued : issued[i].from = p /\ (issued[i].tab # t \/ i \in lost)

\* The interceptor keeps the store's user and replaces its tokens: the two
\* disagree only once a refresh that began before the last login or logout of
\* the tab is answered after it, or the tab loads such a store.
MixedByLateAnswer ==
    [][\A t \in Tab : Mixed(auth[t])' /\ ~Mixed(auth[t]) =>
          \/ auth'[t] = stored
          \/ \E r \in Request :
                 At(r, "refreshed") /\ req[r].tab = t /\ req[r].token # auth[t].pair]_vars

\* The exchange of request r has failed: no answer, or a token that was exchanged.
RefreshFailed(r) ==
    \/ req[r].pc \in {"checked", "refreshed"}
    \/ At(r, "refresh") /\ req[r].token \in live \cup lost
    \/ At(r, "refresh") /\ \E i \in DOMAIN issued : issued[i].from = req[r].token
Ends(r, t) ==
    ~At(r, "idle") /\ req[r].tab = t /\ req'[r] = Idle /\ (req[r].kind = "logout" \/ RefreshFailed(r))

\* A session that could go on is ended by the seller or a failure, or because a
\* refresh token was exchanged twice: never by a wrong password, a second 401 or
\* an answer to a request of the other tab.
SessionEndsForAReason ==
    [][\A t \in Tab : auth[t].pair \in live /\ ~IsAuthenticated(auth'[t]) =>
          reloads' # reloads \/ \E r \in Request : Ends(r, t)]_vars
=============================================================================
