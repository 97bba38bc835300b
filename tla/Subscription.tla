---------------------------- MODULE Subscription ----------------------------
(***************************************************************************)
(* What one user may use: the subscription row, the payments that renew    *)
(* it, and the copy GetUserSubscription keeps in Redis.  SSLCommerz        *)
(* notices, cancellations and administrators' overrides each take several  *)
(* steps of a request; they interleave with each other and with the        *)
(* requests that miss the cache and fill it with what they read before.    *)
(***************************************************************************)
EXTENDS Naturals

CONSTANTS
    Plan,           \* the plans on offer
    Starter,        \* the plan Register subscribes a user to
    Payment,        \* bound: the payments the user ever starts
    Request,        \* requests that change the subscription at a time
    Reader,         \* requests that ask for the subscription at a time
    NoPayment, NoInfo, SuperAdmin,
    MaxNotices,     \* bound: payment notices delivered
    MaxChanges,     \* bound: cancellations and administrators' actions
    MaxFaults       \* bound: crashes of the gateway, errors of Redis

ASSUME SubscriptionAssumption ==
    /\ Starter \in Plan
    /\ NoPayment \notin Payment
    /\ SuperAdmin \notin Plan /\ NoInfo \notin Plan \cup {SuperAdmin}
    /\ MaxNotices \in Nat /\ MaxChanges \in Nat /\ MaxFaults \in Nat

VARIABLES
    sub,        \* the subscription's status, "none" while there is no row
    plan,       \* its plan
    role,       \* the user's role
    cache,      \* user:subscription:<id> in Redis
    status,     \* status[p]: payments.status, "none" while there is no row
    wanted,     \* wanted[p]: the plan payment p is for
    at,         \* at[q]: where the changing request q stands
    goal, pay,  \* the plan q grants, the payment q was notified of
    reading,    \* reading[r]: where GetUserSubscription stands in reader r
    got,        \* what r is about to cache
    applied,    \* payments that were written to the subscription
    lost,       \* payments whose request died, or whose insert was refused
    unguarded,  \* since the cache was last empty: a change nobody will
                \* invalidate the cache for
    late,       \* the cache was filled after the invalidation meant for it
    notices, changes, faults

rowVars   == <<sub, plan, role>>
payVars   == <<status, wanted, applied, lost>>
askVars   == <<at, goal, pay>>
readVars  == <<reading, got>>
cacheVars == <<cache, unguarded, late>>
boundVars == <<notices, changes, faults>>
vars == <<rowVars, payVars, askVars, readVars, cacheVars, boundVars>>

Info == Plan \cup {SuperAdmin}
Step == {"idle", "found", "looking", "absent", "present", "cancelling", "written"}

TypeOK ==
    /\ sub \in {"none", "active", "cancelled"} /\ plan \in Plan
    /\ role \in {"user", "super_admin"}
    /\ cache \in Info \cup {NoInfo}
    /\ status \in [Payment -> {"none", "pending", "success", "failed"}]
    /\ wanted \in [Payment -> Plan]
    /\ at \in [Request -> Step]
    /\ goal \in [Request -> Plan] /\ pay \in [Request -> Payment \cup {NoPayment}]
    /\ \A q \in Request : at[q] = "found" => pay[q] # NoPayment
    /\ reading \in [Reader -> {"idle", "missed", "asked", "loaded"}]
    /\ got \in [Reader -> Info \cup {NoInfo}]
    /\ \A r \in Reader : reading[r] = "loaded" <=> got[r] # NoInfo
    /\ applied \in SUBSET Payment /\ lost \in SUBSET Payment
    /\ unguarded \in BOOLEAN /\ late \in BOOLEAN
    /\ notices \in 0..MaxNotices /\ changes \in 0..MaxChanges
    /\ faults \in 0..MaxFaults

\* Register creates the row when it finds the starter plan.
Init ==
    /\ sub \in {"none", "active"} /\ plan = Starter
    /\ role = "user"
    /\ cache = NoInfo
    /\ status = [p \in Payment |-> "none"]
    /\ wanted = [p \in Payment |-> Starter]
    /\ at = [q \in Request |-> "idle"]
    /\ goal = [q \in Request |-> Starter] /\ pay = [q \in Request |-> NoPayment]
    /\ reading = [r \in Reader |-> "idle"] /\ got = [r \in Reader |-> NoInfo]
    /\ applied = {} /\ lost = {}
    /\ unguarded = FALSE /\ late = FALSE
    /\ notices = 0 /\ changes = 0 /\ faults = 0

\* What GetUserSubscription would compute now; NoInfo is the default it
\* answers without caching it.
Current == CASE role = "super_admin" -> SuperAdmin
             [] role = "user" /\ sub = "active" -> plan
             [] OTHER -> NoInfo

\* Requests that changed the row and have the cache still to delete.
InvalidationPending == \E q \in Request : at[q] = "written"

Change == changes < MaxChanges /\ changes' = changes + 1
Fault == faults < MaxFaults /\ faults' = faults + 1

---------------------------------------------------------------------------
(* Payments *)

SubscribeSSLCommerz(p, pl) ==
    /\ status[p] = "none"
    /\ status' = [status EXCEPT ![p] = "pending"]
    /\ wanted' = [wanted EXCEPT ![p] = pl]
    /\ UNCHANGED <<applied, lost, rowVars, askVars, readVars, cacheVars, boundVars>>

\* WebhookSSLCommerzSuccess: a paid payment is left alone.
FindPayment(q, p) ==
    /\ at[q] = "idle" /\ status[p] \in {"pending", "failed"}
    /\ notices < MaxNotices /\ notices' = notices + 1
    /\ at' = [at EXCEPT ![q] = "found"]
    /\ pay' = [pay EXCEPT ![q] = p]
    /\ goal' = [goal EXCEPT ![q] = wanted[p]]
    /\ UNCHANGED <<payVars, rowVars, readVars, cacheVars, changes, faults>>

\* Bug: the payment is marked paid and nothing is activated.
MarkPaidOnly(q) ==
    /\ at[q] = "found"
    /\ at' = [at EXCEPT ![q] = "idle"]
    /\ status' = [status EXCEPT ![pay[q]] = "success"]
    /\ UNCHANGED <<wanted, applied, lost, goal, pay, rowVars, readVars,
                   cacheVars, boundVars>>

MarkPaid(q) ==
    /\ at[q] = "found"
    /\ at' = [at EXCEPT ![q] = "looking"]
    /\ status' = [status EXCEPT ![pay[q]] = "success"]
    /\ UNCHANGED <<wanted, applied, lost, goal, pay, rowVars, readVars,
                   cacheVars, boundVars>>

\* Whatever the status was.
WebhookSSLCommerzFail(p) ==
    /\ status[p] # "none"
    /\ notices < MaxNotices /\ notices' = notices + 1
    /\ status' = [status EXCEPT ![p] = "failed"]
    /\ UNCHANGED <<wanted, applied, lost, rowVars, askVars, readVars,
                   cacheVars, changes, faults>>

---------------------------------------------------------------------------
(* activateSubscription and OverrideUserPlan *)

OverrideUserPlan(q, pl) ==
    /\ at[q] = "idle" /\ Change
    /\ at' = [at EXCEPT ![q] = "looking"]
    /\ pay' = [pay EXCEPT ![q] = NoPayment]
    /\ goal' = [goal EXCEPT ![q] = pl]
    /\ UNCHANGED <<payVars, rowVars, readVars, cacheVars, notices, faults>>

LookUp(q) ==
    /\ at[q] = "looking"
    /\ at' = [at EXCEPT ![q] = IF sub = "none" THEN "absent" ELSE "present"]
    /\ UNCHANGED <<goal, pay, payVars, rowVars, readVars, cacheVars, boundVars>>

Paid(q) == IF pay[q] = NoPayment THEN {} ELSE {pay[q]}

\* Of two requests that found no row, the second one's insert is refused by
\* the unique index, and the error is not looked at.
Insert(q) ==
    /\ at[q] = "absent"
    /\ at' = [at EXCEPT ![q] = "written"]
    /\ IF sub = "none"
       THEN /\ sub' = "active" /\ plan' = goal[q]
            /\ applied' = applied \cup Paid(q)
            /\ UNCHANGED lost
       ELSE /\ lost' = lost \cup Paid(q)
            /\ UNCHANGED <<sub, plan, applied>>
    /\ UNCHANGED <<role, status, wanted, goal, pay, readVars, cacheVars, boundVars>>

\* Bug: the cache is deleted before the row is written.
RenewAfterInvalidation(q) ==
    /\ at[q] = "present"
    /\ at' = [at EXCEPT ![q] = "idle"]
    /\ sub' = "active" /\ plan' = goal[q]
    /\ applied' = applied \cup Paid(q)
    /\ UNCHANGED <<role, status, wanted, lost, goal, pay, readVars,
                   cacheVars, boundVars>>

Renew(q) ==
    /\ at[q] = "present"
    /\ at' = [at EXCEPT ![q] = "written"]
    /\ sub' = "active" /\ plan' = goal[q]
    /\ applied' = applied \cup Paid(q)
    /\ UNCHANGED <<role, status, wanted, lost, goal, pay, readVars,
                   cacheVars, boundVars>>

DeleteCache == cache' = NoInfo /\ unguarded' = FALSE /\ late' = FALSE

Invalidate(q) ==
    /\ at[q] = "written"
    /\ at' = [at EXCEPT ![q] = "idle"]
    /\ DeleteCache
    /\ UNCHANGED <<goal, pay, payVars, rowVars, readVars, boundVars>>

\* Redis refuses; the error is not looked at.
InvalidateFails(q) ==
    /\ at[q] = "written" /\ Fault
    /\ at' = [at EXCEPT ![q] = "idle"]
    /\ unguarded' = TRUE
    /\ UNCHANGED <<cache, late, goal, pay, payVars, rowVars, readVars,
                   notices, changes>>

---------------------------------------------------------------------------
(* CancelSubscription, and the changes that do not touch the cache *)

FindActive(q) ==
    /\ at[q] = "idle" /\ sub = "active" /\ Change
    /\ at' = [at EXCEPT ![q] = "cancelling"]
    /\ UNCHANGED <<goal, pay, payVars, rowVars, readVars, cacheVars, notices, faults>>

\* By primary key: also when the row was renewed since it was found.
CancelSubscription(q) ==
    /\ at[q] = "cancelling"
    /\ at' = [at EXCEPT ![q] = "written"]
    /\ sub' = "cancelled"
    /\ UNCHANGED <<plan, role, goal, pay, payVars, readVars, cacheVars, boundVars>>

SoftDeleteUser ==
    /\ sub = "active" /\ role # "super_admin" /\ Change
    /\ sub' = "cancelled"
    /\ unguarded' = TRUE
    /\ UNCHANGED <<plan, role, cache, late, payVars, askVars, readVars,
                   notices, faults>>

\* The bootstrap route makes the user super_admin, ChangeUserRole makes the
\* user something else.
ChangeRole ==
    /\ Change
    /\ role' = IF role = "user" THEN "super_admin" ELSE "user"
    /\ unguarded' = TRUE
    /\ UNCHANGED <<plan, sub, cache, late, payVars, askVars, readVars,
                   notices, faults>>

---------------------------------------------------------------------------
(* GetUserSubscription; a hit changes nothing *)

Miss(r) ==
    /\ reading[r] = "idle" /\ cache = NoInfo
    /\ reading' = [reading EXCEPT ![r] = "missed"]
    /\ UNCHANGED <<got, rowVars, payVars, askVars, cacheVars, boundVars>>

LoadRole(r) ==
    /\ reading[r] = "missed"
    /\ IF role = "super_admin"
       THEN /\ reading' = [reading EXCEPT ![r] = "loaded"]
            /\ got' = [got EXCEPT ![r] = SuperAdmin]
       ELSE /\ reading' = [reading EXCEPT ![r] = "asked"]
            /\ UNCHANGED got
    /\ UNCHANGED <<rowVars, payVars, askVars, cacheVars, boundVars>>

\* Bug: the default is cached like a plan.
LoadAnything(r) ==
    /\ reading[r] = "asked"
    /\ reading' = [reading EXCEPT ![r] = "loaded"]
    /\ got' = [got EXCEPT ![r] = IF sub = "active" THEN plan ELSE NoInfo]
    /\ UNCHANGED <<rowVars, payVars, askVars, cacheVars, boundVars>>

LoadSubscription(r) ==
    /\ reading[r] = "asked"
    /\ IF sub = "active"
       THEN /\ reading' = [reading EXCEPT ![r] = "loaded"]
            /\ got' = [got EXCEPT ![r] = plan]
       ELSE /\ reading' = [reading EXCEPT ![r] = "idle"]
            /\ UNCHANGED got
    /\ UNCHANGED <<rowVars, payVars, askVars, cacheVars, boundVars>>

SetSubscription(r) ==
    /\ reading[r] = "loaded"
    /\ reading' = [reading EXCEPT ![r] = "idle"]
    /\ got' = [got EXCEPT ![r] = NoInfo]
    /\ cache' = got[r]
    /\ late' = (got[r] # Current)
    /\ UNCHANGED <<unguarded, rowVars, payVars, askVars, boundVars>>

\* Bug: the entry is set without a time to live.
ExpireNever == FALSE

Expire ==
    /\ cache # NoInfo
    /\ DeleteCache
    /\ UNCHANGED <<rowVars, payVars, askVars, readVars, boundVars>>

\* The requests under way die; PostgreSQL and Redis keep what they have.
Crash ==
    /\ Fault
    /\ unguarded' = (unguarded \/ InvalidationPending)
    /\ lost' = lost \cup UNION {Paid(q) : q \in
                   {w \in Request : at[w] \in {"looking", "absent", "present"}}}
    /\ at' = [q \in Request |-> "idle"]
    /\ reading' = [r \in Reader |-> "idle"] /\ got' = [r \in Reader |-> NoInfo]
    /\ UNCHANGED <<cache, late, status, wanted, applied, goal, pay, rowVars,
                   notices, changes>>

---------------------------------------------------------------------------

Proceed(q) == \/ MarkPaid(q) \/ LookUp(q) \/ Insert(q) \/ Renew(q)
              \/ CancelSubscription(q) \/ Invalidate(q) \/ InvalidateFails(q)
Load(r) == LoadRole(r) \/ LoadSubscription(r) \/ SetSubscription(r)

Next ==
    \/ \E p \in Payment : \/ \E pl \in Plan : SubscribeSSLCommerz(p, pl)
                          \/ WebhookSSLCommerzFail(p)
    \/ \E q \in Request : \/ \E p \in Payment : FindPayment(q, p)
                          \/ \E pl \in Plan : OverrideUserPlan(q, pl)
                          \/ FindActive(q) \/ Proceed(q)
    \/ SoftDeleteUser \/ ChangeRole
    \/ \E r \in Reader : Miss(r) \/ Load(r)
    \/ Expire \/ Crash

Spec == Init /\ [][Next]_vars

\* Requests that have started go on; Redis expires what it was told to.
FairSpec ==
    /\ Spec /\ WF_vars(Expire)
    /\ \A q \in Request : WF_vars(Proceed(q))
    /\ \A r \in Reader : WF_vars(Load(r))

---------------------------------------------------------------------------
(* Properties *)

\* A cached subscription differs from the row only while its invalidation
\* is still to come, after a change that has none (a soft delete, a change
\* of role, a crash or Redis error in between), or because a request that
\* read the old row filled the cache late (auth/handler.go:653-708 against
\* billing/handler.go:306 and 355, admin/service.go:183).
StaleIsExplained ==
    cache # NoInfo /\ cache # Current =>
        InvalidationPending \/ unguarded \/ late

\* A payment marked paid is in the subscription, or its request is on the
\* way there; only a crash or two first subscriptions at once lose one
\* (billing/handler.go:228-234: the mark comes first).
PaidIsAccountedFor ==
    \A p \in Payment : status[p] = "success" =>
        \/ p \in applied \cup lost
        \/ \E q \in Request : pay[q] = p /\ at[q] \in {"looking", "absent", "present"}

\* Whatever made the cache stale, the five minutes it lives heal it: once
\* the subscription stops changing, the cache holds nothing else.
CacheConverges == <>[](cache # NoInfo => cache = Current)
=============================================================================
