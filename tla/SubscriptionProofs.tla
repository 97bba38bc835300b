------------------------- MODULE SubscriptionProofs -------------------------
(***************************************************************************)
(* Proofs about Subscription, for any number of payments, requests and     *)
(* readers, and any bounds.  Both invariants are inductive given the       *)
(* types; StaleIsExplained relies on the order "write the row, then delete *)
(* the cache", PaidIsAccountedFor on a request remembering its payment.    *)
(***************************************************************************)
EXTENDS Subscription, TLAPS

\* The steps of a request and of a reader, as one case each.
LEMMA NextCases ==
    ASSUME Next, NEW P,
           \A p \in Payment, pl \in Plan : SubscribeSSLCommerz(p, pl) => P,
           \A p \in Payment : WebhookSSLCommerzFail(p) => P,
           \A q \in Request, p \in Payment : FindPayment(q, p) => P,
           \A q \in Request, pl \in Plan : OverrideUserPlan(q, pl) => P,
           \A q \in Request : FindActive(q) => P,
           \A q \in Request : MarkPaid(q) => P,
           \A q \in Request : LookUp(q) => P,
           \A q \in Request : Insert(q) => P,
           \A q \in Request : Renew(q) => P,
           \A q \in Request : CancelSubscription(q) => P,
           \A q \in Request : Invalidate(q) => P,
           \A q \in Request : InvalidateFails(q) => P,
           SoftDeleteUser => P,
           ChangeRole => P,
           \A r \in Reader : Miss(r) => P,
           \A r \in Reader : LoadRole(r) => P,
           \A r \in Reader : LoadSubscription(r) => P,
           \A r \in Reader : SetSubscription(r) => P,
           Expire => P,
           Crash => P
    PROVE  P
BY Zenon DEF Next, Proceed, Load

\* Every variable keeps its type; a loaded reader holds what it will cache.
LEMMA TypeInductive == TypeOK /\ [Next]_vars => TypeOK'
<1> SUFFICES ASSUME TypeOK, [Next]_vars PROVE TypeOK'
  OBVIOUS
<1> USE SubscriptionAssumption DEF TypeOK, Step, Info
<1>1. ASSUME NEW p \in Payment, NEW pl \in Plan, SubscribeSSLCommerz(p, pl)
      PROVE TypeOK'
  BY <1>1 DEF SubscribeSSLCommerz, rowVars, askVars, readVars, cacheVars, boundVars
<1>2. ASSUME NEW p \in Payment, WebhookSSLCommerzFail(p) PROVE TypeOK'
  BY <1>2 DEF WebhookSSLCommerzFail, rowVars, askVars, readVars, cacheVars
<1>3. ASSUME NEW q \in Request, NEW p \in Payment, FindPayment(q, p) PROVE TypeOK'
  <2>1. /\ goal' \in [Request -> Plan] /\ pay' \in [Request -> Payment \cup {NoPayment}]
        /\ at' \in [Request -> Step]
    BY <1>3 DEF FindPayment
  <2>2. \A w \in Request : at'[w] = "found" => pay'[w] # NoPayment
    BY <1>3 DEF FindPayment
  <2> QED
    BY <1>3, <2>1, <2>2 DEF FindPayment, payVars, rowVars, readVars, cacheVars
<1>4. ASSUME NEW q \in Request, NEW pl \in Plan, OverrideUserPlan(q, pl) PROVE TypeOK'
  BY <1>4 DEF OverrideUserPlan, Change, payVars, rowVars, readVars, cacheVars
<1>5. ASSUME NEW q \in Request, FindActive(q) PROVE TypeOK'
  BY <1>5 DEF FindActive, Change, payVars, rowVars, readVars, cacheVars
<1>6. ASSUME NEW q \in Request, MarkPaid(q) PROVE TypeOK'
  BY <1>6 DEF MarkPaid, rowVars, readVars, cacheVars, boundVars
<1>7. ASSUME NEW q \in Request, LookUp(q) PROVE TypeOK'
  BY <1>7 DEF LookUp, payVars, rowVars, readVars, cacheVars, boundVars
<1>8. ASSUME NEW q \in Request, Insert(q) PROVE TypeOK'
  <2>1. Paid(q) \in SUBSET Payment
    BY DEF Paid
  <2>2. sub' \in {"none", "active", "cancelled"} /\ plan' \in Plan
    BY <1>8 DEF Insert
  <2>3. applied' \in SUBSET Payment /\ lost' \in SUBSET Payment
    BY <1>8, <2>1 DEF Insert
  <2> QED
    BY <1>8, <2>2, <2>3 DEF Insert, readVars, cacheVars, boundVars
<1>9. ASSUME NEW q \in Request, Renew(q) PROVE TypeOK'
  BY <1>9 DEF Renew, Paid, readVars, cacheVars, boundVars
<1>10. ASSUME NEW q \in Request, CancelSubscription(q) PROVE TypeOK'
  BY <1>10 DEF CancelSubscription, payVars, readVars, cacheVars, boundVars
<1>11. ASSUME NEW q \in Request, Invalidate(q) PROVE TypeOK'
  BY <1>11 DEF Invalidate, DeleteCache, payVars, rowVars, readVars, boundVars
<1>12. ASSUME NEW q \in Request, InvalidateFails(q) PROVE TypeOK'
  BY <1>12 DEF InvalidateFails, Fault, payVars, rowVars, readVars
<1>13. ASSUME SoftDeleteUser PROVE TypeOK'
  BY <1>13 DEF SoftDeleteUser, Change, payVars, askVars, readVars
<1>14. ASSUME ChangeRole PROVE TypeOK'
  BY <1>14 DEF ChangeRole, Change, payVars, askVars, readVars
<1>15. ASSUME NEW r \in Reader, Miss(r) PROVE TypeOK'
  BY <1>15 DEF Miss, rowVars, payVars, askVars, cacheVars, boundVars
<1>16. ASSUME NEW r \in Reader, LoadRole(r) PROVE TypeOK'
  BY <1>16 DEF LoadRole, rowVars, payVars, askVars, cacheVars, boundVars
<1>17. ASSUME NEW r \in Reader, LoadSubscription(r) PROVE TypeOK'
  BY <1>17 DEF LoadSubscription, rowVars, payVars, askVars, cacheVars, boundVars
<1>18. ASSUME NEW r \in Reader, SetSubscription(r) PROVE TypeOK'
  BY <1>18 DEF SetSubscription, rowVars, payVars, askVars, boundVars
<1>19. ASSUME Expire PROVE TypeOK'
  BY <1>19 DEF Expire, DeleteCache, rowVars, payVars, askVars, readVars, boundVars
<1>20. ASSUME Crash PROVE TypeOK'
  <2>1. UNION {Paid(q) : q \in
           {w \in Request : at[w] \in {"looking", "absent", "present"}}} \subseteq Payment
    BY DEF Paid
  <2>2. lost' \in SUBSET Payment /\ unguarded' \in BOOLEAN
    BY <1>20, <2>1 DEF Crash, InvalidationPending
  <2> QED
    BY <1>20, <2>2 DEF Crash, Fault, rowVars
<1>21. ASSUME UNCHANGED vars PROVE TypeOK'
  BY <1>21 DEF vars, rowVars, payVars, askVars, readVars, cacheVars, boundVars
<1> HIDE DEF TypeOK, Step, Info
<1>22. CASE Next
  BY <1>22, <1>1, <1>2, <1>3, <1>4, <1>5, <1>6, <1>7, <1>8, <1>9, <1>10, <1>11, <1>12,
     <1>13, <1>14, <1>15, <1>16, <1>17, <1>18, <1>19, <1>20, NextCases, Zenon
<1> QED
  BY <1>21, <1>22

\* Every state of the subscription is well typed.
THEOREM TypeCorrect == Spec => []TypeOK
<1>1. Init => TypeOK
  <2> SUFFICES ASSUME Init PROVE TypeOK
    OBVIOUS
  <2>1. /\ status \in [Payment -> {"none", "pending", "success", "failed"}]
        /\ wanted \in [Payment -> Plan]
        /\ at \in [Request -> Step] /\ goal \in [Request -> Plan]
        /\ pay \in [Request -> Payment \cup {NoPayment}]
        /\ \A q \in Request : at[q] = "found" => pay[q] # NoPayment
    BY SubscriptionAssumption DEF Init, Step
  <2>2. /\ reading \in [Reader -> {"idle", "missed", "asked", "loaded"}]
        /\ got \in [Reader -> Info \cup {NoInfo}]
        /\ \A r \in Reader : reading[r] = "loaded" <=> got[r] # NoInfo
    BY DEF Init
  <2>3. /\ notices \in 0..MaxNotices /\ changes \in 0..MaxChanges
        /\ faults \in 0..MaxFaults
    BY SubscriptionAssumption DEF Init
  <2> QED
    BY <2>1, <2>2, <2>3, SubscriptionAssumption DEF Init, TypeOK
<1> QED
  BY <1>1, TypeInductive, PTL DEF Spec

\* A row that changes leaves its invalidation to come, or the mark that
\* there is none; a cache that changes is empty or marked late.
THEOREM StaleCacheIsExplained == Spec => []StaleIsExplained
<1>1. Init => StaleIsExplained
  BY DEF Init, StaleIsExplained
<1>2. TypeOK /\ StaleIsExplained /\ [Next]_vars => StaleIsExplained'
  <2> SUFFICES ASSUME TypeOK, StaleIsExplained, [Next]_vars
               PROVE  StaleIsExplained'
    OBVIOUS
  <2>a. at \in [Request -> Step]
    BY DEF TypeOK
  <2> USE DEF StaleIsExplained, InvalidationPending, Current
  <2>1. ASSUME NEW q \in Request,
               \/ Insert(q) \/ Renew(q) \/ CancelSubscription(q)
        PROVE StaleIsExplained'
    BY <2>1, <2>a DEF Insert, Renew, CancelSubscription
  <2>2. ASSUME NEW q \in Request,
               \/ \E p \in Payment : FindPayment(q, p)
               \/ \E pl \in Plan : OverrideUserPlan(q, pl)
               \/ FindActive(q) \/ MarkPaid(q) \/ LookUp(q)
        PROVE StaleIsExplained'
    BY <2>2, <2>a DEF FindPayment, OverrideUserPlan, FindActive, MarkPaid, LookUp,
       rowVars, cacheVars
  <2>3. ASSUME NEW q \in Request, Invalidate(q) \/ InvalidateFails(q)
        PROVE StaleIsExplained'
    BY <2>3 DEF Invalidate, InvalidateFails, DeleteCache
  <2>4. ASSUME SoftDeleteUser \/ ChangeRole PROVE StaleIsExplained'
    BY <2>4 DEF SoftDeleteUser, ChangeRole
  <2>5. ASSUME NEW r \in Reader, Miss(r) \/ LoadRole(r) \/ LoadSubscription(r)
        PROVE StaleIsExplained'
    BY <2>5 DEF Miss, LoadRole, LoadSubscription, rowVars, askVars, cacheVars
  <2>6. ASSUME NEW r \in Reader, SetSubscription(r) PROVE StaleIsExplained'
    BY <2>6 DEF SetSubscription, rowVars
  <2>7. ASSUME Expire PROVE StaleIsExplained'
    BY <2>7 DEF Expire, DeleteCache
  <2>8. ASSUME Crash PROVE StaleIsExplained'
    BY <2>8 DEF Crash, rowVars
  <2>9. ASSUME NEW p \in Payment,
               \/ \E pl \in Plan : SubscribeSSLCommerz(p, pl)
               \/ WebhookSSLCommerzFail(p)
        PROVE StaleIsExplained'
    BY <2>9 DEF SubscribeSSLCommerz, WebhookSSLCommerzFail, rowVars, askVars, cacheVars
  <2>10. ASSUME UNCHANGED vars PROVE StaleIsExplained'
    BY <2>10 DEF vars, rowVars, askVars, cacheVars
  <2> HIDE DEF StaleIsExplained, InvalidationPending, Current
  <2>11. CASE Next
    BY <2>11, <2>1, <2>2, <2>3, <2>4, <2>5, <2>6, <2>7, <2>8, <2>9, Zenon
       DEF Next, Proceed, Load
  <2> QED
    BY <2>10, <2>11
<1> QED
  BY <1>1, <1>2, TypeCorrect, PTL DEF Spec

\* The request that marks a payment paid keeps it in pay until it has
\* written it to the subscription, or is among the lost.
THEOREM PaidIsNotForgotten == Spec => []PaidIsAccountedFor
<1>1. Init => PaidIsAccountedFor
  BY DEF Init, PaidIsAccountedFor
<1>2. TypeOK /\ PaidIsAccountedFor /\ [Next]_vars => PaidIsAccountedFor'
  <2> SUFFICES ASSUME TypeOK, PaidIsAccountedFor, [Next]_vars
               PROVE  PaidIsAccountedFor'
    OBVIOUS
  <2>a. /\ at \in [Request -> Step] /\ pay \in [Request -> Payment \cup {NoPayment}]
        /\ status \in [Payment -> {"none", "pending", "success", "failed"}]
        /\ \A q \in Request : at[q] = "found" => pay[q] # NoPayment
    BY DEF TypeOK
  <2> USE SubscriptionAssumption DEF PaidIsAccountedFor
  <2>1. ASSUME NEW q \in Request, Insert(q) \/ Renew(q) PROVE PaidIsAccountedFor'
    BY <2>1, <2>a DEF Insert, Renew, Paid
  <2>2. ASSUME NEW q \in Request,
               \/ \E p \in Payment : FindPayment(q, p)
               \/ \E pl \in Plan : OverrideUserPlan(q, pl)
        PROVE PaidIsAccountedFor'
    BY <2>2, <2>a DEF FindPayment, OverrideUserPlan, payVars
  <2>3. ASSUME NEW q \in Request, MarkPaid(q) PROVE PaidIsAccountedFor'
    BY <2>3, <2>a DEF MarkPaid
  <2>4. ASSUME NEW q \in Request,
               \/ FindActive(q) \/ LookUp(q) \/ CancelSubscription(q)
               \/ Invalidate(q) \/ InvalidateFails(q)
        PROVE PaidIsAccountedFor'
    BY <2>4, <2>a DEF FindActive, LookUp, CancelSubscription, Invalidate,
       InvalidateFails, payVars
  <2>5. ASSUME NEW p \in Payment,
               \/ \E pl \in Plan : SubscribeSSLCommerz(p, pl)
               \/ WebhookSSLCommerzFail(p)
        PROVE PaidIsAccountedFor'
    BY <2>5, <2>a DEF SubscribeSSLCommerz, WebhookSSLCommerzFail, askVars
  <2>6. ASSUME \/ SoftDeleteUser \/ ChangeRole \/ Expire
               \/ \E r \in Reader : Miss(r) \/ Load(r)
        PROVE PaidIsAccountedFor'
    BY <2>6 DEF SoftDeleteUser, ChangeRole, Expire, Miss, Load, LoadRole,
       LoadSubscription, SetSubscription, payVars, askVars
  <2>7. ASSUME Crash PROVE PaidIsAccountedFor'
    <3> SUFFICES ASSUME NEW p \in Payment, status'[p] = "success"
                 PROVE  p \in applied' \cup lost'
      BY <2>7 DEF Crash
    <3>1. CASE p \in applied \cup lost
      BY <2>7, <3>1 DEF Crash
    <3>2. CASE \E q \in Request : pay[q] = p /\ at[q] \in {"looking", "absent", "present"}
      <4>1. PICK q \in Request : pay[q] = p /\ at[q] \in {"looking", "absent", "present"}
        BY <3>2
      <4>2. p \in Paid(q)
        BY <4>1 DEF Paid
      <4> QED
        BY <2>7, <4>1, <4>2 DEF Crash
    <3> QED
      BY <2>7, <3>1, <3>2 DEF Crash
  <2>8. ASSUME UNCHANGED vars PROVE PaidIsAccountedFor'
    BY <2>8 DEF vars, payVars, askVars
  <2> HIDE DEF PaidIsAccountedFor
  <2>9. CASE Next
    BY <2>9, <2>1, <2>2, <2>3, <2>4, <2>5, <2>6, <2>7, Zenon DEF Next, Proceed
  <2> QED
    BY <2>8, <2>9
<1> QED
  BY <1>1, <1>2, TypeCorrect, PTL DEF Spec
=============================================================================
