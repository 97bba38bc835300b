---------------------------- MODULE InboxProofs ----------------------------
(***************************************************************************)
(* Proofs about Inbox, for any number of messages, comments, goroutines,   *)
(* repeated deliveries and crashes.  Each invariant needs more than the    *)
(* property says: what the goroutines between two statements are about     *)
(* to do.                                                                  *)
(***************************************************************************)
EXTENDS Inbox, FiniteSetTheorems, TLAPS

USE DEF rowVars, goVars, taskVars, seenVars, modeVars, boundVars

\* The goroutines that inserted the row of their event and have not come to
\* an end.
Owns(h, e) == ev[h] = e /\ at[h] \in {"saved", "asking"}

\* An event has one owner at most, it is saved, and nobody was asked yet.
OnceInv ==
    /\ AskedOnce
    /\ \A e \in Event : asked[e] > 0 => e \in saved /\ \A h \in Handler : ~Owns(h, e)
    /\ \A e \in Event : \A h \in Handler : Owns(h, e) => e \in saved
    /\ \A e \in Event : \A g, h \in Handler : Owns(g, e) /\ Owns(h, e) => g = h

\* Whoever saved an event still owns it, asked about it, or gave it up; so a
\* duplicate may leave it alone.
Done(e) == asked[e] > 0 \/ gone[e] # {}
Handled(e) == \E h \in Handler : ev[h] = e
Owned(e) == \E h \in Handler : Owns(h, e)
SettledInv ==
    /\ \A e \in saved : Done(e) \/ Owned(e)
    /\ \A e \in delivered : Done(e) \/ Handled(e)

\* A goroutine that has picked up message m for the AI.
PicksUp(h, m) == at[h] \in {"found", "saved", "asking"} /\ ev[h] = m /\ mode[h] = "ai"

\* In human mode no more messages are picked up.
AskingForAI == \A h \in Handler : at[h] = "asking" /\ ev[h] \in Message => mode[h] = "ai"
TakeoverInv ==
    /\ TakeoverIsRespected
    /\ conv = "human" => PickedUp \subseteq early
    /\ AskingForAI

\* The messages the seller has not fetched and that were counted as unread.
Hidden == {m \in saved \cap Message :
             m \notin seen /\ ~\E h \in Handler : ev[h] = m /\ at[h] = "saved"}

\* They can be counted, and are not more than the conversation says, unless
\* a seller is about to fetch them or a crash fell between two statements.
UnreadInv == IsFiniteSet(saved) /\ UnseenIsUnread

---------------------------------------------------------------------------
(* Goroutines *)

\* A goroutine that goes on keeps its event.
LEMMA GoOn ==
    ASSUME GoroutineOK, NEW h \in Handler, NEW s \in Step, at[h] # "idle",
           s # "idle", s \in OfMessage => ev[h] \in Message, Go(h, s)
    PROVE  GoroutineOK'
  BY DEF GoroutineOK, Go, Step, OfMessage

\* A goroutine that returns has none.
LEMMA Returns ==
    ASSUME GoroutineOK, NEW h \in Handler, Return(h)
    PROVE  GoroutineOK'
  BY InboxAssumption DEF GoroutineOK, Return, Step, OfMessage

\* A running goroutine has an event.
LEMMA Running ==
    ASSUME GoroutineOK, NEW h \in Handler, at[h] # "idle"
    PROVE  ev[h] \in Event /\ (at[h] \in OfMessage => ev[h] \in Message)
  BY DEF GoroutineOK

---------------------------------------------------------------------------
(* Type correctness *)

\* A bounded counter that has not reached its bound stays within it.
LEMMA CountUp ==
    ASSUME NEW max \in Nat, NEW n \in 0..max, n < max
    PROVE  n + 1 \in 0..max
  OBVIOUS

\* Every variable keeps its type.
LEMMA TypeInductive == TypeOK /\ [Next]_vars => TypeOK'
<1> SUFFICES ASSUME TypeOK PROVE [Next]_vars => TypeOK'
  OBVIOUS
<1> USE DEF TypeOK, Mode, Reason
<1>g. at' = at /\ ev' = ev => GoroutineOK'
  BY DEF GoroutineOK
<1>1. ASSUME NEW h \in Handler, NEW e \in Event, WebhookReceive(h, e) PROVE TypeOK'
  <2>1. GoroutineOK'
    BY <1>1, InboxAssumption DEF WebhookReceive, GoroutineOK, Step, OfMessage, Event
  <2>2. repeats' \in 0..MaxRepeats
    BY <1>1, CountUp, InboxAssumption DEF WebhookReceive
  <2> QED BY <1>1, <2>1, <2>2 DEF WebhookReceive
<1>2. ASSUME NEW h \in Handler, FindPage(h) PROVE TypeOK'
  <2>1. GoroutineOK'
    BY <1>2, GoOn, Returns DEF FindPage, Step, OfMessage
  <2>2. gone' \in [Event -> SUBSET Reason]
    BY <1>2, Running DEF FindPage, OfMessage
  <2> QED BY <1>2, <2>1, <2>2 DEF FindPage
<1>3. ASSUME NEW h \in Handler, FindConversation(h) PROVE TypeOK'
  <2>1. GoroutineOK'
    BY <1>3, Running, GoOn, Returns DEF FindConversation, Step, OfMessage
  <2> QED BY <1>3, <2>1, Running DEF FindConversation, OfMessage
<1>4. ASSUME NEW h \in Handler, CreateConversation(h) PROVE TypeOK'
  <2>1. GoroutineOK'
    BY <1>4, Running, GoOn, Returns DEF CreateConversation, Step, OfMessage
  <2> QED BY <1>4, <2>1, Running DEF CreateConversation, OfMessage
<1>5. ASSUME NEW h \in Handler, SaveMessage(h) PROVE TypeOK'
  <2>1. GoroutineOK'
    BY <1>5, Running, GoOn, Returns DEF SaveMessage, Step, OfMessage
  <2>2. saved' \in SUBSET Event
    BY <1>5, Running DEF SaveMessage, OfMessage, Event
  <2> QED BY <1>5, <2>1, <2>2 DEF SaveMessage
<1>6. ASSUME NEW h \in Handler, SaveRefused(h) PROVE TypeOK'
  <2>1. GoroutineOK'
    BY <1>6, GoOn, Returns DEF SaveRefused, Step, OfMessage
  <2> QED BY <1>6, <2>1, Running DEF SaveRefused, OfMessage
<1>7. ASSUME NEW h \in Handler, CountUnread(h) PROVE TypeOK'
  <2>1. GoroutineOK'
    BY <1>7, Running, GoOn, Returns DEF CountUnread, Step, OfMessage
  <2>2. gone' \in [Event -> SUBSET Reason]
    BY <1>7, Running DEF CountUnread, OfMessage
  <2>3. unread' \in Nat
    BY <1>7 DEF CountUnread
  <2> QED BY <1>7, <2>1, <2>2, <2>3 DEF CountUnread
<1>8. ASSUME NEW h \in Handler, SaveComment(h) PROVE TypeOK'
  <2>1. GoroutineOK'
    BY <1>8, GoOn, Returns DEF SaveComment, Step, OfMessage
  <2>2. saved' \in SUBSET Event
    BY <1>8, Running DEF SaveComment, OfMessage, Event
  <2> QED BY <1>8, <2>1, <2>2 DEF SaveComment
<1>9. ASSUME NEW h \in Handler, PublishTask(h) PROVE TypeOK'
  <2>1. GoroutineOK'
    BY <1>9, GoOn, Returns DEF PublishTask, Step, OfMessage
  <2>2. asked' \in [Event -> Nat] /\ queue' \in SUBSET Event
    BY <1>9, Running DEF PublishTask, OfMessage
  <2> QED BY <1>9, <2>1, <2>2 DEF PublishTask
<1>10. ASSUME NEW h \in Handler, PublishFails(h) PROVE TypeOK'
  <2>1. GoroutineOK'
    BY <1>10, GoOn, Returns DEF PublishFails, Step, OfMessage
  <2>2. faults' \in 0..MaxFaults
    BY <1>10, CountUp, InboxAssumption DEF PublishFails, Fault
  <2>3. gone' \in [Event -> SUBSET Reason]
    BY <1>10, Running DEF PublishFails
  <2> QED BY <1>10, <2>1, <2>2, <2>3 DEF PublishFails
<1>11. ASSUME NEW e \in Event, Answer(e) PROVE TypeOK'
  BY <1>11, <1>g DEF Answer
<1>12. ASSUME NEW m \in Mode, UpdateMode(m) PROVE TypeOK'
  <2>1. switches' \in 0..MaxSwitches
    BY <1>12, CountUp, InboxAssumption DEF UpdateMode, Switch
  <2>2. PickedUp \subseteq Message
    BY DEF PickedUp
  <2> QED BY <1>12, <1>g, <2>1, <2>2 DEF UpdateMode
<1>13. ASSUME NEW r \in Reader, MarkRead(r) PROVE TypeOK'
  BY <1>13, <1>g DEF MarkRead
<1>14. ASSUME NEW r \in Reader, FetchMessages(r) PROVE TypeOK'
  BY <1>14, <1>g DEF FetchMessages
<1>15. ASSUME DisconnectPage PROVE TypeOK'
  <2>1. switches' \in 0..MaxSwitches
    BY <1>15, CountUp, InboxAssumption DEF DisconnectPage, Switch
  <2> QED BY <1>15, <1>g, <2>1 DEF DisconnectPage
<1>16. ASSUME ConnectPage PROVE TypeOK'
  <2>1. switches' \in 0..MaxSwitches
    BY <1>16, CountUp, InboxAssumption DEF ConnectPage, Switch
  <2> QED BY <1>16, <1>g, <2>1 DEF ConnectPage
<1>17. ASSUME Crash PROVE TypeOK'
  <2>1. GoroutineOK'
    BY <1>17 DEF Crash, GoroutineOK, Step, OfMessage
  <2>2. faults' \in 0..MaxFaults
    BY <1>17, CountUp, InboxAssumption DEF Crash, Fault
  <2>3. gone' \in [Event -> SUBSET Reason]
    BY <1>17 DEF Crash
  <2>4. skipped' \in BOOLEAN
    BY <1>17 DEF Crash
  <2> QED BY <1>17, <2>1, <2>2, <2>3, <2>4 DEF Crash
<1>18. ASSUME UNCHANGED vars PROVE TypeOK'
  BY <1>18, <1>g DEF vars
<1> QED
  BY <1>1, <1>2, <1>3, <1>4, <1>5, <1>6, <1>7, <1>8, <1>9,
     <1>10, <1>11, <1>12, <1>13, <1>14, <1>15, <1>16, <1>17, <1>18
     DEF Next, HandleIncoming, GetMessages

\* The first state is typed.
LEMMA TypeInit == Init => TypeOK
<1> SUFFICES ASSUME Init PROVE TypeOK
  OBVIOUS
<1>1. GoroutineOK
  BY DEF Init, GoroutineOK, Step, OfMessage
<1>2. repeats \in 0..MaxRepeats /\ switches \in 0..MaxSwitches /\ faults \in 0..MaxFaults
  BY InboxAssumption DEF Init
<1> QED BY <1>1, <1>2 DEF Init, TypeOK, Mode

\* For any number of messages, goroutines and faults every variable of the
\* inbox keeps its type: a goroutine has an event exactly while it runs, and
\* only messages go through the conversation (messenger/handler.go:72-93).
THEOREM TypeCorrect == Spec => []TypeOK
  BY TypeInit, TypeInductive, PTL DEF Spec

---------------------------------------------------------------------------
(* AskedOnce *)

\* A step that inserts no row, asks nobody and makes no owner keeps OnceInv.
LEMMA OnceKept ==
    ASSUME OnceInv, asked' = asked, saved' = saved,
           \A h \in Handler, e \in Event : Owns(h, e)' => Owns(h, e)
    PROVE  OnceInv'
  BY DEF OnceInv, AskedOnce

\* Inserting the row of an event that had none makes its first owner.
LEMMA OnceSaved ==
    ASSUME TypeOK, OnceInv, NEW h \in Handler, NEW s \in {"saved", "asking"},
           ev[h] \in Event, ev[h] \notin saved, saved' = saved \cup {ev[h]},
           Go(h, s), asked' = asked
    PROVE  OnceInv'
<1>1. \A g \in Handler : ~Owns(g, ev[h])
  BY DEF OnceInv
<1>2. asked[ev[h]] = 0
  BY DEF OnceInv, TypeOK
<1>3. \A g \in Handler, e \in Event :
        Owns(g, e)' => Owns(g, e) \/ (g = h /\ e = ev[h])
  BY DEF Go, Owns, TypeOK, GoroutineOK
<1> QED
  BY <1>1, <1>2, <1>3 DEF OnceInv, AskedOnce

\* Asking takes the only owner of an event nobody was asked about.
LEMMA OnceAsked ==
    ASSUME TypeOK, OnceInv, NEW h \in Handler, PublishTask(h)
    PROVE  OnceInv'
<1>1. ev[h] \in Event /\ Owns(h, ev[h])
  BY Running DEF PublishTask, Owns, TypeOK
<1>2. asked[ev[h]] = 0 /\ ev[h] \in saved
  BY <1>1 DEF OnceInv, TypeOK
<1>3. \A g \in Handler, e \in Event : Owns(g, e)' => Owns(g, e) /\ g # h
  BY InboxAssumption DEF PublishTask, Return, Owns, TypeOK, GoroutineOK
<1>4. \A g \in Handler, e \in Event : e = ev[h] => ~Owns(g, e)'
  BY <1>1, <1>3 DEF OnceInv
<1>5. saved' = saved /\ asked' = [asked EXCEPT ![ev[h]] = 1]
  BY <1>2 DEF PublishTask
<1> QED
  BY <1>1, <1>2, <1>3, <1>4, <1>5 DEF OnceInv, AskedOnce, TypeOK

\* Every step keeps OnceInv.
LEMMA OnceInductive == TypeOK /\ OnceInv /\ [Next]_vars => OnceInv'
<1> SUFFICES ASSUME TypeOK, OnceInv PROVE [Next]_vars => OnceInv'
  OBVIOUS
<1> DEFINE Kept == \A h \in Handler, e \in Event : Owns(h, e)' => Owns(h, e)
<1>a. ASSUME NEW h \in Handler, NEW s \in Step \ {"saved", "asking"}, Go(h, s) PROVE Kept
  BY <1>a DEF Go, Owns, TypeOK, GoroutineOK
<1>b. ASSUME NEW h \in Handler, Return(h) PROVE Kept
  BY <1>b DEF Return, Owns, TypeOK, GoroutineOK
<1>c. at' = at /\ ev' = ev => Kept
  BY DEF Owns
<1>1. ASSUME NEW h \in Handler, NEW e \in Event, WebhookReceive(h, e) PROVE OnceInv'
  <2>1. Kept
    BY <1>1 DEF WebhookReceive, Owns, TypeOK, GoroutineOK
  <2> QED BY <1>1, <2>1, OnceKept DEF WebhookReceive
<1>2. ASSUME NEW h \in Handler, FindPage(h) PROVE OnceInv'
  <2>1. Kept
    BY <1>2, <1>a, <1>b DEF FindPage, Step
  <2> QED BY <1>2, <2>1, OnceKept DEF FindPage
<1>3. ASSUME NEW h \in Handler, FindConversation(h) PROVE OnceInv'
  <2>1. Kept
    BY <1>3, <1>a DEF FindConversation, Step
  <2> QED BY <1>3, <2>1, OnceKept DEF FindConversation
<1>4. ASSUME NEW h \in Handler, CreateConversation(h) PROVE OnceInv'
  <2>1. Kept
    BY <1>4, <1>a DEF CreateConversation, Step
  <2> QED BY <1>4, <2>1, OnceKept DEF CreateConversation
<1>5. ASSUME NEW h \in Handler, SaveMessage(h) PROVE OnceInv'
  <2>1. CASE ev[h] \in saved
    <3>1. Kept
      BY <1>5, <2>1, <1>b DEF SaveMessage
    <3> QED BY <1>5, <2>1, <3>1, OnceKept DEF SaveMessage
  <2>2. CASE ev[h] \notin saved
    <3>1. ev[h] \in Event
      BY <1>5, Running DEF SaveMessage, TypeOK
    <3> QED BY <1>5, <2>2, <3>1, OnceSaved DEF SaveMessage
  <2> QED BY <2>1, <2>2
<1>6. ASSUME NEW h \in Handler, SaveRefused(h) PROVE OnceInv'
  BY <1>6, <1>b, OnceKept DEF SaveRefused
<1>7. ASSUME NEW h \in Handler, CountUnread(h) PROVE OnceInv'
  <2>1. Kept
    BY <1>7, <1>b DEF CountUnread, Go, Owns, TypeOK, GoroutineOK
  <2> QED BY <1>7, <2>1, OnceKept DEF CountUnread
<1>8. ASSUME NEW h \in Handler, SaveComment(h) PROVE OnceInv'
  <2>1. CASE ev[h] \in saved
    <3>1. Kept
      BY <1>8, <2>1, <1>b DEF SaveComment
    <3> QED BY <1>8, <2>1, <3>1, OnceKept DEF SaveComment
  <2>2. CASE ev[h] \notin saved
    <3>1. ev[h] \in Event
      BY <1>8 DEF SaveComment, Event
    <3> QED BY <1>8, <2>2, <3>1, OnceSaved DEF SaveComment
  <2> QED BY <2>1, <2>2
<1>9. ASSUME NEW h \in Handler, PublishTask(h) PROVE OnceInv'
  BY <1>9, OnceAsked
<1>10. ASSUME NEW h \in Handler, PublishFails(h) PROVE OnceInv'
  BY <1>10, <1>b, OnceKept DEF PublishFails
<1>11. ASSUME NEW e \in Event, Answer(e) PROVE OnceInv'
  BY <1>11, <1>c, OnceKept DEF Answer
<1>12. ASSUME NEW m \in Mode, UpdateMode(m) PROVE OnceInv'
  BY <1>12, <1>c, OnceKept DEF UpdateMode
<1>13. ASSUME NEW r \in Reader, GetMessages(r) PROVE OnceInv'
  BY <1>13, <1>c, OnceKept DEF GetMessages, MarkRead, FetchMessages
<1>14. ASSUME DisconnectPage \/ ConnectPage \/ UNCHANGED vars PROVE OnceInv'
  BY <1>14, <1>c, OnceKept DEF DisconnectPage, ConnectPage, vars
<1>15. ASSUME Crash PROVE OnceInv'
  <2>1. Kept
    BY <1>15 DEF Crash, Owns
  <2> QED BY <1>15, <2>1, OnceKept DEF Crash
<1> QED
  BY <1>1, <1>2, <1>3, <1>4, <1>5, <1>6, <1>7, <1>8, <1>9, <1>10, <1>11, <1>12,
     <1>13, <1>14, <1>15 DEF Next, HandleIncoming

\* However often Meta repeats its deliveries and however many goroutines
\* handle them at the same time, an agent is asked about a message or comment
\* once: inserting the row under its unique id (messenger/handler.go:172, 361)
\* makes one goroutine its owner, and only the owner publishes.
THEOREM AskedOnceHolds == Spec => []AskedOnce
<1>1. Init => TypeOK /\ OnceInv
  <2>1. Init => OnceInv
    BY DEF Init, OnceInv, AskedOnce, Owns
  <2> QED BY <2>1, TypeInit
<1>2. OnceInv => AskedOnce
  BY DEF OnceInv
<1> QED
  BY <1>1, <1>2, TypeInductive, OnceInductive, PTL DEF Spec

---------------------------------------------------------------------------
(* EveryEventIsSettled *)

\* What a step must not lose: nothing done is undone, what is saved or
\* delivered now has a goroutine, and a goroutine lets go only of what is done
\* or, unless it owns it, of what another one has.
LEMMA SettledKept ==
    ASSUME SettledInv,
           \A e \in saved' : e \in saved \/ Owned(e)',
           \A e \in delivered' : e \in delivered \/ Handled(e)',
           \A e \in saved : Done(e) => Done(e)',
           \A e \in delivered : Done(e) => Done(e)',
           \A e \in saved : Owned(e) => Owned(e)' \/ Done(e)',
           \A e \in delivered : Handled(e) => Handled(e)' \/ Done(e)'
    PROVE  SettledInv'
  BY DEF SettledInv

\* A goroutine that goes on keeps what it has.
LEMMA SettledOn ==
    ASSUME TypeOK, SettledInv, NEW h \in Handler, NEW s \in Step, Go(h, s),
           at[h] = "saved" => s = "asking", at[h] # "asking",
           saved' = saved \/ (s \in {"saved", "asking"} /\ saved' = saved \cup {ev[h]}),
           delivered' = delivered, asked' = asked, gone' = gone
    PROVE  SettledInv'
<1>1. \A e \in Event : Done(e) <=> Done(e)'
  BY DEF Done
<1>2. \A g \in Handler, e \in Event : Owns(g, e) => Owns(g, e)'
  BY DEF Go, Owns, TypeOK, GoroutineOK
<1>3. \A e : Handled(e) => Handled(e)'
  BY DEF Go, Handled
<1>4. s \in {"saved", "asking"} => \A e : e = ev[h] => Owned(e)'
  BY DEF Go, Owned, Owns, TypeOK, GoroutineOK
<1>5. saved \subseteq Event /\ delivered \subseteq Event
  BY DEF TypeOK
<1>6. \A e \in saved : Owned(e) => Owned(e)'
  BY <1>2, <1>5 DEF Owned
<1> QED
  BY <1>1, <1>3, <1>4, <1>5, <1>6, SettledKept

\* A goroutine may end when its event is done, or when it does not own it and
\* the row is there.
LEMMA SettledReturn ==
    ASSUME TypeOK, SettledInv, NEW h \in Handler, at[h] # "idle", Return(h),
           \A e \in Event : Done(e) => Done(e)',
           \A e : e = ev[h] => Done(e)' \/ (e \in saved /\ ~Owns(h, e)),
           saved' = saved, delivered' = delivered
    PROVE  SettledInv'
<1>1. saved \subseteq Event /\ delivered \subseteq Event /\ ev[h] \in Event
  BY Running DEF TypeOK
<1>2. \A g \in Handler, e \in Event : Owns(g, e) => Owns(g, e)' \/ g = h
  BY DEF Return, Owns, TypeOK, GoroutineOK
<1>3. \A e \in saved : Owned(e) => Owned(e)' \/ Done(e)'
  <2> SUFFICES ASSUME NEW e \in saved, NEW g \in Handler, Owns(g, e)
               PROVE  Owned(e)' \/ Done(e)'
    BY DEF Owned
  <2>1. CASE g # h
    BY <2>1, <1>1, <1>2 DEF Owned
  <2>2. CASE g = h
    BY <2>2 DEF Owns
  <2> QED BY <2>1, <2>2
<1>4. \A e \in delivered : Handled(e) => Handled(e)' \/ Done(e)'
  <2> SUFFICES ASSUME NEW e \in delivered, NEW g \in Handler, ev[g] = e
               PROVE  Handled(e)' \/ Done(e)'
    BY DEF Handled
  <2>1. CASE g # h
    BY <2>1 DEF Handled, Return, TypeOK, GoroutineOK
  <2>2. CASE g = h /\ e \in saved /\ ~Owns(h, e)
    <3>1. CASE Done(e)
      BY <3>1, <1>1
    <3>2. CASE Owned(e)
      <4>1. PICK k \in Handler : Owns(k, e)
        BY <3>2 DEF Owned
      <4>2. k # h
        BY <4>1, <2>2
      <4> QED BY <4>1, <4>2 DEF Owns, Handled, Return, TypeOK, GoroutineOK
    <3> QED BY <3>1, <3>2, <2>2 DEF SettledInv
  <2> QED BY <2>1, <2>2
<1> QED
  BY <1>1, <1>3, <1>4, SettledKept

\* A step outside the goroutines.
LEMMA SettledElsewhere ==
    ASSUME TypeOK, SettledInv, at' = at, ev' = ev, asked' = asked, gone' = gone,
           saved' = saved, delivered' = delivered
    PROVE  SettledInv'
  BY SettledKept DEF Done, Owned, Owns, Handled

\* Every step keeps SettledInv.
LEMMA SettledInductive == TypeOK /\ SettledInv /\ [Next]_vars => SettledInv'
<1> SUFFICES ASSUME TypeOK, SettledInv PROVE [Next]_vars => SettledInv'
  OBVIOUS
<1>a. ASSUME NEW h \in Handler, NEW why, at[h] # "idle", gone' = [gone EXCEPT ![ev[h]] = @ \cup {why}],
             asked' = asked
      PROVE  /\ \A e \in Event : Done(e) => Done(e)'
             /\ \A e : e = ev[h] => Done(e)'
  BY <1>a, Running DEF Done, TypeOK
<1>b. asked' = asked /\ gone' = gone => \A e \in Event : Done(e) => Done(e)'
  BY DEF Done
<1>1. ASSUME NEW h \in Handler, NEW e \in Event, WebhookReceive(h, e) PROVE SettledInv'
  <2>1. \A g \in Handler : g # h => at'[g] = at[g] /\ ev'[g] = ev[g]
    BY <1>1 DEF WebhookReceive, TypeOK, GoroutineOK
  <2>2. ev[h] = NoEvent /\ at[h] = "idle" /\ ev'[h] = e
    BY <1>1 DEF WebhookReceive, TypeOK, GoroutineOK
  <2>3. \A d \in Event : Owned(d) => Owned(d)'
    BY <2>1, <2>2 DEF Owned, Owns
  <2>4. \A d \in Event : Handled(d) => Handled(d)'
    BY <2>1, <2>2, InboxAssumption DEF Handled
  <2>5. Handled(e)'
    BY <1>1, <2>2 DEF Handled, WebhookReceive
  <2> QED
    BY <1>1, <1>b, <2>3, <2>4, <2>5, SettledKept DEF WebhookReceive, TypeOK
<1>2. ASSUME NEW h \in Handler, FindPage(h) PROVE SettledInv'
  <2>1. CASE connected
    BY <1>2, <2>1, SettledOn DEF FindPage, Step
  <2>2. CASE ~connected
    BY <1>2, <2>2, <1>a, SettledReturn DEF FindPage
  <2> QED BY <2>1, <2>2
<1>3. ASSUME NEW h \in Handler, FindConversation(h) PROVE SettledInv'
  BY <1>3, SettledOn DEF FindConversation, Step
<1>4. ASSUME NEW h \in Handler, CreateConversation(h) PROVE SettledInv'
  BY <1>4, SettledOn DEF CreateConversation, Step
<1>5. ASSUME NEW h \in Handler, SaveMessage(h) PROVE SettledInv'
  <2>1. CASE ev[h] \in saved
    BY <1>5, <2>1, <1>b, SettledReturn DEF SaveMessage, Owns
  <2>2. CASE ev[h] \notin saved
    BY <1>5, <2>2, SettledOn DEF SaveMessage, Step
  <2> QED BY <2>1, <2>2
<1>6. ASSUME NEW h \in Handler, SaveRefused(h) PROVE SettledInv'
  BY <1>6, <1>a, SettledReturn DEF SaveRefused
<1>7. ASSUME NEW h \in Handler, CountUnread(h) PROVE SettledInv'
  <2>1. CASE mode[h] = "ai"
    BY <1>7, <2>1, SettledOn DEF CountUnread, Step
  <2>2. CASE mode[h] # "ai"
    BY <1>7, <2>2, <1>a, SettledReturn DEF CountUnread
  <2> QED BY <2>1, <2>2
<1>8. ASSUME NEW h \in Handler, SaveComment(h) PROVE SettledInv'
  <2>1. CASE ev[h] \in saved
    BY <1>8, <2>1, <1>b, SettledReturn DEF SaveComment, Owns
  <2>2. CASE ev[h] \notin saved
    BY <1>8, <2>2, SettledOn DEF SaveComment, Step
  <2> QED BY <2>1, <2>2
<1>9. ASSUME NEW h \in Handler, PublishTask(h) PROVE SettledInv'
  <2>1. ev[h] \in Event
    BY <1>9, Running DEF PublishTask, TypeOK
  <2>2. \A e \in Event : Done(e) => Done(e)'
    BY <1>9, <2>1 DEF PublishTask, Done, TypeOK
  <2>3. \A e : e = ev[h] => Done(e)'
    BY <1>9, <2>1 DEF PublishTask, Done, TypeOK
  <2> QED BY <1>9, <2>2, <2>3, SettledReturn DEF PublishTask
<1>10. ASSUME NEW h \in Handler, PublishFails(h) PROVE SettledInv'
  BY <1>10, <1>a, SettledReturn DEF PublishFails
<1>11. ASSUME NEW e \in Event, Answer(e) PROVE SettledInv'
  BY <1>11, SettledElsewhere DEF Answer
<1>12. ASSUME NEW m \in Mode, UpdateMode(m) PROVE SettledInv'
  BY <1>12, SettledElsewhere DEF UpdateMode
<1>13. ASSUME NEW r \in Reader, GetMessages(r) PROVE SettledInv'
  BY <1>13, SettledElsewhere DEF GetMessages, MarkRead, FetchMessages
<1>14. ASSUME DisconnectPage \/ ConnectPage \/ UNCHANGED vars PROVE SettledInv'
  BY <1>14, SettledElsewhere DEF DisconnectPage, ConnectPage, vars
<1>15. ASSUME Crash PROVE SettledInv'
  <2>1. \A e \in Event : Done(e) => Done(e)'
    BY <1>15 DEF Crash, Done
  <2>2. \A e \in Event : Handled(e) => Done(e)'
    BY <1>15 DEF Crash, Done, Handled
  <2>3. \A e \in Event : Owned(e) => Done(e)'
    BY <2>2 DEF Owned, Owns, Handled
  <2> QED BY <1>15, <2>1, <2>2, <2>3, SettledKept DEF Crash, TypeOK
<1> QED
  BY <1>1, <1>2, <1>3, <1>4, <1>5, <1>6, <1>7, <1>8, <1>9, <1>10, <1>11, <1>12,
     <1>13, <1>14, <1>15 DEF Next, HandleIncoming

\* No event that Meta was answered 200 for disappears without one of the
\* reasons the code has: the goroutine that drops a duplicate
\* (messenger/handler.go:172, 361) relies on the one that saved the row, which
\* goes on to publish, or gives up for a reason of its own.
THEOREM EveryEventIsSettledHolds == Spec => []EveryEventIsSettled
<1>1. Init => TypeOK /\ SettledInv
  <2>1. Init => SettledInv
    BY DEF Init, SettledInv
  <2> QED BY <2>1, TypeInit
<1>2. SettledInv => EveryEventIsSettled
  BY DEF SettledInv, EveryEventIsSettled, Done, Handled
<1> QED
  BY <1>1, <1>2, TypeInductive, SettledInductive, PTL DEF Spec

---------------------------------------------------------------------------
(* TakeoverIsRespected *)

\* What is picked up, goroutine by goroutine.
LEMMA PickedUpIs ==
    PickedUp = {m \in Message : m \in queue \/ \E h \in Handler : PicksUp(h, m)}
  BY DEF PickedUp, PicksUp

\* A step of the goroutines after which the AI has no more messages than
\* before, if the seller had taken over.
LEMMA TakeoverKept ==
    ASSUME TakeoverInv, early' = early, intruded' = intruded,
           conv' = conv \/ conv' = "ai", AskingForAI',
           conv' = "human" =>
               \A m \in Message :
                 m \in queue' \/ (\E h \in Handler : PicksUp(h, m)') => m \in PickedUp
    PROVE  TakeoverInv'
<1>1. PickedUp' = {m \in Message : m \in queue' \/ \E h \in Handler : PicksUp(h, m)'}
  BY DEF PickedUp, PicksUp
<1>2. conv' = "human" => PickedUp' \subseteq PickedUp
  BY <1>1
<1> QED
  BY <1>2 DEF TakeoverInv, TakeoverIsRespected

\* Every step keeps TakeoverInv.
LEMMA TakeoverInductive == TypeOK /\ TakeoverInv /\ [Next]_vars => TakeoverInv'
<1> SUFFICES ASSUME TypeOK, TakeoverInv PROVE [Next]_vars => TakeoverInv'
  OBVIOUS
<1> DEFINE Fewer == \A h \in Handler, m \in Message : PicksUp(h, m)' => PicksUp(h, m)
           Kept == AskingForAI' /\ Fewer
<1>a. ASSUME queue' \subseteq queue, Kept, early' = early, intruded' = intruded,
             conv' = conv \/ conv' = "ai"
      PROVE  TakeoverInv'
  BY <1>a, TakeoverKept, PickedUpIs
<1>b. ASSUME NEW h \in Handler, NEW s \in Step, Go(h, s), mode' = mode,
             s \in {"saved", "asking"} => at[h] \in {"found", "saved"} \/ ev[h] \notin Message,
             s # "found", s = "asking" => mode[h] = "ai" \/ ev[h] \notin Message
      PROVE  Kept
  BY <1>b DEF Go, PicksUp, AskingForAI, TakeoverInv, TypeOK, GoroutineOK
<1>c. ASSUME NEW h \in Handler, Return(h), mode' = mode PROVE Kept
  BY <1>c DEF Return, PicksUp, AskingForAI, TakeoverInv, TypeOK, GoroutineOK
<1>d. at' = at /\ ev' = ev /\ mode' = mode => Kept
  BY DEF PicksUp, AskingForAI, TakeoverInv
<1>1. ASSUME NEW h \in Handler, NEW e \in Event, WebhookReceive(h, e) PROVE TakeoverInv'
  <2>1. Kept
    BY <1>1 DEF WebhookReceive, PicksUp, AskingForAI, TakeoverInv, TypeOK, GoroutineOK
  <2> QED BY <1>1, <2>1, <1>a DEF WebhookReceive
<1>2. ASSUME NEW h \in Handler, FindPage(h) PROVE TakeoverInv'
  <2>1. Kept
    BY <1>2, <1>b, <1>c DEF FindPage, Step
  <2> QED BY <1>2, <2>1, <1>a DEF FindPage
<1>3. ASSUME NEW h \in Handler, FindConversation(h) PROVE TakeoverInv'
  <2>1. AskingForAI'
    BY <1>3 DEF FindConversation, Go, AskingForAI, TakeoverInv, TypeOK, GoroutineOK
  <2>2. conv = "human" => Fewer
    BY <1>3 DEF FindConversation, Go, PicksUp, TypeOK, GoroutineOK
  <2> QED BY <1>3, <2>1, <2>2, TakeoverKept, PickedUpIs DEF FindConversation
<1>4. ASSUME NEW h \in Handler, CreateConversation(h) PROVE TakeoverInv'
  <2>1. AskingForAI'
    BY <1>4 DEF CreateConversation, Go, AskingForAI, TakeoverInv, TypeOK, GoroutineOK
  <2>2. conv # "none" => Fewer
    BY <1>4 DEF CreateConversation, Go, PicksUp, TypeOK, GoroutineOK
  <2> QED BY <1>4, <2>1, <2>2, TakeoverKept, PickedUpIs DEF CreateConversation
<1>5. ASSUME NEW h \in Handler, SaveMessage(h) PROVE TakeoverInv'
  <2>1. Kept
    BY <1>5, <1>b, <1>c DEF SaveMessage, Step
  <2> QED BY <1>5, <2>1, <1>a DEF SaveMessage
<1>6. ASSUME NEW h \in Handler, SaveRefused(h) PROVE TakeoverInv'
  BY <1>6, <1>a, <1>c DEF SaveRefused
<1>7. ASSUME NEW h \in Handler, CountUnread(h) PROVE TakeoverInv'
  <2>1. Kept
    BY <1>7, <1>b, <1>c DEF CountUnread, Step
  <2> QED BY <1>7, <2>1, <1>a DEF CountUnread
<1>8. ASSUME NEW h \in Handler, SaveComment(h) PROVE TakeoverInv'
  <2>1. ev[h] \notin Message
    BY <1>8, InboxAssumption DEF SaveComment
  <2>2. Kept
    BY <1>8, <2>1, <1>b, <1>c DEF SaveComment, Step
  <2> QED BY <1>8, <2>2, <1>a DEF SaveComment
<1>9. ASSUME NEW h \in Handler, PublishTask(h) PROVE TakeoverInv'
  <2>1. Kept
    BY <1>9, <1>c DEF PublishTask
  <2>2. ev[h] \in Message => PicksUp(h, ev[h])
    BY <1>9 DEF PublishTask, PicksUp, TakeoverInv, AskingForAI
  <2>3. \A m \in Message : m \in queue' => m \in PickedUp
    BY <1>9, <2>2, PickedUpIs DEF PublishTask
  <2> QED BY <1>9, <2>1, <2>3, TakeoverKept, PickedUpIs DEF PublishTask
<1>10. ASSUME NEW h \in Handler, PublishFails(h) PROVE TakeoverInv'
  BY <1>10, <1>a, <1>c DEF PublishFails
<1>11. ASSUME NEW e \in Event, Answer(e) PROVE TakeoverInv'
  <2>1. PickedUp' \subseteq PickedUp
    BY <1>11 DEF Answer, PickedUp
  <2>2. intruded' \subseteq early
    BY <1>11, PickedUpIs DEF Answer, TakeoverInv, TakeoverIsRespected
  <2> QED
    BY <1>11, <2>1, <2>2, <1>d DEF Answer, TakeoverInv, TakeoverIsRespected
<1>12. ASSUME NEW m \in Mode, UpdateMode(m) PROVE TakeoverInv'
  <2>1. PickedUp' = PickedUp
    BY <1>12 DEF UpdateMode, PickedUp
  <2> QED
    BY <1>12, <2>1, <1>d DEF UpdateMode, TakeoverInv, TakeoverIsRespected
<1>13. ASSUME NEW r \in Reader, GetMessages(r) PROVE TakeoverInv'
  BY <1>13, <1>a, <1>d DEF GetMessages, MarkRead, FetchMessages
<1>14. ASSUME DisconnectPage \/ ConnectPage \/ UNCHANGED vars PROVE TakeoverInv'
  BY <1>14, <1>a, <1>d DEF DisconnectPage, ConnectPage, vars
<1>15. ASSUME Crash PROVE TakeoverInv'
  <2>1. Kept
    BY <1>15 DEF Crash, PicksUp, AskingForAI
  <2> QED BY <1>15, <2>1, <1>a DEF Crash
<1> QED
  BY <1>1, <1>2, <1>3, <1>4, <1>5, <1>6, <1>7, <1>8, <1>9, <1>10, <1>11, <1>12,
     <1>13, <1>14, <1>15 DEF Next, HandleIncoming

\* Once the seller has switched the conversation to human, the AI answers no
\* message but those whose goroutine had loaded the old mode, or whose task was
\* published, before the switch (messenger/handler.go:112 and 195).
THEOREM TakeoverIsRespectedHolds == Spec => []TakeoverIsRespected
<1>1. Init => TypeOK /\ TakeoverInv
  <2>1. Init => TakeoverInv
    BY DEF Init, TakeoverInv, TakeoverIsRespected, AskingForAI
  <2> QED BY <2>1, TypeInit
<1>2. TakeoverInv => TakeoverIsRespected
  BY DEF TakeoverInv
<1> QED
  BY <1>1, <1>2, TypeInductive, TakeoverInductive, PTL DEF Spec


---------------------------------------------------------------------------
(* UnseenIsUnread *)

\* A step that hides no message and takes none from the count keeps UnreadInv.
LEMMA UnreadKept ==
    ASSUME UnreadInv, unread \in Nat, unread' \in Nat, unread <= unread',
           Hidden' \subseteq Hidden, IsFiniteSet(saved'),
           reading' = {} /\ ~skipped' => reading = {} /\ ~skipped
    PROVE  UnreadInv'
<1>1. IsFiniteSet(Hidden)
  BY FS_Subset DEF Hidden, UnreadInv
<1>2. /\ Cardinality(Hidden') <= Cardinality(Hidden)
      /\ Cardinality(Hidden') \in Nat /\ Cardinality(Hidden) \in Nat
  BY <1>1, FS_Subset, FS_CardinalityType
<1>3. reading = {} /\ ~skipped => Cardinality(Hidden) <= unread
  BY DEF UnreadInv, UnseenIsUnread, Hidden
<1>4. reading' = {} /\ ~skipped' => Cardinality(Hidden') <= unread'
  BY <1>2, <1>3
<1> QED BY <1>4 DEF UnreadInv, UnseenIsUnread, Hidden

\* A message that is counted may be hidden from then on.
LEMMA UnreadCounted ==
    ASSUME TypeOK, UnreadInv, NEW h \in Handler, CountUnread(h)
    PROVE  UnreadInv'
<1>1. /\ unread \in Nat /\ unread' = unread + 1
      /\ UNCHANGED <<saved, seen, reading, skipped>>
  BY DEF CountUnread, TypeOK
<1>2. Hidden' \subseteq Hidden \cup {ev[h]}
  BY <1>1 DEF CountUnread, Go, Return, Hidden, TypeOK, GoroutineOK
<1>3. IsFiniteSet(Hidden)
  BY FS_Subset DEF Hidden, UnreadInv
<1>4. Cardinality(Hidden) \in Nat
  BY <1>3, FS_CardinalityType
<1>5. /\ IsFiniteSet(Hidden \cup {ev[h]})
      /\ Cardinality(Hidden \cup {ev[h]}) <= Cardinality(Hidden) + 1
  BY <1>3, <1>4, FS_AddElement
<1>6. Cardinality(Hidden') <= Cardinality(Hidden) + 1
  <2>1. Cardinality(Hidden') <= Cardinality(Hidden \cup {ev[h]})
        /\ Cardinality(Hidden') \in Nat /\ Cardinality(Hidden \cup {ev[h]}) \in Nat
    BY <1>2, <1>5, FS_Subset, FS_CardinalityType
  <2> QED BY <2>1, <1>4, <1>5
<1>7. reading = {} /\ ~skipped => Cardinality(Hidden) <= unread
  BY DEF UnreadInv, UnseenIsUnread, Hidden
<1>8. Cardinality(Hidden') \in Nat
  BY <1>2, <1>5, FS_Subset, FS_CardinalityType
<1>9. reading' = {} /\ ~skipped' => Cardinality(Hidden') <= unread'
  BY <1>1, <1>4, <1>6, <1>7, <1>8
<1> QED BY <1>1, <1>9 DEF UnreadInv, UnseenIsUnread, Hidden

\* The seller who fetches the messages has seen them all.
LEMMA UnreadFetched ==
    ASSUME TypeOK, UnreadInv, NEW r \in Reader, FetchMessages(r)
    PROVE  UnreadInv'
<1>1. Hidden' = {} /\ saved' = saved /\ unread' \in Nat
  BY DEF FetchMessages, Hidden, TypeOK
<1>2. Cardinality(Hidden') = 0
  BY <1>1, FS_EmptySet
<1>3. Cardinality(Hidden') <= unread'
  BY <1>1, <1>2
<1> QED BY <1>1, <1>3 DEF UnreadInv, UnseenIsUnread, Hidden

\* Every step keeps UnreadInv.
LEMMA UnreadInductive == TypeOK /\ UnreadInv /\ [Next]_vars => UnreadInv'
<1> SUFFICES ASSUME TypeOK, UnreadInv PROVE [Next]_vars => UnreadInv'
  OBVIOUS
<1>n. unread \in Nat /\ IsFiniteSet(saved) /\ \A e : IsFiniteSet(saved \cup {e})
  BY FS_AddElement DEF TypeOK, UnreadInv
<1> DEFINE Quiet == UNCHANGED <<unread, seen, reading, skipped>>
<1>a. ASSUME Quiet, UNCHANGED <<saved, ev>>,
             \A h \in Handler : at[h] = "saved" => at'[h] = "saved"
      PROVE  UnreadInv'
  <2>1. Hidden' \subseteq Hidden
    BY <1>a DEF Hidden
  <2> QED BY <1>a, <2>1, <1>n, UnreadKept
<1>b. ASSUME NEW h \in Handler, Quiet, saved' = saved, at[h] # "saved", Return(h)
      PROVE  UnreadInv'
  <2>1. Hidden' \subseteq Hidden
    BY <1>b DEF Hidden, Return, TypeOK, GoroutineOK
  <2> QED BY <1>b, <2>1, <1>n, UnreadKept
<1>1. ASSUME NEW h \in Handler, NEW e \in Event, WebhookReceive(h, e) PROVE UnreadInv'
  <2>1. Hidden' \subseteq Hidden
    BY <1>1 DEF WebhookReceive, Hidden, TypeOK, GoroutineOK
  <2> QED BY <1>1, <2>1, <1>n, UnreadKept DEF WebhookReceive
<1>2. ASSUME NEW h \in Handler, FindPage(h) \/ SaveRefused(h) \/ PublishTask(h) \/ PublishFails(h)
      PROVE  UnreadInv'
  <2>1. Quiet /\ saved' = saved /\ at[h] # "saved"
    BY <1>2 DEF FindPage, SaveRefused, PublishTask, PublishFails
  <2>2. Return(h) \/ Go(h, "paged")
    BY <1>2 DEF FindPage, SaveRefused, PublishTask, PublishFails
  <2>3. CASE Go(h, "paged")
    BY <2>1, <2>3, <1>a DEF Go, TypeOK, GoroutineOK
  <2> QED BY <2>1, <2>2, <2>3, <1>b
<1>3. ASSUME NEW h \in Handler, FindConversation(h) \/ CreateConversation(h) PROVE UnreadInv'
  <2>1. Quiet /\ UNCHANGED <<saved, ev>> /\ at[h] # "saved"
        /\ \E s \in Step : at' = [at EXCEPT ![h] = s]
    BY <1>3 DEF FindConversation, CreateConversation, Go, Step
  <2> QED BY <2>1, <1>a DEF TypeOK, GoroutineOK
<1>4. ASSUME NEW h \in Handler, SaveMessage(h) \/ SaveComment(h) PROVE UnreadInv'
  <2>1. Quiet /\ at[h] # "saved"
    BY <1>4 DEF SaveMessage, SaveComment
  <2>2. CASE ev[h] \in saved
    BY <1>4, <2>1, <2>2, <1>b DEF SaveMessage, SaveComment
  <2>3. CASE ev[h] \notin saved
    <3>1. saved' = saved \cup {ev[h]} /\ ev' = ev
          /\ \A g \in Handler : at[g] = "saved" => at'[g] = "saved"
      BY <1>4, <2>1, <2>3 DEF SaveMessage, SaveComment, Go, TypeOK, GoroutineOK
    <3>2. ev[h] \in Message => at'[h] = "saved"
      BY <1>4, <2>3, InboxAssumption
         DEF SaveMessage, SaveComment, Go, TypeOK, GoroutineOK
    <3>3. Hidden' \subseteq Hidden
      BY <2>1, <3>1, <3>2 DEF Hidden
    <3> QED BY <2>1, <3>1, <3>3, <1>n, UnreadKept
  <2> QED BY <2>2, <2>3
<1>5. ASSUME NEW h \in Handler, CountUnread(h) PROVE UnreadInv'
  BY <1>5, UnreadCounted
<1>6. ASSUME NEW e \in Event, Answer(e) PROVE UnreadInv'
  BY <1>6, <1>a DEF Answer
<1>7. ASSUME NEW m \in Mode, UpdateMode(m) PROVE UnreadInv'
  BY <1>7, <1>a DEF UpdateMode
<1>8. ASSUME NEW r \in Reader, MarkRead(r) PROVE UnreadInv'
  BY <1>8, <1>n DEF MarkRead, UnreadInv, UnseenIsUnread
<1>9. ASSUME NEW r \in Reader, FetchMessages(r) PROVE UnreadInv'
  BY <1>9, UnreadFetched
<1>10. ASSUME DisconnectPage \/ ConnectPage \/ UNCHANGED vars PROVE UnreadInv'
  BY <1>10, <1>a DEF DisconnectPage, ConnectPage, vars
<1>11. ASSUME Crash PROVE UnreadInv'
  <2>1. UNCHANGED <<saved, seen, unread>>
        /\ (~skipped' => ~skipped /\ reading = {} /\ \A h \in Handler : at[h] # "saved")
    BY <1>11 DEF Crash, TypeOK
  <2>2. CASE skipped'
    BY <2>1, <2>2, <1>n DEF UnreadInv, UnseenIsUnread
  <2>3. CASE ~skipped'
    <3>1. Hidden' \subseteq Hidden
      BY <2>1, <2>3 DEF Hidden
    <3> QED BY <2>1, <2>3, <3>1, <1>n, UnreadKept
  <2> QED BY <2>2, <2>3
<1> QED
  BY <1>1, <1>2, <1>3, <1>4, <1>5, <1>6, <1>7, <1>8, <1>9, <1>10, <1>11
     DEF Next, HandleIncoming, GetMessages

\* For any number of messages, goroutines and readers, the messages a seller
\* has not fetched are never more than the conversation counts as unread:
\* a message is saved before it is counted (messenger/handler.go:172, 191), and
\* the count is reset before the messages are fetched
\* (conversations/handler.go:96, 105).
THEOREM UnseenIsUnreadHolds == Spec => []UnseenIsUnread
<1>1. Init => TypeOK /\ UnreadInv
  <2>1. ASSUME Init PROVE UnreadInv
    <3>1. Hidden = {} /\ saved = {} /\ unread = 0
      BY <2>1 DEF Init, Hidden
    <3>2. IsFiniteSet(saved) /\ Cardinality(Hidden) <= unread
      BY <3>1, FS_EmptySet
    <3> QED BY <3>2 DEF UnreadInv, UnseenIsUnread, Hidden
  <2> QED BY <2>1, TypeInit
<1>2. UnreadInv => UnseenIsUnread
  BY DEF UnreadInv
<1> QED
  BY <1>1, <1>2, TypeInductive, UnreadInductive, PTL DEF Spec

==============================================================================
