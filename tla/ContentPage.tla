----------------------------- MODULE ContentPage -----------------------------
(***************************************************************************)
(* The administrator's editors of the landing page's sections.  An editor  *)
(* fills its form when its query has new data, is unmounted with its draft *)
(* when another tab is chosen, and saves the whole form.  The gateway      *)
(* answers with a section's columns, content_en and content_bn; the page   *)
(* looks for en and bn, so that a form is filled with nothing whatever the *)
(* row says.  Queries outlive the editors.                                 *)
(***************************************************************************)
EXTENDS Naturals, FiniteSets

CONSTANTS
    Section,        \* a subset of {"hero", "faq", "banner"}
    MaxContentActs, \* bound: edits, saves and changes of tab
    NoForm          \* what an editor has before its first data

VARIABLES
    ui,             \* the editor that is mounted, and the queries
    net,            \* requests under way
    db,             \* the sections' rows, and how often each was saved
    ghost           \* the bound's counter, and history no step depends on

vars == <<ui, net, db, ghost>>

\* Of each part of a section, the number of the edit its text comes from.
Part == {"text", "rest"}
Content == [Part -> 0..MaxContentActs]
Stored == [p \in Part |-> 1]
Blank == [p \in Part |-> 0]
\* Data of a query: the number of the save it shows; none before the first answer.
Version == 0..(MaxContentActs + 1)
NoData == MaxContentActs + 1

TypeOK ==
    /\ ui \in [tab : Section, form : Content \cup {NoForm}, saving : BOOLEAN,
               data : [Section -> Version], invalid : SUBSET Section]
    /\ db \in [row : [Section -> Content], saves : [Section -> 0..MaxContentActs]]
    /\ \A q \in net : q.op \in {"get", "put"} /\ q.section \in Section
    /\ ghost \in [acts : 1..MaxContentActs, hasty : BOOLEAN]

Get(s) == [op |-> "get", section |-> s]
\* The list of questions is empty where the other forms are missing.
Opened(s, version) == IF s = "faq" \/ version # NoData THEN Blank ELSE NoForm

Init ==
    /\ db = [row |-> [s \in Section |-> Stored], saves |-> [s \in Section |-> 0]]
    /\ \E s \in Section :
          /\ ui = [tab |-> s, form |-> Opened(s, NoData), saving |-> FALSE,
                   data |-> [x \in Section |-> NoData], invalid |-> {}]
          /\ net = {Get(s)}
    /\ ghost = [acts |-> 1, hasty |-> FALSE]

Act(new, requests, g) ==
    /\ ghost.acts < MaxContentActs /\ ghost' = [g EXCEPT !.acts = @ + 1]
    /\ ui' = new /\ net' = requests /\ UNCHANGED db

-----------------------------------------------------------------------------
(* The editors. *)

Saving(s) == {q \in net : q.op = "put" /\ q.section = s}
Unmounted == {IF q.op = "put" THEN [q EXCEPT !.live = FALSE] ELSE q : q \in net}

\* A query without data, or invalidated, is asked again; one with data may be.
SwitchTab(s) ==
    /\ s # ui.tab
    /\ \E asked \in {{}, {Get(s)}} :
          /\ asked = {} => ui.data[s] # NoData /\ s \notin ui.invalid
          /\ Act([ui EXCEPT !.tab = s, !.form = Opened(s, ui.data[s]), !.saving = FALSE],
                 Unmounted \cup asked, [ghost EXCEPT !.hasty = @ \/ Saving(ui.tab) # {}])

\* The gateway's cache may answer with an older row.  New data replaces the form,
\* and a draft in it, with nothing: but for the FAQ's, which keeps its list.
Loaded(q) ==
    /\ q.op = "get"
    /\ \E v \in 0..db.saves[q.section] :
          ui' = [ui EXCEPT !.data[q.section] = v, !.invalid = @ \ {q.section},
                           !.form = IF ui.tab = q.section /\ q.section # "faq"
                                       /\ ui.data[q.section] # v
                                    THEN Blank ELSE @]
    /\ net' = net \ {q} /\ UNCHANGED <<db, ghost>>
LoadFails(q) == q.op = "get" /\ net' = net \ {q} /\ UNCHANGED <<ui, db, ghost>>

\* Without data the FAQ's editor is shown when its query has failed.
Ready == ui.form # NoForm /\ (ui.data[ui.tab] # NoData \/ Get(ui.tab) \notin net)
Edit == Ready /\ \E p \in Part : Act([ui EXCEPT !.form[p] = ghost.acts + 1], net, ghost)
HeroForm == ui.tab = "hero" /\ Edit
FAQItems == ui.tab = "faq" /\ Edit
BannerForm == ui.tab = "banner" /\ Edit

Put == [op |-> "put", section |-> ui.tab, value |-> ui.form, at |-> "sent", live |-> TRUE]
\* Bug: the button is not disabled while a save is under way.
SaveAtAnyTime == Ready /\ Act([ui EXCEPT !.saving = TRUE], net \cup {Put}, ghost)
Save == Ready /\ ~ui.saving /\ Act([ui EXCEPT !.saving = TRUE], net \cup {Put}, ghost)
\* The query is invalidated: asked again where its editor is open.
Saved(q) ==
    /\ q.op = "put" /\ q.at = "written"
    /\ ui' = [ui EXCEPT !.saving = @ /\ ~q.live, !.invalid = @ \cup {q.section}]
    /\ net' = (net \ {q}) \cup (IF ui.tab = q.section THEN {Get(q.section)} ELSE {})
    /\ UNCHANGED <<db, ghost>>
\* Refused, or given up before the answer: the gateway may still write it.
SaveFails(q) ==
    /\ q.op = "put" /\ ui' = [ui EXCEPT !.saving = @ /\ ~q.live] /\ UNCHANGED db
    /\ \/ net' = net \ {q} /\ UNCHANGED ghost
       \/ /\ q.at = "sent" /\ net' = (net \ {q}) \cup {[q EXCEPT !.live = FALSE]}
          /\ ghost' = [ghost EXCEPT !.hasty = TRUE]

-----------------------------------------------------------------------------
(* The gateway. *)

UpdateSection(q) ==
    /\ q.op = "put" /\ q.at = "sent" /\ UNCHANGED <<ui, ghost>>
    /\ db' = [db EXCEPT !.row[q.section] = q.value, !.saves[q.section] = @ + 1]
    /\ net' = (net \ {q}) \cup {[q EXCEPT !.at = "written"]}

-----------------------------------------------------------------------------
Next ==
    \/ HeroForm \/ FAQItems \/ BannerForm \/ Save
    \/ \E s \in Section : SwitchTab(s)
    \/ \E q \in net : Loaded(q) \/ LoadFails(q) \/ Saved(q) \/ SaveFails(q) \/ UpdateSection(q)

-----------------------------------------------------------------------------
\* A save never brings an older text of a section back, unless its editor was left
\* or a save of it given up while the save was under way: it blanks what was not
\* entered.
OldTextStaysAway ==
    \A s \in Section, p \in Part :
        db'.row[s][p] < db.row[s][p] => db'.row[s][p] = 0 \/ ghost.hasty

\* The editors show the section that is to be edited: a save keeps every part of
\* it in which nothing was entered.
UnenteredIsKept ==
    \A s \in Section, p \in Part : db'.row[s][p] # db.row[s][p] => db'.row[s][p] # 0
=============================================================================
