------------------------------ MODULE Advisor ------------------------------
(***************************************************************************)
(* The recommendations of one project: the nightly job replaces the open   *)
(* ones in a READ COMMITTED transaction of three statements, while the     *)
(* user adopts or dismisses rows, old ones included.                       *)
(***************************************************************************)
EXTENDS Integers

CONSTANTS
    Titles,          \* what may be recommended; a title is what is dismissed
    RecIds,          \* rows of advisor_recommendations
    Tabs             \* requests of the user that may be under way

VARIABLES
    rec,             \* RecIds -> [title, status], or NoRec
    advise,          \* the job: [stage, found, gone, firm, fresh]
    tab              \* Tabs -> the UPDATE it has not committed, or NoRec

adviceVars == <<rec, advise, tab>>

NoRec == [title |-> {}, status |-> "none"]
NoAdvise == [stage |-> "idle", found |-> {}, gone |-> {}, firm |-> {}, fresh |-> {}]
NoTab == [of |-> {}, status |-> "none"]

AdvisorInit ==
    /\ rec = [i \in RecIds |-> NoRec]
    /\ advise = NoAdvise
    /\ tab = [u \in Tabs |-> NoTab]

With(status) == {i \in RecIds : rec[i].status = status}
TitlesOf(ids) == UNION {rec[i].title : i \in ids}
Decided == With("adopted") \cup With("dismissed")
LockedRecs == advise.gone \cup UNION {tab[u].of : u \in Tabs}

-----------------------------------------------------------------------------
(* The nightly job.                                                        *)

\* Read-only queries over requests_log: downgrades that routing has proved and
\* a self-hosting option, if it wins. `firm' remembers, for the property, what
\* the user had dismissed by then and has not taken back since.
AdviseAnalyse ==
    /\ advise.stage = "idle"
    /\ \E found \in SUBSET Titles :
         advise' = [NoAdvise EXCEPT !.stage = "analysed", !.found = found,
                                    !.firm = TitlesOf(With("dismissed"))]
    /\ UNCHANGED <<rec, tab>>

\* DELETE ... status = 'open' waits for the user's UPDATE of an open row, and
\* looks at the row again when that has committed. An analysis that found
\* nothing commits at once.
AdviseDelete ==
    /\ advise.stage = "analysed"
    /\ \A u \in Tabs : tab[u].of \cap With("open") = {}
    /\ advise' = [advise EXCEPT !.stage = IF advise.found = {} THEN "inserted" ELSE "deleted",
                                !.gone = With("open")]
    /\ UNCHANGED <<rec, tab>>

\* A bug AdviseInsert could have: nothing is filtered.
AdviseInsertAll ==
    /\ advise.stage = "deleted"
    /\ advise' = [advise EXCEPT !.stage = "inserted", !.fresh = advise.found]
    /\ UNCHANGED <<rec, tab>>

\* SELECT the dismissed titles, INSERT what is not among them.
AdviseInsert ==
    /\ advise.stage = "deleted"
    /\ advise' = [advise EXCEPT !.stage = "inserted",
                                !.fresh = advise.found \ TitlesOf(With("dismissed"))]
    /\ UNCHANGED <<rec, tab>>

\* Commit: the old open rows are gone, the fresh ones are there.
AdviseCommit ==
    /\ advise.stage = "inserted"
    /\ \E place \in [advise.fresh -> With("none") \cup advise.gone] :
         /\ \A s, t \in advise.fresh : s # t => place[s] # place[t]
         /\ rec' = [i \in RecIds |->
                      IF \E t \in advise.fresh : place[t] = i
                      THEN [title |-> {t \in advise.fresh : place[t] = i}, status |-> "open"]
                      ELSE IF i \in advise.gone THEN NoRec ELSE rec[i]]
    /\ advise' = NoAdvise
    /\ UNCHANGED tab

\* Any step raises, or the worker stops: the next night tries again.
AdviseFails ==
    /\ advise.stage # "idle"
    /\ advise' = NoAdvise
    /\ UNCHANGED <<rec, tab>>

-----------------------------------------------------------------------------
(* set_recommendation_status: UPDATE, then the request's commit.           *)

TabUpdate(u, i) ==
    /\ tab[u].of = {}
    /\ rec[i].status # "none" /\ i \notin LockedRecs
    /\ \E status \in {"adopted", "dismissed"} :
         tab' = [tab EXCEPT ![u] = [of |-> {i}, status |-> status]]
    /\ UNCHANGED <<rec, advise>>

\* Taking a dismissal back ends the promise about its title.
TabCommit(u, i) ==
    /\ tab[u].of = {i}
    /\ rec' = [rec EXCEPT ![i].status = tab[u].status]
    /\ advise' = IF tab[u].status = "adopted"
                 THEN [advise EXCEPT !.firm = @ \ rec[i].title] ELSE advise
    /\ tab' = [tab EXCEPT ![u] = NoTab]

TabFails(u) ==
    /\ tab[u].of # {}
    /\ tab' = [tab EXCEPT ![u] = NoTab]
    /\ UNCHANGED <<rec, advise>>

AdvisorNext ==
    \/ AdviseAnalyse \/ AdviseDelete \/ AdviseInsert \/ AdviseCommit \/ AdviseFails
    \/ \E u \in Tabs, i \in RecIds : TabUpdate(u, i) \/ TabCommit(u, i)
    \/ \E u \in Tabs : TabFails(u)

-----------------------------------------------------------------------------
(* Properties.                                                             *)

\* The type invariant; one open row has one title, and no two have the same.
AdvisorTypeOK ==
    /\ rec \in [RecIds -> [title : {{}} \cup {{t} : t \in Titles},
                           status : {"none", "open", "adopted", "dismissed"}]]
    /\ advise \in [stage : {"idle", "analysed", "deleted", "inserted"},
                   found : SUBSET Titles, gone : SUBSET RecIds, firm : SUBSET Titles,
                   fresh : SUBSET Titles]
    /\ tab \in [Tabs -> [of : {{}} \cup {{i} : i \in RecIds},
                         status : {"none", "adopted", "dismissed"}]]

\* What the user has decided, the job leaves alone, also when the decision
\* commits between two statements of the job ("Adopted and dismissed ones are
\* the user's decisions and are not ours to overwrite"); and "a dismissed
\* recommendation is never re-suggested": nothing that the user had dismissed
\* when the job began, and has not taken back, becomes open.
DecisionsAreFinal ==
    [][\A i \in RecIds :
         /\ i \in Decided => /\ rec'[i].title = rec[i].title
                             /\ rec'[i].status \in {"adopted", "dismissed"}
         /\ rec'[i].status = "open" /\ rec[i] # rec'[i]
              => rec'[i].title \cap advise.firm = {}]_adviceVars

=============================================================================
