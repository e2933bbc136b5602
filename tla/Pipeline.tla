------------------------------ MODULE Pipeline ------------------------------
(***************************************************************************)
(* A request's way through the proxy (proxy/pipeline.py): budget verdict,  *)
(* semantic cache, routing, forwarding with one possible escalation, the   *)
(* ledger event, and the cache entry written for the next request.  The    *)
(* optimisation stages run under one Deadline (core/deadline.py) and fail  *)
(* open.  Requests overlap and meet in the cache.                          *)
(*                                                                         *)
(* An answer is known by the prompt and the model it was generated for and *)
(* by whether it is whole.  A normalised prompt includes the model asked   *)
(* for; `Near' says which prompts are similar above the threshold.         *)
(***************************************************************************)
EXTENDS Integers, Sequences, FiniteSets

CONSTANTS
    Requests,       \* requests in flight at once
    Models,
    Cheaper,        \* _CHEAPER_MODEL: a model -> its cheap substitute
    Aliases,        \* a model -> the names its provider may give it in a stream
    Prompts,
    Near,           \* prompt -> the prompts similar to it
    Profiles,       \* what a request asks for, its project's settings and budget verdict
    Steps,          \* how long an unguarded step may take
    OptBudget,      \* optimization_budget_ms
    EmbedBudget,    \* embedding_budget_ms
    MaxRows         \* bound on the rows of the cache

Rule == [id : Nat, type : {"exclude", "override"}, priority : Int, target : Models]

\* ProxyRequest: rules are the project's active ones that match the request.
Profile ==
    [prompt : Prompts, model : Models, stream : BOOLEAN, cacheable : BOOLEAN,
     rules : SUBSET Rule, routing : BOOLEAN, escalation : BOOLEAN, throttled : BOOLEAN]

ASSUME CheaperAssumption ==
    DOMAIN Cheaper \subseteq Models /\ \A m \in DOMAIN Cheaper : Cheaper[m] \in Models \ DOMAIN Cheaper
ASSUME AliasesAssumption == DOMAIN Aliases = Models
ASSUME NearAssumption ==
    Near \in [Prompts -> SUBSET Prompts] /\ \A p \in Prompts : p \in Near[p]
ASSUME ProfilesAssumption ==
    /\ Profiles \subseteq Profile
    /\ \A f \in Profiles : \A s, t \in f.rules : s.id = t.id => s = t
ASSUME BoundsAssumption ==
    Steps \subseteq Nat /\ OptBudget \in Nat /\ EmbedBudget \in Nat /\ MaxRows \in Nat

VARIABLES
    req,      \* Requests -> progress of run_pipeline
    calls,    \* history: Requests -> models the provider was asked for
    events,   \* history: Requests -> ledger events of the request
    exact,    \* prompt -> entry in Redis
    rows      \* entries in Postgres, found by similarity

vars == <<req, calls, events, exact, rows>>

----------------------------------------------------------------------------
None == [none |-> TRUE]

\* capture.model or the model asked: what an answer of m may be recorded under.
NamesOf(m) == {m} \cup Aliases[m]

Names == UNION {NamesOf(m) : m \in Models}

Answer == [of : Prompts, by : Models, whole : BOOLEAN, named : Names]
Entry  == [prompt : Prompts, answer : Answer, says : Names]
Event  == [hit : BOOLEAN, model : Names, routed : BOOLEAN, escalated : BOOLEAN]

Stages == {"lookup", "embed", "similar", "recount", "hit", "route", "routed", "escalate",
           "record", "store", "done"}

Progress ==
    [in : Profiles, pc : Stages, used : Nat, entered : Nat, embedded : BOOLEAN,
     hit : Entry \cup {None}, model : Models, routed : BOOLEAN,
     escalated : BOOLEAN, answer : Answer \cup {None}]

TypeOK ==
    /\ req \in [Requests -> Progress \cup {None}]
    /\ calls \in [Requests -> Seq(Models)]
    /\ events \in [Requests -> Seq(Event)]
    /\ exact \in [Prompts -> Entry \cup {None}]
    /\ rows \subseteq Entry

Init ==
    /\ req = [r \in Requests |-> None]
    /\ calls = [r \in Requests |-> <<>>]
    /\ events = [r \in Requests |-> <<>>]
    /\ exact = [p \in Prompts |-> None]
    /\ rows = {}

At(r, pc) == req[r] # None /\ req[r].pc = pc

In(r) == req[r].in

----------------------------------------------------------------------------
(* The deadline.                                                           *)

Left(r) == IF req[r].used < OptBudget THEN OptBudget - req[r].used ELSE 0

\* A bug Slice could have: each step gets its own timeout afresh.
SliceAfresh(r, sub) == sub

\* slice_ms: a sub-budget can shrink what is left, never extend it.
Slice(r, sub) == IF sub < Left(r) THEN sub ELSE Left(r)

\* failopen around a step that awaits: it takes time t and yields a result, or
\* raises or is cut off and yields none.  With nothing left it is cut off at
\* its first await.
FailOpen(r, sub, t, result) ==
    /\ t \in 0 .. Slice(r, sub)
    /\ result => Slice(r, sub) > 0

----------------------------------------------------------------------------
(* Before the provider.                                                    *)

\* check_budgets, the plan's request count and the context advisory; none of
\* them can be cut off.  A blocked request ends here with a 402.
Arrive(r) ==
    /\ req[r] = None
    /\ \E f \in Profiles, d \in Steps :
         req' = [req EXCEPT ![r] =
           [in |-> f, pc |-> IF f.cacheable THEN "lookup" ELSE "route",
            used |-> d, entered |-> d, embedded |-> FALSE, hit |-> None,
            model |-> f.model, routed |-> FALSE, escalated |-> FALSE, answer |-> None]]
    /\ UNCHANGED <<calls, events, exact, rows>>

\* lookup_exact.
LookupExact(r) ==
    /\ At(r, "lookup")
    /\ LET e == exact[In(r).prompt] IN
       \E t \in 0 .. OptBudget, found \in BOOLEAN :
         /\ FailOpen(r, OptBudget, t, found)
         /\ found => e # None
         /\ req' = [req EXCEPT ![r].pc = IF found THEN "hit" ELSE "embed",
                               ![r].hit = IF found THEN e ELSE None,
                               ![r].used = @ + t]
    /\ UNCHANGED <<calls, events, exact, rows>>

\* embed.
Embed(r) ==
    /\ At(r, "embed")
    /\ \E t \in 0 .. EmbedBudget, embedded \in BOOLEAN :
         /\ FailOpen(r, EmbedBudget, t, embedded)
         /\ req' = [req EXCEPT ![r].pc = IF embedded THEN "similar" ELSE "route",
                               ![r].embedded = embedded,
                               ![r].used = @ + t]
    /\ UNCHANGED <<calls, events, exact, rows>>

\* The rows nearest to prompt p, if above the threshold.
Nearest(p) ==
    LET same == {e \in rows : e.prompt = p} IN
    IF same # {} THEN same ELSE {e \in rows : e.prompt \in Near[p]}

\* lookup_similar and its record_hit, guarded together.
LookupSimilar(r) ==
    /\ At(r, "similar")
    /\ \E t \in 0 .. OptBudget, hit \in Nearest(In(r).prompt) \cup {None} :
         /\ FailOpen(r, OptBudget, t, hit # None)
         /\ req' = [req EXCEPT ![r].pc = IF hit # None THEN "recount" ELSE "route",
                               ![r].hit = hit,
                               ![r].used = @ + t]
    /\ UNCHANGED <<calls, events, exact, rows>>

\* The second record_hit of a similarity hit, outside any failopen: it raises
\* nothing, but no deadline cuts it off.
RecordHitAgain(r) ==
    /\ At(r, "recount")
    /\ \E d \in Steps : req' = [req EXCEPT ![r].pc = "hit", ![r].used = @ + d]
    /\ UNCHANGED <<calls, events, exact, rows>>

\* emit_ledger_event: enqueued, or dropped for good.
Emit(r, e) ==
    \/ events' = [events EXCEPT ![r] = Append(@, e)]
    \/ events' = events

\* A bug ServeHit could have: the stored event claims the routing that the
\* entry's model suggests.
ServeHitRouted(r) ==
    /\ At(r, "hit")
    /\ Emit(r, [hit |-> TRUE, model |-> req[r].hit.says,
                routed |-> req[r].hit.says # In(r).model, escalated |-> FALSE])
    /\ req' = [req EXCEPT ![r].pc = "done", ![r].used = 0, ![r].entered = 0]
    /\ UNCHANGED <<calls, exact, rows>>

\* _serve_from_cache; no deadline decides anything after it.
ServeHit(r) ==
    /\ At(r, "hit")
    /\ Emit(r, [hit |-> TRUE, model |-> req[r].hit.says, routed |-> FALSE, escalated |-> FALSE])
    /\ req' = [req EXCEPT ![r].pc = "done", ![r].used = 0, ![r].entered = 0]
    /\ UNCHANGED <<calls, exact, rows>>

\* The order rules apply in: priority, then the safer type, then the id.
Before(s, t) ==
    \/ s.priority > t.priority
    \/ /\ s.priority = t.priority
       /\ \/ s.type = "exclude" /\ t.type # "exclude"
          \/ s.type = t.type /\ s.id < t.id

\* evaluate_rules: the first after sorting.
Winner(R) == CHOOSE s \in R : \A t \in R \ {s} : Before(s, t)

\* Sorting a project's rules puts one of them first.
ASSUME RulesAssumption ==
    \A f \in Profiles : f.rules # {} =>
        \E s \in f.rules : \A t \in f.rules \ {s} : Before(s, t)

\* A bug Decisions could have: the classifier is asked first.
DecisionsByClassifier(f) ==
    IF f.routing /\ f.model \in DOMAIN Cheaper THEN {f.model, Cheaper[f.model]}
    ELSE IF f.rules # {} /\ Winner(f.rules).type = "override" THEN {Winner(f.rules).target}
    ELSE {f.model}

\* decide: rules, then the classifier (whose opinion is any), then nothing.
Decisions(f) ==
    IF f.rules # {}
    THEN {IF Winner(f.rules).type = "exclude" THEN f.model ELSE Winner(f.rules).target}
    ELSE IF f.routing /\ f.model \in DOMAIN Cheaper
    THEN {f.model, Cheaper[f.model]}
    ELSE {f.model}

\* Routing; then a throttled project gets the cheapest equivalent of the model
\* decided on.  Routing has no await, so no deadline cuts it off, and after it
\* the deadline decides nothing more.
Route(r) ==
    /\ At(r, "route")
    /\ \E m \in Decisions(In(r)) :
         LET forced == In(r).throttled /\ m \in DOMAIN Cheaper IN
         req' = [req EXCEPT ![r].pc = "routed",
                            ![r].model = IF forced THEN Cheaper[m] ELSE m,
                            ![r].routed = m # In(r).model /\ ~forced,
                            ![r].used = 0, ![r].entered = 0]
    /\ UNCHANGED <<calls, events, exact, rows>>

----------------------------------------------------------------------------
(* The provider.                                                           *)

\* The call of model m; then the request is at pc with answer a.
Call(r, m, pc, a) ==
    /\ calls' = [calls EXCEPT ![r] = Append(@, m)]
    /\ req' = [req EXCEPT ![r].pc = pc, ![r].answer = a]
    /\ UNCHANGED <<events, exact, rows>>

AnswerOf(r, m, whole, named) ==
    [of |-> In(r).prompt, by |-> m, whole |-> whole, named |-> named]

\* The request is over and its place free.
End(r) ==
    /\ req' = [req EXCEPT ![r] = None]
    /\ calls' = [calls EXCEPT ![r] = <<>>]
    /\ events' = [events EXCEPT ![r] = <<>>]
    /\ UNCHANGED <<exact, rows>>

\* No key to decrypt: the request fails before the provider is called.
KeyFails(r) ==
    /\ At(r, "routed")
    /\ End(r)

\* Transport failure or a body that is not JSON: UpstreamError, no event.
Unreachable(r) ==
    /\ At(r, "routed") /\ ~In(r).stream
    /\ Call(r, req[r].model, "done", None)

\* The provider's error is passed on and recorded, streamed or not.
ProviderRefuses(r) ==
    /\ At(r, "routed")
    /\ Call(r, req[r].model, "record", None)

\* Only after a request that was routed away from the model asked for.
MayEscalate(r) == req[r].routed /\ In(r).escalation /\ req[r].model # In(r).model

\* A whole answer; one that looks weak may be asked for again.
Answers(r) ==
    /\ At(r, "routed") /\ ~In(r).stream
    /\ \E weak \in BOOLEAN :
         Call(r, req[r].model, IF weak /\ MayEscalate(r) THEN "escalate" ELSE "record",
              AnswerOf(r, req[r].model, TRUE, req[r].model))

\* _escalate: the second answer replaces the first; if there is none the first
\* stands, under the name of the second model.
Escalate(r) ==
    /\ At(r, "escalate")
    /\ calls' = [calls EXCEPT ![r] = Append(@, In(r).model)]
    /\ \E a \in {req[r].answer, AnswerOf(r, In(r).model, TRUE, In(r).model)} :
         req' = [req EXCEPT ![r].pc = "record", ![r].answer = a,
                            ![r].model = In(r).model, ![r].escalated = TRUE]
    /\ UNCHANGED <<events, exact, rows>>

\* The stream is passed on to its end, or breaks off; its first chunk may name
\* the model otherwise than the request did.
Streams(r) ==
    /\ At(r, "routed") /\ In(r).stream
    /\ \E whole \in BOOLEAN, named \in NamesOf(req[r].model) :
         Call(r, req[r].model, "record", AnswerOf(r, req[r].model, whole, named))

\* The client goes away in mid-stream and the recording is cancelled with it,
\* or the process dies.
Abandoned(r) ==
    /\ req[r] # None /\ req[r].pc # "done"
    /\ End(r)

----------------------------------------------------------------------------
(* After the provider.                                                     *)

\* A bug Storable could have: it does not ask whether there is an answer, and
\* the error of a provider is stored.
StorableAlways(r) == In(r).cacheable /\ req[r].embedded

\* A bug Storable could have: a stream is stored however it ended.
StorableIfAnswered(r) == In(r).cacheable /\ req[r].embedded /\ req[r].answer # None

\* There is an index to store under, and a whole answer to store.
Storable(r) ==
    /\ In(r).cacheable /\ req[r].embedded
    /\ req[r].answer # None /\ req[r].answer.whole

\* The model of the event and of the cache entry: capture.model or model_used
\* for a stream, model_used for a unary request.
Recorded(r) ==
    IF In(r).stream /\ req[r].answer # None THEN req[r].answer.named ELSE req[r].model

\* _record, unary or streamed.
Record(r) ==
    /\ At(r, "record")
    /\ Emit(r, [hit |-> FALSE, model |-> Recorded(r), routed |-> req[r].routed,
                escalated |-> req[r].escalated])
    /\ req' = [req EXCEPT ![r].pc = IF Storable(r) THEN "store" ELSE "done"]
    /\ UNCHANGED <<calls, exact, rows>>

\* _write_cache_entry: the row and the exact entry; each may fail alone, the
\* row also at the commit that follows the Redis write.
Store(r) ==
    /\ At(r, "store")
    /\ LET p == In(r).prompt
           e == [prompt |-> p, answer |-> req[r].answer, says |-> Recorded(r)] IN
         /\ rows' \in {rows, rows \cup {e}} /\ Cardinality(rows') <= MaxRows
         /\ exact' \in {exact, [exact EXCEPT ![p] = e]}
    /\ req' = [req EXCEPT ![r].pc = "done"]
    /\ UNCHANGED <<calls, events>>

Finish(r) == At(r, "done") /\ End(r)

\* An entry runs out, is invalidated or is evicted, in either store.
Forget ==
    /\ \/ \E e \in rows : rows' = rows \ {e} /\ UNCHANGED exact
       \/ \E p \in Prompts : /\ exact[p] # None
                             /\ exact' = [exact EXCEPT ![p] = None]
                             /\ UNCHANGED rows
    /\ UNCHANGED <<req, calls, events>>

Next ==
    \/ \E r \in Requests :
         \/ Arrive(r)
         \/ LookupExact(r)
         \/ Embed(r)
         \/ LookupSimilar(r)
         \/ RecordHitAgain(r)
         \/ ServeHit(r)
         \/ Route(r)
         \/ KeyFails(r)
         \/ Unreachable(r)
         \/ ProviderRefuses(r)
         \/ Answers(r)
         \/ Escalate(r)
         \/ Streams(r)
         \/ Abandoned(r)
         \/ Record(r)
         \/ Store(r)
         \/ Finish(r)
    \/ Forget

Spec == Init /\ [][Next]_vars

----------------------------------------------------------------------------
(* Properties.                                                             *)

\* One budget, not many: the stages that can be cut off never take a request
\* beyond the optimisation budget, on its way to the provider or to an exact
\* hit, unless what cannot be cut off already has. Nothing is claimed of
\* a similarity hit, which makes one more Redis call that no deadline covers.
SharedDeadline ==
    \A r \in Requests :
        (/\ req[r] # None
         /\ \/ req[r].pc \in {"lookup", "embed", "similar", "recount", "route"}
            \/ req[r].pc = "hit" /\ ~req[r].embedded) =>
            \/ req[r].used <= OptBudget
            \/ req[r].used = req[r].entered

\* What is replayed is a whole answer of a provider to a prompt of its own
\* entry, to a request that may be served from the cache and asks about the
\* same or a similar thing: no truncated stream, no answer handed on twice.
ReplaysAreSound ==
    /\ \A e \in rows \cup {exact[p] : p \in Prompts} :
         e = None \/ (e.answer.whole /\ e.answer.of = e.prompt)
    /\ \A r \in Requests : req[r] # None /\ req[r].hit # None =>
         In(r).cacheable /\ req[r].hit.answer.of \in Near[In(r).prompt]

\* No call the user did not license: an exclude rule keeps a request on its
\* model, and the only second call of a request is the one that takes an
\* unstreamed routed request back to the model asked for.
Excluded(f) == f.rules # {} /\ Winner(f.rules).type = "exclude"

CallsAreLicensed ==
    \A r \in Requests : req[r] # None =>
        /\ Len(calls[r]) <= 2
        /\ Len(calls[r]) = 2 =>
             /\ calls[r][2] = In(r).model /\ calls[r][1] # In(r).model
             /\ In(r).escalation /\ ~In(r).stream /\ ~Excluded(In(r))
        /\ Excluded(In(r)) /\ ~In(r).throttled =>
             \A i \in 1 .. Len(calls[r]) : calls[r][i] = In(r).model

\* The ledger tells what happened: one event at most, a cache hit exactly when
\* no provider was asked, never both a hit and a routing win, routed only if
\* another model was asked, escalated only if two were, and otherwise the
\* model asked last, under the name its provider gave it if it was streamed.
EventsTellTheTruth ==
    \A r \in Requests :
        /\ Len(events[r]) <= 1
        /\ \A i \in 1 .. Len(events[r]) :
             LET e == events[r][i]
                 last == calls[r][Len(calls[r])] IN
             /\ e.hit <=> calls[r] = <<>>
             /\ e.routed => ~e.hit /\ calls[r][1] # In(r).model
             /\ e.escalated <=> Len(calls[r]) = 2
             /\ ~e.hit => e.model \in IF In(r).stream THEN NamesOf(last) ELSE {last}

----------------------------------------------------------------------------
\* pipeline.py: a throttled project is forced onto the cheapest equivalent,
\* "overriding both the caller's choice and the router's".
ThrottleIsCheap ==
    \A r \in Requests : req[r] # None /\ In(r).throttled =>
        \A i \in 1 .. Len(calls[r]) : calls[r][i] \notin DOMAIN Cheaper
=============================================================================
