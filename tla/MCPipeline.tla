----------------------------- MODULE MCPipeline -----------------------------
(* Instances of Pipeline for TLC.                                           *)
EXTENDS Pipeline, TLC

TwoModels == {"strong", "cheap"}
OneSubstitute == "strong" :> "cheap"
OneAlias == "strong" :> {} @@ "cheap" :> {"cheap-0125"}
TwoPrompts == {"p", "q"}
AllNear == [p \in TwoPrompts |-> TwoPrompts]

Plain == [prompt |-> "p", model |-> "strong", stream |-> FALSE, cacheable |-> TRUE,
          rules |-> {}, routing |-> TRUE, escalation |-> TRUE, throttled |-> FALSE]

\* Two rules of one priority: the exclusion wins.
Conflict ==
    {[id |-> 1, type |-> "override", priority |-> 0, target |-> "cheap"],
     [id |-> 2, type |-> "exclude", priority |-> 0, target |-> "strong"]}

Throttled == [Plain EXCEPT !.cacheable = FALSE, !.throttled = TRUE]

\* A routed request, a throttled streamed one with a similar prompt, an excluded
\* one, and one both routed and throttled.
FourProfiles ==
    {Plain,
     [Plain EXCEPT !.prompt = "q", !.stream = TRUE, !.routing = FALSE, !.throttled = TRUE],
     [Plain EXCEPT !.cacheable = FALSE, !.rules = Conflict],
     Throttled}

ThrottledProfile == {Throttled}

Symmetry == Permutations(Requests)
=============================================================================
