--------------------------- MODULE PipelineProofs ---------------------------
(***************************************************************************)
(* Proofs about Pipeline, for any number of requests, any models, rules,   *)
(* similarity and budgets.                                                 *)
(***************************************************************************)
EXTENDS Pipeline, SequenceTheorems, TLAPS

\* What a request holds at its stage, besides its types.
Held(q) ==
    /\ q.pc \in {"lookup", "embed", "similar", "recount", "hit"} => q.in.cacheable
    /\ q.pc \in {"recount", "hit"} => q.hit # None
    /\ q.pc \in {"similar", "recount"} => q.embedded
    /\ q.pc = "escalate" => q.answer # None
    /\ q.pc = "store" => q.answer # None /\ q.answer.whole
    /\ q.hit # None => q.in.cacheable /\ q.hit.answer.of \in Near[q.in.prompt]
    /\ q.answer # None => q.answer.of = q.in.prompt

SoundEntry(e) == e.answer.whole /\ e.answer.of = e.prompt

CacheSound ==
    /\ \A e \in rows : SoundEntry(e)
    /\ \A p \in Prompts : exact[p] # None => SoundEntry(exact[p]) /\ exact[p].prompt = p

\* The inductive invariant behind ReplaysAreSound.
DataInv ==
    /\ TypeOK
    /\ \A r \in Requests : req[r] # None => Held(req[r])
    /\ CacheSound

LEMMA NoneIsNone ==
    None \notin Entry /\ None \notin Answer /\ None \notin Progress
<1>1. None \notin Entry
  BY DEF None, Entry
<1>2. None \notin Answer
  BY DEF None, Answer
<1>3. None \notin Progress
  BY DEF None, Progress
<1> QED  BY <1>1, <1>2, <1>3

LEMMA DecisionType ==
    ASSUME NEW f \in Profiles, NEW m \in Decisions(f)
    PROVE  m \in Models
<1>1. f \in Profile
  BY ProfilesAssumption
<1>2. f.model \in Models /\ f.rules \subseteq Rule
  BY <1>1 DEF Profile
<1>3. CASE f.rules # {}
  <2>1. Winner(f.rules) \in f.rules
    BY <1>3, RulesAssumption DEF Winner
  <2>2. Winner(f.rules).target \in Models
    BY <2>1, <1>2 DEF Rule
  <2> QED  BY <1>2, <1>3, <2>2 DEF Decisions
<1>4. CASE f.rules = {}
  BY <1>2, <1>4, CheaperAssumption DEF Decisions
<1> QED  BY <1>3, <1>4

LEMMA NameType ==
    ASSUME NEW m \in Models
    PROVE  NamesOf(m) \subseteq Names /\ m \in NamesOf(m)
BY DEF Names, NamesOf

LEMMA AnswerType ==
    ASSUME NEW r \in Requests, req[r] \in Progress, NEW m \in Models, NEW w \in BOOLEAN,
           NEW n \in NamesOf(m)
    PROVE  /\ AnswerOf(r, m, w, n) \in Answer
           /\ AnswerOf(r, m, w, n).of = req[r].in.prompt
           /\ AnswerOf(r, m, w, n).named = n
<1>1. req[r].in \in Profile
  BY ProfilesAssumption DEF Progress
<1>2. req[r].in.prompt \in Prompts
  BY <1>1 DEF Profile
<1>3. n \in Names
  BY NameType
<1> QED  BY <1>2, <1>3 DEF AnswerOf, Answer, In

\* What is recorded of a request is a name.
LEMMA RecordedType ==
    ASSUME NEW r \in Requests, req[r] \in Progress
    PROVE  Recorded(r) \in Names
<1>1. req[r].model \in Names
  BY NameType DEF Progress
<1>2. req[r].answer # None => req[r].answer.named \in Names
  BY DEF Progress, Answer
<1> QED  BY <1>1, <1>2 DEF Recorded

\* What one request becomes when it takes a step is well typed and held.
LEMMA MoveIsHeld ==
    ASSUME DataInv, NEW r \in Requests, NEW q \in Progress, Held(q),
           req' = [req EXCEPT ![r] = q]
    PROVE  /\ req' \in [Requests -> Progress \cup {None}]
           /\ \A s \in Requests : req'[s] # None => Held(req'[s])
BY DEF DataInv, TypeOK

LEMMA EndIsHeld ==
    ASSUME DataInv, NEW r \in Requests, End(r)
    PROVE  DataInv'
<1>1. /\ req' \in [Requests -> Progress \cup {None}]
      /\ \A s \in Requests : req'[s] # None => Held(req'[s])
  BY DEF DataInv, TypeOK, End
<1>2. calls' \in [Requests -> Seq(Models)] /\ events' \in [Requests -> Seq(Event)]
  BY DEF DataInv, TypeOK, End
<1> QED  BY <1>1, <1>2 DEF DataInv, TypeOK, End, CacheSound

\* The cache is read and left alone by the stages before the provider.
LEMMA StageIsHeld ==
    ASSUME DataInv, NEW r \in Requests, NEW q \in Progress, Held(q),
           req' = [req EXCEPT ![r] = q], UNCHANGED <<calls, events, exact, rows>>
    PROVE  DataInv'
<1>1. /\ req' \in [Requests -> Progress \cup {None}]
      /\ \A s \in Requests : req'[s] # None => Held(req'[s])
  BY MoveIsHeld
<1> QED  BY <1>1 DEF DataInv, TypeOK, CacheSound

LEMMA CallIsHeld ==
    ASSUME DataInv, NEW r \in Requests, req[r] # None,
           NEW m \in Models, NEW pc \in {"record", "done", "escalate"},
           NEW a \in Answer \cup {None}, a # None => a.of = req[r].in.prompt,
           pc = "escalate" => a # None, Call(r, m, pc, a)
    PROVE  DataInv'
<1> DEFINE q == [req[r] EXCEPT !.pc = pc, !.answer = a]
<1>1. req[r] \in Progress /\ Held(req[r])
  BY DEF DataInv, TypeOK
<1>2. q \in Progress
  BY <1>1 DEF Progress, Stages
<1>3. /\ q.pc = pc /\ q.answer = a /\ q.in = req[r].in /\ q.hit = req[r].hit
  BY <1>1 DEF Progress
<1>4. Held(q)
  BY <1>1, <1>3 DEF Held
<1>5. req' = [req EXCEPT ![r] = q]
  BY DEF Call
<1> HIDE DEF q
<1>6. /\ req' \in [Requests -> Progress \cup {None}]
      /\ \A s \in Requests : req'[s] # None => Held(req'[s])
  BY <1>2, <1>4, <1>5, MoveIsHeld
<1>7. calls' \in [Requests -> Seq(Models)]
  BY DEF Call, DataInv, TypeOK
<1> QED  BY <1>6, <1>7 DEF Call, DataInv, TypeOK, CacheSound

LEMMA FailOpenTakesTime ==
    ASSUME NEW r \in Requests, req[r] \in Progress, NEW sub \in Nat, NEW t, NEW result,
           FailOpen(r, sub, t, result)
    PROVE  t \in Nat /\ (t = 0 \/ req[r].used + t <= OptBudget)
BY BoundsAssumption DEF FailOpen, Slice, Left, Progress

\* The stages up to routing.
Guarded == {"lookup", "embed", "similar", "recount", "hit", "route"}

\* What the three steps towards a hit make of a request.
LEMMA LookupMoves ==
    ASSUME DataInv, NEW r \in Requests, LookupExact(r) \/ Embed(r) \/ LookupSimilar(r)
    PROVE  /\ req[r] \in Progress /\ req[r].pc \in {"lookup", "embed", "similar"}
           /\ UNCHANGED <<calls, events, exact, rows>>
           /\ \E q \in Progress :
                /\ req' = [req EXCEPT ![r] = q] /\ Held(q)
                /\ q.pc \in Guarded
                /\ q.in = req[r].in /\ q.entered = req[r].entered /\ q.model = req[r].model
                /\ q.routed = req[r].routed /\ q.escalated = req[r].escalated
                /\ q.used <= OptBudget \/ q.used = req[r].used
<1> USE BoundsAssumption, NoneIsNone
<1>0. req[r] # None => req[r] \in Progress /\ Held(req[r])
  BY DEF DataInv, TypeOK
<1>4. req[r] \in Progress /\ req[r].pc \in {"lookup", "embed", "similar"}
  BY <1>0 DEF LookupExact, Embed, LookupSimilar, At
<1>5. UNCHANGED <<calls, events, exact, rows>>
  BY DEF LookupExact, Embed, LookupSimilar
<1>6. SUFFICES
       \E q \in Progress :
          /\ req' = [req EXCEPT ![r] = q] /\ Held(q)
          /\ q.pc \in Guarded
          /\ q.in = req[r].in /\ q.entered = req[r].entered /\ q.model = req[r].model
          /\ q.routed = req[r].routed /\ q.escalated = req[r].escalated
          /\ q.used <= OptBudget \/ q.used = req[r].used
  BY <1>4, <1>5
<1>1. CASE LookupExact(r)
  <2>1. PICK t \in 0 .. OptBudget, found \in BOOLEAN :
           /\ FailOpen(r, OptBudget, t, found)
           /\ found => exact[In(r).prompt] # None
           /\ req' = [req EXCEPT ![r].pc = IF found THEN "hit" ELSE "embed",
                                 ![r].hit = IF found THEN exact[In(r).prompt] ELSE None,
                                 ![r].used = @ + t]
    BY <1>1 DEF LookupExact
  <2> DEFINE q == [req[r] EXCEPT !.pc = IF found THEN "hit" ELSE "embed",
                                 !.hit = IF found THEN exact[In(r).prompt] ELSE None,
                                 !.used = @ + t]
  <2>2. req[r] \in Progress /\ Held(req[r]) /\ req[r].pc = "lookup"
    BY <1>0, <1>1 DEF LookupExact, At
  <2>p. In(r).prompt \in Prompts /\ In(r).prompt \in Near[In(r).prompt]
    BY <2>2, ProfilesAssumption, NearAssumption DEF Progress, Profile, In
  <2>e. found => /\ exact[In(r).prompt] \in Entry
                 /\ exact[In(r).prompt].answer.of \in Near[In(r).prompt]
    <3> SUFFICES ASSUME found PROVE /\ exact[In(r).prompt] \in Entry
                                    /\ exact[In(r).prompt].answer.of \in Near[In(r).prompt]
      OBVIOUS
    <3> DEFINE e == exact[In(r).prompt]
    <3>1. e # None
      BY <2>1
    <3>2. e \in Entry /\ SoundEntry(e)
      BY <2>p, <3>1 DEF DataInv, CacheSound, TypeOK
    <3>3. e.prompt = In(r).prompt
      BY <2>p, <3>1 DEF DataInv, CacheSound
    <3> QED  BY <2>p, <3>2, <3>3 DEF SoundEntry
  <2>3. q \in Progress
    <3>1. (IF found THEN exact[In(r).prompt] ELSE None) \in Entry \cup {None}
      BY <2>e
    <3>2. (IF found THEN "hit" ELSE "embed") \in Stages
      BY DEF Stages
    <3>3. req[r].used + t \in Nat
      BY <2>2 DEF Progress
    <3> QED  BY <2>2, <3>1, <3>2, <3>3 DEF Progress
  <2>4. Held(q)
    <3>1. /\ q.pc = (IF found THEN "hit" ELSE "embed")
          /\ q.hit = (IF found THEN exact[In(r).prompt] ELSE None)
          /\ q.in = req[r].in /\ q.answer = req[r].answer
      BY <2>2 DEF Progress
    <3> QED  BY <3>1, <2>1, <2>2, <2>e DEF Held, In
  <2>5. req' = [req EXCEPT ![r] = q]
    BY <2>1
  <2>6. /\ q.pc \in Guarded /\ q.used = req[r].used + t
        /\ q.in = req[r].in /\ q.entered = req[r].entered /\ q.model = req[r].model
        /\ q.routed = req[r].routed /\ q.escalated = req[r].escalated
    BY <2>2 DEF Progress, Guarded
  <2>7. q.used <= OptBudget \/ q.used = req[r].used
    BY <2>1, <2>2, <2>6, FailOpenTakesTime DEF Progress
  <2> HIDE DEF q
  <2> QED  BY <1>1, <2>3, <2>4, <2>5, <2>6, <2>7 DEF LookupExact
<1>2. CASE Embed(r)
  <2>1. PICK t \in 0 .. EmbedBudget, embedded \in BOOLEAN :
           /\ FailOpen(r, EmbedBudget, t, embedded)
           /\ req' = [req EXCEPT ![r].pc = IF embedded THEN "similar" ELSE "route",
                                 ![r].embedded = embedded,
                                 ![r].used = @ + t]
    BY <1>2 DEF Embed
  <2> DEFINE q == [req[r] EXCEPT !.pc = IF embedded THEN "similar" ELSE "route",
                                 !.embedded = embedded,
                                 !.used = @ + t]
  <2>2. req[r] \in Progress /\ Held(req[r]) /\ req[r].pc = "embed"
    BY <1>0, <1>2 DEF Embed, At
  <2>3. q \in Progress
    <3>1. (IF embedded THEN "similar" ELSE "route") \in Stages
      BY DEF Stages
    <3>2. req[r].used + t \in Nat
      BY <2>2 DEF Progress
    <3> QED  BY <2>2, <3>1, <3>2 DEF Progress
  <2>4. Held(q)
    <3>1. /\ q.pc = (IF embedded THEN "similar" ELSE "route") /\ q.hit = req[r].hit
          /\ q.embedded = embedded
          /\ q.in = req[r].in /\ q.answer = req[r].answer
      BY <2>2 DEF Progress
    <3> QED  BY <3>1, <2>2 DEF Held
  <2>5. req' = [req EXCEPT ![r] = q]
    BY <2>1
  <2>6. /\ q.pc \in Guarded /\ q.used = req[r].used + t
        /\ q.in = req[r].in /\ q.entered = req[r].entered /\ q.model = req[r].model
        /\ q.routed = req[r].routed /\ q.escalated = req[r].escalated
    BY <2>2 DEF Progress, Guarded
  <2>7. q.used <= OptBudget \/ q.used = req[r].used
    BY <2>1, <2>2, <2>6, FailOpenTakesTime DEF Progress
  <2> HIDE DEF q
  <2> QED  BY <1>2, <2>3, <2>4, <2>5, <2>6, <2>7 DEF Embed
<1>3. CASE LookupSimilar(r)
  <2>1. PICK t \in 0 .. OptBudget, hit \in Nearest(In(r).prompt) \cup {None} :
           /\ FailOpen(r, OptBudget, t, hit # None)
           /\ req' = [req EXCEPT ![r].pc = IF hit # None THEN "recount" ELSE "route",
                                 ![r].hit = hit,
                                 ![r].used = @ + t]
    BY <1>3 DEF LookupSimilar
  <2> DEFINE q == [req[r] EXCEPT !.pc = IF hit # None THEN "recount" ELSE "route",
                                 !.hit = hit,
                                 !.used = @ + t]
  <2>2. req[r] \in Progress /\ Held(req[r]) /\ req[r].pc = "similar"
    BY <1>0, <1>3 DEF LookupSimilar, At
  <2>p. In(r).prompt \in Prompts /\ In(r).prompt \in Near[In(r).prompt]
    BY <2>2, ProfilesAssumption, NearAssumption DEF Progress, Profile, In
  <2>e. hit # None => /\ hit \in Entry
                      /\ hit.answer.of \in Near[In(r).prompt]
    <3> SUFFICES ASSUME hit # None PROVE /\ hit \in Entry
                                         /\ hit.answer.of \in Near[In(r).prompt]
      OBVIOUS
    <3>1. hit \in rows /\ hit.prompt \in Near[In(r).prompt]
      BY <2>1, <2>p DEF Nearest
    <3> QED  BY <3>1 DEF DataInv, CacheSound, SoundEntry, TypeOK
  <2>3. q \in Progress
    <3>1. (IF hit # None THEN "recount" ELSE "route") \in Stages
      BY DEF Stages
    <3>2. req[r].used + t \in Nat
      BY <2>2 DEF Progress
    <3>3. hit \in Entry \cup {None}
      BY <2>e
    <3> QED  BY <2>2, <3>1, <3>2, <3>3 DEF Progress
  <2>4. Held(q)
    <3>1. /\ q.pc = (IF hit # None THEN "recount" ELSE "route")
          /\ q.hit = hit /\ q.embedded = req[r].embedded
          /\ q.in = req[r].in /\ q.answer = req[r].answer
      BY <2>2 DEF Progress
    <3> QED  BY <3>1, <2>2, <2>e DEF Held, In
  <2>5. req' = [req EXCEPT ![r] = q]
    BY <2>1
  <2>6. /\ q.pc \in Guarded /\ q.used = req[r].used + t
        /\ q.in = req[r].in /\ q.entered = req[r].entered /\ q.model = req[r].model
        /\ q.routed = req[r].routed /\ q.escalated = req[r].escalated
    BY <2>2 DEF Progress, Guarded
  <2>7. q.used <= OptBudget \/ q.used = req[r].used
    BY <2>1, <2>2, <2>6, FailOpenTakesTime DEF Progress
  <2> HIDE DEF q
  <2> QED  BY <1>3, <2>3, <2>4, <2>5, <2>6, <2>7 DEF LookupSimilar
<1> QED  BY <1>1, <1>2, <1>3

\* What the second count of a similarity hit makes of a request.
LEMMA RecountMoves ==
    ASSUME DataInv, NEW r \in Requests, RecordHitAgain(r)
    PROVE  /\ req[r] \in Progress /\ req[r].pc = "recount"
           /\ UNCHANGED <<calls, events, exact, rows>>
           /\ \E q \in Progress :
                /\ req' = [req EXCEPT ![r] = q] /\ Held(q)
                /\ q.pc = "hit" /\ q.embedded
                /\ q.in = req[r].in /\ q.model = req[r].model
                /\ q.routed = req[r].routed /\ q.escalated = req[r].escalated
<1>1. req[r] \in Progress /\ Held(req[r]) /\ req[r].pc = "recount"
  BY DEF DataInv, TypeOK, RecordHitAgain, At
<1>2. PICK d \in Steps : req' = [req EXCEPT ![r].pc = "hit", ![r].used = @ + d]
  BY DEF RecordHitAgain
<1> DEFINE q == [req[r] EXCEPT !.pc = "hit", !.used = @ + d]
<1>3. req[r].used + d \in Nat
  BY <1>1, BoundsAssumption DEF Progress
<1>4. q \in Progress
  BY <1>1, <1>3 DEF Progress, Stages
<1>5. /\ q.pc = "hit" /\ q.hit = req[r].hit /\ q.embedded = req[r].embedded
      /\ q.in = req[r].in /\ q.answer = req[r].answer /\ q.model = req[r].model
      /\ q.routed = req[r].routed /\ q.escalated = req[r].escalated
  BY <1>1 DEF Progress
<1>6. req' = [req EXCEPT ![r] = q]
  BY <1>2
<1> HIDE DEF q
<1>7. Held(q) /\ q.embedded
  BY <1>1, <1>5 DEF Held
<1> QED  BY <1>1, <1>4, <1>5, <1>6, <1>7 DEF RecordHitAgain

LEMMA StageKeepsData ==
    ASSUME DataInv, NEW r \in Requests,
           \/ Arrive(r) \/ LookupExact(r) \/ Embed(r) \/ LookupSimilar(r)
           \/ RecordHitAgain(r) \/ Route(r)
    PROVE  DataInv'
<1> USE BoundsAssumption, NoneIsNone
<1>0. req[r] # None => req[r] \in Progress /\ Held(req[r])
  BY DEF DataInv, TypeOK
<1>1. CASE Arrive(r)
  <2>1. PICK f \in Profiles, d \in Steps : req' = [req EXCEPT ![r] =
           [in |-> f, pc |-> IF f.cacheable THEN "lookup" ELSE "route",
            used |-> d, entered |-> d, embedded |-> FALSE, hit |-> None,
            model |-> f.model, routed |-> FALSE, escalated |-> FALSE, answer |-> None]]
    BY <1>1 DEF Arrive
  <2> DEFINE q == [in |-> f, pc |-> IF f.cacheable THEN "lookup" ELSE "route",
            used |-> d, entered |-> d, embedded |-> FALSE, hit |-> None,
            model |-> f.model, routed |-> FALSE, escalated |-> FALSE, answer |-> None]
  <2>2. f.model \in Models /\ f.cacheable \in BOOLEAN
    BY ProfilesAssumption DEF Profile
  <2>3. q \in Progress
    BY <2>2 DEF Progress, Stages
  <2>4. Held(q)
    BY <2>2 DEF Held
  <2>5. req' = [req EXCEPT ![r] = q]
    BY <2>1
  <2> HIDE DEF q
  <2> QED  BY <1>1, <2>3, <2>4, <2>5, StageIsHeld DEF Arrive
<1>2. CASE LookupExact(r) \/ Embed(r) \/ LookupSimilar(r)
  BY <1>2, LookupMoves, StageIsHeld
<1>3. CASE RecordHitAgain(r)
  BY <1>3, RecountMoves, StageIsHeld
<1>4. CASE Route(r)
  <2>2. req[r] \in Progress /\ Held(req[r]) /\ req[r].pc = "route"
    BY <1>0, <1>4 DEF Route, At
  <2>1. PICK m \in Decisions(In(r)), model \in Models, routed \in BOOLEAN :
           req' = [req EXCEPT ![r].pc = "routed", ![r].model = model,
                              ![r].routed = routed, ![r].used = 0, ![r].entered = 0]
    <3>1. PICK m \in Decisions(In(r)) :
             LET forced == In(r).throttled /\ m \in DOMAIN Cheaper IN
             req' = [req EXCEPT ![r].pc = "routed",
                                ![r].model = IF forced THEN Cheaper[m] ELSE m,
                                ![r].routed = m # In(r).model /\ ~forced,
                                ![r].used = 0, ![r].entered = 0]
      BY <1>4 DEF Route
    <3>2. In(r) \in Profiles
      BY <2>2 DEF Progress, In
    <3>3. m \in Models
      BY <3>2, DecisionType
    <3>4. m \in DOMAIN Cheaper => Cheaper[m] \in Models
      BY CheaperAssumption
    <3> DEFINE forced == In(r).throttled /\ m \in DOMAIN Cheaper
    <3>5. (IF forced THEN Cheaper[m] ELSE m) \in Models
      BY <3>3, <3>4
    <3>6. (m # In(r).model /\ ~forced) \in BOOLEAN
      OBVIOUS
    <3> QED  BY <3>1, <3>5, <3>6
  <2> DEFINE q == [req[r] EXCEPT !.pc = "routed", !.model = model,
                                 !.routed = routed, !.used = 0, !.entered = 0]
  <2>3. q \in Progress
    BY <2>2 DEF Progress, Stages
  <2>4. Held(q)
    <3>1. /\ q.pc = "routed" /\ q.hit = req[r].hit
          /\ q.in = req[r].in /\ q.answer = req[r].answer
      BY <2>2 DEF Progress
    <3> QED  BY <3>1, <2>2 DEF Held
  <2>5. req' = [req EXCEPT ![r] = q]
    BY <2>1
  <2> HIDE DEF q
  <2> QED  BY <1>4, <2>3, <2>4, <2>5, StageIsHeld DEF Route
<1> QED  BY <1>1, <1>2, <1>3, <1>4

LEMMA ProviderKeepsData ==
    ASSUME DataInv, NEW r \in Requests,
           Unreachable(r) \/ ProviderRefuses(r) \/ Answers(r) \/ Streams(r) \/ Escalate(r)
    PROVE  DataInv'
<1> USE NoneIsNone
<1>0. req[r] \in Progress /\ Held(req[r]) /\ req[r] # None
  BY DEF DataInv, TypeOK, Unreachable, ProviderRefuses, Answers, Streams, Escalate, At
<1>m. req[r].model \in Models /\ In(r).model \in Models
  BY <1>0, ProfilesAssumption DEF Progress, Profile, In
<1>1. CASE Unreachable(r) \/ ProviderRefuses(r)
  BY <1>0, <1>1, <1>m, CallIsHeld DEF Unreachable, ProviderRefuses
<1>2. CASE Answers(r) \/ Streams(r)
  <2>1. PICK pc \in {"escalate", "record"}, w \in BOOLEAN, n \in NamesOf(req[r].model) :
           Call(r, req[r].model, pc, AnswerOf(r, req[r].model, w, n))
    BY <1>2, <1>m, NameType DEF Answers, Streams
  <2>2. /\ AnswerOf(r, req[r].model, w, n) \in Answer
        /\ AnswerOf(r, req[r].model, w, n).of = req[r].in.prompt
    BY <1>0, <1>m, AnswerType
  <2> QED  BY <1>0, <1>m, <2>1, <2>2, CallIsHeld
<1>3. CASE Escalate(r)
  <2>1. PICK a \in {req[r].answer, AnswerOf(r, In(r).model, TRUE, In(r).model)} :
           req' = [req EXCEPT ![r].pc = "record", ![r].answer = a,
                              ![r].model = In(r).model, ![r].escalated = TRUE]
    BY <1>3 DEF Escalate
  <2> DEFINE q == [req[r] EXCEPT !.pc = "record", !.answer = a,
                                 !.model = In(r).model, !.escalated = TRUE]
  <2>2. AnswerOf(r, In(r).model, TRUE, In(r).model) \in Answer
        /\ AnswerOf(r, In(r).model, TRUE, In(r).model).of = req[r].in.prompt
    BY <1>0, <1>m, AnswerType, NameType
  <2>3. a \in Answer \cup {None} /\ (a # None => a.of = req[r].in.prompt)
    BY <1>0, <2>1, <2>2 DEF Progress, Held
  <2>4. q \in Progress
    BY <1>0, <1>m, <2>3 DEF Progress, Stages
  <2>5. Held(q)
    <3>1. /\ q.pc = "record" /\ q.hit = req[r].hit
          /\ q.in = req[r].in /\ q.answer = a
      BY <1>0 DEF Progress
    <3> QED  BY <3>1, <1>0, <2>3 DEF Held
  <2>6. req' = [req EXCEPT ![r] = q]
    BY <2>1
  <2> HIDE DEF q
  <2>7. /\ req' \in [Requests -> Progress \cup {None}]
        /\ \A s \in Requests : req'[s] # None => Held(req'[s])
    BY <2>4, <2>5, <2>6, MoveIsHeld
  <2>8. calls' \in [Requests -> Seq(Models)]
    BY <1>3, <1>m DEF Escalate, DataInv, TypeOK
  <2> QED  BY <1>3, <2>7, <2>8 DEF Escalate, DataInv, TypeOK, CacheSound
<1> QED  BY <1>1, <1>2, <1>3

LEMMA EmitType ==
    ASSUME DataInv, NEW r \in Requests, NEW e \in Event, Emit(r, e)
    PROVE  events' \in [Requests -> Seq(Event)]
<1>1. events \in [Requests -> Seq(Event)]
  BY DEF DataInv, TypeOK
<1>2. Append(events[r], e) \in Seq(Event)
  BY <1>1
<1>3. events' = events \/ events' = [events EXCEPT ![r] = Append(events[r], e)]
  BY DEF Emit
<1> QED  BY <1>1, <1>2, <1>3

LEMMA RecordingKeepsData ==
    ASSUME DataInv, NEW r \in Requests, ServeHit(r) \/ Record(r) \/ Store(r)
    PROVE  DataInv'
<1> USE NoneIsNone
<1>0. req[r] \in Progress /\ Held(req[r]) /\ req[r] # None
  BY DEF DataInv, TypeOK, ServeHit, Record, Store, At
<1>m. req[r].in \in Profile /\ In(r).prompt \in Prompts
  BY <1>0, ProfilesAssumption DEF Progress, Profile, In
<1>p. ASSUME NEW pc \in {"done", "store"}, req' = [req EXCEPT ![r].pc = pc],
             pc = "store" => req[r].answer # None /\ req[r].answer.whole
      PROVE  /\ req' \in [Requests -> Progress \cup {None}]
             /\ \A s \in Requests : req'[s] # None => Held(req'[s])
  <2> DEFINE q == [req[r] EXCEPT !.pc = pc]
  <2>1. q \in Progress
    BY <1>0 DEF Progress, Stages
  <2>2. /\ q.pc = pc /\ q.hit = req[r].hit /\ q.in = req[r].in /\ q.answer = req[r].answer
    BY <1>0 DEF Progress
  <2>3. Held(q)
    BY <2>2, <1>0, <1>p DEF Held
  <2>4. req' = [req EXCEPT ![r] = q]
    BY <1>p
  <2> HIDE DEF q
  <2> QED  BY <2>1, <2>3, <2>4, MoveIsHeld
<1>1. CASE ServeHit(r)
  <2> DEFINE q == [req[r] EXCEPT !.pc = "done", !.used = 0, !.entered = 0]
  <2>a. q \in Progress
    BY <1>0 DEF Progress, Stages
  <2>b. /\ q.pc = "done" /\ q.hit = req[r].hit /\ q.in = req[r].in /\ q.answer = req[r].answer
    BY <1>0 DEF Progress
  <2>c. Held(q)
    BY <2>b, <1>0 DEF Held
  <2>1. req' = [req EXCEPT ![r] = q]
    BY <1>1 DEF ServeHit
  <2> HIDE DEF q
  <2>2. req[r].hit \in Entry
    BY <1>0, <1>1 DEF ServeHit, At, Held, Progress
  <2>3. [hit |-> TRUE, model |-> req[r].hit.says, routed |-> FALSE, escalated |-> FALSE] \in Event
    BY <2>2 DEF Entry, Event
  <2>4. events' \in [Requests -> Seq(Event)]
    BY <1>1, <2>3, EmitType DEF ServeHit
  <2>5. /\ req' \in [Requests -> Progress \cup {None}]
        /\ \A s \in Requests : req'[s] # None => Held(req'[s])
    BY <2>a, <2>c, <2>1, MoveIsHeld
  <2> QED  BY <1>1, <2>4, <2>5 DEF ServeHit, DataInv, TypeOK, CacheSound
<1>2. CASE Record(r)
  <2>1. PICK pc \in {"done", "store"} :
           /\ req' = [req EXCEPT ![r].pc = pc]
           /\ pc = "store" => Storable(r)
    BY <1>2 DEF Record
  <2>2. [hit |-> FALSE, model |-> Recorded(r), routed |-> req[r].routed,
         escalated |-> req[r].escalated] \in Event
    BY <1>0, RecordedType DEF Event, Progress
  <2>3. events' \in [Requests -> Seq(Event)]
    BY <1>2, <2>2, EmitType DEF Record
  <2>4. /\ req' \in [Requests -> Progress \cup {None}]
        /\ \A s \in Requests : req'[s] # None => Held(req'[s])
    BY <1>p, <2>1 DEF Storable
  <2> QED  BY <1>2, <2>3, <2>4 DEF Record, DataInv, TypeOK, CacheSound
<1>3. CASE Store(r)
  <2> DEFINE e == [prompt |-> In(r).prompt, answer |-> req[r].answer, says |-> Recorded(r)]
  <2>1. /\ rows' \in {rows, rows \cup {e}}
        /\ exact' \in {exact, [exact EXCEPT ![In(r).prompt] = e]}
        /\ req' = [req EXCEPT ![r].pc = "done"]
        /\ UNCHANGED <<calls, events>>
    BY <1>3 DEF Store
  <2>2. req[r].answer \in Answer /\ req[r].answer.whole /\ req[r].answer.of = In(r).prompt
    BY <1>0, <1>3 DEF Store, At, Held, Progress, In
  <2>3. e \in Entry /\ SoundEntry(e) /\ e.prompt = In(r).prompt
    BY <1>0, <1>m, <2>2, RecordedType DEF Entry, SoundEntry
  <2>4. e # None
    BY <2>3
  <2> HIDE DEF e
  <2>5. rows' \subseteq Entry /\ \A x \in rows' : SoundEntry(x)
    BY <2>1, <2>3 DEF DataInv, TypeOK, CacheSound
  <2>6. exact' \in [Prompts -> Entry \cup {None}]
    BY <2>1, <2>3 DEF DataInv, TypeOK
  <2>7. ASSUME NEW p \in Prompts, exact'[p] # None
        PROVE  SoundEntry(exact'[p]) /\ exact'[p].prompt = p
    <3>1. exact[p] # None => SoundEntry(exact[p]) /\ exact[p].prompt = p
      BY DEF DataInv, CacheSound
    <3>2. exact'[p] = exact[p] \/ (exact'[p] = e /\ p = In(r).prompt)
      BY <2>1 DEF DataInv, TypeOK
    <3> QED  BY <2>3, <2>7, <3>1, <3>2
  <2>8. /\ req' \in [Requests -> Progress \cup {None}]
        /\ \A s \in Requests : req'[s] # None => Held(req'[s])
    BY <1>p, <2>1
  <2> QED  BY <2>1, <2>5, <2>6, <2>7, <2>8 DEF DataInv, TypeOK, CacheSound
<1> QED  BY <1>1, <1>2, <1>3

LEMMA ForgetKeepsData ==
    ASSUME DataInv, Forget
    PROVE  DataInv'
<1>1. rows' \subseteq rows
  BY DEF Forget
<1>2. exact' = exact \/ \E p \in Prompts : exact' = [exact EXCEPT ![p] = None]
  BY DEF Forget
<1>3. exact' \in [Prompts -> Entry \cup {None}]
  BY <1>2 DEF DataInv, TypeOK
<1>4. \A p \in Prompts : exact'[p] # None => exact'[p] = exact[p]
  BY <1>2 DEF DataInv, TypeOK
<1>5. CacheSound'
  BY <1>1, <1>4 DEF CacheSound, DataInv
<1>6. UNCHANGED <<req, calls, events>>
  BY DEF Forget
<1> QED  BY <1>1, <1>3, <1>5, <1>6 DEF DataInv, TypeOK

LEMMA DataInvariant == Spec => []DataInv
<1>1. Init => DataInv
  <2> SUFFICES ASSUME Init PROVE DataInv
    OBVIOUS
  <2>1. /\ calls \in [Requests -> Seq(Models)] /\ events \in [Requests -> Seq(Event)]
        /\ exact \in [Prompts -> Entry \cup {None}]
    BY DEF Init
  <2>2. req \in [Requests -> Progress \cup {None}] /\ \A r \in Requests : req[r] = None
    BY DEF Init
  <2> QED  BY <2>1, <2>2 DEF Init, DataInv, TypeOK, CacheSound
<1>2. DataInv /\ [Next]_vars => DataInv'
  <2> SUFFICES ASSUME DataInv, [Next]_vars PROVE DataInv'
    OBVIOUS
  <2>1. CASE UNCHANGED vars
    BY <2>1 DEF vars, DataInv, TypeOK, CacheSound
  <2>2. CASE Forget
    BY <2>2, ForgetKeepsData
  <2>3. ASSUME NEW r \in Requests,
               KeyFails(r) \/ Abandoned(r) \/ Finish(r)
        PROVE  DataInv'
    BY <2>3, EndIsHeld DEF KeyFails, Abandoned, Finish
  <2> QED  BY <2>1, <2>2, <2>3, StageKeepsData, ProviderKeepsData, RecordingKeepsData DEF Next
<1> QED  BY <1>1, <1>2, PTL DEF Spec

\* Every state of Pipeline is well typed: no stage stores what is no answer,
\* and no hit is served that is no entry.
THEOREM TypeCorrect == Spec => []TypeOK
<1>1. DataInv => TypeOK
  BY DEF DataInv
<1> QED  BY <1>1, DataInvariant, PTL

\* What the cache replays is a whole answer to its own prompt, to a request
\* that may have it, however requests interleave and whatever half of an entry
\* is lost.
THEOREM OnlySoundReplays == Spec => []ReplaysAreSound
<1>1. DataInv => ReplaysAreSound
  BY DEF DataInv, CacheSound, SoundEntry, ReplaysAreSound, Held, In
<1> QED  BY <1>1, DataInvariant, PTL

----------------------------------------------------------------------------
(* The deadline.                                                           *)

\* Here everything but what cannot be cut off was under the deadline.
Timed(q) ==
    \/ q.pc \in {"lookup", "embed", "similar", "recount", "route"}
    \/ q.pc = "hit" /\ ~q.embedded

InTime(q) == Timed(q) => q.used <= OptBudget \/ q.used = q.entered

LEMMA StepIsInTime ==
    ASSUME DataInv, SharedDeadline, Next
    PROVE  SharedDeadline'
<1> USE BoundsAssumption, NoneIsNone
<1>0. \A r \in Requests : req[r] # None => req[r] \in Progress /\ InTime(req[r])
  BY DEF DataInv, TypeOK, SharedDeadline, InTime, Timed
<1>s. ASSUME NEW r \in Requests, NEW q, q # None => InTime(q), req' = [req EXCEPT ![r] = q]
      PROVE  SharedDeadline'
  BY <1>0, <1>s DEF SharedDeadline, InTime, Timed, DataInv, TypeOK
<1>1. ASSUME NEW r \in Requests, Arrive(r)
      PROVE  SharedDeadline'
  <2>1. PICK f \in Profiles, d \in Steps : req' = [req EXCEPT ![r] =
           [in |-> f, pc |-> IF f.cacheable THEN "lookup" ELSE "route",
            used |-> d, entered |-> d, embedded |-> FALSE, hit |-> None,
            model |-> f.model, routed |-> FALSE, escalated |-> FALSE, answer |-> None]]
    BY <1>1 DEF Arrive
  <2> QED  BY <2>1, <1>s DEF InTime, Timed
<1>2. ASSUME NEW r \in Requests, LookupExact(r) \/ Embed(r) \/ LookupSimilar(r)
      PROVE  SharedDeadline'
  <2>1. PICK q \in Progress :
           /\ req' = [req EXCEPT ![r] = q] /\ q.entered = req[r].entered
           /\ q.used <= OptBudget \/ q.used = req[r].used
    BY <1>2, LookupMoves
  <2>2. req[r] \in Progress /\ req[r].pc \in {"lookup", "embed", "similar"}
    BY <1>2, LookupMoves
  <2>3. InTime(req[r])
    BY <1>0, <2>2
  <2>4. InTime(q)
    BY <2>1, <2>2, <2>3 DEF InTime, Timed
  <2> QED  BY <2>1, <2>4, <1>s
<1>3. ASSUME NEW r \in Requests,
             ServeHit(r) \/ Route(r) \/ Unreachable(r) \/ ProviderRefuses(r) \/ Answers(r)
             \/ Escalate(r) \/ Streams(r) \/ Record(r) \/ Store(r)
      PROVE  SharedDeadline'
  <2>1. req[r] \in Progress
    BY <1>0, <1>3 DEF ServeHit, Route, Unreachable, ProviderRefuses, Answers, Escalate,
                      Streams, Record, Store, At
  <2>2. \A s \in Requests \ {r} : req'[s] = req[s]
    BY <1>3 DEF ServeHit, Route, Unreachable, ProviderRefuses, Answers, Escalate,
                Streams, Record, Store, Call, DataInv, TypeOK
  <2>3. req'[r].pc \in {"done", "routed", "record", "escalate", "store"}
    <3> USE <2>1 DEF DataInv, TypeOK, Progress
    <3>1. CASE ServeHit(r) \/ Store(r)
      BY <3>1 DEF ServeHit, Store
    <3>2. CASE Route(r)
      BY <3>2 DEF Route
    <3>3. CASE Unreachable(r) \/ ProviderRefuses(r)
      BY <3>3 DEF Unreachable, ProviderRefuses, Call
    <3>4. CASE Answers(r)
      BY <3>4 DEF Answers, Call
    <3>5. CASE Streams(r)
      BY <3>5 DEF Streams, Call
    <3>6. CASE Escalate(r)
      BY <3>6 DEF Escalate
    <3>7. CASE Record(r)
      BY <3>7 DEF Record
    <3> QED  BY <1>3, <3>1, <3>2, <3>3, <3>4, <3>5, <3>6, <3>7
  <2> QED  BY <1>0, <2>2, <2>3 DEF SharedDeadline, InTime, Timed
<1>4. ASSUME NEW r \in Requests, KeyFails(r) \/ Abandoned(r) \/ Finish(r)
      PROVE  SharedDeadline'
  BY <1>4, <1>s DEF KeyFails, Abandoned, Finish, End
<1>5. CASE Forget
  BY <1>5 DEF Forget, SharedDeadline
<1>6. ASSUME NEW r \in Requests, RecordHitAgain(r)
      PROVE  SharedDeadline'
  <2>1. PICK q \in Progress : req' = [req EXCEPT ![r] = q] /\ q.pc = "hit" /\ q.embedded
    BY <1>6, RecountMoves
  <2>2. InTime(q)
    BY <2>1 DEF InTime, Timed
  <2> QED  BY <2>1, <2>2, <1>s
<1> QED  BY <1>1, <1>2, <1>3, <1>4, <1>5, <1>6 DEF Next

\* The stages that can be cut off share one budget: together they never take a
\* request beyond it, whatever their own allowances.  The second count of a
\* similarity hit is no such stage, and the theorem ends where it begins.
THEOREM BudgetIsShared == Spec => []SharedDeadline
<1>1. Init => SharedDeadline
  BY DEF Init, SharedDeadline
<1>2. DataInv /\ SharedDeadline /\ [Next]_vars => SharedDeadline'
  <2>1. UNCHANGED vars /\ SharedDeadline => SharedDeadline'
    BY DEF vars, SharedDeadline
  <2> QED  BY <2>1, StepIsInTime
<1> QED  BY <1>1, <1>2, DataInvariant, PTL DEF Spec

----------------------------------------------------------------------------
(* Calls and events.                                                       *)

\* The calls c of a request that has been answered: one, or two after an
\* escalation, which takes a routed request back to the model asked for.
Asked(q, c) ==
    IF q.escalated
    THEN /\ q.in.escalation /\ ~q.in.stream /\ ~Excluded(q.in) /\ q.model = q.in.model
         /\ \E m \in Models \ {q.in.model} : c = <<m, q.in.model>>
    ELSE c = <<q.model>>

\* Event v tells what calls c of request q were made.
Tells(q, c, v) ==
    /\ v.hit <=> c = <<>>
    /\ v.routed => ~v.hit /\ c[1] # q.in.model
    /\ v.escalated <=> Len(c) = 2
    /\ ~v.hit => v.model \in IF q.in.stream THEN NamesOf(c[Len(c)]) ELSE {c[Len(c)]}

\* The answer of a stream goes by a name of the model called.
Named(q) == q.in.stream /\ q.answer # None => q.answer.named \in NamesOf(q.model)

Unasked == {"lookup", "embed", "similar", "recount", "hit", "route", "routed"}

\* The stage of a request, its calls and its events belong together.
Accounted(q, c, e) ==
    /\ q.pc \in Unasked => c = <<>> /\ ~q.escalated
    /\ q.pc \in Unasked \cup {"escalate", "record"} => e = <<>>
    /\ q.pc \in {"escalate", "record", "store"} => Asked(q, c)
    /\ q.pc = "record" => Named(q)
    /\ q.pc = "done" => c = <<>> \/ Asked(q, c)
    /\ q.pc = "escalate" => ~q.escalated /\ q.routed /\ q.in.escalation /\ ~q.in.stream
    /\ q.routed => ~Excluded(q.in) /\ (q.model # q.in.model \/ q.escalated)
    /\ Excluded(q.in) /\ ~q.in.throttled => q.model = q.in.model
    /\ e = <<>> \/ \E v \in Event : e = <<v>> /\ Tells(q, c, v)

\* The inductive invariant behind CallsAreLicensed and EventsTellTheTruth.
CallInv ==
    \A r \in Requests :
        IF req[r] = None THEN calls[r] = <<>> /\ events[r] = <<>>
        ELSE Accounted(req[r], calls[r], events[r])

LEMMA SecondCall ==
    ASSUME NEW S, NEW s \in Seq(S), NEW m \in S, NEW n \in S, Len(s) = 1, s[1] = m
    PROVE  Append(s, n) = <<m, n>>
<1>a. Append(s, n) \in Seq(S)
  OBVIOUS
<1>b. Len(Append(s, n)) = Len(s) + 1
  BY AppendProperties
<1>c. Append(s, n)[1] = s[1]
  BY AppendProperties
<1>d. Append(s, n)[Len(s) + 1] = n
  BY AppendProperties
<1> DEFINE app == Append(s, n)
           two == <<m, n>>
<1>2. two \in Seq(S) /\ Len(two) = 2 /\ two[1] = m /\ two[2] = n
  OBVIOUS
<1>3. app \in Seq(S) /\ Len(app) = 2 /\ app[1] = m /\ app[2] = n
  BY <1>a, <1>b, <1>c, <1>d
<1> HIDE DEF app, two
<1>4. \A i \in 1 .. Len(app) : app[i] = two[i]
  BY <1>2, <1>3
<1>5. app = two
  BY <1>2, <1>3, <1>4, SeqEqual
<1> QED  BY <1>5 DEF app, two

LEMMA TwoCalls ==
    ASSUME NEW S, NEW m \in S, NEW n \in S
    PROVE  /\ Append(<<>>, m) = <<m>> /\ Append(<<m>>, n) = <<m, n>>
           /\ Len(<<m>>) = 1 /\ Len(<<m, n>>) = 2 /\ Len(<<>>) = 0
           /\ <<m>> # <<>> /\ <<m, n>> # <<>> /\ <<m>>[1] = m
           /\ <<m, n>>[1] = m /\ <<m, n>>[2] = n
<1>1. Len(<<m>>) = 1 /\ Len(<<m, n>>) = 2 /\ Len(<<>>) = 0
  OBVIOUS
<1>2. <<m>>[1] = m /\ <<m, n>>[1] = m /\ <<m, n>>[2] = n
  OBVIOUS
<1>3. <<m>> # <<>> /\ <<m, n>> # <<>>
  BY <1>1
<1>4. Append(<<>>, m) = <<m>>
  OBVIOUS
<1>5. Append(<<m>>, n) = <<m, n>>
  <2> DEFINE one == <<m>>
  <2>1. one \in Seq(S) /\ Len(one) = 1 /\ one[1] = m
    BY <1>1, <1>2
  <2> HIDE DEF one
  <2>2. Append(one, n) = <<m, n>>
    BY <2>1, SecondCall
  <2> QED  BY <2>2 DEF one
<1> QED  BY <1>1, <1>2, <1>3, <1>4, <1>5

\* A request becomes q, with calls c and events e.
LEMMA MoveIsAccounted ==
    ASSUME DataInv, CallInv, NEW r \in Requests,
           NEW q, q # None, req' = [req EXCEPT ![r] = q],
           NEW c, calls' = [calls EXCEPT ![r] = c],
           NEW e, events' = [events EXCEPT ![r] = e],
           Accounted(q, c, e)
    PROVE  CallInv'
BY DEF DataInv, TypeOK, CallInv

LEMMA EndIsAccounted ==
    ASSUME DataInv, CallInv, NEW r \in Requests, End(r)
    PROVE  CallInv'
BY DEF DataInv, TypeOK, CallInv, End

\* The stages before the provider neither call nor record.
LEMMA StageIsAccounted ==
    ASSUME DataInv, CallInv, NEW r \in Requests,
           \/ Arrive(r) \/ LookupExact(r) \/ Embed(r) \/ LookupSimilar(r)
           \/ RecordHitAgain(r) \/ Route(r)
    PROVE  CallInv'
<1> USE NoneIsNone
<1>u. /\ calls' = [calls EXCEPT ![r] = calls[r]]
      /\ events' = [events EXCEPT ![r] = events[r]]
  BY DEF DataInv, TypeOK, Arrive, LookupExact, Embed, LookupSimilar, RecordHitAgain, Route
<1>0. req[r] # None => req[r] \in Progress /\ Accounted(req[r], calls[r], events[r])
  BY DEF DataInv, TypeOK, CallInv
<1>s. ASSUME NEW q \in Progress, req' = [req EXCEPT ![r] = q],
             Accounted(q, calls[r], events[r])
      PROVE  CallInv'
  BY <1>u, <1>s, MoveIsAccounted
<1>1. CASE Arrive(r)
  <2>1. PICK f \in Profiles, d \in Steps : req' = [req EXCEPT ![r] =
           [in |-> f, pc |-> IF f.cacheable THEN "lookup" ELSE "route",
            used |-> d, entered |-> d, embedded |-> FALSE, hit |-> None,
            model |-> f.model, routed |-> FALSE, escalated |-> FALSE, answer |-> None]]
    BY <1>1 DEF Arrive
  <2> DEFINE q == [in |-> f, pc |-> IF f.cacheable THEN "lookup" ELSE "route",
            used |-> d, entered |-> d, embedded |-> FALSE, hit |-> None,
            model |-> f.model, routed |-> FALSE, escalated |-> FALSE, answer |-> None]
  <2>2. calls[r] = <<>> /\ events[r] = <<>>
    BY <1>1 DEF Arrive, CallInv
  <2>3. /\ q.pc \in {"lookup", "route"} /\ ~q.routed /\ ~q.escalated
        /\ q.in = f /\ q.model = f.model
    OBVIOUS
  <2>4. q # None
    BY DEF None
  <2>5. req' = [req EXCEPT ![r] = q]
    BY <2>1
  <2> HIDE DEF q
  <2>6. Accounted(q, calls[r], events[r])
    BY <2>2, <2>3 DEF Accounted, Unasked
  <2> QED  BY <1>u, <2>4, <2>5, <2>6, MoveIsAccounted
<1>2. CASE LookupExact(r) \/ Embed(r) \/ LookupSimilar(r) \/ RecordHitAgain(r)
  <2>1. req[r] \in Progress /\ req[r].pc \in Guarded
    BY <1>2, LookupMoves, RecountMoves DEF Guarded
  <2>2. PICK q \in Progress :
           /\ req' = [req EXCEPT ![r] = q] /\ q.pc \in Guarded
           /\ q.in = req[r].in /\ q.model = req[r].model
           /\ q.routed = req[r].routed /\ q.escalated = req[r].escalated
    <3>1. CASE RecordHitAgain(r)
      BY <3>1, RecountMoves DEF Guarded
    <3>2. CASE LookupExact(r) \/ Embed(r) \/ LookupSimilar(r)
      BY <3>2, LookupMoves
    <3> QED  BY <1>2, <3>1, <3>2
  <2>3. Accounted(req[r], calls[r], events[r])
    BY <1>0, <2>1
  <2>4. Accounted(q, calls[r], events[r])
    BY <2>1, <2>2, <2>3 DEF Accounted, Unasked, Guarded
  <2> QED  BY <1>s, <2>2, <2>4
<1>3. CASE Route(r)
  <2>1. /\ req[r] \in Progress /\ Accounted(req[r], calls[r], events[r])
        /\ req[r].pc = "route"
    BY <1>0, <1>3 DEF Route, At
  <2>2. PICK m \in Decisions(In(r)) :
           LET forced == In(r).throttled /\ m \in DOMAIN Cheaper IN
           req' = [req EXCEPT ![r].pc = "routed",
                              ![r].model = IF forced THEN Cheaper[m] ELSE m,
                              ![r].routed = m # In(r).model /\ ~forced,
                              ![r].used = 0, ![r].entered = 0]
    BY <1>3 DEF Route
  <2> DEFINE forced == In(r).throttled /\ m \in DOMAIN Cheaper
             model == IF forced THEN Cheaper[m] ELSE m
             routed == m # In(r).model /\ ~forced
             q == [req[r] EXCEPT !.pc = "routed", !.model = model,
                                 !.routed = routed, !.used = 0, !.entered = 0]
  <2>3. Excluded(In(r)) => m = In(r).model
    BY <2>2 DEF Excluded, Decisions
  <2>4. routed => ~Excluded(In(r)) /\ model # In(r).model
    BY <2>3
  <2>5. Excluded(In(r)) /\ ~In(r).throttled => model = In(r).model
    BY <2>3
  <2>6. req' = [req EXCEPT ![r] = q]
    BY <2>2
  <2>7. model \in Models /\ routed \in BOOLEAN
    <3>1. In(r) \in Profiles
      BY <2>1 DEF Progress, In
    <3>2. m \in Models
      BY <3>1, DecisionType
    <3> QED  BY <3>2, CheaperAssumption
  <2> HIDE DEF model, routed, forced
  <2>8. /\ q \in Progress /\ q.pc = "routed" /\ q.in = req[r].in /\ q.model = model
        /\ q.routed = routed /\ q.escalated = req[r].escalated
    BY <2>1, <2>7 DEF Progress, Stages
  <2> HIDE DEF q
  <2>9. Accounted(q, calls[r], events[r])
    BY <2>1, <2>4, <2>5, <2>8 DEF Accounted, Unasked, In
  <2> QED  BY <1>s, <2>6, <2>8, <2>9
<1> QED  BY <1>1, <1>2, <1>3

\* The first call, to the model decided on; an answer that may be escalated
\* waits for the second.
LEMMA CallIsAccounted ==
    ASSUME DataInv, CallInv, NEW r \in Requests, At(r, "routed"),
           NEW pc \in {"record", "done", "escalate"}, NEW a \in Answer \cup {None},
           pc = "escalate" => MayEscalate(r) /\ ~In(r).stream,
           In(r).stream /\ a # None => a.named \in NamesOf(req[r].model),
           Call(r, req[r].model, pc, a)
    PROVE  CallInv'
<1> USE NoneIsNone
<1>1. req[r] \in Progress /\ req[r].pc = "routed" /\ Accounted(req[r], calls[r], events[r])
  BY DEF DataInv, TypeOK, CallInv, At
<1>2. calls[r] = <<>> /\ events[r] = <<>> /\ ~req[r].escalated
  BY <1>1 DEF Accounted, Unasked
<1> DEFINE q == [req[r] EXCEPT !.pc = pc, !.answer = a]
<1>3. /\ q \in Progress /\ q.pc = pc /\ q.in = req[r].in /\ q.model = req[r].model
      /\ q.routed = req[r].routed /\ q.escalated = req[r].escalated /\ q.answer = a
  BY <1>1 DEF Progress, Stages
<1>4. req' = [req EXCEPT ![r] = q]
  BY DEF Call
<1> HIDE DEF q
<1>5. req[r].model \in Models
  BY <1>1 DEF Progress
<1>6. Append(<<>>, req[r].model) = <<req[r].model>>
  BY <1>5, TwoCalls
<1>7. /\ calls' = [calls EXCEPT ![r] = <<req[r].model>>]
      /\ events' = [events EXCEPT ![r] = <<>>]
  BY <1>2, <1>6 DEF Call, DataInv, TypeOK
<1>8. Asked(q, <<req[r].model>>)
  BY <1>2, <1>3 DEF Asked
<1>9. pc = "escalate" => q.routed /\ q.in.escalation /\ ~q.in.stream
  BY <1>3 DEF MayEscalate, In
<1>n. Named(q)
  BY <1>3 DEF Named, In
<1>10. Accounted(q, <<req[r].model>>, <<>>)
  BY <1>1, <1>2, <1>3, <1>8, <1>9, <1>n DEF Accounted, Unasked
<1> QED  BY <1>3, <1>4, <1>7, <1>10, MoveIsAccounted

LEMMA ProviderIsAccounted ==
    ASSUME DataInv, CallInv, NEW r \in Requests,
           Unreachable(r) \/ ProviderRefuses(r) \/ Answers(r) \/ Streams(r) \/ Escalate(r)
    PROVE  CallInv'
<1> USE NoneIsNone
<1>1. CASE Unreachable(r) \/ ProviderRefuses(r)
  BY <1>1, CallIsAccounted DEF Unreachable, ProviderRefuses
<1>2. CASE Answers(r) \/ Streams(r)
  <2>1. /\ At(r, "routed")
        /\ \E pc \in {"record", "done", "escalate"}, w \in BOOLEAN, n \in NamesOf(req[r].model) :
             /\ Call(r, req[r].model, pc, AnswerOf(r, req[r].model, w, n))
             /\ pc = "escalate" => MayEscalate(r) /\ ~In(r).stream
    <3>1. req[r].model \in NamesOf(req[r].model)
      BY DEF NamesOf
    <3> QED  BY <1>2, <3>1 DEF Answers, Streams
  <2>2. req[r] \in Progress
    BY <2>1 DEF At, DataInv, TypeOK
  <2>3. req[r].model \in Models
    BY <2>2 DEF Progress
  <2>4. \A w \in BOOLEAN, n \in NamesOf(req[r].model) :
           /\ AnswerOf(r, req[r].model, w, n) \in Answer
           /\ AnswerOf(r, req[r].model, w, n).named = n
    BY <2>2, <2>3, AnswerType
  <2> QED  BY <2>1, <2>4, CallIsAccounted
<1>3. CASE Escalate(r)
  <2>1. req[r] \in Progress /\ req[r].pc = "escalate" /\ Accounted(req[r], calls[r], events[r])
    BY <1>3 DEF Escalate, DataInv, TypeOK, CallInv, At
  <2>2. PICK a \in {req[r].answer, AnswerOf(r, In(r).model, TRUE, In(r).model)} :
           req' = [req EXCEPT ![r].pc = "record", ![r].answer = a,
                              ![r].model = In(r).model, ![r].escalated = TRUE]
    BY <1>3 DEF Escalate
  <2> DEFINE asked == req[r].in.model
             q == [req[r] EXCEPT !.pc = "record", !.answer = a,
                                 !.model = asked, !.escalated = TRUE]
  <2>3. req[r].model \in Models /\ asked \in Models
    BY <2>1, ProfilesAssumption DEF Progress, Profile
  <2>4. a \in Answer \cup {None}
    <3>1. AnswerOf(r, asked, TRUE, asked) \in Answer
      BY <2>1, <2>3, AnswerType, NameType
    <3> QED  BY <2>1, <2>2, <3>1 DEF Progress, In
  <2>5. /\ q \in Progress /\ q.pc = "record" /\ q.in = req[r].in /\ q.model = asked
        /\ q.routed = req[r].routed /\ q.escalated
    BY <2>1, <2>3, <2>4 DEF Progress, Stages
  <2>6. req' = [req EXCEPT ![r] = q]
    BY <2>2 DEF In
  <2>7. /\ calls[r] = <<req[r].model>> /\ events[r] = <<>>
        /\ req[r].routed /\ req[r].in.escalation /\ ~req[r].in.stream
        /\ req[r].model # asked /\ ~Excluded(req[r].in)
    BY <2>1 DEF Accounted, Asked
  <2>8. Append(<<req[r].model>>, asked) = <<req[r].model, asked>>
    BY <2>3, TwoCalls
  <2> HIDE DEF q
  <2>9. /\ calls' = [calls EXCEPT ![r] = <<req[r].model, asked>>]
        /\ events' = [events EXCEPT ![r] = <<>>]
    BY <1>3, <2>7, <2>8, ZenonT(30) DEF Escalate, DataInv, TypeOK, In
  <2>10. Asked(q, <<req[r].model, asked>>)
    BY <2>3, <2>5, <2>7 DEF Asked
  <2>11. Accounted(q, <<req[r].model, asked>>, <<>>)
    BY <2>5, <2>7, <2>10 DEF Accounted, Unasked, Named
  <2> QED  BY <2>5, <2>6, <2>9, <2>11, MoveIsAccounted
<1> QED  BY <1>1, <1>2, <1>3

\* An event that tells the calls leaves a request accounted for.
LEMMA RecordIsAccounted ==
    ASSUME DataInv, CallInv, NEW r \in Requests, req[r] \in Progress,
           NEW pc \in {"done", "store"}, NEW q \in Progress, req' = [req EXCEPT ![r] = q],
           q.pc = pc, q.in = req[r].in, q.model = req[r].model,
           q.routed = req[r].routed, q.escalated = req[r].escalated,
           req[r].pc \in {"hit", "record"},
           pc = "done" => calls[r] = <<>> \/ Asked(req[r], calls[r]),
           pc = "store" => Asked(req[r], calls[r]),
           calls' = calls,
           NEW v \in Event, Tells(req[r], calls[r], v), Emit(r, v)
    PROVE  CallInv'
<1> USE NoneIsNone
<1>1. Accounted(req[r], calls[r], events[r])
  BY DEF CallInv
<1>2. /\ q \in Progress /\ q.pc = pc /\ q.in = req[r].in /\ q.model = req[r].model
      /\ q.routed = req[r].routed /\ q.escalated = req[r].escalated
  OBVIOUS
<1>3. req' = [req EXCEPT ![r] = q]
  OBVIOUS
<1>4. calls' = [calls EXCEPT ![r] = calls[r]]
  BY DEF DataInv, TypeOK
<1>5. Asked(req[r], calls[r]) => Asked(q, calls[r])
  BY <1>2 DEF Asked
<1>6. \A e \in Event : Tells(req[r], calls[r], e) => Tells(q, calls[r], e)
  BY <1>2 DEF Tells
<1>7. Accounted(q, calls[r], events[r])
  BY <1>1, <1>2, <1>5, <1>6 DEF Accounted, Unasked
<1>8. Accounted(q, calls[r], <<v>>)
  BY <1>1, <1>2, <1>5, <1>6 DEF Accounted, Unasked
<1>9. CASE events' = events
  <2>1. events' = [events EXCEPT ![r] = events[r]]
    BY <1>9 DEF DataInv, TypeOK
  <2> QED  BY <1>2, <1>3, <1>4, <1>7, <2>1, MoveIsAccounted
<1>10. CASE events' = [events EXCEPT ![r] = Append(events[r], v)]
  <2>0. events[r] = <<>>
    BY <1>1 DEF Accounted, Unasked
  <2>1. events' = [events EXCEPT ![r] = <<v>>]
    BY <1>10, <2>0, TwoCalls
  <2> QED  BY <1>2, <1>3, <1>4, <1>8, <2>1, MoveIsAccounted
<1> QED  BY <1>9, <1>10 DEF Emit

LEMMA RecordingIsAccounted ==
    ASSUME DataInv, CallInv, NEW r \in Requests, ServeHit(r) \/ Record(r) \/ Store(r)
    PROVE  CallInv'
<1> USE NoneIsNone
<1>0. req[r] \in Progress /\ Held(req[r]) /\ Accounted(req[r], calls[r], events[r])
  BY DEF DataInv, TypeOK, CallInv, ServeHit, Record, Store, At
<1>1. CASE ServeHit(r)
  <2> DEFINE v == [hit |-> TRUE, model |-> req[r].hit.says, routed |-> FALSE, escalated |-> FALSE]
  <2>1. req[r].pc = "hit" /\ calls[r] = <<>>
    BY <1>0, <1>1 DEF ServeHit, At, Accounted, Unasked
  <2>2. req[r].hit \in Entry
    BY <1>0, <2>1 DEF Held, Progress
  <2>3. v \in Event
    BY <2>2 DEF Entry, Event
  <2>4. Tells(req[r], calls[r], v)
    BY <2>1, TwoCalls DEF Tells
  <2> DEFINE q == [req[r] EXCEPT !.pc = "done", !.used = 0, !.entered = 0]
  <2>5. Emit(r, v) /\ req' = [req EXCEPT ![r] = q] /\ calls' = calls
    BY <1>1 DEF ServeHit
  <2>6. /\ q \in Progress /\ q.pc = "done" /\ q.in = req[r].in /\ q.model = req[r].model
        /\ q.routed = req[r].routed /\ q.escalated = req[r].escalated
    BY <1>0 DEF Progress, Stages
  <2> HIDE DEF v, q
  <2> QED  BY <1>0, <2>1, <2>3, <2>4, <2>5, <2>6, RecordIsAccounted
<1>2. CASE Record(r)
  <2> DEFINE v == [hit |-> FALSE, model |-> Recorded(r), routed |-> req[r].routed,
                   escalated |-> req[r].escalated]
  <2>1. req[r].pc = "record" /\ Asked(req[r], calls[r]) /\ Named(req[r])
    BY <1>0, <1>2 DEF Record, At, Accounted
  <2>2. v \in Event
    BY <1>0, RecordedType DEF Progress, Event
  <2>m. /\ ~req[r].in.stream => Recorded(r) = req[r].model
        /\ Recorded(r) \in NamesOf(req[r].model)
    BY <2>1 DEF Recorded, Named, NamesOf, In
  <2>3. Tells(req[r], calls[r], v)
    <3>1. CASE req[r].escalated
      <4>1. PICK m \in Models \ {req[r].in.model} : calls[r] = <<m, req[r].in.model>>
        BY <2>1, <3>1 DEF Asked
      <4>2. /\ Len(calls[r]) = 2 /\ calls[r][1] = m /\ calls[r] # <<>>
            /\ calls[r][2] = req[r].in.model
        BY <4>1
      <4>3. ~req[r].in.stream /\ req[r].model = req[r].in.model
        BY <2>1, <3>1 DEF Asked
      <4>4. Recorded(r) = calls[r][Len(calls[r])]
        BY <2>m, <4>2, <4>3
      <4> QED  BY <3>1, <4>1, <4>2, <4>3, <4>4 DEF Tells
    <3>2. CASE ~req[r].escalated
      <4>1. calls[r] = <<req[r].model>>
        BY <2>1, <3>2 DEF Asked
      <4>2. Len(calls[r]) = 1 /\ calls[r][1] = req[r].model /\ calls[r] # <<>>
        BY <4>1
      <4>3. req[r].routed => req[r].model # req[r].in.model
        BY <1>0, <3>2 DEF Accounted
      <4>4. req[r].escalated = FALSE
        BY <1>0, <3>2 DEF Progress
      <4>5. calls[r][Len(calls[r])] = req[r].model
        BY <4>2
      <4> QED  BY <3>2, <2>m, <4>2, <4>3, <4>4, <4>5 DEF Tells
    <3> QED  BY <3>1, <3>2
  <2>4. PICK pc \in {"done", "store"} : req' = [req EXCEPT ![r].pc = pc]
    BY <1>2 DEF Record
  <2>5. Emit(r, v) /\ calls' = calls
    BY <1>2 DEF Record
  <2> DEFINE q == [req[r] EXCEPT !.pc = pc]
  <2>6. /\ q \in Progress /\ q.pc = pc /\ q.in = req[r].in /\ q.model = req[r].model
        /\ q.routed = req[r].routed /\ q.escalated = req[r].escalated
    BY <1>0 DEF Progress, Stages
  <2>7. req' = [req EXCEPT ![r] = q]
    BY <2>4
  <2> HIDE DEF v, q
  <2> QED  BY <1>0, <2>1, <2>2, <2>3, <2>5, <2>6, <2>7, RecordIsAccounted
<1>3. CASE Store(r)
  <2>1. /\ req[r].pc = "store" /\ Asked(req[r], calls[r])
        /\ req' = [req EXCEPT ![r].pc = "done"]
    BY <1>0, <1>3 DEF Store, At, Accounted
  <2> DEFINE q == [req[r] EXCEPT !.pc = "done"]
  <2>2. /\ q \in Progress /\ q.pc = "done" /\ q.in = req[r].in /\ q.model = req[r].model
        /\ q.routed = req[r].routed /\ q.escalated = req[r].escalated
    BY <1>0 DEF Progress, Stages
  <2>3. req' = [req EXCEPT ![r] = q]
    BY <2>1
  <2> HIDE DEF q
  <2>4. Asked(q, calls[r])
    BY <2>1, <2>2 DEF Asked
  <2>5. \A e \in Event : Tells(req[r], calls[r], e) => Tells(q, calls[r], e)
    BY <2>2 DEF Tells
  <2>6. Accounted(q, calls[r], events[r])
    BY <1>0, <2>2, <2>4, <2>5 DEF Accounted, Unasked
  <2>7. calls' = [calls EXCEPT ![r] = calls[r]] /\ events' = [events EXCEPT ![r] = events[r]]
    BY <1>3 DEF Store, DataInv, TypeOK
  <2> QED  BY <2>2, <2>3, <2>6, <2>7, MoveIsAccounted
<1> QED  BY <1>1, <1>2, <1>3

LEMMA CallInvariant == Spec => []CallInv
<1>1. Init => CallInv
  BY DEF Init, CallInv
<1>2. DataInv /\ CallInv /\ [Next]_vars => CallInv'
  <2> SUFFICES ASSUME DataInv, CallInv, [Next]_vars PROVE CallInv'
    OBVIOUS
  <2>1. CASE UNCHANGED vars
    BY <2>1 DEF vars, CallInv
  <2>2. CASE Forget
    BY <2>2 DEF Forget, CallInv
  <2>3. ASSUME NEW r \in Requests,
               KeyFails(r) \/ Abandoned(r) \/ Finish(r)
        PROVE  CallInv'
    BY <2>3, EndIsAccounted DEF KeyFails, Abandoned, Finish
  <2> QED  BY <2>1, <2>2, <2>3, StageIsAccounted, ProviderIsAccounted, RecordingIsAccounted DEF Next
<1> QED  BY <1>1, <1>2, DataInvariant, PTL DEF Spec

\* Whatever rules, classifier and throttling decide, an excluded request that is
\* not throttled stays on its model, and a second call only takes an unstreamed
\* routed request back to the model asked for.
THEOREM NoUnlicensedCall == Spec => []CallsAreLicensed
<1>1. DataInv /\ CallInv => CallsAreLicensed
  <2> SUFFICES ASSUME DataInv, CallInv, NEW r \in Requests, req[r] # None
               PROVE  /\ Len(calls[r]) <= 2
                      /\ Len(calls[r]) = 2 =>
                           /\ calls[r][2] = In(r).model /\ calls[r][1] # In(r).model
                           /\ In(r).escalation /\ ~In(r).stream /\ ~Excluded(In(r))
                      /\ Excluded(In(r)) /\ ~In(r).throttled =>
                           \A i \in 1 .. Len(calls[r]) : calls[r][i] = In(r).model
    BY DEF CallsAreLicensed
  <2>1. req[r] \in Progress /\ Accounted(req[r], calls[r], events[r])
    BY DEF DataInv, TypeOK, CallInv
  <2>2. CASE calls[r] = <<>>
    BY <2>2
  <2>3. CASE Asked(req[r], calls[r]) /\ req[r].escalated
    <3>1. PICK m \in Models \ {req[r].in.model} : calls[r] = <<m, req[r].in.model>>
      BY <2>3 DEF Asked
    <3>2. Len(calls[r]) = 2 /\ calls[r][1] = m /\ calls[r][2] = req[r].in.model
      BY <3>1
    <3> QED  BY <2>3, <3>1, <3>2 DEF Asked, In
  <2>4. CASE Asked(req[r], calls[r]) /\ ~req[r].escalated
    <3>1. Len(calls[r]) = 1 /\ calls[r][1] = req[r].model
      BY <2>4 DEF Asked
    <3>2. Excluded(In(r)) /\ ~In(r).throttled => req[r].model = In(r).model
      BY <2>1 DEF Accounted, In
    <3> QED  BY <3>1, <3>2
  <2>5. req[r].pc \in Unasked \cup {"escalate", "record", "store", "done"}
    BY <2>1 DEF Progress, Stages, Unasked
  <2> QED  BY <2>1, <2>2, <2>3, <2>4, <2>5 DEF Accounted, Unasked
<1> QED  BY <1>1, DataInvariant, CallInvariant, PTL

\* The ledger's flags and model agree with the calls that were made, and no
\* request has two events.
THEOREM LedgerTellsTheTruth == Spec => []EventsTellTheTruth
<1>1. CallInv => EventsTellTheTruth
  <2> SUFFICES ASSUME CallInv, NEW r \in Requests
               PROVE  /\ Len(events[r]) <= 1
                      /\ \A i \in 1 .. Len(events[r]) :
                           LET e == events[r][i]
                               last == calls[r][Len(calls[r])] IN
                           /\ e.hit <=> calls[r] = <<>>
                           /\ e.routed => ~e.hit /\ calls[r][1] # In(r).model
                           /\ e.escalated <=> Len(calls[r]) = 2
                           /\ ~e.hit => e.model \in IF In(r).stream THEN NamesOf(last)
                                                   ELSE {last}
    BY DEF EventsTellTheTruth
  <2>1. CASE events[r] = <<>>
    BY <2>1
  <2>2. CASE \E v \in Event : events[r] = <<v>> /\ Tells(req[r], calls[r], v)
    BY <2>2 DEF Tells, In
  <2> QED  BY <2>1, <2>2 DEF CallInv, Accounted
<1> QED  BY <1>1, CallInvariant, PTL
=============================================================================
