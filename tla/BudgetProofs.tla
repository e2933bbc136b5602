---------------------------- MODULE BudgetProofs ----------------------------
(***************************************************************************)
(* Proofs about Budget, for any number of client connections, any budgets, *)
(* limits and costs, any calendar and any number of faults: it is type     *)
(* correct, a hard stop is never masked at admission, it is overshot by no *)
(* more than one request per connection, and no increment is lost but by a *)
(* failure.                                                                *)
(***************************************************************************)
EXTENDS Budget, ProofLemmas, FiniteSetTheorems, TLAPS

States == [pc : {"idle", "resolved", "admitted", "served", "ledgered"},
           budgets : Settings, cost : 0 .. MaxCost]

\* A budget of a valid setting has a positive limit and a known period.
LEMMA SettingBudget ==
    ASSUME NEW D \in Settings, NEW b \in D
    PROVE  /\ b.period \in Periods /\ b.limit \in Nat \ {0}
           /\ b.action \in {"alert_only", "soft_throttle", "hard_stop"}
BY BudgetsAssumption DEF Settings

LEMMA BucketType ==
    ASSUME BudgetTypeOK, NEW p \in Periods
    PROVE  Bucket(p) \in Buckets
<1>1. Calendar[p] \in [0 .. MaxDay -> Buckets]
  BY CalendarAssumption
<1>2. today \in 0 .. MaxDay
  BY DEF BudgetTypeOK
<1> QED  BY <1>1, <1>2 DEF Bucket

\* Every state of Budget is well typed, whatever the constants.
THEOREM TypeCorrect == BudgetSpec => []BudgetTypeOK
<1> USE BudgetBoundsAssumption
<1>1. BudgetInit => BudgetTypeOK
  <2> SUFFICES ASSUME BudgetInit PROVE BudgetTypeOK
    OBVIOUS
  <2>1. {} \in Settings
    BY DEF Settings
  <2>2. counter \in [Periods -> [Buckets -> Nat]]
    BY DEF BudgetInit
  <2>3. conn \in [Connections -> States]
    BY <2>1 DEF BudgetInit, NoRequest, States
  <2> QED  BY <2>2, <2>3 DEF BudgetInit, BudgetTypeOK, States
<1>2. BudgetTypeOK /\ [BudgetNext]_budgetVars => BudgetTypeOK'
  <2> SUFFICES ASSUME BudgetTypeOK, [BudgetNext]_budgetVars PROVE BudgetTypeOK'
    OBVIOUS
  <2>0. NoRequest \in States
    BY DEF NoRequest, States, Settings
  <2>f. Fault => faults' \in 0 .. MaxFaults
    BY DEF Fault, BudgetTypeOK
  <2>1. ASSUME NEW r \in Connections, Resolve(r) PROVE BudgetTypeOK'
    <3>1. PICK D \in {cached, defs} :
             /\ cached' = D
             /\ conn' = [conn EXCEPT ![r] = [NoRequest EXCEPT !.pc = "resolved", !.budgets = D]]
      BY <2>1 DEF Resolve
    <3>2. D \in Settings
      BY DEF BudgetTypeOK
    <3>3. conn' \in [Connections -> States]
      BY <3>1, <3>2, <2>0 DEF BudgetTypeOK, States
    <3> QED  BY <2>1, <3>1, <3>2, <3>3 DEF Resolve, BudgetTypeOK, States
  <2>2. ASSUME NEW r \in Connections, Step(r) PROVE BudgetTypeOK'
    <3>r. conn[r] \in States
      BY DEF BudgetTypeOK, States
    <3>1. CASE Check(r)
      BY <3>1, <2>0, <3>r DEF Check, BudgetTypeOK, States
    <3>2. CASE CheckUnreadable(r)
      BY <3>2, <2>0, <2>f, <3>r DEF CheckUnreadable, BudgetTypeOK, States
    <3>3. CASE Serve(r)
      <4>1. PICK c \in 1 .. MaxCost : conn' = [conn EXCEPT ![r] = [@ EXCEPT !.pc = "served", !.cost = c]]
        BY <3>3 DEF Serve
      <4>2. c \in 0 .. MaxCost
        OBVIOUS
      <4>3. [conn[r] EXCEPT !.pc = "served", !.cost = c] \in States
        BY <3>r, <4>2 DEF States
      <4>4. conn' \in [Connections -> States]
        BY <4>1, <4>3 DEF BudgetTypeOK, States
      <4> QED  BY <3>3, <4>4 DEF Serve, BudgetTypeOK, States
    <3>4. CASE ServeFree(r)
      BY <3>4, <2>0 DEF ServeFree, BudgetTypeOK, States
    <3>5. CASE Ledger(r)
      <4>1. ledgered' \in Nat /\ faults' \in 0 .. MaxFaults
        BY <3>5, <3>r, <2>f DEF Ledger, BudgetTypeOK, States
      <4> QED  BY <3>5, <4>1, <3>r DEF Ledger, BudgetTypeOK, States
    <3>6. CASE RecordSpend(r)
      <4>1. \A p \in Periods : [counter[p] EXCEPT ![Bucket(p)] = @ + conn[r].cost] \in [Buckets -> Nat]
        BY <3>r, BucketType DEF BudgetTypeOK, States
      <4>2. counter' \in [Periods -> [Buckets -> Nat]]
        BY <3>6, <4>1 DEF RecordSpend, BudgetTypeOK
      <4>3. conn' \in [Connections -> States]
        BY <3>6, <2>0 DEF RecordSpend, BudgetTypeOK, States
      <4> QED  BY <3>6, <4>2, <4>3 DEF RecordSpend, BudgetTypeOK, States
    <3>7. CASE RecordLost(r)
      BY <3>7, <2>0, <2>f DEF RecordLost, BudgetTypeOK, States
    <3> QED  BY <2>2, <3>1, <3>2, <3>3, <3>4, <3>5, <3>6, <3>7 DEF Step
  <2>3. CASE EditBudgets
    BY <2>3 DEF EditBudgets, BudgetTypeOK
  <2>4. CASE Midnight
    BY <2>4 DEF Midnight, BudgetTypeOK
  <2>5. CASE UNCHANGED budgetVars
    BY <2>5 DEF budgetVars, BudgetTypeOK
  <2> QED  BY <2>1, <2>2, <2>3, <2>4, <2>5 DEF BudgetNext
<1> QED  BY <1>1, <1>2, PTL DEF BudgetSpec

----------------------------------------------------------------------------
\* A request with an exhausted hard stop is not admitted: whatever other
\* budgets it has, and whether or not the counters can be read.
LEMMA ExhaustedBlocks ==
    ASSUME BudgetTypeOK, NEW D \in Settings, NEW b \in HardStops(D), Exhausted(b)
    PROVE  Blocked(D)
<1>1. b \in D /\ b.action = "hard_stop"
  BY DEF HardStops
<1>2. Severity(b) = 2
  BY <1>1 DEF Severity, Order
<1>3. \A c \in D : Severity(c) \in {0, 1, 2}
  BY SettingBudget DEF Severity, Order
<1> QED  BY <1>1, <1>2, <1>3 DEF Blocked

\* check_budgets takes the most restrictive verdict and fails closed, so a
\* hard stop is never masked.
THEOREM HardStopsHold == BudgetSpec => HardStopIsNeverMasked
<1> DEFINE Unmasked == \A r \in Connections :
             conn[r].pc = "resolved" /\ conn'[r].pc = "admitted" =>
                 \A b \in HardStops(conn[r].budgets) : ~Exhausted(b)
<1>1. BudgetTypeOK /\ [BudgetNext]_budgetVars => [Unmasked]_budgetVars
  <2> SUFFICES ASSUME BudgetTypeOK, BudgetNext, NEW r \in Connections,
                      conn[r].pc = "resolved", conn'[r].pc = "admitted",
                      NEW b \in HardStops(conn[r].budgets)
               PROVE  ~Exhausted(b)
    BY DEF budgetVars
  <2>1. Check(r) \/ CheckUnreadable(r)
    <3>1. PICK s \in Connections : Resolve(s) \/ Step(s)
      BY DEF BudgetNext, EditBudgets, Midnight
    <3>2. s = r
      BY <3>1 DEF Step, Resolve, Check, CheckUnreadable, Serve, ServeFree, Ledger, RecordSpend,
                  RecordLost, BudgetTypeOK
    <3> QED  BY <3>1, <3>2 DEF Step, Resolve, Serve, ServeFree, Ledger, RecordSpend, RecordLost
  <2>2. CASE Check(r)
    <3>1. ~Blocked(conn[r].budgets)
      BY <2>2 DEF Check, NoRequest, BudgetTypeOK
    <3>2. conn[r].budgets \in Settings
      BY DEF BudgetTypeOK
    <3> QED  BY <3>1, <3>2, ExhaustedBlocks
  <2>3. CASE CheckUnreadable(r)
    BY <2>3 DEF CheckUnreadable, NoRequest, BudgetTypeOK
  <2> QED  BY <2>1, <2>2, <2>3
<1> QED  BY <1>1, TypeCorrect, PTL DEF BudgetSpec, HardStopIsNeverMasked
----------------------------------------------------------------------------
(* The overshoot.                                                          *)

\* Requests past the check whose cost may yet be counted.
InFlight == {r \in Connections : conn[r].pc \in {"admitted", "served", "ledgered"}}

Load == MaxCost * Cardinality(InFlight)
Allowance == MaxCost * Cardinality(Connections)

\* While the budgets stay as they were, every request carries them.
Steady ==
    edits = 0 => /\ cached = defs
                 /\ \A r \in Connections : conn[r].pc # "idle" => conn[r].budgets = defs

\* What makes the bound inductive.  The current instance of an exhausted
\* budget has room for all that is in flight; earlier instances are within the
\* bound and grow no more; later ones are empty.
Roomy(b) ==
    \A k \in Buckets :
        LET n == counter[b.period][k] IN
        /\ k = Bucket(b.period) /\ n >= b.limit => n + Load <= b.limit - 1 + Allowance
        /\ k < Bucket(b.period) => n <= b.limit - 1 + Allowance
        /\ k > Bucket(b.period) => n = 0

Room == edits = 0 => \A b \in HardStops(defs) : Roomy(b)

LEMMA Loads ==
    ASSUME BudgetTypeOK
    PROVE  /\ IsFiniteSet(InFlight) /\ Cardinality(InFlight) \in Nat
           /\ Cardinality(Connections) \in Nat
           /\ Load \in Nat /\ Allowance \in Nat /\ Load <= Allowance
<1>1. InFlight \in SUBSET Connections
  BY DEF InFlight
<1>2. /\ IsFiniteSet(InFlight)
      /\ Cardinality(InFlight) <= Cardinality(Connections)
      /\ Cardinality(InFlight) \in Nat /\ Cardinality(Connections) \in Nat
  BY <1>1, ConnectionsAssumption, FS_Subset, FS_CardinalityType
<1>3. \A m, n \in Nat : m <= n => MaxCost * m <= MaxCost * n /\ MaxCost * m \in Nat /\ MaxCost * n \in Nat
  BY BudgetBoundsAssumption
<1> QED  BY <1>2, <1>3 DEF Load, Allowance

\* A request that leaves the flight takes its share of the load along.
LEMMA Landing ==
    ASSUME BudgetTypeOK, BudgetTypeOK', NEW r \in InFlight, InFlight' = InFlight \ {r}
    PROVE  Load' + MaxCost = Load /\ Load' \in Nat
<1>1. /\ Cardinality(InFlight') = Cardinality(InFlight) - 1
      /\ Cardinality(InFlight') \in Nat
  BY Loads, FS_RemoveElement, FS_CardinalityType
<1>2. \A m, n \in Nat : m = n - 1 => MaxCost * m + MaxCost = MaxCost * n /\ MaxCost * m \in Nat
  BY BudgetBoundsAssumption
<1>3. Load = MaxCost * Cardinality(InFlight) /\ Load' = MaxCost * Cardinality(InFlight')
  BY DEF Load
<1>4. Cardinality(InFlight) \in Nat
  BY Loads
<1> QED  BY <1>1, <1>2, <1>3, <1>4

\* The bound itself.
LEMMA RoomBounds ==
    ASSUME BudgetTypeOK, Room
    PROVE  BoundedOvershoot
<1> SUFFICES ASSUME edits = 0, NEW b \in HardStops(defs), NEW k \in Buckets
             PROVE  counter[b.period][k] <= b.limit - 1 + Allowance
  BY DEF BoundedOvershoot, Allowance
<1> DEFINE n == counter[b.period][k]
<1>1. b.period \in Periods /\ b.limit \in Nat \ {0}
  BY SettingBudget DEF HardStops, BudgetTypeOK
<1>2. n \in Nat /\ k \in Nat /\ Bucket(b.period) \in Nat
  BY <1>1, BucketType, BudgetBoundsAssumption DEF BudgetTypeOK, Buckets
<1>3. /\ k = Bucket(b.period) /\ n >= b.limit => n + Load <= b.limit - 1 + Allowance
      /\ k < Bucket(b.period) => n <= b.limit - 1 + Allowance
      /\ k > Bucket(b.period) => n = 0
  BY DEF Room, Roomy
<1> HIDE DEF n
<1>4. n <= b.limit - 1 + Allowance
  BY <1>1, <1>2, <1>3, Loads
<1> QED  BY <1>4 DEF n

LEMMA SteadyStep ==
    ASSUME BudgetTypeOK, Steady, [BudgetNext]_budgetVars
    PROVE  Steady'
<1> SUFFICES ASSUME edits' = 0 PROVE Steady'
  BY DEF Steady
<1>1. ASSUME NEW r \in Connections, Resolve(r) PROVE Steady'
  BY <1>1 DEF Resolve, Steady, BudgetTypeOK, NoRequest
<1>2. ASSUME NEW r \in Connections, Step(r) PROVE Steady'
  <2>1. /\ UNCHANGED <<defs, cached, edits>>
        /\ \A x \in Connections : x # r => conn'[x] = conn[x]
        /\ conn'[r] = NoRequest \/ (conn[r].pc # "idle" /\ conn'[r].budgets = conn[r].budgets)
    BY <1>2 DEF Step, Check, CheckUnreadable, Serve, ServeFree, Ledger, RecordSpend, RecordLost,
                BudgetTypeOK
  <2> QED  BY <2>1 DEF Steady, NoRequest
<1>3. CASE EditBudgets
  BY <1>3 DEF EditBudgets, BudgetTypeOK
<1>4. CASE Midnight
  BY <1>4 DEF Midnight, Steady
<1>5. CASE UNCHANGED budgetVars
  BY <1>5 DEF budgetVars, Steady
<1> QED  BY <1>1, <1>2, <1>3, <1>4, <1>5 DEF BudgetNext

\* Steps that count nothing and put nothing in flight keep the room.
LEMMA RoomKept ==
    ASSUME BudgetTypeOK, BudgetTypeOK', Room,
           edits' = edits, UNCHANGED <<defs, counter, today>>,
           InFlight' = InFlight \/ \E r \in InFlight : InFlight' = InFlight \ {r}
    PROVE  Room'
<1>1. Load' \in Nat /\ Load \in Nat /\ Load' <= Load
  <2>1. CASE InFlight' = InFlight
    BY <2>1, Loads DEF Load
  <2>2. CASE \E r \in InFlight : InFlight' = InFlight \ {r}
    <3>1. Load' + MaxCost = Load /\ Load' \in Nat
      BY <2>2, Landing
    <3> QED  BY <3>1, Loads, BudgetBoundsAssumption
  <2> QED  BY <2>1, <2>2
<1>2. \A p \in Periods : Bucket(p)' = Bucket(p)
  BY DEF Bucket
<1> SUFFICES ASSUME edits = 0, NEW b \in HardStops(defs), NEW k \in Buckets,
                    NEW n, n = counter[b.period][k]
             PROVE  /\ k = Bucket(b.period) /\ n >= b.limit => n + Load' <= b.limit - 1 + Allowance
                    /\ k < Bucket(b.period) => n <= b.limit - 1 + Allowance
                    /\ k > Bucket(b.period) => n = 0
  BY <1>2 DEF Room, Roomy, HardStops, Bucket, Allowance
<1>3. b.period \in Periods /\ b.limit \in Nat \ {0}
  BY SettingBudget DEF HardStops, BudgetTypeOK
<1>4. n \in Nat
  BY <1>3 DEF BudgetTypeOK
<1>5. /\ k = Bucket(b.period) /\ n >= b.limit => n + Load <= b.limit - 1 + Allowance
      /\ k < Bucket(b.period) => n <= b.limit - 1 + Allowance
      /\ k > Bucket(b.period) => n = 0
  BY DEF Room, Roomy
<1> QED  BY <1>1, <1>3, <1>4, <1>5, Loads
LEMMA RoomStep ==
    ASSUME BudgetTypeOK, BudgetTypeOK', Steady, Room, [BudgetNext]_budgetVars
    PROVE  Room'
<1>f. \A r \in Connections : conn[r].pc # "idle" /\ edits = 0 => conn[r].budgets = defs
  BY DEF Steady
<1>1. ASSUME NEW r \in Connections, Resolve(r) PROVE Room'
  <2>1. InFlight' = InFlight
    BY <1>1 DEF Resolve, InFlight, BudgetTypeOK, NoRequest
  <2> QED  BY <1>1, <2>1, RoomKept DEF Resolve
<1>2. ASSUME NEW r \in Connections, Check(r) \/ CheckUnreadable(r) PROVE Room'
  <2>0. /\ UNCHANGED <<counter, defs, today, edits>>
        /\ conn[r].pc = "resolved" /\ conn[r].budgets \in Settings
        /\ conn' = [conn EXCEPT ![r] = NoRequest] \/ conn' = [conn EXCEPT ![r] = [conn[r] EXCEPT !.pc = "admitted"]]
    BY <1>2 DEF Check, CheckUnreadable, BudgetTypeOK
  <2>1. CASE conn' = [conn EXCEPT ![r] = NoRequest]
    <3>1. InFlight' = InFlight
      BY <2>0, <2>1 DEF InFlight, BudgetTypeOK, NoRequest
    <3> QED  BY <2>0, <3>1, RoomKept
  <2>2. CASE conn' = [conn EXCEPT ![r] = [conn[r] EXCEPT !.pc = "admitted"]]
    <3>1. \A b \in HardStops(conn[r].budgets) : ~Exhausted(b)
      <4>1. conn'[r].pc = "admitted"
        BY <2>2 DEF BudgetTypeOK
      <4>2. CASE Check(r)
        <5>1. ~Blocked(conn[r].budgets)
          BY <4>1, <4>2 DEF Check, NoRequest, BudgetTypeOK
        <5> QED  BY <5>1, <2>0, ExhaustedBlocks
      <4>3. CASE CheckUnreadable(r)
        BY <4>1, <4>3 DEF CheckUnreadable, NoRequest, BudgetTypeOK
      <4> QED  BY <1>2, <4>2, <4>3
    <3> SUFFICES ASSUME edits = 0, NEW b \in HardStops(defs), NEW k \in Buckets,
                        NEW n, n = counter[b.period][k]
                 PROVE  /\ ~(k = Bucket(b.period) /\ n >= b.limit)
                        /\ k < Bucket(b.period) => n <= b.limit - 1 + Allowance
                        /\ k > Bucket(b.period) => n = 0
      BY <2>0 DEF Room, Roomy, HardStops, Bucket, Allowance
    <3>2. ~Exhausted(b)
      BY <3>1, <2>0, <1>f DEF HardStops
    <3> QED  BY <3>2 DEF Room, Roomy, Exhausted, Spent
  <2> QED  BY <2>0, <2>1, <2>2
<1>3. ASSUME NEW r \in Connections, Serve(r) \/ Ledger(r) PROVE Room'
  <2>1. InFlight' = InFlight
    BY <1>3 DEF Serve, Ledger, InFlight, BudgetTypeOK
  <2> QED  BY <1>3, <2>1, RoomKept DEF Serve, Ledger
<1>4. ASSUME NEW r \in Connections, ServeFree(r) \/ RecordLost(r) PROVE Room'
  <2>1. r \in InFlight /\ InFlight' = InFlight \ {r}
    BY <1>4 DEF ServeFree, RecordLost, InFlight, BudgetTypeOK, NoRequest
  <2> QED  BY <1>4, <2>1, RoomKept DEF ServeFree, RecordLost
<1>5. ASSUME NEW r \in Connections, RecordSpend(r) PROVE Room'
  <2>1. r \in InFlight /\ InFlight' = InFlight \ {r}
    BY <1>5 DEF RecordSpend, InFlight, BudgetTypeOK, NoRequest
  <2>2. Load' + MaxCost = Load /\ Load' \in Nat
    BY <2>1, Landing
  <2>3. UNCHANGED <<defs, today, edits>> /\ conn[r].cost \in 0 .. MaxCost
    BY <1>5 DEF RecordSpend, BudgetTypeOK
  <2> SUFFICES ASSUME edits = 0, NEW b \in HardStops(defs), NEW k \in Buckets,
                      NEW n, n = counter[b.period][k], NEW m, m = counter'[b.period][k]
               PROVE  /\ k = Bucket(b.period) /\ m >= b.limit => m + Load' <= b.limit - 1 + Allowance
                      /\ k < Bucket(b.period) => m <= b.limit - 1 + Allowance
                      /\ k > Bucket(b.period) => m = 0
    BY <2>3 DEF Room, Roomy, HardStops, Bucket, Allowance
  <2>4. b.period \in Periods /\ b.limit \in Nat \ {0}
    BY SettingBudget DEF HardStops, BudgetTypeOK
  <2>5. n \in Nat /\ k \in Nat /\ Bucket(b.period) \in Nat
    <3>1. Buckets \subseteq Nat
      BY BudgetBoundsAssumption DEF Buckets
    <3>2. Bucket(b.period) \in Nat
      BY <3>1, <2>4, BucketType
    <3> QED  BY <3>1, <3>2, <2>4 DEF BudgetTypeOK
  <2>6. /\ k = Bucket(b.period) /\ n >= b.limit => n + Load <= b.limit - 1 + Allowance
        /\ k < Bucket(b.period) => n <= b.limit - 1 + Allowance
        /\ k > Bucket(b.period) => n = 0
    BY DEF Room, Roomy
  <2>7. /\ k = Bucket(b.period) => m = n \/ m = n + conn[r].cost
        /\ k # Bucket(b.period) => m = n
    <3>1. \/ counter'[b.period] = counter[b.period]
          \/ counter'[b.period] = [counter[b.period] EXCEPT ![Bucket(b.period)] = @ + conn[r].cost]
      BY <1>5, <2>4 DEF RecordSpend
    <3>2. counter[b.period] \in [Buckets -> Nat]
      BY <2>4 DEF BudgetTypeOK
    <3> QED  BY <3>1, <3>2
  <2>8. Load + MaxCost \in Nat /\ Load <= Allowance /\ Allowance \in Nat /\ MaxCost \in Nat /\ Load \in Nat
    BY Loads, BudgetBoundsAssumption
  <2> QED  BY <2>2, <2>3, <2>4, <2>5, <2>6, <2>7, <2>8
<1>6. CASE EditBudgets
  BY <1>6 DEF EditBudgets, Room, BudgetTypeOK
<1>7. CASE Midnight
  <2> SUFFICES ASSUME edits = 0, NEW b \in HardStops(defs), NEW k \in Buckets,
                      NEW n, n = counter[b.period][k]
               PROVE  /\ k = Bucket(b.period)' /\ n >= b.limit => n + Load <= b.limit - 1 + Allowance
                      /\ k < Bucket(b.period)' => n <= b.limit - 1 + Allowance
                      /\ k > Bucket(b.period)' => n = 0
    BY <1>7 DEF Midnight, Room, Roomy, HardStops, Load, InFlight, Allowance
  <2>1. b.period \in Periods /\ b.limit \in Nat \ {0}
    BY SettingBudget DEF HardStops, BudgetTypeOK
  <2>2. Bucket(b.period) <= Bucket(b.period)'
    <3>1. today \in 0 .. MaxDay /\ today' \in 0 .. MaxDay /\ today <= today'
      BY <1>7 DEF Midnight, BudgetTypeOK
    <3> QED  BY <3>1, <2>1, CalendarAssumption DEF Bucket
  <2>3. /\ n \in Nat /\ k \in Nat
        /\ Bucket(b.period) \in Nat /\ Bucket(b.period)' \in Nat
    <3>1. today' \in 0 .. MaxDay
      BY <1>7 DEF Midnight, BudgetTypeOK
    <3>2. Bucket(b.period)' \in Buckets
      BY <3>1, <2>1, CalendarAssumption DEF Bucket
    <3>3. Bucket(b.period) \in Buckets
      BY <2>1, BucketType
    <3>4. Buckets \subseteq Nat
      BY BudgetBoundsAssumption DEF Buckets
    <3>5. n \in Nat
      BY <2>1 DEF BudgetTypeOK
    <3> QED  BY <3>2, <3>3, <3>4, <3>5
  <2>4. n <= b.limit - 1 + Allowance
    BY RoomBounds DEF BoundedOvershoot, Allowance
  <2>5. /\ k = Bucket(b.period) /\ n >= b.limit => n + Load <= b.limit - 1 + Allowance
        /\ k > Bucket(b.period) => n = 0
    BY DEF Room, Roomy
  <2> QED  BY <2>1, <2>2, <2>3, <2>4, <2>5, Loads
<1>8. CASE UNCHANGED budgetVars
  BY <1>8 DEF budgetVars, Room, Roomy, Bucket, Load, InFlight
<1> QED  BY <1>1, <1>2, <1>3, <1>4, <1>5, <1>6, <1>7, <1>8 DEF BudgetNext, Step

\* A hard stop is overshot by at most one request per client connection, at
\* most MaxCost each: the check comes before, the counting after, and only
\* what was in between when the counter crossed the limit still gets through.
THEOREM OvershootIsBounded == BudgetSpec => []BoundedOvershoot
<1>1. BudgetInit => Steady /\ Room
  <2> SUFFICES ASSUME BudgetInit PROVE Steady /\ Room
    OBVIOUS
  <2>1. Steady
    BY DEF BudgetInit, Steady, NoRequest
  <2>2. \A b \in HardStops(defs) : b.period \in Periods /\ b.limit \in Nat \ {0}
    BY SettingBudget DEF HardStops, BudgetInit
  <2>3. Cardinality(Connections) \in Nat
    BY ConnectionsAssumption, FS_CardinalityType
  <2>4. Allowance \in Nat
    BY <2>3, BudgetBoundsAssumption DEF Allowance
  <2>5. \A b \in HardStops(defs), k \in Buckets : counter[b.period][k] = 0
    BY <2>2 DEF BudgetInit
  <2>6. \A b \in HardStops(defs) : Roomy(b)
    BY <2>2, <2>4, <2>5 DEF Roomy
  <2> QED  BY <2>1, <2>6 DEF Room
<1>2. BudgetTypeOK /\ BudgetTypeOK' /\ Steady /\ Room /\ [BudgetNext]_budgetVars => Steady' /\ Room'
  BY SteadyStep, RoomStep
<1>3. BudgetTypeOK /\ Room => BoundedOvershoot
  BY RoomBounds
<1> QED  BY <1>1, <1>2, <1>3, TypeCorrect, PTL DEF BudgetSpec
----------------------------------------------------------------------------
(* Nothing is lost but by a fault.                                          *)

\* What Counted adds up, as entries 1 .. MaxDay + 1.
Days == MaxDay + 1
CountsOf(p) == [i \in 1 .. Days |-> counter[p][i - 1]]

LEMMA CountedIsTotal ==
    ASSUME BudgetTypeOK, NEW p \in Periods, NEW total, Totals(CountsOf(p), Days, total)
    PROVE  Counted(p) = total
<1> DEFINE F == CountsOf(p)
<1>0. MaxDay \in Nat /\ Days \in Nat /\ Days - 1 = MaxDay /\ F \in [1 .. Days -> Int]
  BY BudgetBoundsAssumption DEF BudgetTypeOK, Buckets, CountsOf, Days
<1>1. PICK t : SumsUp(t, F, Days) /\ t[Days] = total
  BY DEF Totals
<1> DEFINE Sums(s) == s = [k \in -1 .. MaxDay |-> IF k = -1 THEN 0 ELSE counter[p][k] + s[k - 1]]
           r == [k \in -1 .. MaxDay |-> t[k + 1]]
<1>2. \A k \in 0 .. MaxDay : r[k] = counter[p][k] + r[k - 1]
  <2> SUFFICES ASSUME NEW k \in 0 .. MaxDay PROVE r[k] = counter[p][k] + r[k - 1]
    OBVIOUS
  <2>1. k + 1 \in 1 .. Days /\ k \in -1 .. MaxDay /\ k - 1 \in -1 .. MaxDay /\ (k + 1) - 1 = k
        /\ (k - 1) + 1 = k
    BY <1>0 DEF Days
  <2>2. t[k + 1] = t[k] + F[k + 1]
    BY <1>1, <2>1 DEF SumsUp
  <2>3. F[k + 1] = counter[p][k]
    BY <2>1 DEF CountsOf
  <2>4. counter[p][k] \in Int /\ t[k] \in Int
    BY <1>0, <1>1, <2>1 DEF SumsUp, BudgetTypeOK, Buckets
  <2>5. QED BY <2>1, <2>2, <2>3, <2>4
<1>3. r[-1] = 0
  BY <1>0, <1>1 DEF SumsUp
<1>4. \E s : Sums(s)
  <2>1. r = [k \in -1 .. MaxDay |-> r[k]]
    OBVIOUS
  <2> HIDE DEF r
  <2>2. \A k \in -1 .. MaxDay : r[k] = IF k = -1 THEN 0 ELSE counter[p][k] + r[k - 1]
    <3> SUFFICES ASSUME NEW k \in -1 .. MaxDay, k # -1 PROVE r[k] = counter[p][k] + r[k - 1]
      BY <1>3
    <3>1. k \in 0 .. MaxDay
      BY <1>0
    <3>2. QED BY <1>2, <3>1
  <2>3. QED BY <2>1, <2>2
<1>5. PICK s : Sums(s) /\ Counted(p) = s[MaxDay]
  <2>1. Sums(CHOOSE s : Sums(s))
    BY <1>4
  <2>2. QED BY <2>1 DEF Counted
<1>6. s[-1] = 0 /\ \A k \in 0 .. MaxDay : s[k] = counter[p][k] + s[k - 1]
  <2>1. -1 \in -1 .. MaxDay /\ \A k \in 0 .. MaxDay : k \in -1 .. MaxDay /\ k # -1
    BY <1>0
  <2>2. QED BY <1>5, <2>1
<1> DEFINE u == [i \in 0 .. Days |-> s[i - 1]]
<1>7. \A i \in 0 .. Days : u[i] = s[i - 1]
  OBVIOUS
<1> HIDE DEF u
<1>8. u[0] = 0
  BY <1>0, <1>6, <1>7
<1>9. ASSUME NEW i \in 1 .. Days PROVE u[i] = F[i] + u[i - 1]
  <2>1. i - 1 \in 0 .. MaxDay /\ i \in 0 .. Days /\ i - 1 \in 0 .. Days
    BY <1>0 DEF Days
  <2>2. u[i] = s[i - 1] /\ u[i - 1] = s[(i - 1) - 1]
    BY <1>7, <2>1
  <2>3. s[i - 1] = counter[p][i - 1] + s[(i - 1) - 1]
    BY <1>6, <2>1
  <2>4. F[i] = counter[p][i - 1]
    BY DEF CountsOf
  <2>5. QED BY <2>2, <2>3, <2>4
<1>10. u \in [0 .. Days -> Int]
  <2> DEFINE S == {m \in Nat : m <= Days => u[m] \in Int}
  <2>1. Nat \subseteq S
    <3>1. 0 \in S
      BY <1>8
    <3>2. ASSUME NEW m \in Nat, m \in S PROVE m + 1 \in S
      <4>1. CASE m + 1 <= Days
        <5>1. m + 1 \in 1 .. Days /\ (m + 1) - 1 = m /\ m <= Days
          BY <1>0, <4>1
        <5>2. u[m] \in Int /\ F[m + 1] \in Int
          BY <1>0, <3>2, <5>1
        <5>3. QED BY <1>9, <5>1, <5>2
      <4>2. QED BY <4>1
    <3>3. QED BY <3>1, <3>2, NatSetInduction
  <2>2. \A m \in 0 .. Days : u[m] \in Int
    BY <1>0, <2>1
  <2>3. u = [m \in 0 .. Days |-> u[m]]
    BY DEF u
  <2>4. QED BY <2>2, <2>3
<1>11. SumsUp(u, F, Days)
  <2>1. ASSUME NEW i \in 1 .. Days PROVE u[i] = u[i - 1] + F[i]
    <3>1. i - 1 \in 0 .. Days
      BY <1>0
    <3>2. u[i - 1] \in Int /\ F[i] \in Int
      BY <1>0, <1>10, <3>1
    <3>3. QED BY <1>9, <3>2
  <2>2. QED BY <1>8, <1>10, <2>1 DEF SumsUp
<1>12. t[Days] = u[Days]
  BY <1>0, <1>1, <1>11, OneTotal
<1>13. u[Days] = s[MaxDay]
  BY <1>0, <1>7
<1>14. QED BY <1>1, <1>5, <1>12, <1>13

\* What the ledger has of a request and the counters have not yet.
Owed(r) == IF conn[r].pc = "ledgered" THEN conn[r].cost ELSE 0

\* The requests in a row, so that what they owe can be added up.
Seats == Cardinality(Connections)
Seating == CHOOSE e \in [1 .. Seats -> Connections] :
             /\ \A r \in Connections : \E i \in 1 .. Seats : e[i] = r
             /\ \A i, j \in 1 .. Seats : e[i] = e[j] => i = j
Debts == [i \in 1 .. Seats |-> Owed(Seating[i])]

\* Unless a budget was changed or something failed, what was counted and what
\* is still owed make up the ledger, for every budget.
Balanced(b) ==
    \E counted, owed \in Int :
        /\ Totals(CountsOf(b.period), Days, counted)
        /\ Totals(Debts, Seats, owed)
        /\ counted + owed = ledgered

Balance == edits = 0 /\ faults = 0 => \A b \in defs : Balanced(b)

LEMMA SeatingOfAll ==
    /\ Seats \in Nat /\ Seating \in [1 .. Seats -> Connections]
    /\ \A r \in Connections : \E i \in 1 .. Seats : Seating[i] = r
    /\ \A i, j \in 1 .. Seats : Seating[i] = Seating[j] => i = j
<1> DEFINE OK(e) == /\ e \in [1 .. Seats -> Connections]
                    /\ \A r \in Connections : \E i \in 1 .. Seats : e[i] = r
                    /\ \A i, j \in 1 .. Seats : e[i] = e[j] => i = j
<1>1. Seats \in Nat /\ ExistsBijection(1 .. Seats, Connections)
  BY ConnectionsAssumption, FS_CardinalityType DEF Seats
<1>2. PICK e : e \in Bijection(1 .. Seats, Connections)
  BY <1>1 DEF ExistsBijection
<1>3. OK(e)
  BY <1>2 DEF Bijection, Injection, Surjection, IsInjective
<1>4. OK(Seating)
  BY <1>3 DEF Seating
<1>5. QED BY <1>1, <1>4

LEMMA DebtsType == ASSUME BudgetTypeOK PROVE Debts \in [1 .. Seats -> Int]
<1>1. \A r \in Connections : Owed(r) \in Int
  BY BudgetBoundsAssumption DEF BudgetTypeOK, Owed
<1>2. QED BY <1>1, SeatingOfAll DEF Debts

LEMMA CountsType == ASSUME BudgetTypeOK, NEW p \in Periods PROVE CountsOf(p) \in [1 .. Days -> Int]
BY BudgetBoundsAssumption DEF BudgetTypeOK, Buckets, CountsOf, Days

\* A step that leaves the ledger, the counters and what everyone owes.
LEMMA BalanceStays ==
    ASSUME BudgetTypeOK, Balance, UNCHANGED <<ledgered, counter, defs>>, edits' = edits,
           faults' = 0 => faults = 0,
           \A r \in Connections : Owed(r)' = Owed(r)
    PROVE  Balance'
<1>1. Debts' = Debts
  BY SeatingOfAll DEF Debts
<1>2. \A b : CountsOf(b.period)' = CountsOf(b.period)
  BY DEF CountsOf
<1>3. QED BY <1>1, <1>2 DEF Balance, Balanced

\* One request's debt changes by d.
LEMMA DebtMoves ==
    ASSUME BudgetTypeOK, BudgetTypeOK', NEW r \in Connections, NEW d \in Int, Owed(r)' = Owed(r) + d,
           \A q \in Connections : q # r => Owed(q)' = Owed(q),
           NEW owed \in Int, Totals(Debts, Seats, owed)
    PROVE  Totals(Debts', Seats, owed + d)
<1>1. PICK i \in 1 .. Seats : Seating[i] = r
  BY SeatingOfAll
<1>2. Debts \in [1 .. Seats -> Int] /\ Debts' \in [1 .. Seats -> Int]
  <2>1. \A q \in Connections : Owed(q)' \in Int
    BY BudgetBoundsAssumption DEF BudgetTypeOK, Owed
  <2>2. QED BY <2>1, DebtsType, SeatingOfAll DEF Debts
<1>3. Debts'[i] = Debts[i] + d
  BY <1>1 DEF Debts
<1>4. \A j \in 1 .. Seats : j # i => Debts'[j] = Debts[j]
  BY <1>1, SeatingOfAll DEF Debts
<1>5. PICK f, g : f = Debts /\ g = Debts'
  OBVIOUS
<1>6. Totals(g, Seats, owed + d)
  BY <1>1, <1>2, <1>3, <1>4, <1>5, SeatingOfAll, TotalMoves
<1>7. QED BY <1>5, <1>6

LEMMA LedgerBalance ==
    ASSUME BudgetTypeOK, BudgetTypeOK', Balance, NEW r \in Connections, Ledger(r)
    PROVE  Balance'
<1>1. /\ conn[r].pc = "served" /\ conn[r].cost \in Int /\ conn'[r].pc = "ledgered" /\ conn'[r].cost = conn[r].cost
      /\ \A q \in Connections : q # r => conn'[q] = conn[q]
      /\ UNCHANGED <<counter, defs, edits>>
  BY DEF Ledger, BudgetTypeOK
<1>2. CASE ledgered' = ledgered + conn[r].cost /\ faults' = faults
  <2> SUFFICES ASSUME edits = 0, faults = 0, NEW b \in defs PROVE Balanced(b)'
    BY <1>1, <1>2 DEF Balance
  <2>1. PICK counted, owed \in Int :
          /\ Totals(CountsOf(b.period), Days, counted) /\ Totals(Debts, Seats, owed)
          /\ counted + owed = ledgered
    BY DEF Balance, Balanced
  <2>2. Owed(r)' = Owed(r) + conn[r].cost /\ \A q \in Connections : q # r => Owed(q)' = Owed(q)
    BY <1>1 DEF Owed
  <2>3. Totals(Debts', Seats, owed + conn[r].cost)
    BY <1>1, <2>1, <2>2, DebtMoves
  <2>4. CountsOf(b.period)' = CountsOf(b.period)
    BY <1>1 DEF CountsOf
  <2>5. counted + (owed + conn[r].cost) = ledgered' /\ owed + conn[r].cost \in Int
    BY <1>1, <1>2, <2>1
  <2>6. QED BY <2>1, <2>3, <2>4, <2>5 DEF Balanced
<1>3. CASE Fault
  BY <1>3 DEF Fault, Balance, BudgetTypeOK
<1>4. QED BY <1>2, <1>3 DEF Ledger

LEMMA RecordSpendBalance ==
    ASSUME BudgetTypeOK, BudgetTypeOK', Steady, Balance, NEW r \in Connections, RecordSpend(r)
    PROVE  Balance'
<1>1. /\ conn[r].pc = "ledgered" /\ conn[r].cost \in Int /\ conn'[r] = NoRequest
      /\ \A q \in Connections : q # r => conn'[q] = conn[q]
      /\ UNCHANGED <<today, ledgered, defs, edits, faults>>
  BY DEF RecordSpend, BudgetTypeOK
<1> SUFFICES ASSUME edits = 0, faults = 0, NEW b \in defs PROVE Balanced(b)'
  BY <1>1 DEF Balance
<1>2. PICK counted, owed \in Int :
        /\ Totals(CountsOf(b.period), Days, counted) /\ Totals(Debts, Seats, owed)
        /\ counted + owed = ledgered
  BY DEF Balance, Balanced
<1>3. Owed(r)' = Owed(r) + (0 - conn[r].cost) /\ \A q \in Connections : q # r => Owed(q)' = Owed(q)
  BY <1>1 DEF Owed, NoRequest
<1>4. Totals(Debts', Seats, owed + (0 - conn[r].cost))
  BY <1>1, <1>2, <1>3, DebtMoves
<1>5. b.period \in Periods /\ conn[r].budgets = defs
  BY <1>1, SettingBudget DEF Steady, BudgetTypeOK
<1>6. counter'[b.period] = [counter[b.period] EXCEPT ![Bucket(b.period)] = @ + conn[r].cost]
  BY <1>5 DEF RecordSpend
<1> DEFINE k == Bucket(b.period) + 1
<1>7. Bucket(b.period) \in Buckets /\ Bucket(b.period) \in 0 .. MaxDay /\ k \in 1 .. Days /\ k - 1 = Bucket(b.period)
  BY <1>5, BucketType, BudgetBoundsAssumption DEF Buckets, Days
<1>8. CountsOf(b.period)'[k] = CountsOf(b.period)[k] + conn[r].cost
  BY <1>5, <1>6, <1>7 DEF CountsOf, BudgetTypeOK
<1>9. \A i \in 1 .. Days : i # k => CountsOf(b.period)'[i] = CountsOf(b.period)[i]
  <2> SUFFICES ASSUME NEW i \in 1 .. Days, i # k PROVE CountsOf(b.period)'[i] = CountsOf(b.period)[i]
    OBVIOUS
  <2>1. i - 1 # Bucket(b.period)
    BY <1>7
  <2>2. counter'[b.period][i - 1] = counter[b.period][i - 1]
    BY <1>5, <1>6, <2>1 DEF BudgetTypeOK
  <2>3. QED BY <2>2 DEF CountsOf
<1>10. CountsOf(b.period) \in [1 .. Days -> Int] /\ CountsOf(b.period)' \in [1 .. Days -> Int]
  <2>1. counter' \in [Periods -> [Buckets -> Nat]]
    BY DEF BudgetTypeOK
  <2>2. CountsOf(b.period)' \in [1 .. Days -> Int]
    BY <1>5, <2>1, BudgetBoundsAssumption DEF Buckets, CountsOf, Days
  <2>3. QED BY <1>5, <2>2, CountsType
<1>11. PICK f, g : f = CountsOf(b.period) /\ g = CountsOf(b.period)'
  OBVIOUS
<1>12. Totals(g, Days, counted + conn[r].cost)
  <2>1. Days \in Nat
    BY BudgetBoundsAssumption DEF Days
  <2>2. Totals(f, Days, counted)
    BY <1>2, <1>11
  <2>3. PICK j \in 1 .. Days : j = k
    BY <1>7
  <2>4. g[j] = f[j] + conn[r].cost
    BY <1>8, <1>11, <2>3
  <2>5. \A i \in 1 .. Days : i # j => g[i] = f[i]
    BY <1>9, <1>11, <2>3
  <2>6. f \in [1 .. Days -> Int] /\ g \in [1 .. Days -> Int]
    BY <1>10, <1>11
  <2>7. QED BY <1>1, <1>2, <2>1, <2>2, <2>4, <2>5, <2>6, TotalMoves
<1>13. (counted + conn[r].cost) + (owed + (0 - conn[r].cost)) = ledgered'
       /\ counted + conn[r].cost \in Int /\ owed + (0 - conn[r].cost) \in Int
  BY <1>1, <1>2
<1>14. QED BY <1>4, <1>11, <1>12, <1>13 DEF Balanced

LEMMA BalanceStep ==
    ASSUME BudgetTypeOK, BudgetTypeOK', Steady, Balance, [BudgetNext]_budgetVars
    PROVE  Balance'
<1>1. ASSUME NEW r \in Connections,
             Resolve(r) \/ Check(r) \/ CheckUnreadable(r) \/ Serve(r) \/ ServeFree(r)
      PROVE  Balance'
  <2>1. /\ UNCHANGED <<ledgered, counter, defs, edits>> /\ (faults' = 0 => faults = 0)
        /\ conn[r].pc # "ledgered" /\ conn'[r].pc # "ledgered"
        /\ \A q \in Connections : q # r => conn'[q] = conn[q]
    <3>1. UNCHANGED <<ledgered, counter, defs, edits>>
      BY <1>1 DEF Resolve, Check, CheckUnreadable, Serve, ServeFree
    <3>2. faults' = 0 => faults = 0
      <4>1. faults' = faults \/ faults' = faults + 1
        BY <1>1 DEF Resolve, Check, CheckUnreadable, Serve, ServeFree, Fault
      <4>2. faults \in 0 .. MaxFaults
        BY DEF BudgetTypeOK
      <4>3. QED BY <4>1, <4>2
    <3>3. \A q \in Connections : q # r => conn'[q] = conn[q]
      BY <1>1 DEF Resolve, Check, CheckUnreadable, Serve, ServeFree, BudgetTypeOK
    <3>4. conn[r].pc # "ledgered"
      BY <1>1 DEF Resolve, Check, CheckUnreadable, Serve, ServeFree
    <3>5. \E v : conn' = [conn EXCEPT ![r] = v] /\ v.pc # "ledgered"
      <4>1. conn[r] \in States
        BY DEF BudgetTypeOK, States
      <4>2. CASE Serve(r)
        <5>1. PICK c : conn' = [conn EXCEPT ![r] = [@ EXCEPT !.pc = "served", !.cost = c]]
          BY <4>2 DEF Serve
        <5>2. [conn[r] EXCEPT !.pc = "served", !.cost = c].pc = "served"
          BY <4>1 DEF States
        <5>3. QED BY <5>1, <5>2
      <4>3. CASE Resolve(r)
        BY <4>3, ZenonT(30) DEF Resolve, NoRequest
      <4>4. CASE Check(r) \/ CheckUnreadable(r) \/ ServeFree(r)
        <5>1. NoRequest.pc = "idle" /\ [conn[r] EXCEPT !.pc = "admitted"].pc = "admitted"
          BY <4>1 DEF States, NoRequest
        <5>2. \/ conn' = [conn EXCEPT ![r] = NoRequest]
              \/ conn' = [conn EXCEPT ![r] = [conn[r] EXCEPT !.pc = "admitted"]]
          BY <4>4 DEF Check, CheckUnreadable, ServeFree
        <5>3. QED BY <5>1, <5>2
      <4>5. QED BY <1>1, <4>2, <4>3, <4>4
    <3>6. conn'[r].pc # "ledgered"
      BY <3>5 DEF BudgetTypeOK
    <3>7. QED BY <3>1, <3>2, <3>3, <3>4, <3>6
  <2>2. \A q \in Connections : Owed(q)' = Owed(q)
    BY <2>1 DEF Owed
  <2>3. QED BY <2>1, <2>2, BalanceStays
<1>2. ASSUME NEW r \in Connections, RecordLost(r) PROVE Balance'
  BY <1>2 DEF RecordLost, Fault, Balance, BudgetTypeOK
<1>3. CASE EditBudgets
  BY <1>3 DEF EditBudgets, Balance, BudgetTypeOK
<1>4. CASE Midnight
  BY <1>4, BalanceStays DEF Midnight, Owed
<1>5. CASE UNCHANGED budgetVars
  BY <1>5, BalanceStays DEF budgetVars, Owed
<1>6. QED BY <1>1, <1>2, <1>3, <1>4, <1>5, LedgerBalance, RecordSpendBalance DEF BudgetNext, Step

LEMMA BalanceInit == BudgetInit => Balance
<1> SUFFICES ASSUME BudgetInit, NEW b \in defs PROVE Balanced(b)
  BY DEF Balance
<1>1. b.period \in Periods
  BY SettingBudget DEF BudgetInit
<1>2. Days \in Nat /\ Seats \in Nat
  BY BudgetBoundsAssumption, SeatingOfAll DEF Days
<1>3. \A i \in 1 .. Days : CountsOf(b.period)[i] = 0
  BY <1>1, BudgetBoundsAssumption DEF BudgetInit, CountsOf, Days, Buckets
<1>4. \A i \in 1 .. Seats : Debts[i] = 0
  BY SeatingOfAll DEF BudgetInit, Debts, Owed, NoRequest
<1>5. Totals(CountsOf(b.period), Days, 0) /\ Totals(Debts, Seats, 0)
  BY <1>2, <1>3, <1>4, TotalOfNothing
<1>6. QED BY <1>5 DEF BudgetInit, Balanced

\* At rest nobody owes, so the counters alone make up the ledger.
LEMMA BalanceAddsUp == ASSUME BudgetTypeOK, Balance PROVE CountersAddUp
<1> SUFFICES ASSUME edits = 0, faults = 0, \A r \in Connections : conn[r].pc = "idle", NEW b \in defs
             PROVE  Counted(b.period) = ledgered
  BY DEF CountersAddUp
<1>1. PICK counted, owed \in Int :
        /\ Totals(CountsOf(b.period), Days, counted) /\ Totals(Debts, Seats, owed)
        /\ counted + owed = ledgered
  BY DEF Balance, Balanced
<1>2. \A i \in 1 .. Seats : Debts[i] = 0
  BY SeatingOfAll DEF Debts, Owed
<1>3. Totals(Debts, Seats, 0)
  BY <1>2, SeatingOfAll, TotalOfNothing
<1>4. owed = 0
  BY <1>1, <1>3, SeatingOfAll, DebtsType, OneTotal DEF Totals
<1>5. b.period \in Periods
  BY SettingBudget DEF BudgetTypeOK
<1>6. Counted(b.period) = counted
  BY <1>1, <1>5, CountedIsTotal
<1>7. QED BY <1>1, <1>4, <1>6

\* No increment is lost but by a fault: at rest, the counters of every budget
\* that was there all along add up to what the ledger says was spent, whatever
\* the requests' interleaving and over all midnights.
THEOREM NothingIsLost == BudgetSpec => []CountersAddUp
<1>1. BudgetInit => Steady
  BY DEF BudgetInit, Steady, NoRequest
<1>2. BudgetTypeOK /\ BudgetTypeOK' /\ Steady /\ Balance /\ [BudgetNext]_budgetVars => Steady' /\ Balance'
  BY SteadyStep, BalanceStep
<1>3. BudgetTypeOK /\ Balance => CountersAddUp
  BY BalanceAddsUp
<1>4. QED BY <1>1, <1>2, <1>3, BalanceInit, TypeCorrect, PTL DEF BudgetSpec
=============================================================================
