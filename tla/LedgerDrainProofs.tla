-------------------------- MODULE LedgerDrainProofs --------------------------
(***************************************************************************)
(* Proofs about LedgerDrain, for any events, any number of overlapping     *)
(* jobs and any number of faults: it is type correct, an acknowledged      *)
(* entry has its row, and the spend baseline only knows durable rows.      *)
(***************************************************************************)
EXTENDS LedgerDrain, TLAPS

Progressed == [pc : {"idle", "ready", "read", "inserted", "loaded", "saved", "ack"},
               batch : SUBSET Positions, stats : [Events -> Nat]]

\* What ">" delivers is an interval of the stream, so its newest entry exists.
LEMMA UnreadHasNewest ==
    ASSUME LedgerTypeOK, Unread # {}
    PROVE  LET newest == CHOOSE p \in Unread : \A q \in Unread : q <= p
           IN  newest \in Positions /\ \A q \in Unread : q <= newest
<1> DEFINE from == IF first > lastRead THEN first ELSE lastRead
           last == IF from + BatchSize <= Len(log) THEN from + BatchSize ELSE Len(log)
<1>1. from \in Nat /\ BatchSize \in Nat \ {0} /\ Len(log) \in Nat
  BY BatchSizeAssumption DEF LedgerTypeOK
<1>2. Unread = {p \in Positions : from < p /\ p <= from + BatchSize}
  BY DEF Unread
<1>3. PICK u \in Unread : TRUE
  OBVIOUS
<1>4. u \in Nat /\ 1 <= u /\ u <= Len(log) /\ from < u /\ u <= from + BatchSize
  BY <1>1, <1>2, <1>3 DEF Positions
<1>5. last \in Unread
  <2> HIDE DEF from
  <2> QED  BY <1>1, <1>2, <1>4 DEF Positions
<1>6. \A q \in Unread : q <= last
  <2> HIDE DEF from
  <2> QED  BY <1>1, <1>2 DEF Positions
<1>7. Unread \subseteq Positions
  BY DEF Unread
<1> HIDE DEF last
<1> QED  BY <1>5, <1>6, <1>7

\* Delivering the unread entries keeps the group's bookkeeping well typed.
LEMMA DeliverTypeOK ==
    ASSUME LedgerTypeOK, Deliver(Unread)
    PROVE  pending' \subseteq Positions /\ lastRead' \in 0 .. Len(log)
<1>1. Unread \subseteq Positions
  BY DEF Unread
<1>2. pending' \subseteq Positions
  BY <1>1 DEF Deliver, LedgerTypeOK
<1>3. lastRead' \in 0 .. Len(log)
  <2>1. CASE Unread = {}
    BY <2>1 DEF Deliver, LedgerTypeOK
  <2>2. CASE Unread # {}
    BY <2>2, UnreadHasNewest, SMTT(20) DEF Deliver, Positions, LedgerTypeOK
  <2> QED  BY <2>1, <2>2
<1> QED  BY <1>2, <1>3

----------------------------------------------------------------------------
\* Every state of LedgerDrain is well typed, whatever the constants.
THEOREM TypeCorrect == LedgerSpec => []LedgerTypeOK
<1> USE MalformedAssumption, MaxLedgerFaultsAssumption
<1>1. LedgerInit => LedgerTypeOK
  <2> SUFFICES ASSUME LedgerInit PROVE LedgerTypeOK
    OBVIOUS
  <2>1. log \in Seq(Events) /\ Len(log) = 0
    BY DEF LedgerInit
  <2>2. checkpoint \in [Events -> Nat] /\ NotDraining \in Progressed
    BY DEF LedgerInit, Empty, NotDraining, Progressed
  <2>3. drain \in [Drains -> Progressed]
    BY <2>2 DEF LedgerInit
  <2>4. first \in 0 .. Len(log) /\ lastRead \in 0 .. Len(log) /\ ledgerFaults \in 0 .. MaxLedgerFaults
    BY <2>1 DEF LedgerInit
  <2>5. /\ group \in BOOLEAN
        /\ pending \subseteq Positions /\ acked \subseteq Positions
        /\ rows \subseteq Events \ Malformed
        /\ working \in [Events -> Nat] \cup {NoCopy}
    BY DEF LedgerInit
  <2> QED  BY <2>1, <2>2, <2>3, <2>4, <2>5 DEF LedgerTypeOK, Progressed
<1>2. LedgerTypeOK /\ [LedgerNext]_ledgerVars => LedgerTypeOK'
  <2> SUFFICES ASSUME LedgerTypeOK, [LedgerNext]_ledgerVars PROVE LedgerTypeOK'
    OBVIOUS
  <2>0. /\ Empty \in [Events -> Nat]
        /\ NotDraining \in Progressed
        /\ [NotDraining EXCEPT !.pc = "ready"] \in Progressed
        /\ [NotDraining EXCEPT !.pc = "idle"] \in Progressed
    BY DEF Empty, NotDraining, Progressed
  <2>p. \A d \in Drains : drain[d] \in Progressed
    BY DEF LedgerTypeOK, Progressed
  <2>f. ASSUME LedgerFault PROVE ledgerFaults' \in 0 .. MaxLedgerFaults
    BY <2>f DEF LedgerFault, LedgerTypeOK
  <2>1. ASSUME NEW e \in Events, Emit(e) PROVE LedgerTypeOK'
    <3>1. log' \in Seq(Events) /\ Len(log') = Len(log) + 1
      BY <2>1 DEF Emit, LedgerTypeOK
    <3>2. Positions \subseteq Positions'
      BY <3>1 DEF Positions, LedgerTypeOK
    <3>3. first' \in 0 .. Len(log') /\ lastRead' \in 0 .. Len(log')
      BY <2>1, <3>1 DEF Emit, LedgerTypeOK
    <3>4. drain' \in [Drains -> Progressed']
      BY <2>1, <3>2 DEF Emit, LedgerTypeOK, Progressed
    <3> QED  BY <2>1, <3>1, <3>2, <3>3, <3>4 DEF Emit, LedgerTypeOK, statVars, Progressed
  <2>2. ASSUME NEW d \in Drains, Progress(d) \/ Abort(d) PROVE LedgerTypeOK'
    <3>1. CASE EnsureGroup(d)
      <4>1. lastRead' \in 0 .. Len(log)
        BY <3>1 DEF EnsureGroup, LedgerTypeOK
      <4>2. drain' \in [Drains -> Progressed]
        BY <3>1 DEF EnsureGroup, LedgerTypeOK, Progressed
      <4> QED  BY <3>1, <4>1, <4>2 DEF EnsureGroup, LedgerTypeOK, Positions, statVars, Progressed
    <3>2. CASE Read(d)
      <4>1. pending' \subseteq Positions /\ lastRead' \in 0 .. Len(log)
        BY <3>2, DeliverTypeOK DEF Read
      <4>2. Unread \subseteq Positions
        BY DEF Unread
      <4>3. drain' \in [Drains -> Progressed]
        BY <3>2, <2>p, <4>2 DEF Read, LedgerTypeOK, Progressed
      <4> QED  BY <3>2, <4>1, <4>3 DEF Read, LedgerTypeOK, Positions, statVars, Progressed
    <3>3. CASE ReadNothing(d)
      <4>1. drain' \in [Drains -> Progressed]
        BY <3>3, <2>0 DEF ReadNothing, LedgerTypeOK, Progressed
      <4> QED  BY <3>3, <4>1 DEF ReadNothing, LedgerTypeOK, Positions, streamVars, statVars, Progressed
    <3>4. CASE ReadFails(d)
      <4>1. pending' \subseteq Positions /\ lastRead' \in 0 .. Len(log)
        BY <3>4, DeliverTypeOK DEF ReadFails, LedgerTypeOK
      <4>2. ledgerFaults' \in 0 .. MaxLedgerFaults
        BY <3>4, <2>f DEF ReadFails, LedgerTypeOK
      <4>3. drain' \in [Drains -> Progressed]
        BY <3>4, <2>0 DEF ReadFails, LedgerTypeOK, Progressed
      <4> QED  BY <3>4, <4>1, <4>2, <4>3 DEF ReadFails, LedgerTypeOK, Positions, statVars, Progressed
    <3>5. CASE Insert(d)
      <4>1. Parsed(drain[d].batch) \subseteq Events \ Malformed
        BY <2>p DEF Parsed, LedgerTypeOK, Progressed, Positions
      <4>2. drain' \in [Drains -> Progressed]
        BY <3>5, <2>p DEF Insert, LedgerTypeOK, Progressed
      <4> QED  BY <3>5, <4>1, <4>2 DEF Insert, LedgerTypeOK, Positions, streamVars, statVars, Progressed
    <3>6. CASE InsertFails(d)
      <4>1. Parsed(drain[d].batch) \subseteq Events \ Malformed
        BY <2>p DEF Parsed, LedgerTypeOK, Progressed, Positions
      <4>2. drain' \in [Drains -> Progressed]
        BY <3>6, <2>0 DEF InsertFails, LedgerTypeOK, Progressed
      <4> QED  BY <3>6, <4>1, <4>2, <2>f
               DEF InsertFails, LedgerTypeOK, Positions, streamVars, statVars, Progressed
    <3>7. CASE LoadRolling(d)
      <4>1. PICK stats \in {Empty, checkpoint, working} \ {NoCopy} :
              /\ drain' = [drain EXCEPT ![d].pc = "loaded", ![d].stats = stats]
              /\ ledgerFaults' = ledgerFaults \/ LedgerFault
        BY <3>7 DEF LoadRolling
      <4>2. stats \in [Events -> Nat]
        BY <2>0 DEF LedgerTypeOK
      <4>3. drain' \in [Drains -> Progressed]
        BY <4>1, <4>2, ZenonT(30) DEF LedgerTypeOK, Progressed
      <4>4. ledgerFaults' \in 0 .. MaxLedgerFaults
        BY <4>1, <2>f DEF LedgerTypeOK
      <4> QED  BY <3>7, <4>3, <4>4
               DEF LoadRolling, LedgerTypeOK, Positions, streamVars, statVars, Progressed
    <3>8. CASE ScoringFails(d)
      <4>1. drain' \in [Drains -> Progressed]
        BY <3>8, <2>p DEF ScoringFails, LedgerTypeOK, Progressed
      <4> QED  BY <3>8, <4>1, <2>f
               DEF ScoringFails, LedgerTypeOK, Positions, streamVars, statVars, Progressed
    <3>9. CASE SaveRolling(d)
      <4> DEFINE stats == Fold(drain[d].stats, Parsed(drain[d].batch))
      <4>1. stats \in [Events -> Nat]
        BY <2>p DEF Fold, Progressed
      <4>2. /\ drain' = [drain EXCEPT ![d].pc = "saved", ![d].stats = stats]
            /\ working' = stats \/ working' = working
            /\ ledgerFaults' = ledgerFaults \/ LedgerFault
            /\ UNCHANGED <<streamVars, rows, checkpoint>>
        BY <3>9 DEF SaveRolling
      <4> HIDE DEF stats
      <4>3. drain' \in [Drains -> Progressed]
        BY <4>1, <4>2, ZenonT(30) DEF LedgerTypeOK, Progressed
      <4>4. ledgerFaults' \in 0 .. MaxLedgerFaults
        BY <4>2, <2>f DEF LedgerTypeOK
      <4> QED  BY <4>1, <4>2, <4>3, <4>4 DEF LedgerTypeOK, Positions, streamVars, Progressed
    <3>10. CASE Checkpoint(d)
      <4>1. ledgerFaults' \in 0 .. MaxLedgerFaults
        BY <3>10, <2>f DEF Checkpoint, LedgerTypeOK
      <4> QED  BY <3>10, <4>1, <2>p DEF Checkpoint, LedgerTypeOK, Positions, streamVars, Progressed
    <3>11. CASE Ack(d)
      <4>1. ledgerFaults' \in 0 .. MaxLedgerFaults
        BY <3>11, <2>f DEF Ack, LedgerTypeOK
      <4>2. drain' \in [Drains -> Progressed]
        BY <3>11, <2>0 DEF Ack, LedgerTypeOK, Progressed
      <4>3. pending' \subseteq Positions /\ acked' \subseteq Positions
        BY <3>11, <2>p DEF Ack, LedgerTypeOK, Progressed
      <4> QED  BY <3>11, <4>1, <4>2, <4>3 DEF Ack, LedgerTypeOK, Positions, statVars, Progressed
    <3>12. CASE Abort(d)
      BY <3>12, <2>0, <2>f DEF Abort, LedgerTypeOK, Positions, streamVars, statVars, Progressed
    <3> QED  BY <2>2, <3>1, <3>2, <3>3, <3>4, <3>5, <3>6, <3>7, <3>8, <3>9, <3>10,
                <3>11, <3>12 DEF Progress
  <2>3. CASE RedisFlush
    <3>1. /\ first' \in 0 .. Len(log') /\ lastRead' \in 0 .. Len(log')
          /\ ledgerFaults' \in 0 .. MaxLedgerFaults
      BY <2>3, <2>f DEF RedisFlush, LedgerTypeOK
    <3>2. /\ group' \in BOOLEAN
          /\ pending' \subseteq Positions
          /\ working' \in [Events -> Nat] \cup {NoCopy}
      BY <2>3 DEF RedisFlush
    <3>3. UNCHANGED <<log, Positions, acked, rows, checkpoint, drain>>
      BY <2>3 DEF RedisFlush, Positions
    <3> QED  BY <3>1, <3>2, <3>3 DEF LedgerTypeOK, NoCopy
  <2>4. CASE UNCHANGED ledgerVars
    BY <2>4 DEF ledgerVars, LedgerTypeOK, Positions
  <2> QED  BY <2>1, <2>2, <2>3, <2>4 DEF LedgerNext
<1> QED  BY <1>1, <1>2, PTL DEF LedgerSpec

----------------------------------------------------------------------------
\* A batch past the insert is in the ledger, so acknowledging it or folding
\* it in is safe: what makes the two durability invariants inductive.
InLedger(p) == log[p] \in rows \cup Malformed

PastInsert == \A d \in Drains :
    drain[d].pc \in {"inserted", "loaded", "saved", "ack"} =>
        \A p \in drain[d].batch : InLedger(p)

Durable == AckedIsDurable /\ PastInsert /\ BaselineIsDurable

\* Folding a batch in makes nothing known but that batch.
LEMMA FoldKnown ==
    ASSUME NEW stats \in [Events -> Nat], NEW es \in SUBSET Events
    PROVE  Known(Fold(stats, es)) \subseteq Known(stats) \cup es
BY DEF Known, Fold

\* Rows and the log only grow, so what was in the ledger stays there.
LEMMA LedgerGrows ==
    ASSUME LedgerTypeOK, LedgerNext
    PROVE  /\ rows \subseteq rows'
           /\ \A p \in Positions : log'[p] = log[p] /\ (InLedger(p) => InLedger(p)')
<1>1. rows \subseteq rows'
  BY DEF LedgerNext, Emit, Progress, EnsureGroup, Read, ReadNothing, ReadFails, Insert, InsertFails,
         LoadRolling, ScoringFails, SaveRolling, Checkpoint, Ack, Abort, RedisFlush
<1>2. log' = log \/ \E e \in Events : log' = Append(log, e)
  BY DEF LedgerNext, Emit, Progress, EnsureGroup, Read, ReadNothing, ReadFails, Insert, InsertFails,
         LoadRolling, ScoringFails, SaveRolling, Checkpoint, Ack, Abort, RedisFlush, streamVars
<1>3. \A p \in Positions : log'[p] = log[p]
  <2>1. log \in Seq(Events)
    BY DEF LedgerTypeOK
  <2>2. ASSUME NEW e \in Events, log' = Append(log, e) PROVE \A p \in 1 .. Len(log) : log'[p] = log[p]
    BY <2>1, <2>2
  <2>3. QED BY <1>2, <2>2 DEF Positions
<1> QED  BY <1>1, <1>3 DEF InLedger

\* A step that leaves the statistics alone and, in every job, either keeps the
\* batch with what it knew or lets go of both, keeps the baseline durable.
LEMMA QuietStep ==
    ASSUME LedgerTypeOK, Durable, LedgerNext, LedgerTypeOK',
           acked' = acked,
           checkpoint' = checkpoint,
           working' \in {working, NoCopy},
           \A d \in Drains : \/ drain'[d] = drain[d]
                             \/ drain'[d].stats = drain[d].stats
                                /\ drain'[d].pc \in {"ready", "read"}
                             \/ drain'[d] = NotDraining
    PROVE  Durable'
<1>1. AckedIsDurable'
  BY LedgerGrows DEF Durable, AckedIsDurable, InLedger, LedgerTypeOK
<1>2. PastInsert'
  <2> SUFFICES ASSUME NEW d \in Drains,
                      drain'[d].pc \in {"inserted", "loaded", "saved", "ack"},
                      NEW p \in drain'[d].batch
               PROVE  InLedger(p)'
    BY DEF PastInsert
  <2>1. drain'[d] = drain[d]
    BY DEF NotDraining
  <2> QED  BY <2>1, LedgerGrows DEF Durable, PastInsert, LedgerTypeOK
<1>3. Known(NotDraining.stats) = {}
  BY DEF Known, NotDraining, Empty
<1>4. \A d \in Drains : Known(drain'[d].stats) \subseteq rows'
  BY <1>3, LedgerGrows DEF Durable, BaselineIsDurable
<1> QED  BY <1>1, <1>2, <1>4, LedgerGrows DEF Durable, BaselineIsDurable, Known

\* Every step preserves it.
LEMMA DurableStep ==
    ASSUME LedgerTypeOK, Durable, LedgerTypeOK', [LedgerNext]_ledgerVars
    PROVE  Durable'
<1>1. CASE UNCHANGED ledgerVars
  BY <1>1 DEF ledgerVars, Durable, AckedIsDurable, PastInsert, InLedger, BaselineIsDurable, Known
<1>2. CASE LedgerNext
  <2> USE <1>2
  <2>p. \A d \in Drains : drain[d] \in Progressed
    BY DEF LedgerTypeOK, Progressed
  <2>b. \A d \in Drains : Parsed(drain[d].batch) \subseteq Events
    <3> TAKE d \in Drains
    <3>1. drain[d].batch \subseteq 1 .. Len(log) /\ log \in Seq(Events)
      BY <2>p DEF LedgerTypeOK, Progressed, Positions
    <3>2. \A p \in drain[d].batch : log[p] \in Events
      BY <3>1
    <3> QED  BY <3>2 DEF Parsed
  <2>1. CASE \E e \in Events : Emit(e)
    BY <2>1, QuietStep DEF Emit, statVars
  <2>2. CASE RedisFlush
    BY <2>2, QuietStep DEF RedisFlush
  <2>3. ASSUME NEW d \in Drains, Progress(d) \/ Abort(d) PROVE Durable'
    <3>o. \A x \in Drains : x # d => drain'[x] = drain[x]
      BY <2>3 DEF Progress, EnsureGroup, Read, ReadNothing, ReadFails, Insert, InsertFails,
         LoadRolling, ScoringFails, SaveRolling, Checkpoint, Ack, Abort, LedgerTypeOK
    <3>k. \A x \in Drains : x # d =>
             /\ Known(drain'[x].stats) \subseteq rows'
             /\ drain'[x].pc \in {"inserted", "loaded", "saved", "ack"} =>
                  \A p \in drain'[x].batch : InLedger(p)'
      BY <3>o, LedgerGrows DEF Durable, PastInsert, BaselineIsDurable, LedgerTypeOK
    <3>1. CASE EnsureGroup(d)
      BY <3>1, QuietStep, <2>p, <3>o DEF EnsureGroup, statVars, LedgerTypeOK, Progressed
    <3>2. CASE Read(d)
      BY <3>2, QuietStep, <2>p, <3>o DEF Read, statVars, LedgerTypeOK, Progressed
    <3>3. CASE ReadNothing(d)
      BY <3>3, QuietStep, <3>o DEF ReadNothing, streamVars, statVars, LedgerTypeOK
    <3>4. CASE ReadFails(d)
      BY <3>4, QuietStep, <3>o DEF ReadFails, statVars, LedgerTypeOK
    <3>5. CASE InsertFails(d)
      BY <3>5, QuietStep, <3>o DEF InsertFails, streamVars, statVars, LedgerTypeOK
    <3>6. CASE Abort(d)
      BY <3>6, QuietStep, <3>o DEF Abort, streamVars, statVars, LedgerTypeOK
    <3>7. CASE Insert(d)
      <4>1. /\ drain'[d].batch = drain[d].batch /\ drain'[d].stats = drain[d].stats
            /\ rows' = rows \cup Parsed(drain[d].batch)
            /\ UNCHANGED <<log, acked, working, checkpoint>>
        BY <3>7, <2>p DEF Insert, streamVars, statVars, LedgerTypeOK, Progressed
      <4>2. \A p \in drain'[d].batch : InLedger(p)'
        BY <4>1 DEF InLedger, Parsed
      <4>3. PastInsert'
        BY <4>2, <3>k DEF PastInsert
      <4>4. AckedIsDurable'
        BY <4>1 DEF Durable, AckedIsDurable
      <4>5. BaselineIsDurable'
        BY <4>1, <3>k DEF Durable, BaselineIsDurable, Known
      <4> QED  BY <4>3, <4>4, <4>5 DEF Durable
    <3>8. CASE LoadRolling(d)
      <4>1. /\ drain[d].pc = "inserted" /\ drain'[d].batch = drain[d].batch
            /\ drain'[d].stats \in {Empty, checkpoint, working} \ {NoCopy}
            /\ UNCHANGED <<log, acked, rows, working, checkpoint>>
        BY <3>8, <2>p DEF LoadRolling, streamVars, statVars, LedgerTypeOK, Progressed
      <4>2. Known(Empty) = {}
        BY DEF Known, Empty
      <4>3. Known(drain'[d].stats) \subseteq rows'
        BY <4>1, <4>2 DEF Durable, BaselineIsDurable
      <4>4. PastInsert'
        BY <4>1, <3>k DEF Durable, PastInsert, InLedger
      <4> QED  BY <4>1, <4>3, <4>4, <3>k DEF Durable, AckedIsDurable, BaselineIsDurable, Known
    <3>9. CASE ScoringFails(d)
      <4>1. /\ drain[d].pc \in {"inserted", "loaded"}
            /\ drain'[d].batch = drain[d].batch /\ drain'[d].stats = drain[d].stats
            /\ UNCHANGED <<log, acked, rows, working, checkpoint>>
        BY <3>9, <2>p DEF ScoringFails, streamVars, statVars, LedgerTypeOK, Progressed
      <4>2. PastInsert'
        BY <4>1, <3>k DEF Durable, PastInsert, InLedger
      <4> QED  BY <4>1, <4>2, <3>k DEF Durable, AckedIsDurable, BaselineIsDurable, Known
    <3>10. CASE SaveRolling(d)
      <4> DEFINE stats == Fold(drain[d].stats, Parsed(drain[d].batch))
      <4>1. /\ drain[d].pc = "loaded" /\ drain'[d].batch = drain[d].batch
            /\ drain'[d].stats = stats
            /\ working' = stats \/ working' = working
            /\ UNCHANGED <<log, acked, rows, checkpoint>>
        BY <3>10, <2>p DEF SaveRolling, streamVars, LedgerTypeOK, Progressed
      <4>2. Parsed(drain[d].batch) \subseteq rows
        BY <4>1 DEF Durable, PastInsert, InLedger, Parsed
      <4>3. Known(stats) \subseteq rows
        BY <4>2, <2>p, <2>b, FoldKnown DEF Durable, BaselineIsDurable, Progressed
      <4> HIDE DEF stats
      <4>4. PastInsert'
        BY <4>1, <3>k DEF Durable, PastInsert, InLedger
      <4> QED  BY <4>1, <4>3, <4>4, <3>k DEF Durable, AckedIsDurable, BaselineIsDurable, Known
    <3>11. CASE Checkpoint(d)
      <4>1. /\ drain[d].pc = "saved"
            /\ drain'[d].batch = drain[d].batch /\ drain'[d].stats = drain[d].stats
            /\ checkpoint' = drain[d].stats \/ checkpoint' = checkpoint
            /\ UNCHANGED <<log, acked, rows, working>>
        BY <3>11, <2>p DEF Checkpoint, streamVars, LedgerTypeOK, Progressed
      <4>2. PastInsert'
        BY <4>1, <3>k DEF Durable, PastInsert, InLedger
      <4> QED  BY <4>1, <4>2, <3>k DEF Durable, AckedIsDurable, BaselineIsDurable, Known
    <3>12. CASE Ack(d)
      <4>1. /\ drain[d].pc = "ack"
            /\ drain'[d].stats = Empty /\ drain'[d].pc \in {"ready", "idle"}
            /\ acked' \subseteq acked \cup drain[d].batch
            /\ UNCHANGED <<log, rows, working, checkpoint>>
        BY <3>12 DEF Ack, NotDraining, statVars, LedgerTypeOK
      <4>2. PastInsert'
        BY <4>1, <3>k DEF PastInsert
      <4>3. AckedIsDurable'
        BY <4>1 DEF Durable, AckedIsDurable, PastInsert, InLedger
      <4>4. Known(Empty) = {}
        BY DEF Known, Empty
      <4> QED  BY <4>1, <4>2, <4>3, <4>4, <3>k DEF Durable, BaselineIsDurable, Known
    <3> QED  BY <2>3, <3>1, <3>2, <3>3, <3>4, <3>5, <3>6, <3>7, <3>8, <3>9, <3>10,
                <3>11, <3>12 DEF Progress
  <2> QED  BY <2>1, <2>2, <2>3 DEF LedgerNext
<1> QED  BY <1>1, <1>2

LEMMA AlwaysDurable == LedgerSpec => []Durable
<1>1. LedgerInit => Durable
  BY DEF LedgerInit, Durable, AckedIsDurable, PastInsert, BaselineIsDurable, Known, NotDraining,
         Empty, NoCopy
<1>2. LedgerTypeOK /\ LedgerTypeOK' /\ Durable /\ [LedgerNext]_ledgerVars => Durable'
  BY DurableStep
<1> QED  BY <1>1, <1>2, TypeCorrect, PTL DEF LedgerSpec

\* An acknowledged entry has its row, however jobs overlap, fail or die:
\* drain_ledger acknowledges only after the insert has committed.
THEOREM AcknowledgedIsDurable == LedgerSpec => []AckedIsDurable
<1>1. Durable => AckedIsDurable
  BY DEF Durable
<1> QED  BY <1>1, AlwaysDurable, PTL

\* What shaped the spend baseline is in the ledger, in Redis, in the
\* checkpoint and in every job: scoring runs after the insert.
THEOREM BaselineFollowsLedger == LedgerSpec => []BaselineIsDurable
<1>1. Durable => BaselineIsDurable
  BY DEF Durable
<1> QED  BY <1>1, AlwaysDurable, PTL

----------------------------------------------------------------------------
(* Nothing is folded twice.                                                 *)

\* The group has got past position p, which it never reads again.
Passed(p) == p <= first \/ p <= lastRead

\* Job d has delivered entries that it has not folded in.
BeforeFold(d) == drain[d].pc \in {"read", "inserted", "loaded"}

\* Event e may still be folded, by one job at most.
Unfolded(e) ==
    \A p \in Positions : log[p] = e =>
        ~Passed(p) \/ \E d \in Drains : p \in drain[d].batch /\ BeforeFold(d)

\* Statistics that count every event once, and none that may still be folded.
CountsOnce(stats) == \A e \in Events : stats[e] <= 1 /\ (Unfolded(e) => stats[e] = 0)

\* Every entry is delivered to one job, once.
DeliveredOnce ==
    /\ ~group => lastRead = 0
    /\ \A p, q \in Positions : log[p] = log[q] => p = q
    /\ \A d \in Drains : \A p \in drain[d].batch : Passed(p)
    /\ \A c, d \in Drains : c # d => drain[c].batch \cap drain[d].batch = {}

Folds == /\ DeliveredOnce
         /\ CountsOnce(checkpoint)
         /\ working # NoCopy => CountsOnce(working)
         /\ \A d \in Drains : CountsOnce(drain[d].stats)

LEMMA EmptyCounts == CountsOnce(Empty)
  BY DEF CountsOnce, Empty

\* What counted once still does when no event becomes foldable again.
LEMMA StillCounts ==
    ASSUME NEW stats, CountsOnce(stats), \A e \in Events : Unfolded(e)' => Unfolded(e)
    PROVE  \A e \in Events : stats[e] <= 1 /\ (Unfolded(e)' => stats[e] = 0)
  BY DEF CountsOnce

\* A step after which the statistics around are among those before it.
LEMMA CopiesStep ==
    ASSUME Folds, DeliveredOnce', \A e \in Events : Unfolded(e)' => Unfolded(e),
           checkpoint' = checkpoint \/ \E d \in Drains : checkpoint' = drain[d].stats,
           working' = working \/ working' = NoCopy,
           \A d \in Drains : \/ drain'[d].stats \in {drain[d].stats, Empty, checkpoint}
                             \/ working # NoCopy /\ drain'[d].stats = working
    PROVE  Folds'
  <1>1. \A stats : CountsOnce(stats) => \A e \in Events : stats[e] <= 1 /\ (Unfolded(e)' => stats[e] = 0)
    BY DEF CountsOnce
  <1>2. CountsOnce(checkpoint)'
    <2>1. CountsOnce(checkpoint) /\ \A d \in Drains : CountsOnce(drain[d].stats)
      BY DEF Folds
    <2>2. CASE checkpoint' = checkpoint
      BY <1>1, <2>1, <2>2 DEF CountsOnce
    <2>3. CASE \E d \in Drains : checkpoint' = drain[d].stats
      BY <1>1, <2>1, <2>3 DEF CountsOnce
    <2>4. QED BY <2>2, <2>3
  <1>3. (working # NoCopy => CountsOnce(working))'
    BY <1>1 DEF Folds, CountsOnce
  <1>4. ASSUME NEW d \in Drains PROVE CountsOnce(drain[d].stats)'
    <2>1. PICK s : /\ drain'[d].stats = s
                   /\ s \in {drain[d].stats, Empty, checkpoint} \/ (working # NoCopy /\ s = working)
      OBVIOUS
    <2>2. CountsOnce(s)
      BY <2>1, EmptyCounts DEF Folds
    <2>3. QED BY <1>1, <2>1, <2>2 DEF CountsOnce
  <1>5. QED BY <1>2, <1>3, <1>4 DEF Folds

\* Steps of job d that read nothing new.
LEMMA NoDelivery ==
    ASSUME LedgerTypeOK, Folds, NEW d \in Drains,
           log' = log, first' = first, lastRead' = lastRead, group' = group \/ group',
           \A c \in Drains : c # d => drain'[c] = drain[c],
           drain'[d].batch \in {drain[d].batch, {}},
           BeforeFold(d)' => BeforeFold(d)
    PROVE  DeliveredOnce' /\ \A e \in Events : Unfolded(e)' => Unfolded(e)
  <1>1. \A p : Passed(p)' <=> Passed(p)
    BY DEF Passed
  <1>2. \A c \in Drains : drain'[c].batch \subseteq drain[c].batch
    OBVIOUS
  <1>3. DeliveredOnce'
    BY <1>1, <1>2 DEF Folds, DeliveredOnce, Positions
  <1>4. \A c \in Drains : BeforeFold(c)' => BeforeFold(c)
    BY DEF BeforeFold
  <1>5. QED BY <1>1, <1>2, <1>3, <1>4 DEF Unfolded, Positions

\* Steps in which the group gets further and job d, if any, gets the entries
\* it passes.
LEMMA Delivery ==
    ASSUME LedgerTypeOK, Folds, NEW d \in Drains, NEW ps,
           Deliver(Unread), log' = log, first' = first, group' = group, group,
           \A c \in Drains : c # d => drain'[c] = drain[c],
           drain'[d].batch = ps, ps = Unread \/ ps = {}
    PROVE  DeliveredOnce' /\ \A e \in Events : Unfolded(e)' => Unfolded(e)
  <1>0. /\ first \in 0 .. Len(log) /\ lastRead \in 0 .. Len(log) /\ Len(log) \in Nat
        /\ Unread \subseteq Positions /\ BatchSize \in Nat
    BY BatchSizeAssumption DEF LedgerTypeOK, Unread
  <1>1. \A p \in Unread : ~Passed(p)
    BY <1>0 DEF Unread, Passed, Positions
  <1>2. lastRead' \in Nat /\ lastRead' >= lastRead /\ \A p \in Unread : p <= lastRead'
    <2>1. CASE Unread = {}
      BY <1>0, <2>1 DEF Deliver
    <2>2. CASE Unread # {}
      <3>1. lastRead' \in Positions /\ \A p \in Unread : p <= lastRead'
        BY <2>2, UnreadHasNewest DEF Deliver
      <3>2. PICK p \in Unread : p > lastRead
        BY <1>0, <2>2 DEF Unread, Positions
      <3>3. QED BY <1>0, <3>1, <3>2 DEF Positions
    <2>3. QED BY <2>1, <2>2
  <1>3. \A p \in Positions : Passed(p) => Passed(p)'
    BY <1>0, <1>2 DEF Passed, Positions
  <1>4. \A p \in Unread : Passed(p)'
    BY <1>2 DEF Passed
  <1>5. \A c \in Drains : drain[c].batch \subseteq Positions
    BY DEF LedgerTypeOK
  <1>6. DeliveredOnce'
    <2>1. \A c \in Drains : \A p \in drain'[c].batch : Passed(p)'
      BY <1>3, <1>4, <1>5 DEF Folds, DeliveredOnce
    <2>2. \A c \in Drains : c # d => drain'[c].batch \cap ps = {}
      BY <1>1 DEF Folds, DeliveredOnce
    <2>3. \A b, c \in Drains : b # c => drain'[b].batch \cap drain'[c].batch = {}
      BY <2>2 DEF Folds, DeliveredOnce
    <2>4. QED BY <2>1, <2>3 DEF Folds, DeliveredOnce, Positions
  <1>7. ASSUME NEW e \in Events, Unfolded(e)', NEW p \in Positions, log[p] = e, Passed(p)
        PROVE  \E c \in Drains : p \in drain[c].batch /\ BeforeFold(c)
    <2>1. PICK c \in Drains : p \in drain'[c].batch /\ BeforeFold(c)'
      BY <1>3, <1>7 DEF Unfolded, Positions
    <2>2. c # d
      BY <1>1, <1>7, <2>1
    <2>3. QED BY <2>1, <2>2 DEF BeforeFold
  <1>8. QED BY <1>6, <1>7 DEF Unfolded

\* The folding itself: only job d has these entries, and nobody counts them.
LEMMA SaveFolds ==
    ASSUME LedgerTypeOK, Folds, NEW d \in Drains, SaveRolling(d)
    PROVE  Folds'
  <1> DEFINE es == Parsed(drain[d].batch)
             stats == Fold(drain[d].stats, es)
  <1>0. /\ drain[d].pc = "loaded" /\ drain'[d].pc = "saved" /\ drain'[d].batch = drain[d].batch
        /\ drain'[d].stats = stats
        /\ \A c \in Drains : c # d => drain'[c] = drain[c]
        /\ working' = stats \/ working' = working
        /\ UNCHANGED <<log, first, lastRead, group, checkpoint>>
    BY DEF SaveRolling, streamVars, LedgerTypeOK
  <1>1. DeliveredOnce' /\ \A e \in Events : Unfolded(e)' => Unfolded(e)
    BY <1>0, NoDelivery DEF BeforeFold
  <1>2. \A e \in es : Unfolded(e) /\ ~Unfolded(e)'
    <2> SUFFICES ASSUME NEW e \in es PROVE Unfolded(e) /\ ~Unfolded(e)'
      OBVIOUS
    <2>1. PICK p \in drain[d].batch : log[p] = e
      BY DEF Parsed
    <2>2. p \in Positions /\ Passed(p) /\ \A q \in Positions : log[q] = e => q = p
      BY <2>1 DEF LedgerTypeOK, Folds, DeliveredOnce
    <2>3. Unfolded(e)
      BY <1>0, <2>1, <2>2 DEF Unfolded, BeforeFold
    <2>4. \A c \in Drains : p \in drain'[c].batch => c = d
      BY <1>0, <2>1 DEF Folds, DeliveredOnce
    <2>5. ~Unfolded(e)'
      BY <1>0, <2>1, <2>2, <2>4 DEF Unfolded, BeforeFold, Passed, Positions
    <2>6. QED BY <2>3, <2>5
  <1>3. \A c \in Drains : \A e \in Events : drain[c].stats[e] <= 1 /\ (Unfolded(e) => drain[c].stats[e] = 0)
    BY DEF Folds, CountsOnce
  <1>4. \A e \in Events : stats[e] <= 1 /\ (Unfolded(e)' => stats[e] = 0)
    BY <1>1, <1>2, <1>3 DEF Fold
  <1> HIDE DEF stats
  <1>5. CountsOnce(checkpoint)'
    BY <1>0, <1>1 DEF Folds, CountsOnce
  <1>6. (working # NoCopy => CountsOnce(working))'
    <2>1. CASE working' = stats
      BY <1>4, <2>1 DEF CountsOnce
    <2>2. CASE working' = working
      BY <1>1, <2>2 DEF Folds, CountsOnce
    <2>3. QED BY <1>0, <2>1, <2>2
  <1>7. ASSUME NEW c \in Drains PROVE CountsOnce(drain[c].stats)'
    <2>1. CASE c = d
      BY <1>0, <1>4, <2>1 DEF CountsOnce
    <2>2. CASE c # d
      BY <1>0, <1>1, <1>3, <2>2 DEF CountsOnce
    <2>3. QED BY <2>1, <2>2
  <1>8. QED BY <1>1, <1>5, <1>6, <1>7 DEF Folds

LEMMA EmitFolds ==
    ASSUME LedgerTypeOK, Folds, NEW e \in Events, Emit(e)
    PROVE  Folds'
  <1>0. /\ log' = Append(log, e) /\ first' >= first /\ log \in Seq(Events)
        /\ first \in 0 .. Len(log) /\ first' \in Nat /\ lastRead \in 0 .. Len(log)
        /\ UNCHANGED <<group, lastRead, drain, working, checkpoint>>
    BY DEF Emit, LedgerTypeOK, statVars
  <1>1. /\ Positions' = Positions \cup {Len(log) + 1} /\ Len(log) + 1 \notin Positions
        /\ \A p \in Positions : log'[p] = log[p]
        /\ log'[Len(log) + 1] = e
    BY <1>0 DEF Positions
  <1>2. \A p \in Positions : log[p] # e
    BY DEF Emit, Enqueued
  <1>3. \A p \in Positions : Passed(p) => Passed(p)'
    BY <1>0 DEF Passed, Positions
  <1>4. \A d \in Drains : drain[d].batch \subseteq Positions
    BY DEF LedgerTypeOK
  <1>5. DeliveredOnce'
    <2>1. \A d \in Drains : \A p \in drain'[d].batch : Passed(p)'
      BY <1>0, <1>3, <1>4 DEF Folds, DeliveredOnce
    <2>2. \A p, q \in Positions' : log'[p] = log'[q] => p = q
      BY <1>1, <1>2 DEF Folds, DeliveredOnce
    <2>3. QED BY <1>0, <2>1, <2>2 DEF Folds, DeliveredOnce
  <1>6. \A x \in Events : Unfolded(x)' => Unfolded(x)
    BY <1>0, <1>1, <1>3 DEF Unfolded, BeforeFold
  <1>7. QED BY <1>0, <1>5, <1>6, CopiesStep

LEMMA FlushFolds ==
    ASSUME LedgerTypeOK, Folds, RedisFlush
    PROVE  Folds'
  <1>0. /\ first' = Len(log) /\ lastRead' = 0 /\ working' = NoCopy /\ Len(log) \in Nat
        /\ UNCHANGED <<log, drain, checkpoint>>
    BY DEF RedisFlush, LedgerTypeOK
  <1>1. \A p \in Positions : Passed(p)'
    BY <1>0 DEF Passed, Positions
  <1>2. \A d \in Drains : drain[d].batch \subseteq Positions
    BY DEF LedgerTypeOK
  <1>3. DeliveredOnce'
    BY <1>0, <1>1, <1>2 DEF Folds, DeliveredOnce, Positions
  <1>4. \A e \in Events : Unfolded(e)' => Unfolded(e)
    BY <1>0, <1>1 DEF Unfolded, BeforeFold, Positions
  <1>5. QED BY <1>0, <1>3, <1>4, CopiesStep

\* A job that moves on without reading: it keeps its statistics, takes those of
\* a store, or lets go of them.
LEMMA MovesOn ==
    ASSUME LedgerTypeOK, Folds, NEW d \in Drains,
           log' = log, first' = first, lastRead' = lastRead, group' = group \/ group',
           \A c \in Drains : c # d => drain'[c] = drain[c],
           drain'[d].batch \in {drain[d].batch, {}},
           BeforeFold(d)' => BeforeFold(d),
           checkpoint' = checkpoint \/ checkpoint' = drain[d].stats,
           working' = working,
           \/ drain'[d].stats \in {drain[d].stats, Empty, checkpoint}
           \/ working # NoCopy /\ drain'[d].stats = working
    PROVE  Folds'
  <1>1. DeliveredOnce' /\ \A e \in Events : Unfolded(e)' => Unfolded(e)
    BY NoDelivery
  <1>2. \A c \in Drains : \/ drain'[c].stats \in {drain[c].stats, Empty, checkpoint}
                          \/ working # NoCopy /\ drain'[c].stats = working
    OBVIOUS
  <1>3. checkpoint' = checkpoint \/ \E c \in Drains : checkpoint' = drain[c].stats
    OBVIOUS
  <1>4. QED BY <1>1, <1>2, <1>3, CopiesStep

LEMMA JobFolds ==
    ASSUME LedgerTypeOK, Folds, NEW d \in Drains, Progress(d) \/ Abort(d)
    PROVE  Folds'
  <1>p. drain[d] \in Progressed /\ drain \in [Drains -> Progressed]
    BY DEF LedgerTypeOK, Progressed
  <1>o. \A c \in Drains : c # d => drain'[c] = drain[c]
    BY DEF Progress, EnsureGroup, Read, ReadNothing, ReadFails, Insert, InsertFails,
       LoadRolling, ScoringFails, SaveRolling, Checkpoint, Ack, Abort, LedgerTypeOK
  <1>n. NotDraining.pc = "idle" /\ NotDraining.batch = {} /\ NotDraining.stats = Empty
    BY DEF NotDraining
  <1>1. CASE EnsureGroup(d)
    <2>1. /\ UNCHANGED <<log, first, checkpoint, working>> /\ group' = TRUE /\ drain'[d].pc = "ready"
          /\ drain'[d].batch = drain[d].batch /\ drain'[d].stats = drain[d].stats
      BY <1>1, <1>p DEF EnsureGroup, statVars, Progressed
    <2>2. lastRead' = lastRead
      BY <1>1 DEF EnsureGroup, Folds, DeliveredOnce
    <2>3. QED BY <1>o, <2>1, <2>2, MovesOn DEF BeforeFold
  <1>2. CASE Read(d)
    <2>1. /\ UNCHANGED <<log, first, group, checkpoint, working>> /\ group /\ Deliver(Unread)
          /\ drain'[d].batch = Unread /\ drain'[d].stats = drain[d].stats
      BY <1>2, <1>p DEF Read, statVars, Progressed
    <2>2. DeliveredOnce' /\ \A e \in Events : Unfolded(e)' => Unfolded(e)
      BY <1>o, <2>1, Delivery
    <2>3. \A c \in Drains : drain'[c].stats \in {drain[c].stats, Empty, checkpoint}
      BY <1>o, <2>1
    <2>4. QED BY <2>1, <2>2, <2>3, CopiesStep
  <1>3. CASE ReadFails(d)
    <2>1. /\ UNCHANGED <<log, first, group, checkpoint, working>> /\ drain'[d] = NotDraining
          /\ (group /\ Deliver(Unread)) \/ lastRead' = lastRead
      BY <1>3, <1>p DEF ReadFails, statVars
    <2>2. CASE group /\ Deliver(Unread)
      <3>1. DeliveredOnce' /\ \A e \in Events : Unfolded(e)' => Unfolded(e)
        BY <1>o, <1>n, <2>1, <2>2, Delivery
      <3>2. \A c \in Drains : drain'[c].stats \in {drain[c].stats, Empty, checkpoint}
        BY <1>o, <1>n, <2>1
      <3>3. QED BY <2>1, <3>1, <3>2, CopiesStep
    <2>3. CASE lastRead' = lastRead
      BY <1>o, <1>n, <2>1, <2>3, MovesOn DEF BeforeFold
    <2>4. QED BY <2>1, <2>2, <2>3
  <1>4. CASE ReadNothing(d) \/ InsertFails(d) \/ Abort(d)
    <2>1. /\ UNCHANGED <<log, first, group, lastRead, checkpoint, working>> /\ drain'[d] = NotDraining
      BY <1>4, <1>p DEF ReadNothing, InsertFails, Abort, streamVars, statVars
    <2>2. QED BY <1>o, <1>n, <2>1, MovesOn DEF BeforeFold
  <1>5. CASE Insert(d) \/ ScoringFails(d)
    <2>1. /\ UNCHANGED <<log, first, group, lastRead, checkpoint, working>>
          /\ drain'[d].batch = drain[d].batch /\ drain'[d].stats = drain[d].stats
          /\ BeforeFold(d)
      BY <1>5, <1>p DEF Insert, ScoringFails, streamVars, statVars, Progressed, BeforeFold
    <2>2. QED BY <1>o, <2>1, MovesOn
  <1>6. CASE LoadRolling(d)
    <2>1. /\ UNCHANGED <<log, first, group, lastRead, checkpoint, working>>
          /\ drain'[d].batch = drain[d].batch /\ BeforeFold(d)
          /\ \/ drain'[d].stats \in {Empty, checkpoint}
             \/ working # NoCopy /\ drain'[d].stats = working
      BY <1>6, <1>p DEF LoadRolling, streamVars, statVars, Progressed, BeforeFold
    <2>2. QED BY <1>o, <2>1, MovesOn
  <1>7. CASE SaveRolling(d)
    BY <1>7, SaveFolds
  <1>8. CASE Checkpoint(d)
    <2>1. /\ UNCHANGED <<log, first, group, lastRead, working>>
          /\ checkpoint' = checkpoint \/ checkpoint' = drain[d].stats
          /\ drain'[d].batch = drain[d].batch /\ drain'[d].stats = drain[d].stats
          /\ drain'[d].pc = "ack"
      BY <1>8, <1>p DEF Checkpoint, streamVars, Progressed
    <2>2. QED BY <1>o, <2>1, MovesOn DEF BeforeFold
  <1>9. CASE Ack(d)
    <2>1. /\ UNCHANGED <<log, first, group, lastRead, checkpoint, working>>
          /\ drain'[d].batch = {} /\ drain'[d].stats = Empty /\ drain'[d].pc \in {"ready", "idle"}
      BY <1>9, <1>p DEF Ack, statVars, NotDraining
    <2>2. QED BY <1>o, <2>1, MovesOn DEF BeforeFold
  <1>10. QED BY <1>1, <1>2, <1>3, <1>4, <1>5, <1>6, <1>7, <1>8, <1>9 DEF Progress

\* A request shapes the baseline once at most, in every copy of it: an entry is
\* delivered to one job only, and until that job folds it nobody counts it.
THEOREM RequestsFoldOnce == LedgerSpec => []FoldedOnce
<1>1. LedgerInit => Folds
  BY EmptyCounts DEF LedgerInit, Folds, DeliveredOnce, NotDraining, Positions
<1>2. LedgerTypeOK /\ Folds /\ [LedgerNext]_ledgerVars => Folds'
  <2> SUFFICES ASSUME LedgerTypeOK, Folds, [LedgerNext]_ledgerVars PROVE Folds'
    OBVIOUS
  <2>1. CASE UNCHANGED ledgerVars
    BY <2>1 DEF ledgerVars, Folds, DeliveredOnce, CountsOnce, Unfolded, Passed, BeforeFold, Positions
  <2>2. CASE LedgerNext
    BY <2>2, EmitFolds, FlushFolds, JobFolds DEF LedgerNext
  <2>3. QED BY <2>1, <2>2
<1>3. Folds => FoldedOnce
  BY DEF Folds, CountsOnce, FoldedOnce
<1> QED  BY <1>1, <1>2, <1>3, TypeCorrect, PTL DEF LedgerSpec
==============================================================================
