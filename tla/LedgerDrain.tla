---------------------------- MODULE LedgerDrain ----------------------------
(***************************************************************************)
(* The ledger: the proxy's XADD (ledger/writer.py), the worker's drain     *)
(* through a Redis consumer group into requests_log (worker/tasks.py), and *)
(* the rolling spend statistics each drained batch is folded into          *)
(* (anomaly/pipeline.py, anomaly/store.py).                                *)
(*                                                                         *)
(* ARQ starts a drain job every five seconds whether or not the last one   *)
(* is done, so jobs overlap; all of them read as the one consumer          *)
(* "worker".  A stream entry is its position in `log', the list of all     *)
(* events ever enqueued; the stream holds the positions after `first'.     *)
(* One project is modelled, and its statistics are the number of times     *)
(* each event was folded into them.                                        *)
(***************************************************************************)
EXTENDS Integers, Sequences, FiniteSets

CONSTANTS
    Events,      \* one per proxied request
    Malformed,   \* the events parse_event_fields makes nothing of
    Drains,      \* drain jobs running at once
    MaxLen,      \* ledger_stream_maxlen
    BatchSize,   \* ledger_batch_size
    MaxLedgerFaults \* bound on failures, crashes and flushes

ASSUME MalformedAssumption == Malformed \subseteq Events
ASSUME MaxLenAssumption == MaxLen \in Nat \ {0}
ASSUME BatchSizeAssumption == BatchSize \in Nat \ {0}
ASSUME MaxLedgerFaultsAssumption == MaxLedgerFaults \in Nat

VARIABLES
    log,         \* events enqueued, in stream order
    first,       \* positions 1..first are gone from the stream
    group,       \* does the consumer group exist
    lastRead,    \* the group's last delivered position
    pending,     \* its pending entries: delivered, not acknowledged
    rows,        \* events with a row in requests_log
    working,     \* rolling statistics in Redis: Events -> count, or NoCopy
    checkpoint,  \* the same in Postgres
    drain,       \* Drains -> progress of drain_ledger
    acked,       \* history: positions acknowledged
    ledgerFaults \* failures so far

ledgerVars == <<log, first, group, lastRead, pending, rows, working, checkpoint,
                drain, acked, ledgerFaults>>

streamVars == <<log, first, group, lastRead, pending, acked>>
statVars   == <<working, checkpoint>>

----------------------------------------------------------------------------
Empty == [e \in Events |-> 0]     \* RollingStats()
NoCopy == <<>>

Positions == 1 .. Len(log)

LedgerTypeOK ==
    /\ log \in Seq(Events)
    /\ first \in 0 .. Len(log)
    /\ group \in BOOLEAN
    /\ lastRead \in 0 .. Len(log)
    /\ pending \subseteq Positions
    /\ rows \subseteq Events \ Malformed
    /\ working \in [Events -> Nat] \cup {NoCopy}
    /\ checkpoint \in [Events -> Nat]
    /\ drain \in [Drains -> [pc : {"idle", "ready", "read", "inserted", "loaded",
                                   "saved", "ack"},
                             batch : SUBSET Positions, stats : [Events -> Nat]]]
    /\ acked \subseteq Positions
    /\ ledgerFaults \in 0 .. MaxLedgerFaults

NotDraining == [pc |-> "idle", batch |-> {}, stats |-> Empty]

LedgerInit ==
    /\ log = <<>> /\ first = 0
    /\ group = FALSE /\ lastRead = 0 /\ pending = {} /\ acked = {}
    /\ rows = {}
    /\ working = NoCopy /\ checkpoint = Empty
    /\ drain = [d \in Drains |-> NotDraining]
    /\ ledgerFaults = 0

LedgerFault == ledgerFaults < MaxLedgerFaults /\ ledgerFaults' = ledgerFaults + 1

Enqueued(e) == \E p \in Positions : log[p] = e

\* A bug Parsed could have: malformed entries are not left out.
ParsedAll(ps) == {log[p] : p \in ps}

\* The rows parse_event_fields makes of entries ps.
Parsed(ps) == {log[p] : p \in ps} \ Malformed

\* What ">" delivers: the oldest entries still there after the last delivered.
Unread ==
    LET from == IF first > lastRead THEN first ELSE lastRead IN
    {p \in Positions : from < p /\ p <= from + BatchSize}

----------------------------------------------------------------------------
(* The proxy.                                                              *)

\* XADD with MAXLEN ~: entries beyond the cap may be trimmed, oldest first.
\* A request whose XADD fails is counted as dropped and has no row, ever.
Emit(e) ==
    /\ ~Enqueued(e)
    /\ log' = Append(log, e)
    /\ first' \in {n \in first .. Len(log) + 1 : n = first \/ n <= Len(log) + 1 - MaxLen}
    /\ UNCHANGED <<group, lastRead, pending, acked, rows, statVars, drain, ledgerFaults>>

----------------------------------------------------------------------------
(* drain_ledger.                                                           *)

\* A bug EnsureGroup could have: start the group at the end of the stream.
EnsureGroupAtEnd(d) ==
    /\ drain[d].pc = "idle"
    /\ group' = TRUE
    /\ lastRead' = IF group THEN lastRead ELSE Len(log)
    /\ drain' = [drain EXCEPT ![d].pc = "ready"]
    /\ UNCHANGED <<log, first, pending, acked, rows, statVars, ledgerFaults>>

\* XGROUP CREATE ... 0 MKSTREAM, tolerating BUSYGROUP.
EnsureGroup(d) ==
    /\ drain[d].pc = "idle"
    /\ group' = TRUE
    /\ lastRead' = IF group THEN lastRead ELSE 0
    /\ drain' = [drain EXCEPT ![d].pc = "ready"]
    /\ UNCHANGED <<log, first, pending, acked, rows, statVars, ledgerFaults>>

\* Entries ps are delivered to the consumer and pend until acknowledged.
Deliver(ps) ==
    /\ pending' = pending \cup ps
    /\ lastRead' = IF ps = {} THEN lastRead ELSE CHOOSE p \in ps : \A q \in ps : q <= p

\* A bug Read could have: deliver what is pending again before what is new.
ReadPendingToo(d) ==
    /\ drain[d].pc = "ready" /\ group
    /\ pending \cup Unread # {}
    /\ Deliver(Unread)
    /\ drain' = [drain EXCEPT ![d].pc = "read", ![d].batch = pending \cup Unread]
    /\ UNCHANGED <<log, first, group, acked, rows, statVars, ledgerFaults>>

\* XREADGROUP ... ">".
Read(d) ==
    /\ drain[d].pc = "ready" /\ group
    /\ Unread # {}
    /\ Deliver(Unread)
    /\ drain' = [drain EXCEPT ![d].pc = "read", ![d].batch = Unread]
    /\ UNCHANGED <<log, first, group, acked, rows, statVars, ledgerFaults>>

\* Nothing to read: the job returns.
ReadNothing(d) ==
    /\ drain[d].pc = "ready" /\ group
    /\ Unread = {}
    /\ drain' = [drain EXCEPT ![d] = NotDraining]
    /\ UNCHANGED <<streamVars, rows, statVars, ledgerFaults>>

\* The read raises (also when the group has vanished) and the job returns.
\* If it is the reply that was lost, Redis has already delivered the entries.
ReadFails(d) ==
    /\ drain[d].pc = "ready"
    /\ IF group THEN LedgerFault ELSE UNCHANGED ledgerFaults
    /\ \/ /\ group
          /\ Deliver(Unread)
       \/ UNCHANGED <<pending, lastRead>>
    /\ drain' = [drain EXCEPT ![d] = NotDraining]
    /\ UNCHANGED <<log, first, group, acked, rows, statVars>>

\* INSERT ... ON CONFLICT DO NOTHING, one transaction; skipped when the whole
\* batch is malformed.
Insert(d) ==
    /\ drain[d].pc = "read"
    /\ rows' = rows \cup Parsed(drain[d].batch)
    /\ drain' = [drain EXCEPT ![d].pc = IF Parsed(drain[d].batch) = {} THEN "ack" ELSE "inserted"]
    /\ UNCHANGED <<streamVars, statVars, ledgerFaults>>

\* A bug InsertFails could have: go on to the scoring.
InsertFailsThenScore(d) ==
    /\ drain[d].pc = "read"
    /\ LedgerFault
    /\ drain' = [drain EXCEPT ![d].pc = "inserted"]
    /\ UNCHANGED <<streamVars, rows, statVars>>

\* A bug InsertFails could have: acknowledge the batch all the same.
InsertFailsThenAck(d) ==
    /\ drain[d].pc = "read"
    /\ LedgerFault
    /\ drain' = [drain EXCEPT ![d].pc = "ack"]
    /\ UNCHANGED <<streamVars, rows, statVars>>

\* The transaction raises: the job returns, leaving the batch unacknowledged.
\* The error may have come back for a commit that did happen.
InsertFails(d) ==
    /\ drain[d].pc = "read"
    /\ Parsed(drain[d].batch) # {}
    /\ LedgerFault
    /\ rows' \in {rows, rows \cup Parsed(drain[d].batch)}
    /\ drain' = [drain EXCEPT ![d] = NotDraining]
    /\ UNCHANGED <<streamVars, statVars>>

\* load_rolling: the copy in Redis; without one, the checkpoint; and when
\* neither store answers, statistics that know nothing.
LoadRolling(d) ==
    /\ drain[d].pc = "inserted"
    /\ \E stats \in {Empty, checkpoint, working} \ {NoCopy} :
         /\ drain' = [drain EXCEPT ![d].pc = "loaded", ![d].stats = stats]
         /\ IF stats = (IF working = NoCopy THEN checkpoint ELSE working)
            THEN UNCHANGED ledgerFaults
            ELSE LedgerFault
    /\ UNCHANGED <<streamVars, rows, statVars>>

\* Scoring raises on the way: the fold is dropped and the batch acknowledged.
ScoringFails(d) ==
    /\ drain[d].pc \in {"inserted", "loaded"}
    /\ LedgerFault
    /\ drain' = [drain EXCEPT ![d].pc = "ack"]
    /\ UNCHANGED <<streamVars, rows, statVars>>

\* observe() for every row of the batch.
Fold(stats, es) == [e \in Events |-> IF e \in es THEN stats[e] + 1 ELSE stats[e]]

\* The batch is folded in and save_rolling writes the copy; never raises.
SaveRolling(d) ==
    /\ drain[d].pc = "loaded"
    /\ LET stats == Fold(drain[d].stats, Parsed(drain[d].batch)) IN
         /\ drain' = [drain EXCEPT ![d].pc = "saved", ![d].stats = stats]
         /\ \/ /\ working' = stats
               /\ UNCHANGED ledgerFaults
            \/ /\ UNCHANGED working
               /\ LedgerFault
    /\ UNCHANGED <<streamVars, rows, checkpoint>>

\* checkpoint_to_postgres; never raises.
Checkpoint(d) ==
    /\ drain[d].pc = "saved"
    /\ drain' = [drain EXCEPT ![d].pc = "ack"]
    /\ \/ /\ checkpoint' = drain[d].stats
          /\ UNCHANGED ledgerFaults
       \/ /\ UNCHANGED checkpoint
          /\ LedgerFault
    /\ UNCHANGED <<streamVars, rows, working>>

\* XACK of the batch, malformed entries included; a failure is swallowed.
\* Then the next batch is read, unless max_batches is reached.
Ack(d) ==
    /\ drain[d].pc = "ack"
    /\ \/ /\ pending' = pending \ drain[d].batch
          /\ acked' = acked \cup drain[d].batch
          /\ UNCHANGED ledgerFaults
       \/ /\ UNCHANGED <<pending, acked>>
          /\ LedgerFault
    /\ \E pc \in {"ready", "idle"} :
         drain' = [drain EXCEPT ![d] = [NotDraining EXCEPT !.pc = pc]]
    /\ UNCHANGED <<log, first, group, lastRead, rows, statVars>>

\* The worker dies, or the job runs into job_timeout.
Abort(d) ==
    /\ drain[d].pc # "idle"
    /\ LedgerFault
    /\ drain' = [drain EXCEPT ![d] = NotDraining]
    /\ UNCHANGED <<streamVars, rows, statVars>>

----------------------------------------------------------------------------
\* Redis loses its data: the stream, the group and the working copy.
RedisFlush ==
    /\ LedgerFault
    /\ first' = Len(log)
    /\ group' = FALSE /\ lastRead' = 0 /\ pending' = {}
    /\ working' = NoCopy
    /\ UNCHANGED <<log, acked, rows, checkpoint, drain>>

Progress(d) ==
    \/ EnsureGroup(d)
    \/ Read(d)
    \/ ReadNothing(d)
    \/ ReadFails(d)
    \/ Insert(d)
    \/ InsertFails(d)
    \/ LoadRolling(d)
    \/ ScoringFails(d)
    \/ SaveRolling(d)
    \/ Checkpoint(d)
    \/ Ack(d)

LedgerNext ==
    \/ \E e \in Events : Emit(e)
    \/ \E d \in Drains : Progress(d) \/ Abort(d)
    \/ RedisFlush

LedgerSpec == LedgerInit /\ [][LedgerNext]_ledgerVars

\* ARQ keeps starting drain jobs and each one takes its steps to an end.
LedgerFairSpec ==
    /\ LedgerSpec
    /\ \A d \in Drains : WF_ledgerVars(Progress(d))

----------------------------------------------------------------------------
(* Properties.                                                             *)

\* An acknowledged entry is never lost: unless malformed it has its row,
\* through failed inserts, crashes and overlapping jobs.
AckedIsDurable == \A p \in acked : log[p] \in rows \cup Malformed

\* Whatever shapes the spend baseline is in the ledger: "scoring runs only
\* after the rows are durable", in Redis, in the checkpoint and in any job.
Known(stats) == {e \in Events : stats[e] > 0}

BaselineIsDurable ==
    /\ Known(checkpoint) \subseteq rows
    /\ working # NoCopy => Known(working) \subseteq rows
    /\ \A d \in Drains : Known(drain[d].stats) \subseteq rows

\* No request is counted twice in the baseline, however jobs overlap and
\* whichever copy a job starts from.
FoldedOnce ==
    \A e \in Events :
        /\ checkpoint[e] <= 1
        /\ working # NoCopy => working[e] <= 1

\* Every enqueued event gets its row, unless some statement failed, a job was
\* lost or the stream was trimmed or flushed along the way.
EventuallyDurable ==
    \A e \in Events \ Malformed :
        Enqueued(e) ~> (e \in rows \/ ledgerFaults > 0 \/ first > 0)

----------------------------------------------------------------------------
\* tasks.py, on a failed insert: "Leave them unacknowledged so the next pass
\* reclaims them".  What pends does not stay out of the ledger for good.
PendingIsReclaimed ==
    \A e \in Events \ Malformed :
        (\E p \in pending : log[p] = e) ~> (e \in rows \/ ~\E p \in pending : log[p] = e)
============================================================================
