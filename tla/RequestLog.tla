----------------------------- MODULE RequestLog -----------------------------
(***************************************************************************)
(* The decision log of the dashboard: pages of requests_log, newest first. *)
(* The drain writes the rows of requests that are already over, in any     *)
(* order, so the log changes below and above the reader's cursor while he  *)
(* pages; several rows share a timestamp, and their ids are random.        *)
(***************************************************************************)
EXTENDS Integers, Sequences, FiniteSets

CONSTANTS
    LogIds,     \* ids of rows, in their order (numbers)
    Stamps,     \* timestamps
    Decisions,  \* what a reader may filter by ("all": no filter)
    Limit       \* rows on a page

Labels == {"cache_hit", "routed", "escalated", "passthrough", "error"}

ASSUME LogOrderAssumption == LogIds \subseteq Int /\ Stamps \subseteq Int
ASSUME DecisionsAssumption == Decisions \subseteq Labels \cup {"all"}
ASSUME LimitAssumption == Limit \in Nat \ {0}

VARIABLES
    log,        \* LogIds -> the rows of requests_log
    reader      \* one reader: the filter, the cursor, what was shown so far,
                \* and the rows that were there when he began

logVars == <<log, reader>>

NoRow == [at |-> 0, flags |-> {"absent"}]

\* What the pipeline records of a request: a hit is never routed, an
\* escalation was routed, and a routed request may fail.
RowFlags == {{}, {"hit"}, {"failed"}, {"routed"}, {"routed", "failed"}, {"routed", "escalated"}}

Present == {i \in LogIds : log[i] # NoRow}

\* _decision: a hit outranks an error, an error an escalation.
DecisionOf(i) ==
    IF "hit" \in log[i].flags THEN "cache_hit"
    ELSE IF "failed" \in log[i].flags THEN "error"
    ELSE IF "escalated" \in log[i].flags THEN "escalated"
    ELSE IF "routed" \in log[i].flags THEN "routed"
    ELSE "passthrough"

\* list_requests: the condition of each filter.
Kept(decision, flags) ==
    CASE decision = "all"         -> TRUE
      [] decision = "cache_hit"   -> "hit" \in flags
      [] decision = "routed"      -> "routed" \in flags /\ "hit" \notin flags /\ "escalated" \notin flags
      [] decision = "escalated"   -> "escalated" \in flags
      [] decision = "passthrough" -> flags \cap {"hit", "routed", "failed"} = {}
      [] decision = "error"       -> "failed" \in flags

\* (timestamp, id) < (timestamp, id).
Older(i, j) == log[i].at < log[j].at \/ (log[i].at = log[j].at /\ i < j)

\* A bug Beyond could have: the cursor is the timestamp alone.
BeyondStamp(i, cursor) == cursor = <<>> \/ log[i].at < log[cursor[1]].at

\* decode_cursor: rows after the last one shown.  A row never changes, so the
\* id stands for the pair in the cursor.
Beyond(i, cursor) == cursor = <<>> \/ Older(i, cursor[1])

NewestFirst(s) == \A m, n \in DOMAIN s : m < n => Older(s[n], s[m])

\* The SELECT, ORDER BY timestamp DESC, id DESC, with LIMIT limit + 1.
Fetched ==
    LET found == {i \in Present : Kept(reader.decision, log[i].flags) /\ Beyond(i, reader.cursor)}
    IN  CHOOSE s \in UNION {[1 .. n -> found] : n \in 0 .. Limit + 1} :
          /\ NewestFirst(s)
          /\ \A i \in found : \/ \E n \in DOMAIN s : s[n] = i
                              \/ Len(s) = Limit + 1 /\ \A n \in DOMAIN s : Older(i, s[n])

\* list_requests: one page; the extra row only says that there is a next one.
ListRequests ==
    LET fetched == Fetched
        hasMore == Len(fetched) > Limit
        page    == SubSeq(fetched, 1, IF hasMore THEN Limit ELSE Len(fetched))
    IN  /\ reader.stage \in {"begins", "pages"}
        /\ reader' = [reader EXCEPT !.stage = IF hasMore THEN "pages" ELSE "done",
                                    !.cursor = IF hasMore THEN <<page[Len(page)]>> ELSE <<>>,
                                    !.shown = @ \o page,
                                    !.begun = IF reader.stage = "begins" THEN Present ELSE @]
        /\ UNCHANGED log

\* The drain inserts a row, of whatever time.
LogInsert(i) ==
    /\ log[i] = NoRow
    /\ \E at \in Stamps, flags \in RowFlags : log' = [log EXCEPT ![i] = [at |-> at, flags |-> flags]]
    /\ UNCHANGED reader

RequestLogInit ==
    /\ log = [i \in LogIds |-> NoRow]
    /\ reader \in [stage : {"begins"}, decision : Decisions, cursor : {<<>>}, shown : {<<>>}, begun : {{}}]

RequestLogNext == ListRequests \/ \E i \in LogIds : LogInsert(i)

-----------------------------------------------------------------------------
(* Properties.                                                             *)

RequestLogTypeOK ==
    /\ log \in [LogIds -> {NoRow} \cup [at : Stamps, flags : RowFlags]]
    /\ reader.stage \in {"begins", "pages", "done"}
    /\ reader.decision \in Decisions
    /\ reader.shown \in Seq(LogIds)
    /\ reader.begun \subseteq LogIds
    /\ (reader.stage = "pages") = (reader.cursor # <<>>)

\* "Strict tuple comparison, so a row is never skipped or repeated when several
\* share a timestamp": whatever arrives between two pages, the pages go from
\* new to old without repetition, and at the end every row that was there when
\* the reader began, and that carries the label he asked for, was shown.
PagesAreComplete ==
    /\ NewestFirst(reader.shown)
    /\ reader.stage = "done" =>
         \A i \in reader.begun :
           (reader.decision = "all" \/ DecisionOf(i) = reader.decision)
             => \E n \in DOMAIN reader.shown : reader.shown[n] = i
=============================================================================
