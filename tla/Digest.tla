------------------------------- MODULE Digest -------------------------------
(***************************************************************************)
(* The weekly digest of one user.  The job runs in every hour, and may run *)
(* again in the same hour when it is retried; it reads the user, decides   *)
(* whether the digest is due, builds it, mails it and only then records    *)
(* last_digest_sent_at.  A week is WeekTicks ticks, and the digest hour of *)
(* the user's timezone is the first DueTicks of them.                      *)
(***************************************************************************)
EXTENDS Integers

CONSTANTS
    WeekTicks,       \* ticks of a week
    DueTicks,        \* ticks of the digest hour
    ResendAfter,     \* six days, in ticks
    Weeks,           \* model bound: the weeks 0 .. Weeks - 1
    MaxDigestFaults  \* model bound: steps that fail

\* The digest hour is shorter than what must pass between two digests, and a week
\* less that hour is not: a digest sent at the end of its hour leaves the next
\* week's due.
ASSUME WeekAssumption ==
    /\ WeekTicks \in Nat /\ DueTicks \in Nat \ {0} /\ ResendAfter \in Nat
    /\ DueTicks <= ResendAfter /\ ResendAfter + DueTicks <= WeekTicks + 1
ASSUME WeeksAssumption == Weeks \in Nat \ {0}
ASSUME MaxDigestFaultsAssumption == MaxDigestFaults \in Nat

VARIABLES
    digestNow,       \* the clock
    lastSent,        \* users.last_digest_sent_at, -1 for NULL
    enabled,         \* users.digest_enabled
    digest,          \* the job: [stage, at, last]
    week,            \* week -> [mails, unmarked, quiet, passed]
    digestFaults

digestVars == <<digestNow, lastSent, enabled, digest, week, digestFaults>>

NoDigest == [stage |-> "idle", at |-> 0, last |-> -1]

DigestInit ==
    /\ digestNow = 0
    /\ lastSent = -1
    /\ enabled = TRUE
    /\ digest = NoDigest
    /\ week = [w \in 0 .. Weeks - 1 |->
                 [mails |-> 0, unmarked |-> 0, quiet |-> FALSE, passed |-> FALSE]]
    /\ digestFaults = 0

WeekOf(t) == t \div WeekTicks
ThisWeek == WeekOf(digest.at)
DueHour(t) == t % WeekTicks < DueTicks

\* A bug NotRecent could have: a full week between two digests.
NotRecentSevenDays(last, at) == last = -1 \/ at - last >= WeekTicks

\* The last_sent_at half of user_is_due.
NotRecent(last, at) == last = -1 \/ at - last >= ResendAfter

DigestFault == digestFaults < MaxDigestFaults /\ digestFaults' = digestFaults + 1

\* The job reads the users who take digests.
DigestRead ==
    /\ digest.stage = "idle" /\ enabled
    /\ digest' = [stage |-> "read", at |-> digestNow, last |-> lastSent]
    /\ UNCHANGED <<digestNow, lastSent, enabled, week, digestFaults>>

\* user_is_due: the wrong hour, or the digest has been sent.
DigestNotDue ==
    /\ digest.stage = "read"
    /\ ~(DueHour(digest.at) /\ NotRecent(digest.last, digest.at))
    /\ digest' = NoDigest
    /\ week' = [week EXCEPT ![ThisWeek].passed = @ \/ DueHour(digest.at)]
    /\ UNCHANGED <<digestNow, lastSent, enabled, digestFaults>>

\* build_digest: enough requests for a mail, or a quiet week.
DigestBuild ==
    /\ digest.stage = "read"
    /\ DueHour(digest.at) /\ NotRecent(digest.last, digest.at)
    /\ \E stage \in {"built", "quiet"} : digest' = [digest EXCEPT !.stage = stage]
    /\ UNCHANGED <<digestNow, lastSent, enabled, week, digestFaults>>

DigestSend ==
    /\ digest.stage = "built"
    /\ digest' = [digest EXCEPT !.stage = "sent"]
    /\ week' = [week EXCEPT ![ThisWeek].mails = @ + 1]
    /\ UNCHANGED <<digestNow, lastSent, enabled, digestFaults>>

\* _mark_sent records the instant at which the job was started.
DigestMark ==
    /\ digest.stage \in {"sent", "quiet"}
    /\ lastSent' = digest.at
    /\ week' = [week EXCEPT ![ThisWeek].quiet = @ \/ digest.stage = "quiet"]
    /\ digest' = NoDigest
    /\ UNCHANGED <<digestNow, enabled, digestFaults>>

\* A query fails, the transport refuses or answers too late, the mark is not
\* written, the worker stops: nothing is tried again but by another run. A mail
\* that got through all the same is one nobody has recorded.
DigestFails ==
    /\ digest.stage # "idle" /\ DigestFault
    /\ digest' = NoDigest
    /\ \/ /\ digest.stage = "built"
          /\ week' = [week EXCEPT ![ThisWeek].mails = @ + 1, ![ThisWeek].unmarked = @ + 1]
       \/ /\ digest.stage = "sent"
          /\ week' = [week EXCEPT ![ThisWeek].unmarked = @ + 1]
       \/ /\ digest.stage # "sent"
          /\ week' = week
    /\ UNCHANGED <<digestNow, lastSent, enabled>>

\* The link of the mail's footer.
Unsubscribe ==
    /\ enabled
    /\ enabled' = FALSE
    /\ UNCHANGED <<digestNow, lastSent, digest, week, digestFaults>>

\* A run is over long before the next hour: at most DueTicks pass under it.
DigestTick ==
    /\ digestNow < Weeks * WeekTicks - 1
    /\ digest.stage # "idle" => digestNow - digest.at < DueTicks
    /\ digestNow' = digestNow + 1
    /\ UNCHANGED <<lastSent, enabled, digest, week, digestFaults>>

DigestNext ==
    \/ DigestRead \/ DigestNotDue \/ DigestBuild \/ DigestSend \/ DigestMark \/ DigestFails
    \/ Unsubscribe \/ DigestTick

-----------------------------------------------------------------------------
(* Properties.                                                             *)

\* The type invariant.
DigestTypeOK ==
    /\ digestNow \in 0 .. Weeks * WeekTicks - 1
    /\ lastSent \in -1 .. digestNow
    /\ enabled \in BOOLEAN
    /\ digest \in [stage : {"idle", "read", "built", "quiet", "sent"},
                   at : 0 .. digestNow, last : -1 .. digestNow]
    /\ week \in [0 .. Weeks - 1 ->
          [mails : 0 .. MaxDigestFaults + 1, unmarked : 0 .. MaxDigestFaults,
           quiet : BOOLEAN, passed : BOOLEAN]]
    /\ digestFaults \in 0 .. MaxDigestFaults

\* However often the job runs in the digest hour, a user gets one mail in a
\* week, and one more for every mail whose recording failed ("a user receiving
\* the same digest twice is a small thing that reads as carelessness"). And no
\* week is skipped: a run in the digest hour passes a user over only if the
\* week's digest has gone out or was recorded as quiet, although the previous
\* week's may have been sent later in its hour than this one ("must not skip a
\* whole week because seven days had not quite elapsed").
OneDigestAWeek ==
    \A w \in 0 .. Weeks - 1 :
        /\ week[w].mails <= 1 + week[w].unmarked
        /\ week[w].passed => week[w].mails > 0 \/ week[w].quiet
=============================================================================
