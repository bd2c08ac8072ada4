------------------------------- MODULE Outbox -------------------------------
(***************************************************************************)
(* The durable outbox: workers of several processes claim a batch of due   *)
(* events under one lease and one token, deliver them one after the other  *)
(* and mark each row. A worker can be cancelled, panic, crash, or be paused *)
(* past its lease between any two of these steps.                          *)
(*                                                                         *)
(* A failing delivery ends in one of two ways. A storage deletion is        *)
(* deferred and retried for ever (a file would leak), and so is what needs  *)
(* a CDN or an R2 that is not configured; any other event, and a storage    *)
(* deletion with an invalid payload, dies when its attempts are used up.    *)
(* The attempt is charged when the event is claimed, before anybody knows   *)
(* how the delivery will end.                                               *)
(***************************************************************************)
EXTENDS Integers, FiniteSets

CONSTANTS
  Events,         \* outbox rows
  Workers,        \* outbox workers, one per process
  Batch,          \* effectiveOutboxBatchSize
  MaxAttempts,    \* outbox_events.max_attempts (10, for storage 100, in the code)
  MaxFaults,      \* bound: crashes, stalls, failing marks and releases
  MaxFailures,    \* bound: failing deliveries and panics
  MaxShutdowns,   \* bound: cancellations of the worker context
  NoEvent         \* no delivery in progress

ASSUME OutboxAssumption ==
  /\ Batch \in Nat \ {0}
  /\ MaxAttempts \in Nat \ {0}
  /\ MaxFaults \in Nat /\ MaxFailures \in Nat /\ MaxShutdowns \in Nat
  /\ NoEvent \notin Events

VARIABLES
  row,        \* row[e]: the outbox_events row
  delivered,  \* events whose delivery took effect at least once
  paid,       \* paid[e]: deliveries of e that failed for good reason (history)
  worker,     \* worker[w]: the batch in the memory of w
  nextToken,  \* the next lease token (random and unused in the code)
  faults,     \* faults so far
  failures,   \* failed deliveries so far
  shutdowns   \* cancellations so far

bounds == <<faults, failures, shutdowns>>
vars == <<row, delivered, paid, worker, nextToken, bounds>>

EventStatus == {"pending", "publishing", "published", "dead"}
EventRow    == [status: EventStatus, attempts: Nat, token: Nat,
                lease: {"none", "live", "expired"}, due: BOOLEAN]
\* deliver: about to deliver one of todo; mark: active was delivered with result.
Results     == {"none", "ok", "failed", "deferred"}
Memory      == [pc: {"idle", "deliver", "mark"}, token: Nat, batch: SUBSET Events,
                todo: SUBSET Events, active: Events \cup {NoEvent}, result: Results]

Idle == [pc |-> "idle", token |-> 0, batch |-> {}, todo |-> {},
         active |-> NoEvent, result |-> "none"]

Init ==
  /\ row       = [e \in Events |-> [status |-> "pending", attempts |-> 0, token |-> 0,
                                    lease |-> "none", due |-> TRUE]]
  /\ delivered = {}
  /\ paid      = [e \in Events |-> 0]
  /\ worker    = [w \in Workers |-> Idle]
  /\ nextToken = 1
  /\ faults = 0 /\ failures = 0 /\ shutdowns = 0

-----------------------------------------------------------------------------
(* Rows.                                                                   *)

\* Mutation: the fence does not compare tokens.
HoldsByStatus(w, e) == e \in worker[w].batch /\ row[e].status = "publishing"

\* The fence of every mark.
Holds(w, e) ==
  /\ e \in worker[w].batch
  /\ row[e].status = "publishing"
  /\ row[e].token = worker[w].token

Held(e) == \E w \in Workers : Holds(w, e)

Freed(r, status, due) ==
  [r EXCEPT !.status = status, !.due = due, !.token = 0, !.lease = "none"]

\* GREATEST(attempts - 1, 0)
Refunded(r) == [r EXCEPT !.attempts = IF r.attempts > 0 THEN r.attempts - 1 ELSE 0]

\* Mutation: the release does not look at status and token.
ReleasedUnfenced(w, S, refund) ==
  [e \in Events |-> IF e \in S THEN Freed(IF refund THEN Refunded(row[e]) ELSE row[e], "pending", TRUE)
                    ELSE row[e]]

\* ReleaseClaims: those of S that w still holds become due at once.
Released(w, S, refund) ==
  [e \in Events |->
     IF e \in S /\ Holds(w, e)
     THEN Freed(IF refund THEN Refunded(row[e]) ELSE row[e], "pending", TRUE)
     ELSE row[e]]

\* Mutation: only a charged failure is told apart from a success.
VerdictLenient(e, result) ==
  IF result # "failed" THEN Freed(row[e], "published", row[e].due)
  ELSE Freed(row[e], IF row[e].attempts >= MaxAttempts THEN "dead" ELSE "pending", FALSE)

\* MarkPublished, DeferUnconfigured or MarkFailed. The attempts compared are those
\* of the claim; they equal the row's for as long as the fence holds.
Verdict(e, result) ==
  IF result = "ok" THEN Freed(row[e], "published", row[e].due)
  ELSE IF result = "deferred" THEN Freed(Refunded(row[e]), "pending", FALSE)
  ELSE Freed(row[e], IF row[e].attempts >= MaxAttempts THEN "dead" ELSE "pending", FALSE)

Stop(w) == worker' = [worker EXCEPT ![w] = Idle]

\* After a row is marked: the next event of the batch, or the next poll.
Advance(w, e) ==
  worker' = [worker EXCEPT ![w] =
    IF worker[w].todo = {} THEN Idle
    ELSE [worker[w] EXCEPT !.pc = "deliver", !.active = NoEvent, !.result = "none"]]

Fault == faults < MaxFaults /\ faults' = faults + 1 /\ UNCHANGED <<failures, shutdowns>>

Failure == failures < MaxFailures /\ failures' = failures + 1 /\ UNCHANGED <<faults, shutdowns>>

-----------------------------------------------------------------------------
(* The loop of one worker.                                                 *)

Expired(r) == r.status = "publishing" /\ r.lease = "expired"

\* Mutation: an expired claim waits for the process that made it.
RecoveredNever(r) == r

Recovered(r) == IF Expired(r) THEN Freed(r, "pending", TRUE) ELSE r

Claimed(r) ==
  [status |-> "publishing", attempts |-> r.attempts + 1, token |-> nextToken,
   lease |-> "live", due |-> TRUE]

\* One transaction: expired claims are recovered, then up to Batch due rows are
\* taken. Rows locked by another claim are skipped, so any of them may be missing.
Claim(w, S) ==
  LET rows == [e \in Events |-> Recovered(row[e])]
  IN /\ worker[w].pc = "idle"
     /\ S # {} /\ Cardinality(S) <= Batch
     /\ \A e \in S : rows[e].status = "pending" /\ rows[e].due
     /\ row' = [e \in Events |-> IF e \in S THEN Claimed(rows[e]) ELSE rows[e]]
     /\ worker' = [worker EXCEPT ![w] =
          [pc |-> "deliver", token |-> nextToken, batch |-> S, todo |-> S,
           active |-> NoEvent, result |-> "none"]]
     /\ nextToken' = nextToken + 1
     /\ UNCHANGED <<delivered, paid, bounds>>

\* Deliver one event: to the file system, R2 or the CDN, outside any transaction
\* that covers the mark.
DeliverOk(w, e) ==
  /\ worker[w].pc = "deliver"
  /\ e \in worker[w].todo
  /\ worker' = [worker EXCEPT ![w].pc = "mark", ![w].todo = @ \ {e},
                              ![w].active = e, ![w].result = "ok"]
  /\ delivered' = delivered \cup {e}
  /\ UNCHANGED <<row, paid, nextToken, bounds>>

\* A failing delivery is deferred or an attempt. Which one hangs on the type of the
\* event, on its payload and on the settings of that moment.
DeliverFails(w, e, result) ==
  /\ worker[w].pc = "deliver"
  /\ e \in worker[w].todo
  /\ result \in {"deferred", "failed"}
  /\ Failure
  /\ worker' = [worker EXCEPT ![w].pc = "mark", ![w].todo = @ \ {e},
                              ![w].active = e, ![w].result = result]
  /\ paid' = [paid EXCEPT ![e] = IF result = "failed" THEN @ + 1 ELSE @]
  /\ UNCHANGED <<row, delivered, nextToken>>

Mark(w) ==
  LET e == worker[w].active
  IN /\ worker[w].pc = "mark"
     /\ Holds(w, e)
     /\ row' = [row EXCEPT ![e] = Verdict(e, worker[w].result)]
     /\ Advance(w, e)
     /\ UNCHANGED <<delivered, paid, nextToken, bounds>>

\* The lease of the active event was lost: the rest of the batch is dropped as it
\* is, claimed rows included.
MarkLost(w) ==
  /\ worker[w].pc = "mark"
  /\ ~Holds(w, worker[w].active)
  /\ Stop(w)
  /\ UNCHANGED <<row, delivered, paid, nextToken, bounds>>

\* The database refuses the mark: likewise.
MarkFails(w) ==
  /\ worker[w].pc = "mark"
  /\ Fault
  /\ Stop(w)
  /\ UNCHANGED <<row, delivered, paid, nextToken>>

-----------------------------------------------------------------------------
(* Interruptions.                                                          *)

\* The context is cancelled: every claim that is left is released and refunded,
\* also that of an event that was delivered but not marked.
Shutdown(w) ==
  /\ worker[w].pc # "idle"
  /\ shutdowns < MaxShutdowns
  /\ shutdowns' = shutdowns + 1
  /\ row' = Released(w, worker[w].batch, TRUE)
  /\ Stop(w)
  /\ UNCHANGED <<delivered, paid, nextToken, faults, failures>>

\* Mutation: a panic cleans up only after the active event.
AfterPanicActive(w, e) ==
  [row EXCEPT ![e] = IF Holds(w, e) THEN Verdict(e, "failed") ELSE row[e]]

\* Mutation: a panic charges the untouched events of its batch.
AfterPanicCharging(w, e) ==
  [Released(w, worker[w].batch \ {e}, FALSE) EXCEPT
     ![e] = IF Holds(w, e) THEN Verdict(e, "failed") ELSE row[e]]

\* cleanupOutboxPanic: the active event failed, the untouched ones are refunded.
AfterPanic(w, e) ==
  [Released(w, worker[w].batch \ {e}, TRUE) EXCEPT
     ![e] = IF Holds(w, e) THEN Verdict(e, "failed") ELSE row[e]]

\* A panic in the delivery of e.
Panic(w, e) ==
  /\ worker[w].pc = "deliver"
  /\ e \in worker[w].todo
  /\ Failure
  /\ paid' = [paid EXCEPT ![e] = @ + 1]
  /\ row' = AfterPanic(w, e)
  /\ Stop(w)
  /\ UNCHANGED <<delivered, nextToken>>

\* The same when the mark of the clean-up fails: the active event is released and
\* keeps its attempt, the untouched ones are refunded.
PanicUnmarked(w, e) ==
  /\ worker[w].pc = "deliver"
  /\ e \in worker[w].todo
  /\ Fault
  /\ paid' = [paid EXCEPT ![e] = @ + 1]
  /\ row' = [Released(w, worker[w].batch \ {e}, TRUE) EXCEPT ![e] = Released(w, {e}, FALSE)[e]]
  /\ Stop(w)
  /\ UNCHANGED <<delivered, nextToken>>

\* The process dies, or cannot release what it claimed.
Crash(w) ==
  /\ worker[w].pc # "idle"
  /\ Fault
  /\ Stop(w)
  /\ UNCHANGED <<row, delivered, paid, nextToken>>

-----------------------------------------------------------------------------
(* Time. The rows of a batch have one lease.                               *)

Lapse(token) ==
  row' = [e \in Events |->
            IF row[e].status = "publishing" /\ row[e].token = token
            THEN [row[e] EXCEPT !.lease = "expired"] ELSE row[e]]

\* A batch takes longer than its lease: nothing renews it.
Stall(w) ==
  /\ \E e \in Events : Holds(w, e) /\ row[e].lease = "live"
  /\ Fault
  /\ Lapse(worker[w].token)
  /\ UNCHANGED <<delivered, paid, worker, nextToken>>

LeaseExpires(e) ==
  /\ row[e].status = "publishing" /\ row[e].lease = "live"
  /\ \A w \in Workers : worker[w].token # row[e].token
  /\ Lapse(row[e].token)
  /\ UNCHANGED <<delivered, paid, worker, nextToken, bounds>>

BackoffElapses(e) ==
  /\ row[e].status = "pending" /\ ~row[e].due
  /\ row' = [row EXCEPT ![e].due = TRUE]
  /\ UNCHANGED <<delivered, paid, worker, nextToken, bounds>>

-----------------------------------------------------------------------------

Progress(w) ==
  \/ \E S \in SUBSET Events : Claim(w, S)
  \/ \E e \in Events : DeliverOk(w, e)
  \/ Mark(w) \/ MarkLost(w)

Trouble(w) ==
  \/ \E e \in Events, result \in Results : DeliverFails(w, e, result)
  \/ \E e \in Events : Panic(w, e) \/ PanicUnmarked(w, e)
  \/ MarkFails(w) \/ Shutdown(w) \/ Crash(w) \/ Stall(w)

Next ==
  \/ \E w \in Workers : Progress(w) \/ Trouble(w)
  \/ \E e \in Events : LeaseExpires(e) \/ BackoffElapses(e)

Spec == Init /\ [][Next]_vars

\* Workers poll and are restarted, time passes; deliveries need not fail.
Fairness ==
  /\ \A w \in Workers : WF_vars(Progress(w))
  /\ \A e \in Events : WF_vars(LeaseExpires(e)) /\ WF_vars(BackoffElapses(e))

FairSpec == Spec /\ Fairness

-----------------------------------------------------------------------------
(* Properties.                                                             *)

\* The shape of the state: rows, memories and counters are well-formed, and the
\* lease columns are filled exactly while a row is being published.
TypeOK ==
  /\ row \in [Events -> EventRow]
  /\ \A e \in Events :
       /\ row[e].status = "publishing" <=> row[e].lease # "none"
       /\ row[e].status = "publishing" <=> row[e].token # 0
  /\ delivered \subseteq Events
  /\ paid \in [Events -> Nat]
  /\ worker \in [Workers -> Memory]
  /\ nextToken \in Nat \ {0}
  /\ faults \in Nat /\ failures \in Nat /\ shutdowns \in Nat

\* At least once: an event is marked published only after its delivery took effect,
\* however its batch was interrupted (processOutboxBatch, ReleaseClaims).
PublishedWasDelivered ==
  \A e \in Events : row[e].status = "published" => e \in delivered

\* The retry budget is spent by real failures: an event's attempts never exceed its
\* failed deliveries and panics plus the crashes and lost leases, and one for the
\* claim in progress. Cancellations and the panics of its neighbours are refunded
\* (cleanupOutboxPanic), and what is deferred is not charged: a storage deletion, and
\* what waits for a CDN or an R2 to be configured.
AttemptsArePaid ==
  \A e \in Events :
    /\ row[e].attempts <= paid[e] + faults
                          + IF row[e].status \in {"publishing", "published"} THEN 1 ELSE 0
    /\ row[e].status = "publishing" => row[e].attempts >= 1

\* A claim outlives its worker only through a fault: cancelled and panicking workers
\* leave no row waiting for a lease to run out (releaseOutboxClaims).
NoOrphanedClaims ==
  faults = 0 => \A e \in Events : row[e].status = "publishing" => Held(e)

\* Published and dead are final: no late mark, release or recovery of another
\* execution touches the row again.
SettledForGood ==
  [][\A e \in Events : row[e].status \in {"published", "dead"} => row'[e] = row[e]]_vars

\* A live claim is ended only by the worker that made it.
ClaimRespected ==
  [][\A e \in Events :
       row[e].status = "publishing" /\ row[e].lease = "live" /\ row'[e].token # row[e].token
         => \E w \in Workers : worker[w].token = row[e].token /\ worker'[w] # worker[w]]_vars

\* Every event is delivered in the end, or dead after its attempts; a storage
\* deletion that keeps failing keeps being retried and is delivered as well.
Delivers == \A e \in Events : <>(row[e].status \in {"published", "dead"})

=============================================================================
