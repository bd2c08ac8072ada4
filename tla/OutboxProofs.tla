----------------------------- MODULE OutboxProofs -----------------------------
(***************************************************************************)
(* What the fencing tokens of Outbox guarantee for any number of events,   *)
(* workers, attempts and interruptions.                                    *)
(*                                                                         *)
(* A worker knows nothing of its rows but a token. The argument is that    *)
(* the rows it has not marked yet share one fate: they were claimed under  *)
(* one token, their lease runs out at once and is recovered at once, so    *)
(* that a worker that has lost one of them has lost them all.              *)
(***************************************************************************)
EXTENDS Outbox, TLAPS

\* What w has claimed and not marked.
Left(w) ==
  worker[w].todo \cup (IF worker[w].pc = "mark" THEN {worker[w].active} ELSE {})

\* What a worker remembers of its batch.
MemoryAgrees(w) ==
  /\ worker[w].pc = "idle" => worker[w] = Idle
  /\ worker[w].pc # "idle" => worker[w].token \in 1..(nextToken - 1)
  /\ worker[w].todo \subseteq worker[w].batch
  /\ worker[w].pc = "mark" =>
       /\ worker[w].active \in worker[w].batch \ worker[w].todo
       /\ worker[w].result # "none"
       /\ worker[w].result = "ok" => worker[w].active \in delivered

\* A delivery fails in one way or the other.
DeliveryFails(w, e) == \E result \in Results : DeliverFails(w, e, result)

\* Tokens are never reused, so a token names one claim of one worker.
TokensFresh ==
  /\ \A e \in Events : row[e].token < nextToken
  /\ \A v, w \in Workers : worker[v].token = worker[w].token => v = w \/ worker[v].token = 0

\* The rows of one claim have one lease.
OneLease == \A e, f \in Events : row[e].token = row[f].token => row[e].lease = row[f].lease

\* A worker holds all that it has left, or nothing at all.
BatchStands(w) ==
  \A e \in Events : Holds(w, e) => e \in Left(w) /\ \A f \in Left(w) : Holds(w, f)

\* The attempts of e are paid for, without one for a claim in progress.
Charged(e) == row[e].attempts <= paid[e] + faults

\* A failed delivery pays for the claim it is about to end.
MarkPaid(w) ==
  worker[w].pc = "mark" /\ worker[w].result = "failed" /\ Holds(w, worker[w].active)
    => Charged(worker[w].active)

\* A claim that nobody can end in good order, or that failed, is paid for already.
ClaimsArePaid ==
  /\ \A e \in Events :
       row[e].status = "publishing" /\ (row[e].lease = "expired" \/ ~Held(e)) => Charged(e)
  /\ \A w \in Workers : MarkPaid(w)

Fenced == /\ \A w \in Workers : MemoryAgrees(w) /\ BatchStands(w)
          /\ TokensFresh /\ OneLease

\* The inductive invariant.
IInv == /\ TypeOK /\ Fenced
        /\ PublishedWasDelivered /\ ClaimsArePaid /\ AttemptsArePaid /\ NoOrphanedClaims

-----------------------------------------------------------------------------
(* Rows.                                                                   *)

LEMMA RefundedRow ==
  ASSUME NEW r \in EventRow
  PROVE  /\ Refunded(r) \in EventRow
         /\ Refunded(r).attempts <= r.attempts
         /\ r.attempts > 0 => Refunded(r).attempts = r.attempts - 1
         /\ r.attempts = 0 => Refunded(r).attempts = 0
  BY DEF Refunded, EventRow

\* A row without a claim.
Unclaimed(r) == r \in EventRow /\ r.status # "publishing" /\ r.token = 0 /\ r.lease = "none"

LEMMA FreedUnclaimed ==
  ASSUME NEW r \in EventRow, NEW s \in EventStatus \ {"publishing"}, NEW due \in BOOLEAN
  PROVE  /\ Unclaimed(Freed(r, s, due))
         /\ Freed(r, s, due).status = s /\ Freed(r, s, due).attempts = r.attempts
  BY DEF Freed, Unclaimed, EventRow

LEMMA FreedDue ==
  ASSUME NEW r \in EventRow, NEW q, q = Freed(r, "pending", TRUE)
  PROVE  Unclaimed(q) /\ q.status = "pending" /\ q.attempts = r.attempts
  BY DEF Freed, Unclaimed, EventRow, EventStatus

\* What a mark leaves.
LEMMA VerdictRow ==
  ASSUME TypeOK, NEW e \in Events, NEW result, NEW r, r = Verdict(e, result)
  PROVE  /\ Unclaimed(r)
         /\ r.attempts <= row[e].attempts
         /\ r.status = "published" => result = "ok"
         /\ result = "deferred" => r.attempts = Refunded(row[e]).attempts
  <1>1. row[e] \in EventRow /\ row[e].due \in BOOLEAN /\ row[e].attempts \in Nat
    BY DEF TypeOK, EventRow
  <1>2. Refunded(row[e]) \in EventRow /\ Refunded(row[e]).attempts <= row[e].attempts
    BY <1>1, RefundedRow
  <1>3. {"pending", "published", "dead"} \subseteq EventStatus \ {"publishing"}
    BY DEF EventStatus
  <1>4. CASE result = "ok"
    <2>1. r = Freed(row[e], "published", row[e].due)
      BY <1>4 DEF Verdict
    <2> QED
      BY <1>1, <1>3, <1>4, <2>1, FreedUnclaimed
  <1>5. CASE result = "deferred"
    <2>1. r = Freed(Refunded(row[e]), "pending", FALSE)
      BY <1>5 DEF Verdict
    <2>2. /\ Unclaimed(Freed(Refunded(row[e]), "pending", FALSE))
          /\ Freed(Refunded(row[e]), "pending", FALSE).status = "pending"
          /\ Freed(Refunded(row[e]), "pending", FALSE).attempts = Refunded(row[e]).attempts
      BY <1>2, <1>3, FreedUnclaimed
    <2> QED
      BY <1>2, <1>5, <2>1, <2>2
  <1>6. CASE result \notin {"ok", "deferred"}
    <2>1. Unclaimed(r) /\ r.status \in {"dead", "pending"} /\ r.attempts = row[e].attempts
      BY <1>1, <1>6 DEF Verdict, Freed, Unclaimed, EventRow, EventStatus
    <2> QED
      BY <1>1, <1>6, <2>1
  <1> QED
    BY <1>4, <1>5, <1>6

\* A release with a refund, and one without.
Refunding(w, S) == Released(w, S, TRUE)
Keeping(w, S)   == Released(w, S, FALSE)

\* What a release leaves.
LEMMA ReleasedRow ==
  ASSUME TypeOK, NEW w \in Workers, NEW S, NEW e \in Events,
         NEW r, r = Refunding(w, S)[e]
  PROVE  \/ r = row[e] /\ (e \in S => ~Holds(w, e))
         \/ /\ e \in S /\ Holds(w, e)
            /\ Unclaimed(r) /\ r.status = "pending"
            /\ r.attempts = Refunded(row[e]).attempts
  <1>1. row[e] \in EventRow
    BY DEF TypeOK
  <1>2. Refunded(row[e]) \in EventRow
    BY <1>1, RefundedRow
  <1>3. CASE e \in S /\ Holds(w, e)
    <2>1. r = Freed(Refunded(row[e]), "pending", TRUE)
      BY <1>3 DEF Released, Refunding
    <2>2. Unclaimed(r) /\ r.status = "pending" /\ r.attempts = Refunded(row[e]).attempts
      BY <1>1, <1>2, <2>1, FreedDue
    <2> QED
      BY <1>2, <1>3, <2>2
  <1>4. CASE ~(e \in S /\ Holds(w, e))
    BY <1>4 DEF Released, Refunding
  <1> QED
    BY <1>3, <1>4

LEMMA ReleasedKept ==
  ASSUME TypeOK, NEW w \in Workers, NEW S, NEW e \in Events,
         NEW r, r = Keeping(w, S)[e]
  PROVE  \/ r = row[e] /\ (e \in S => ~Holds(w, e))
         \/ /\ e \in S /\ Holds(w, e)
            /\ Unclaimed(r) /\ r.status = "pending"
            /\ r.attempts = row[e].attempts
  <1>1. row[e] \in EventRow
    BY DEF TypeOK
  <1>2. CASE e \in S /\ Holds(w, e)
    <2>1. r = Freed(row[e], "pending", TRUE)
      BY <1>2 DEF Released, Keeping
    <2>2. Unclaimed(r) /\ r.status = "pending" /\ r.attempts = row[e].attempts
      BY <1>1, <1>2, <2>1, FreedDue
    <2> QED
      BY <1>1, <1>2, <2>2
  <1>3. CASE ~(e \in S /\ Holds(w, e))
    BY <1>3 DEF Released, Keeping
  <1> QED
    BY <1>2, <1>3

\* Two workers do not hold the same row.
LEMMA Exclusive ==
  ASSUME TypeOK, TokensFresh, NEW v \in Workers, NEW w \in Workers, NEW e \in Events,
         Holds(v, e), Holds(w, e)
  PROVE  v = w
  <1>1. row[e].token # 0 /\ worker[v].token = row[e].token /\ worker[w].token = row[e].token
    BY DEF Holds, TypeOK
  <1> QED
    BY <1>1 DEF TokensFresh

-----------------------------------------------------------------------------
(* Type correctness.                                                       *)

\* Rows that are kept or lose their claim are well-formed.
LEMMA RowsTyped ==
  ASSUME TypeOK, DOMAIN row' = Events, row' = [e \in Events |-> row'[e]],
         \A e \in Events : row'[e] = row[e] \/ Unclaimed(row'[e])
  PROVE  /\ row' \in [Events -> EventRow]
         /\ \A e \in Events :
              /\ row'[e].status = "publishing" <=> row'[e].lease # "none"
              /\ row'[e].status = "publishing" <=> row'[e].token # 0
  BY DEF TypeOK, Unclaimed

LEMMA StopTyped ==
  ASSUME TypeOK, NEW w \in Workers, Stop(w)
  PROVE  /\ worker' \in [Workers -> Memory]
         /\ worker'[w] = Idle
         /\ \A v \in Workers \ {w} : worker'[v] = worker[v]
  <1>1. Idle \in Memory
    BY DEF Idle, Memory, Results
  <1> QED
    BY <1>1 DEF TypeOK, Stop

\* What the steps of one worker do to rows: a row is kept, or w held it and it loses
\* its claim.
OwnRows(w) ==
  /\ row' = [e \in Events |-> row'[e]]
  /\ \A e \in Events : row'[e] = row[e] \/ (Holds(w, e) /\ Unclaimed(row'[e]))

LEMMA MarkRows ==
  ASSUME TypeOK, NEW w \in Workers, Mark(w)
  PROVE  /\ worker[w].active \in Events
         /\ OwnRows(w)
         /\ row'[worker[w].active] = Verdict(worker[w].active, worker[w].result)
         /\ \A f \in Events \ {worker[w].active} : row'[f] = row[f]
  <1> DEFINE e == worker[w].active
  <1>1. e \in Events /\ Holds(w, e)
    BY DEF Mark, Holds, TypeOK, Memory
  <1>2. row' = [row EXCEPT ![e] = Verdict(e, worker[w].result)] /\ row \in [Events -> EventRow]
    BY DEF Mark, TypeOK
  <1> HIDE DEF e
  <1>3. row'[e] = Verdict(e, worker[w].result) /\ \A f \in Events \ {e} : row'[f] = row[f]
    BY <1>1, <1>2
  <1>4. Unclaimed(row'[e])
    BY <1>1, <1>3, VerdictRow
  <1>5. row' = [f \in Events |-> row'[f]]
    BY <1>2
  <1> QED
    BY <1>1, <1>3, <1>4, <1>5 DEF OwnRows, e

LEMMA ShutdownRows ==
  ASSUME TypeOK, NEW w \in Workers, NEW S, row' = Refunding(w, S)
  PROVE  /\ OwnRows(w)
         /\ \A e \in Events :
              \/ row'[e] = row[e] /\ (e \in S => ~Holds(w, e))
              \/ /\ e \in S /\ Holds(w, e)
                 /\ Unclaimed(row'[e]) /\ row'[e].status = "pending"
                 /\ row'[e].attempts = Refunded(row[e]).attempts
  <1>1. row' = [e \in Events |-> row'[e]]
    BY DEF Released, Refunding
  <1>2. ASSUME NEW e \in Events
        PROVE  \/ row'[e] = row[e] /\ (e \in S => ~Holds(w, e))
               \/ /\ e \in S /\ Holds(w, e)
                  /\ Unclaimed(row'[e]) /\ row'[e].status = "pending"
                  /\ row'[e].attempts = Refunded(row[e]).attempts
    <2>1. row'[e] = Refunding(w, S)[e]
      OBVIOUS
    <2> QED
      BY <2>1, ReleasedRow
  <1> QED
    BY <1>1, <1>2 DEF OwnRows

LEMMA PanicRows ==
  ASSUME TypeOK, NEW w \in Workers, NEW e \in Events, Panic(w, e)
  PROVE  /\ OwnRows(w)
         /\ \/ row'[e] = row[e] /\ ~Holds(w, e)
            \/ /\ Unclaimed(row'[e]) /\ row'[e].status # "published"
               /\ row'[e].attempts <= row[e].attempts
         /\ \A f \in Events \ {e} :
              \/ row'[f] = row[f] /\ (f \in worker[w].batch => ~Holds(w, f))
              \/ /\ Holds(w, f) /\ Unclaimed(row'[f]) /\ row'[f].status = "pending"
                 /\ row'[f].attempts = Refunded(row[f]).attempts
  <1>1. /\ row' = [f \in Events |-> row'[f]]
        /\ row'[e] = IF Holds(w, e) THEN Verdict(e, "failed") ELSE row[e]
        /\ \A f \in Events \ {e} : row'[f] = Refunding(w, worker[w].batch \ {e})[f]
    BY DEF Panic, AfterPanic, Released, Refunding
  <1>2. \/ row'[e] = row[e] /\ ~Holds(w, e)
        \/ /\ Holds(w, e) /\ Unclaimed(row'[e])
           /\ row'[e].status # "published" /\ row'[e].attempts <= row[e].attempts
    <2>1. CASE Holds(w, e)
      <3>1. row'[e] = Verdict(e, "failed")
        BY <1>1, <2>1
      <3> QED
        BY <2>1, <3>1, VerdictRow
    <2> QED
      BY <1>1, <2>1
  <1>3. ASSUME NEW f \in Events \ {e}
        PROVE  \/ row'[f] = row[f] /\ (f \in worker[w].batch => ~Holds(w, f))
               \/ /\ Holds(w, f) /\ Unclaimed(row'[f]) /\ row'[f].status = "pending"
                  /\ row'[f].attempts = Refunded(row[f]).attempts
    <2> DEFINE S == worker[w].batch \ {e}
    <2>1. f \in Events /\ row'[f] = Refunding(w, S)[f]
      BY <1>1
    <2> HIDE DEF S
    <2>2. \/ row'[f] = row[f] /\ (f \in S => ~Holds(w, f))
          \/ /\ f \in S /\ Holds(w, f)
             /\ Unclaimed(row'[f]) /\ row'[f].status = "pending"
             /\ row'[f].attempts = Refunded(row[f]).attempts
      BY <2>1, ReleasedRow
    <2> QED
      BY <2>2 DEF S
  <1>4. OwnRows(w)
    BY <1>1, <1>2, <1>3 DEF OwnRows
  <1> QED
    BY <1>2, <1>3, <1>4

LEMMA PanicUnmarkedRows ==
  ASSUME TypeOK, NEW w \in Workers, NEW e \in Events, PanicUnmarked(w, e)
  PROVE  /\ OwnRows(w)
         /\ \/ row'[e] = row[e] /\ ~Holds(w, e)
            \/ /\ Unclaimed(row'[e]) /\ row'[e].status # "published"
               /\ row'[e].attempts <= row[e].attempts
         /\ \A f \in Events \ {e} :
              \/ row'[f] = row[f] /\ (f \in worker[w].batch => ~Holds(w, f))
              \/ /\ Holds(w, f) /\ Unclaimed(row'[f]) /\ row'[f].status = "pending"
                 /\ row'[f].attempts = Refunded(row[f]).attempts
  <1>0. row'[e] = Keeping(w, {e})[e]
    BY DEF PanicUnmarked, Released, Refunding, Keeping
  <1>1. /\ row' = [f \in Events |-> row'[f]]
        /\ \A f \in Events \ {e} : row'[f] = Refunding(w, worker[w].batch \ {e})[f]
    BY DEF PanicUnmarked, Released, Refunding, Keeping
  <1>2. \/ row'[e] = row[e] /\ ~Holds(w, e)
        \/ /\ Holds(w, e) /\ Unclaimed(row'[e])
           /\ row'[e].status = "pending" /\ row'[e].attempts = row[e].attempts
    BY <1>0, ReleasedKept
  <1>3. ASSUME NEW f \in Events \ {e}
        PROVE  \/ row'[f] = row[f] /\ (f \in worker[w].batch => ~Holds(w, f))
               \/ /\ Holds(w, f) /\ Unclaimed(row'[f]) /\ row'[f].status = "pending"
                  /\ row'[f].attempts = Refunded(row[f]).attempts
    <2> DEFINE S == worker[w].batch \ {e}
    <2>1. f \in Events /\ row'[f] = Refunding(w, S)[f]
      BY <1>1
    <2> HIDE DEF S
    <2>2. \/ row'[f] = row[f] /\ (f \in S => ~Holds(w, f))
          \/ /\ f \in S /\ Holds(w, f)
             /\ Unclaimed(row'[f]) /\ row'[f].status = "pending"
             /\ row'[f].attempts = Refunded(row[f]).attempts
      BY <2>1, ReleasedRow
    <2> QED
      BY <2>2 DEF S
  <1>4. OwnRows(w)
    BY <1>1, <1>2, <1>3 DEF OwnRows
  <1>5. row[e].attempts \in Nat
    BY DEF TypeOK, EventRow
  <1> QED
    BY <1>2, <1>3, <1>4, <1>5

LEMMA ClaimRows ==
  ASSUME TypeOK, NEW w \in Workers, NEW S \in SUBSET Events, Claim(w, S)
  PROVE  /\ row' = [e \in Events |-> row'[e]]
         /\ \A e \in S :
              /\ row[e].status \in {"pending", "publishing"}
              /\ row[e].status = "publishing" => row[e].lease = "expired"
              /\ row'[e] \in EventRow /\ row'[e].status = "publishing"
              /\ row'[e].token = nextToken /\ row'[e].lease = "live"
              /\ row'[e].attempts = row[e].attempts + 1
         /\ \A e \in Events \ S :
              \/ row'[e] = row[e] /\ ~Expired(row[e])
              \/ /\ Expired(row[e]) /\ Unclaimed(row'[e]) /\ row'[e].status = "pending"
                 /\ row'[e].attempts = row[e].attempts
  <1>1. ASSUME NEW e \in Events, NEW q, q = Recovered(row[e])
        PROVE  /\ q \in EventRow /\ q.attempts = row[e].attempts
               /\ ~Expired(row[e]) => q = row[e]
               /\ Expired(row[e]) => Unclaimed(q) /\ q.status = "pending"
    <2>1. row[e] \in EventRow
      BY DEF TypeOK
    <2>2. CASE Expired(row[e])
      <3>1. q = Freed(row[e], "pending", TRUE)
        BY <1>1, <2>2 DEF Recovered
      <3>2. Unclaimed(q) /\ q.status = "pending" /\ q.attempts = row[e].attempts
        BY <2>1, <3>1, FreedDue
      <3> QED
        BY <2>2, <3>2 DEF Unclaimed
    <2> QED
      BY <1>1, <2>1, <2>2 DEF Recovered
  <1>2. /\ row' = [e \in Events |-> row'[e]]
        /\ \A e \in S : Recovered(row[e]).status = "pending" /\ row'[e] = Claimed(Recovered(row[e]))
        /\ \A e \in Events \ S : row'[e] = Recovered(row[e])
    BY DEF Claim
  <1>3. ASSUME NEW e \in S
        PROVE  /\ row[e].status \in {"pending", "publishing"}
               /\ row[e].status = "publishing" => row[e].lease = "expired"
               /\ row'[e] \in EventRow /\ row'[e].status = "publishing"
               /\ row'[e].token = nextToken /\ row'[e].lease = "live"
               /\ row'[e].attempts = row[e].attempts + 1
    <2> DEFINE q == Recovered(row[e])
    <2>1. /\ q \in EventRow /\ q.attempts = row[e].attempts /\ q.status = "pending"
          /\ Expired(row[e]) \/ q = row[e]
      BY <1>1, <1>2
    <2>2. row'[e] = Claimed(q)
      BY <1>2
    <2> HIDE DEF q
    <2>3. /\ row'[e].status = "publishing" /\ row'[e].token = nextToken
          /\ row'[e].lease = "live" /\ row'[e].attempts = row[e].attempts + 1
      BY <2>1, <2>2 DEF Claimed
    <2>4. row'[e] \in EventRow
      BY <2>1, <2>2 DEF Claimed, EventRow, EventStatus, TypeOK
    <2> QED
      BY <2>1, <2>3, <2>4 DEF Expired
  <1>4. ASSUME NEW e \in Events \ S
        PROVE  \/ row'[e] = row[e] /\ ~Expired(row[e])
               \/ /\ Expired(row[e]) /\ Unclaimed(row'[e]) /\ row'[e].status = "pending"
                  /\ row'[e].attempts = row[e].attempts
    BY <1>1, <1>2
  <1> QED
    BY <1>2, <1>3, <1>4

LEMMA LapseRows ==
  ASSUME TypeOK, NEW t, Lapse(t)
  PROVE  /\ row' = [e \in Events |-> row'[e]]
         /\ \A e \in Events :
              /\ row'[e] \in EventRow
              /\ row'[e].status = row[e].status /\ row'[e].token = row[e].token
              /\ row'[e].attempts = row[e].attempts
              /\ row'[e] = row[e] \/ (row'[e].lease = "expired" /\ row[e].status = "publishing")
              /\ row[e].status = "publishing" /\ row[e].token = t => row'[e].lease = "expired"
              /\ row[e].token # t => row'[e] = row[e]
  <1>1. ASSUME NEW e \in Events
        PROVE  row[e] \in EventRow
    BY DEF TypeOK
  <1> QED
    BY <1>1 DEF Lapse, EventRow

LEMMA BackoffRows ==
  ASSUME TypeOK, NEW f \in Events, BackoffElapses(f)
  PROVE  /\ row' = [e \in Events |-> row'[e]]
         /\ \A e \in Events :
              /\ row'[e] \in EventRow
              /\ row'[e].status = row[e].status /\ row'[e].token = row[e].token
              /\ row'[e].attempts = row[e].attempts /\ row'[e].lease = row[e].lease
              /\ row[e].status # "pending" => row'[e] = row[e]
  <1>1. ASSUME NEW e \in Events
        PROVE  row[e] \in EventRow
    BY DEF TypeOK
  <1>2. row' = [row EXCEPT ![f].due = TRUE] /\ row[f].status = "pending" /\ DOMAIN row = Events
    BY DEF BackoffElapses, TypeOK
  <1>3. row'[f] = [row[f] EXCEPT !.due = TRUE] /\ \A e \in Events \ {f} : row'[e] = row[e]
    BY <1>2
  <1>4. row' = [e \in Events |-> row'[e]]
    BY <1>2
  <1>5. /\ row'[f] \in EventRow
        /\ row'[f].status = row[f].status /\ row'[f].token = row[f].token
        /\ row'[f].attempts = row[f].attempts /\ row'[f].lease = row[f].lease
    BY <1>1, <1>3 DEF EventRow
  <1> QED
    BY <1>1, <1>2, <1>3, <1>4, <1>5

\* The rows of a typed state, put together.
RowsOK ==
  /\ row \in [Events -> EventRow]
  /\ \A e \in Events :
       /\ row[e].status = "publishing" <=> row[e].lease # "none"
       /\ row[e].status = "publishing" <=> row[e].token # 0

LEMMA OwnRowsTyped ==
  ASSUME TypeOK, NEW w \in Workers, OwnRows(w)
  PROVE  RowsOK'
  BY DEF TypeOK, OwnRows, Unclaimed, RowsOK

\* Every step leaves a well-formed state.
LEMMA TypeStep ==
  ASSUME TypeOK, [Next]_vars
  PROVE  TypeOK'
  <1> USE DEF TypeOK
  <1>1. ASSUME NEW w \in Workers, NEW S \in SUBSET Events, Claim(w, S)
        PROVE  TypeOK'
    <2>1. RowsOK'
      BY <1>1, ClaimRows DEF RowsOK, Unclaimed
    <2>2. worker' \in [Workers -> Memory]
      BY <1>1 DEF Claim, Memory, Results
    <2> QED
      BY <1>1, <2>1, <2>2 DEF Claim, bounds, RowsOK
  <1>2. ASSUME NEW w \in Workers, NEW e \in Events, DeliverOk(w, e)
        PROVE  TypeOK'
    <2>1. worker' \in [Workers -> Memory]
      BY <1>2 DEF DeliverOk, Memory, Results
    <2> QED
      BY <1>2, <2>1 DEF DeliverOk, bounds
  <1>3. ASSUME NEW w \in Workers, NEW e \in Events, DeliveryFails(w, e)
        PROVE  TypeOK'
    <2>1. worker' \in [Workers -> Memory]
      BY <1>3 DEF DeliveryFails, DeliverFails, Memory, Results
    <2>2. paid' \in [Events -> Nat]
      BY <1>3 DEF DeliveryFails, DeliverFails
    <2> QED
      BY <1>3, <2>1, <2>2 DEF DeliveryFails, DeliverFails, Failure
  <1>4. ASSUME NEW w \in Workers, Mark(w)
        PROVE  TypeOK'
    <2>1. RowsOK'
      BY <1>4, MarkRows, OwnRowsTyped
    <2>2. worker' \in [Workers -> Memory]
      <3>1. Idle \in Memory
        BY DEF Idle, Memory, Results
      <3> QED
        BY <1>4, <3>1 DEF Mark, Advance, Memory, Results
    <2> QED
      BY <1>4, <2>1, <2>2 DEF Mark, bounds, RowsOK
  <1>5. ASSUME NEW w \in Workers, MarkLost(w) \/ MarkFails(w) \/ Crash(w)
        PROVE  TypeOK'
    <2>1. Stop(w)
      BY <1>5 DEF MarkLost, MarkFails, Crash
    <2>2. worker' \in [Workers -> Memory]
      BY <2>1, StopTyped
    <2> QED
      BY <1>5, <2>2 DEF MarkLost, MarkFails, Crash, Fault, bounds
  <1>6. ASSUME NEW w \in Workers, Shutdown(w)
        PROVE  TypeOK'
    <2>1. Stop(w) /\ row' = Refunding(w, worker[w].batch)
      BY <1>6 DEF Shutdown, Refunding
    <2>2. worker' \in [Workers -> Memory] /\ RowsOK'
      BY <2>1, StopTyped, ShutdownRows, OwnRowsTyped
    <2>3. /\ shutdowns' = shutdowns + 1
          /\ UNCHANGED <<delivered, paid, nextToken, faults, failures>>
      BY <1>6 DEF Shutdown, Released
    <2> QED
      BY <2>2, <2>3 DEF RowsOK
  <1>7. ASSUME NEW w \in Workers, NEW e \in Events, Panic(w, e) \/ PanicUnmarked(w, e)
        PROVE  TypeOK'
    <2>1. worker' \in [Workers -> Memory]
      BY <1>7, StopTyped DEF Panic, PanicUnmarked
    <2>2. RowsOK'
      BY <1>7, PanicRows, PanicUnmarkedRows, OwnRowsTyped
    <2>3. paid' = [paid EXCEPT ![e] = @ + 1] /\ (Fault \/ Failure) /\ UNCHANGED <<delivered, nextToken>>
      BY <1>7, Zenon DEF Panic, PanicUnmarked
    <2>4. paid' \in [Events -> Nat]
      BY <2>3
    <2> QED
      BY <2>1, <2>2, <2>3, <2>4 DEF Failure, Fault, RowsOK
  <1>8. ASSUME NEW t, Lapse(t), UNCHANGED <<delivered, paid, worker, nextToken>>,
               UNCHANGED bounds \/ Fault
        PROVE  TypeOK'
    <2>1. RowsOK'
      BY <1>8, LapseRows DEF RowsOK
    <2> QED
      BY <1>8, <2>1 DEF RowsOK, bounds, Fault
  <1>9. ASSUME NEW w \in Workers, Stall(w)
        PROVE  TypeOK'
    BY <1>8, <1>9 DEF Stall
  <1>10. ASSUME NEW e \in Events, LeaseExpires(e)
         PROVE  TypeOK'
    BY <1>8, <1>10 DEF LeaseExpires
  <1>11. ASSUME NEW e \in Events, BackoffElapses(e)
         PROVE  TypeOK'
    <2>1. RowsOK'
      BY <1>11, BackoffRows DEF RowsOK
    <2> QED
      BY <1>11, <2>1 DEF BackoffElapses, bounds, RowsOK
  <1>12. ASSUME UNCHANGED vars
         PROVE  TypeOK'
    BY <1>12 DEF vars, bounds
  <1> QED
    BY <1>1, <1>2, <1>3, <1>4, <1>5, <1>6, <1>7, <1>9, <1>10, <1>11, <1>12
       DEF Next, Progress, Trouble, DeliveryFails

-----------------------------------------------------------------------------
(* The fence.                                                              *)

\* The steps of one worker on what it claimed keep the fence of all.
LEMMA FenceFrame ==
  ASSUME TypeOK, TypeOK', Fenced, NEW w \in Workers, OwnRows(w),
         nextToken' = nextToken, delivered \subseteq delivered',
         \A v \in Workers \ {w} : worker'[v] = worker[v],
         worker'[w].token \in {0, worker[w].token},
         MemoryAgrees(w)', BatchStands(w)'
  PROVE  Fenced'
  <1>1. ASSUME NEW e \in Events
        PROVE  row'[e] = row[e] \/ (row'[e].token = 0 /\ row'[e].lease = "none"
                                    /\ row'[e].status # "publishing" /\ Holds(w, e))
    BY DEF OwnRows, Unclaimed
  <1>2. ASSUME NEW v \in Workers \ {w}
        PROVE  MemoryAgrees(v)' /\ BatchStands(v)'
    <2>1. worker'[v] = worker[v]
      OBVIOUS
    <2>2. MemoryAgrees(v)'
      BY <2>1 DEF Fenced, MemoryAgrees
    <2>3. Left(v)' = Left(v)
      BY <2>1 DEF Left
    <2>4. ASSUME NEW e \in Events, Holds(v, e)'
          PROVE  Holds(v, e)
      BY <1>1, <2>1, <2>4 DEF Holds
    <2>5. ASSUME NEW e \in Events, Holds(v, e)
          PROVE  Holds(v, e)'
      <3>1. ~Holds(w, e)
        BY <2>5, Exclusive DEF Fenced
      <3> QED
        BY <1>1, <2>1, <2>5, <3>1 DEF Holds
    <2>6. BatchStands(v)
      BY DEF Fenced
    <2>7. Left(v) \subseteq Events \cup {NoEvent} /\ \A f : Holds(v, f) => f \in Events
      BY DEF Left, TypeOK, Memory, Holds
    <2> QED
      BY <2>2, <2>3, <2>4, <2>5, <2>6, <2>7 DEF BatchStands
  <1>3. TokensFresh'
    <2>1. \A e \in Events : row'[e].token < nextToken'
      <3>1. nextToken \in Nat \ {0} /\ \A e \in Events : row[e].token < nextToken
        BY DEF Fenced, TokensFresh, TypeOK
      <3> QED
        BY <1>1, <3>1
    <2>2. \A v, u \in Workers : worker'[v].token = worker'[u].token => v = u \/ worker'[v].token = 0
      BY DEF Fenced, TokensFresh
    <2> QED
      BY <2>1, <2>2 DEF TokensFresh
  <1>4. OneLease'
    <2>1. \A e \in Events : row[e].token = 0 => row[e].lease = "none"
      BY DEF TypeOK
    <2> QED
      BY <1>1, <2>1 DEF Fenced, OneLease
  <1> QED
    BY <1>2, <1>3, <1>4 DEF Fenced

LEMMA StopFenced ==
  ASSUME TypeOK, TypeOK', Fenced, NEW w \in Workers, OwnRows(w), Stop(w),
         nextToken' = nextToken, delivered \subseteq delivered'
  PROVE  Fenced'
  <1>1. worker'[w] = Idle /\ \A v \in Workers \ {w} : worker'[v] = worker[v]
    BY StopTyped
  <1>2. MemoryAgrees(w)' /\ BatchStands(w)' /\ worker'[w].token = 0
    BY <1>1 DEF MemoryAgrees, BatchStands, Holds, Idle
  <1> QED
    BY <1>1, <1>2, FenceFrame

\* Steps that change no token.
LEMMA TimeFenced ==
  ASSUME TypeOK, TypeOK', Fenced, UNCHANGED <<worker, nextToken, delivered>>, OneLease',
         \A e \in Events : row'[e].status = row[e].status /\ row'[e].token = row[e].token
  PROVE  Fenced' /\ \A w \in Workers, e \in Events : Holds(w, e)' <=> Holds(w, e)
  <1>1. ASSUME NEW w \in Workers, NEW e \in Events
        PROVE  Holds(w, e)' <=> Holds(w, e)
    BY DEF Holds
  <1>2. ASSUME NEW w \in Workers
        PROVE  MemoryAgrees(w)' /\ BatchStands(w)'
    <2>1. MemoryAgrees(w)' /\ Left(w)' = Left(w) /\ BatchStands(w)
      BY DEF Fenced, MemoryAgrees, Left
    <2>2. \A f : Holds(w, f) => f \in Events
      BY DEF TypeOK, Memory, Holds
    <2> QED
      BY <1>1, <2>1, <2>2 DEF BatchStands
  <1>3. TokensFresh'
    BY DEF Fenced, TokensFresh
  <1> QED
    BY <1>1, <1>2, <1>3 DEF Fenced

\* Every step keeps the fence.
LEMMA FenceStep ==
  ASSUME TypeOK, TypeOK', Fenced, [Next]_vars
  PROVE  Fenced'
  <1>1. ASSUME NEW w \in Workers, NEW S \in SUBSET Events, Claim(w, S)
        PROVE  Fenced'
    <2> DEFINE new == [pc |-> "deliver", token |-> nextToken, batch |-> S, todo |-> S,
                       active |-> NoEvent, result |-> "none"]
    <2>1. /\ worker'[w] = new /\ \A v \in Workers \ {w} : worker'[v] = worker[v]
          /\ nextToken' = nextToken + 1 /\ delivered' = delivered /\ nextToken \in Nat \ {0}
          /\ worker[w].pc = "idle"
      BY <1>1 DEF Claim, TypeOK
    <2>2. ASSUME NEW e \in Events
          PROVE  /\ e \in S => row'[e].token = nextToken /\ row'[e].lease = "live"
                            /\ row'[e].status = "publishing"
                 /\ e \notin S => \/ row'[e] = row[e]
                                  \/ /\ row'[e].token = 0 /\ row'[e].lease = "none"
                                     /\ row'[e].status = "pending"
                                     /\ row[e].status = "publishing" /\ row[e].lease = "expired"
                 /\ e \in S /\ row[e].status = "publishing" => row[e].lease = "expired"
      BY <1>1, ClaimRows DEF Unclaimed, Expired
    <2>3. \A e \in Events : row[e].token < nextToken /\ row[e].token \in Nat
      BY DEF Fenced, TokensFresh, TypeOK, EventRow
    <2>4. \A v \in Workers : worker[v].token < nextToken /\ worker[v].token \in Nat
      <3>1. ASSUME NEW v \in Workers
            PROVE  worker[v].token < nextToken /\ worker[v].token \in Nat
        <4>1. worker[v].token \in Nat /\ (worker[v].token = 0 \/ worker[v].token \in 1 .. (nextToken - 1))
          BY DEF Fenced, MemoryAgrees, Idle, TypeOK, Memory
        <4> QED
          BY <2>1, <4>1
      <3> QED
        BY <3>1
    <2>5. TokensFresh'
      <3>1. \A e \in Events : row'[e].token < nextToken'
        BY <2>1, <2>2, <2>3
      <3>2. \A v, u \in Workers : worker'[v].token = worker'[u].token => v = u \/ worker'[v].token = 0
        BY <2>1, <2>4 DEF Fenced, TokensFresh
      <3> QED
        BY <3>1, <3>2 DEF TokensFresh
    <2>6. OneLease'
      <3>1. \A e \in Events : row[e].token = 0 <=> row[e].lease = "none"
        BY DEF TypeOK
      <3> QED
        BY <2>1, <2>2, <2>3, <3>1 DEF Fenced, OneLease
    <2>7. MemoryAgrees(w)' /\ BatchStands(w)'
      <3>1. MemoryAgrees(w)'
        BY <2>1 DEF MemoryAgrees
      <3>2. Left(w)' = S
        BY <2>1 DEF Left
      <3>3. \A e \in S : Holds(w, e)'
        BY <2>1, <2>2 DEF Holds
      <3>4. \A e : Holds(w, e)' => e \in S
        BY <2>1 DEF Holds
      <3> QED
        BY <3>1, <3>2, <3>3, <3>4 DEF BatchStands
    <2>8. ASSUME NEW v \in Workers \ {w}
          PROVE  MemoryAgrees(v)' /\ BatchStands(v)'
      <3>1. worker'[v] = worker[v]
        BY <2>1
      <3>2. MemoryAgrees(v)'
        BY <2>1, <3>1 DEF Fenced, MemoryAgrees
      <3>3. Left(v)' = Left(v) /\ BatchStands(v)
        BY <3>1 DEF Left, Fenced
      <3>4. \A f : Holds(v, f) => f \in Events
        BY DEF TypeOK, Memory, Holds
      <3>5. ASSUME NEW e \in Events, Holds(v, e)'
            PROVE  Holds(v, e) /\ row'[e] = row[e] /\ row[e].lease # "expired"
        <4>1. row'[e].token = worker[v].token /\ e \in worker[v].batch /\ row'[e].status = "publishing"
          BY <3>1, <3>5 DEF Holds
        <4>2. e \notin S
          BY <2>2, <2>4, <4>1
        <4>3. row'[e] = row[e]
          BY <2>2, <4>1, <4>2
        <4>4. row[e].status = "publishing" => ~Expired(row[e])
          BY <1>1, <4>1, <4>2, ClaimRows DEF Unclaimed
        <4> QED
          BY <4>1, <4>3, <4>4 DEF Holds, Expired
      <3>6. ASSUME NEW e \in Events, NEW f \in Events, Holds(v, e)', Holds(v, f)
            PROVE  Holds(v, f)'
        <4>1. row[f].lease = row[e].lease
          BY <3>5, <3>6 DEF Holds, Fenced, OneLease
        <4>2. row'[f] = row[f]
          BY <2>2, <3>5, <3>6, <4>1 DEF Holds
        <4> QED
          BY <3>1, <3>6, <4>2 DEF Holds
      <3> QED
        BY <3>2, <3>3, <3>4, <3>5, <3>6 DEF BatchStands
    <2> QED
      BY <2>5, <2>6, <2>7, <2>8 DEF Fenced
  <1>2. ASSUME NEW w \in Workers, NEW e \in Events, DeliverOk(w, e) \/ DeliveryFails(w, e)
        PROVE  Fenced'
    <2>1. /\ worker[w].pc = "deliver" /\ e \in worker[w].todo
          /\ \A v \in Workers \ {w} : worker'[v] = worker[v]
          /\ worker'[w].pc = "mark" /\ worker'[w].todo = worker[w].todo \ {e}
          /\ worker'[w].active = e /\ worker'[w].token = worker[w].token
          /\ worker'[w].batch = worker[w].batch
          /\ worker'[w].result \in {"ok", "deferred", "failed"}
          /\ worker'[w].result = "ok" => e \in delivered'
          /\ delivered \subseteq delivered' /\ row' = row /\ nextToken' = nextToken
      BY <1>2 DEF DeliverOk, DeliveryFails, DeliverFails, TypeOK, Memory
    <2>2. OwnRows(w)
      BY <2>1 DEF OwnRows, TypeOK
    <2>3. Left(w)' = Left(w)
      BY <2>1 DEF Left
    <2>4. MemoryAgrees(w)'
      BY <2>1 DEF Fenced, MemoryAgrees
    <2>5. BatchStands(w)'
      <3>1. \A f : Holds(w, f)' <=> Holds(w, f)
        BY <2>1 DEF Holds
      <3> QED
        BY <2>3, <3>1 DEF Fenced, BatchStands
    <2> QED
      BY <2>1, <2>2, <2>4, <2>5, FenceFrame
  <1>3. ASSUME NEW w \in Workers, Mark(w)
        PROVE  Fenced'
    <2>0. PICK e \in Events : e = worker[w].active
      BY <1>3, MarkRows
    <2>1. /\ e \in Events /\ OwnRows(w) /\ Unclaimed(row'[e])
          /\ \A f \in Events \ {e} : row'[f] = row[f]
      BY <1>3, <2>0, MarkRows, VerdictRow
    <2>2. /\ worker[w].pc = "mark" /\ Holds(w, e) /\ nextToken' = nextToken /\ delivered' = delivered
          /\ \A v \in Workers \ {w} : worker'[v] = worker[v]
      BY <1>3, <2>0 DEF Mark, Advance, TypeOK
    <2>3. CASE worker[w].todo = {}
      <3>1. Stop(w)
        BY <1>3, <2>3 DEF Mark, Advance, Stop
      <3> QED
        BY <2>1, <2>2, <3>1, StopFenced
    <2>4. CASE worker[w].todo # {}
      <3>1. /\ worker'[w].pc = "deliver" /\ worker'[w].todo = worker[w].todo
            /\ worker'[w].token = worker[w].token /\ worker'[w].batch = worker[w].batch
        BY <1>3, <2>4 DEF Mark, Advance, TypeOK, Memory
      <3>2. MemoryAgrees(w)'
        BY <2>2, <3>1 DEF Fenced, MemoryAgrees
      <3>3. e \notin worker[w].todo /\ Left(w)' = worker[w].todo /\ Left(w) = worker[w].todo \cup {e}
        BY <2>0, <2>2, <3>1 DEF Fenced, MemoryAgrees, Left
      <3>4. ~Holds(w, e)'
        BY <2>1 DEF Holds, Unclaimed
      <3>5. \A f \in Events \ {e} : Holds(w, f)' <=> Holds(w, f)
        BY <2>1, <3>1 DEF Holds
      <3>6. worker[w].todo \subseteq Events
        BY DEF TypeOK, Memory
      <3>7. BatchStands(w)'
        BY <2>1, <3>3, <3>4, <3>5, <3>6 DEF Fenced, BatchStands
      <3> QED
        BY <2>1, <2>2, <3>1, <3>2, <3>7, FenceFrame
    <2> QED
      BY <2>3, <2>4
  <1>4. ASSUME NEW w \in Workers, MarkLost(w) \/ MarkFails(w) \/ Crash(w)
        PROVE  Fenced'
    <2>1. Stop(w) /\ row' = row /\ nextToken' = nextToken /\ delivered' = delivered
      BY <1>4 DEF MarkLost, MarkFails, Crash
    <2>2. OwnRows(w)
      BY <2>1 DEF OwnRows, TypeOK
    <2> QED
      BY <2>1, <2>2, StopFenced
  <1>5. ASSUME NEW w \in Workers, Shutdown(w)
        PROVE  Fenced'
    <2>1. /\ Stop(w) /\ row' = Refunding(w, worker[w].batch)
          /\ nextToken' = nextToken /\ delivered' = delivered
      BY <1>5 DEF Shutdown, Refunding, Released
    <2> QED
      BY <2>1, ShutdownRows, StopFenced
  <1>6. ASSUME NEW w \in Workers, NEW e \in Events, Panic(w, e) \/ PanicUnmarked(w, e)
        PROVE  Fenced'
    <2>1. Stop(w) /\ nextToken' = nextToken /\ delivered' = delivered
      BY <1>6, Zenon DEF Panic, PanicUnmarked
    <2>2. OwnRows(w)
      BY <1>6, PanicRows, PanicUnmarkedRows
    <2> QED
      BY <2>1, <2>2, StopFenced
  <1>7. ASSUME NEW t, Lapse(t), UNCHANGED <<delivered, worker, nextToken>>
        PROVE  Fenced'
    <2>1. \A e \in Events : /\ row'[e].status = row[e].status /\ row'[e].token = row[e].token
                            /\ row[e].status = "publishing" /\ row[e].token = t
                                 => row'[e].lease = "expired"
                            /\ row[e].token # t => row'[e] = row[e]
                            /\ row[e].status # "publishing" => row'[e] = row[e]
      BY <1>7, LapseRows
    <2>2. OneLease'
      <3>1. \A e \in Events : row[e].status = "publishing" <=> row[e].token # 0
        BY DEF TypeOK
      <3> QED
        BY <2>1, <3>1 DEF Fenced, OneLease
    <2> QED
      BY <1>7, <2>1, <2>2, TimeFenced
  <1>8. ASSUME NEW w \in Workers, Stall(w)
        PROVE  Fenced'
    BY <1>7, <1>8 DEF Stall
  <1>9. ASSUME NEW e \in Events, LeaseExpires(e)
        PROVE  Fenced'
    BY <1>7, <1>9 DEF LeaseExpires
  <1>10. ASSUME NEW f \in Events, BackoffElapses(f)
         PROVE  Fenced'
    <2>1. \A e \in Events : /\ row'[e].status = row[e].status /\ row'[e].token = row[e].token
                            /\ row'[e].lease = row[e].lease
      BY <1>10, BackoffRows
    <2>2. OneLease' /\ UNCHANGED <<worker, nextToken, delivered>>
      BY <1>10, <2>1 DEF Fenced, OneLease, BackoffElapses
    <2> QED
      BY <2>1, <2>2, TimeFenced
  <1>11. ASSUME UNCHANGED vars
         PROVE  Fenced'
    <2>1. OneLease' /\ UNCHANGED <<row, worker, nextToken, delivered>>
      BY <1>11 DEF vars, Fenced, OneLease
    <2> QED
      BY <2>1, TimeFenced
  <1> QED
    BY <1>1, <1>2, <1>3, <1>4, <1>5, <1>6, <1>8, <1>9, <1>10, <1>11
       DEF Next, Progress, Trouble, DeliveryFails

-----------------------------------------------------------------------------
(* The attempts.                                                           *)

Paid == ClaimsArePaid /\ AttemptsArePaid /\ NoOrphanedClaims

LEMMA Counts ==
  ASSUME TypeOK, NEW e \in Events
  PROVE  row[e].attempts \in Nat /\ paid[e] \in Nat /\ faults \in Nat
  BY DEF TypeOK, EventRow

\* The steps of one worker keep the accounts when it lets go of what it held in good
\* order, or by a fault.
LEMMA PaidFrame ==
  ASSUME TypeOK, TypeOK', Paid, NEW w \in Workers, OwnRows(w),
         \A e \in Events : paid[e] <= paid'[e], faults <= faults',
         \A v \in Workers \ {w} : worker'[v] = worker[v],
         \A e \in Events :
           \/ row'[e] = row[e]
           \/ row'[e].attempts <= paid'[e] + faults' + IF row'[e].status = "published" THEN 1 ELSE 0,
         \A e \in Events : row'[e] = row[e] /\ Holds(w, e) => Holds(w, e)' \/ faults < faults',
         MarkPaid(w)'
  PROVE  Paid'
  <1>1. ASSUME NEW e \in Events
        PROVE  /\ row[e].attempts \in Nat /\ paid[e] \in Nat /\ faults \in Nat
               /\ row'[e].attempts \in Nat /\ paid'[e] \in Nat /\ faults' \in Nat
    <2>1. row[e].attempts \in Nat /\ paid[e] \in Nat /\ faults \in Nat
      BY Counts
    <2>2. row'[e].attempts \in Nat /\ paid'[e] \in Nat /\ faults' \in Nat
      BY DEF TypeOK, EventRow
    <2> QED
      BY <2>1, <2>2
  <1>2. ASSUME NEW e \in Events, row'[e].status = "publishing"
        PROVE  row'[e] = row[e]
    BY <1>2 DEF OwnRows, Unclaimed
  <1>3. ASSUME NEW e \in Events, row'[e].status = "publishing", Held(e)
        PROVE  Held(e)' \/ faults < faults'
    <2>1. PICK v \in Workers : Holds(v, e)
      BY <1>3 DEF Held
    <2>2. row'[e] = row[e]
      BY <1>2, <1>3
    <2>3. CASE v = w
      BY <2>1, <2>2, <2>3 DEF Held
    <2>4. CASE v # w
      <3>1. Holds(v, e)'
        BY <2>1, <2>2, <2>4 DEF Holds
      <3> QED
        BY <3>1 DEF Held
    <2> QED
      BY <2>3, <2>4
  <1>4. ASSUME NEW e \in Events, Charged(e), row'[e] = row[e]
        PROVE  Charged(e)'
    BY <1>1, <1>4 DEF Charged
  <1>5. AttemptsArePaid'
    <2>1. ASSUME NEW e \in Events
          PROVE  /\ row'[e].attempts <= paid'[e] + faults'
                      + IF row'[e].status \in {"publishing", "published"} THEN 1 ELSE 0
                 /\ row'[e].status = "publishing" => row'[e].attempts >= 1
      <3>1. CASE row'[e] = row[e]
        BY <1>1, <3>1 DEF Paid, AttemptsArePaid
      <3>2. CASE row'[e] # row[e]
        BY <1>1, <1>2, <3>2
      <3> QED
        BY <3>1, <3>2
    <2> QED
      BY <2>1 DEF AttemptsArePaid
  <1>6. ASSUME NEW e \in Events, row'[e].status = "publishing", row'[e].lease = "expired" \/ ~Held(e)'
        PROVE  Charged(e)'
    <2>1. row'[e] = row[e]
      BY <1>2, <1>6
    <2>2. CASE row[e].lease = "expired" \/ ~Held(e)
      BY <1>4, <1>6, <2>1, <2>2 DEF Paid, ClaimsArePaid
    <2>3. CASE faults < faults'
      BY <1>1, <1>6, <2>1, <2>3 DEF Paid, AttemptsArePaid, Charged
    <2> QED
      BY <1>3, <1>6, <2>1, <2>2, <2>3
  <1>7. ASSUME NEW v \in Workers
        PROVE  MarkPaid(v)'
    <2>1. CASE v # w
      <3>1. SUFFICES ASSUME worker'[v].pc = "mark", worker'[v].result = "failed",
                            Holds(v, worker[v].active)'
                     PROVE  Charged(worker[v].active)'
        BY DEF MarkPaid
      <3>2. PICK e \in Events : e = worker[v].active
        BY <2>1, <3>1 DEF Holds, TypeOK, Memory
      <3>3. worker'[v] = worker[v] /\ e = worker'[v].active
        BY <2>1, <3>2
      <3>4. row'[e].status = "publishing"
        BY <3>1, <3>3 DEF Holds
      <3>5. row'[e] = row[e]
        BY <1>2, <3>4
      <3>6. Holds(v, worker[v].active)
        BY <3>1, <3>2, <3>3, <3>5 DEF Holds
      <3>7. Charged(e)
        BY <3>1, <3>2, <3>3, <3>6 DEF Paid, ClaimsArePaid, MarkPaid
      <3>8. Charged(e)'
        BY <1>4, <3>5, <3>7
      <3> QED
        BY <3>3, <3>8 DEF Charged
    <2> QED
      BY <2>1
  <1>8. NoOrphanedClaims'
    <2>1. ASSUME faults' = 0, NEW e \in Events, row'[e].status = "publishing"
          PROVE  Held(e)'
      <3>1. row'[e] = row[e]
        BY <1>2, <2>1
      <3>2. faults = 0 /\ Held(e)
        BY <1>1, <2>1, <3>1 DEF Paid, NoOrphanedClaims
      <3> QED
        BY <1>1, <1>3, <2>1, <3>2
    <2> QED
      BY <2>1 DEF NoOrphanedClaims
  <1> QED
    BY <1>5, <1>6, <1>7, <1>8 DEF Paid, ClaimsArePaid

\* A fault of a worker that keeps its rows, and a stop that held none.
LEMMA StopPaid ==
  ASSUME TypeOK, TypeOK', Paid, NEW w \in Workers, Stop(w), UNCHANGED <<row, paid>>,
         faults' = faults + 1 \/ (faults' = faults /\ \A e \in Events : ~Holds(w, e))
  PROVE  Paid'
  <1>1. worker'[w] = Idle /\ \A v \in Workers \ {w} : worker'[v] = worker[v]
    BY StopTyped
  <1>2. OwnRows(w)
    BY DEF OwnRows, TypeOK
  <1>3. faults <= faults' /\ \A e \in Events : paid[e] <= paid'[e]
    BY DEF TypeOK
  <1>4. MarkPaid(w)'
    BY <1>1 DEF MarkPaid, Idle
  <1>5. \A e \in Events : Holds(w, e) => faults < faults'
    BY DEF TypeOK
  <1> QED
    BY <1>1, <1>2, <1>3, <1>4, <1>5, PaidFrame

\* A refund leaves what was paid for without the claim.
LEMMA RefundPaid ==
  ASSUME TypeOK, Paid, NEW e \in Events, row[e].status = "publishing",
         NEW n, n = Refunded(row[e]).attempts
  PROVE  n <= paid[e] + faults
  <1>1. row[e].attempts \in Nat /\ paid[e] \in Nat /\ faults \in Nat /\ row[e] \in EventRow
    BY Counts DEF TypeOK
  <1>2. row[e].attempts <= paid[e] + faults + 1 /\ row[e].attempts >= 1
    BY DEF Paid, AttemptsArePaid
  <1>3. n = row[e].attempts - 1
    BY <1>1, <1>2, RefundedRow
  <1> QED
    BY <1>1, <1>2, <1>3

\* What ends a batch in good order pays for what was charged.
LEMMA EndPaid ==
  ASSUME TypeOK, TypeOK', Paid, NEW w \in Workers, OwnRows(w), Stop(w), faults <= faults',
         \A e \in Events : paid[e] <= paid'[e],
         \A e \in Events :
           \/ row'[e] = row[e] /\ (e \in worker[w].batch => ~Holds(w, e))
           \/ /\ Holds(w, e) /\ Unclaimed(row'[e]) /\ row'[e].attempts <= row[e].attempts
              /\ row'[e].attempts = Refunded(row[e]).attempts \/ paid[e] < paid'[e]
  PROVE  Paid'
  <1>1. worker'[w] = Idle /\ \A v \in Workers \ {w} : worker'[v] = worker[v]
    BY StopTyped
  <1>2. MarkPaid(w)'
    BY <1>1 DEF MarkPaid, Idle
  <1>3. ASSUME NEW e \in Events
        PROVE  /\ \/ row'[e] = row[e]
                  \/ row'[e].attempts <= paid'[e] + faults'
                                         + IF row'[e].status = "published" THEN 1 ELSE 0
               /\ row'[e] = row[e] => ~Holds(w, e)
    <2>0. /\ row[e].attempts \in Nat /\ paid[e] \in Nat /\ faults \in Nat
          /\ row'[e].attempts \in Nat /\ paid'[e] \in Nat /\ faults' \in Nat
      <3>1. row[e].attempts \in Nat /\ paid[e] \in Nat /\ faults \in Nat
        BY Counts
      <3>2. row'[e].attempts \in Nat /\ paid'[e] \in Nat /\ faults' \in Nat
        BY DEF TypeOK, EventRow
      <3> QED
        BY <3>1, <3>2
    <2>1. CASE ~Holds(w, e)
      BY <2>1
    <2>2. CASE Holds(w, e)
      <3>1. row[e].status = "publishing" /\ e \in worker[w].batch /\ row[e].token # 0
        BY <2>2 DEF Holds, TypeOK
      <3>2. /\ Unclaimed(row'[e]) /\ row'[e].attempts <= row[e].attempts
            /\ row'[e].attempts = Refunded(row[e]).attempts \/ paid[e] < paid'[e]
        BY <2>2, <3>1
      <3>3. row'[e].attempts <= paid'[e] + faults'
        <4>1. CASE paid[e] < paid'[e]
          BY <2>0, <3>1, <3>2, <4>1 DEF Paid, AttemptsArePaid
        <4>2. CASE row'[e].attempts = Refunded(row[e]).attempts
          <5>1. row'[e].attempts <= paid[e] + faults
            BY <3>1, <4>2, RefundPaid
          <5> QED
            BY <2>0, <5>1
        <4> QED
          BY <3>2, <4>1, <4>2
      <3>4. row'[e] # row[e]
        BY <3>1, <3>2 DEF Unclaimed
      <3> QED
        BY <2>0, <3>3, <3>4
    <2> QED
      BY <2>1, <2>2
  <1> QED
    BY <1>1, <1>2, <1>3, PaidFrame

\* Every step keeps the accounts.
LEMMA PaidStep ==
  ASSUME TypeOK, TypeOK', Fenced, Paid, [Next]_vars
  PROVE  Paid'
  <1>0. ASSUME NEW e \in Events
        PROVE  /\ row[e].attempts \in Nat /\ paid[e] \in Nat /\ faults \in Nat
               /\ row'[e].attempts \in Nat /\ paid'[e] \in Nat /\ faults' \in Nat
    <2>1. row[e].attempts \in Nat /\ paid[e] \in Nat /\ faults \in Nat
      BY Counts
    <2>2. row'[e].attempts \in Nat /\ paid'[e] \in Nat /\ faults' \in Nat
      BY DEF TypeOK, EventRow
    <2> QED
      BY <2>1, <2>2
  <1>1. ASSUME NEW w \in Workers, NEW S \in SUBSET Events, Claim(w, S)
        PROVE  Paid'
    <2>1. /\ worker'[w].pc = "deliver" /\ worker'[w].token = nextToken /\ worker'[w].batch = S
          /\ \A v \in Workers \ {w} : worker'[v] = worker[v]
          /\ paid' = paid /\ faults' = faults /\ worker[w].pc = "idle"
      BY <1>1 DEF Claim, TypeOK, bounds
    <2>2. ASSUME NEW e \in S
          PROVE  Held(e)' /\ Charged(e) /\ row'[e].attempts = row[e].attempts + 1
                 /\ row'[e].status = "publishing" /\ row'[e].lease = "live"
      <3>1. /\ row[e].status \in {"pending", "publishing"}
            /\ row[e].status = "publishing" => row[e].lease = "expired"
            /\ row'[e].status = "publishing" /\ row'[e].token = nextToken
            /\ row'[e].lease = "live" /\ row'[e].attempts = row[e].attempts + 1
        BY <1>1, ClaimRows
      <3>2. Holds(w, e)'
        BY <2>1, <3>1 DEF Holds
      <3>3. Charged(e)
        BY <1>0, <3>1 DEF Paid, ClaimsArePaid, AttemptsArePaid, Charged
      <3> QED
        BY <3>1, <3>2, <3>3 DEF Held
    <2>3. ASSUME NEW e \in Events \ S
          PROVE  \/ row'[e] = row[e] /\ ~Expired(row[e])
                 \/ /\ Charged(e) /\ row'[e].status = "pending" /\ row'[e].attempts = row[e].attempts
      <3>1. \/ row'[e] = row[e] /\ ~Expired(row[e])
            \/ /\ Expired(row[e]) /\ row'[e].status = "pending"
               /\ row'[e].attempts = row[e].attempts
        BY <1>1, ClaimRows
      <3>2. Expired(row[e]) => Charged(e)
        BY DEF Paid, ClaimsArePaid, Expired
      <3> QED
        BY <3>1, <3>2
    <2>4. AttemptsArePaid'
      <3>1. ASSUME NEW e \in Events
            PROVE  /\ row'[e].attempts <= paid'[e] + faults'
                        + IF row'[e].status \in {"publishing", "published"} THEN 1 ELSE 0
                   /\ row'[e].status = "publishing" => row'[e].attempts >= 1
        <4>1. CASE e \in S
          BY <1>0, <2>1, <2>2, <4>1 DEF Charged
        <4>2. CASE e \notin S
          BY <1>0, <2>1, <2>3, <4>2 DEF Charged, Paid, AttemptsArePaid
        <4> QED
          BY <4>1, <4>2
      <3> QED
        BY <3>1 DEF AttemptsArePaid
    <2>5. ASSUME NEW e \in Events \ S, row'[e].status = "publishing", Held(e)
          PROVE  Held(e)'
      <3>1. PICK v \in Workers : Holds(v, e)
        BY <2>5 DEF Held
      <3>2. worker[w] = Idle
        BY <2>1 DEF Fenced, MemoryAgrees
      <3>3. v # w
        BY <3>1, <3>2 DEF Holds, Idle
      <3>4. row'[e] = row[e]
        BY <2>3, <2>5
      <3>5. Holds(v, e)'
        BY <2>1, <3>1, <3>3, <3>4 DEF Holds
      <3> QED
        BY <3>5 DEF Held
    <2>6. ASSUME NEW e \in Events, row'[e].status = "publishing", row'[e].lease = "expired" \/ ~Held(e)'
          PROVE  Charged(e)'
      <3>1. e \notin S
        BY <2>2, <2>6
      <3>2. row'[e] = row[e]
        BY <2>3, <2>6, <3>1
      <3>3. Charged(e)
        BY <2>5, <2>6, <3>1, <3>2 DEF Paid, ClaimsArePaid
      <3> QED
        BY <2>1, <3>2, <3>3 DEF Charged
    <2>7. NoOrphanedClaims'
      <3>1. ASSUME faults' = 0, NEW e \in Events, row'[e].status = "publishing"
            PROVE  Held(e)'
        <4>1. CASE e \in S
          BY <2>2, <4>1
        <4>2. CASE e \notin S
          BY <2>1, <2>3, <2>5, <3>1, <4>2 DEF Paid, NoOrphanedClaims
        <4> QED
          BY <4>1, <4>2
      <3> QED
        BY <3>1 DEF NoOrphanedClaims
    <2>8. ASSUME NEW v \in Workers
          PROVE  MarkPaid(v)'
      <3>1. CASE v = w
        BY <2>1, <3>1 DEF MarkPaid
      <3>2. CASE v # w
        <4>1. SUFFICES ASSUME worker'[v].pc = "mark", worker'[v].result = "failed",
                              Holds(v, worker[v].active)'
                       PROVE  Charged(worker[v].active)'
          BY DEF MarkPaid
        <4>2. PICK e \in Events : e = worker'[v].active
          BY <4>1 DEF Holds, TypeOK, Memory
        <4>3. worker'[v] = worker[v] /\ row'[e].token = worker[v].token
              /\ e \in worker[v].batch /\ row'[e].status = "publishing"
          BY <2>1, <3>2, <4>1, <4>2 DEF Holds
        <4>4. worker[v].token < nextToken
          <5>1. worker[v].token \in 1 .. (nextToken - 1) /\ nextToken \in Nat
            BY <4>1, <4>3 DEF Fenced, MemoryAgrees, TypeOK
          <5> QED
            BY <5>1
        <4>5. e \notin S
          <5>1. e \in S => row'[e].token = nextToken
            BY <1>1, ClaimRows
          <5>2. nextToken \in Nat /\ worker[v].token \in Nat
            BY DEF TypeOK, Memory
          <5> QED
            BY <4>3, <4>4, <5>1, <5>2
        <4>6. row'[e] = row[e]
          BY <2>3, <4>3, <4>5
        <4>7. Holds(v, e) /\ e = worker[v].active
          BY <4>2, <4>3, <4>6 DEF Holds
        <4>8. Charged(e)
          BY <4>1, <4>3, <4>7 DEF Paid, ClaimsArePaid, MarkPaid
        <4> QED
          BY <2>1, <4>2, <4>6, <4>8 DEF Charged
      <3> QED
        BY <3>1, <3>2
    <2> QED
      BY <2>4, <2>6, <2>7, <2>8 DEF Paid, ClaimsArePaid
  <1>2. ASSUME NEW w \in Workers, NEW e \in Events, DeliverOk(w, e) \/ DeliveryFails(w, e)
        PROVE  Paid'
    <2>1. /\ worker[w].pc = "deliver" /\ e \in worker[w].todo
          /\ \A v \in Workers \ {w} : worker'[v] = worker[v]
          /\ worker'[w].token = worker[w].token /\ worker'[w].batch = worker[w].batch
          /\ worker'[w].active = e /\ row' = row /\ faults' = faults
          /\ worker'[w].result = "failed" => paid'[e] = paid[e] + 1
          /\ \A f \in Events : paid[f] <= paid'[f]
      BY <1>2 DEF DeliverOk, DeliveryFails, DeliverFails, Failure, TypeOK, Memory, bounds
    <2>2. OwnRows(w)
      BY <2>1 DEF OwnRows, TypeOK
    <2>3. \A f : Holds(w, f)' <=> Holds(w, f)
      BY <2>1 DEF Holds
    <2>4. MarkPaid(w)'
      <3>1. SUFFICES ASSUME worker'[w].result = "failed", Holds(w, e)'
                     PROVE  Charged(e)'
        BY <2>1 DEF MarkPaid, Charged
      <3>2. row[e].status = "publishing"
        BY <2>3, <3>1 DEF Holds
      <3> QED
        BY <1>0, <2>1, <3>1, <3>2 DEF Paid, AttemptsArePaid, Charged
    <2>5. faults <= faults'
      BY <1>0, <2>1
    <2> QED
      BY <2>1, <2>2, <2>3, <2>4, <2>5, PaidFrame
  <1>3. ASSUME NEW w \in Workers, Mark(w)
        PROVE  Paid'
    <2>0. PICK e \in Events : e = worker[w].active
      BY <1>3, MarkRows
    <2>1. /\ OwnRows(w) /\ row'[e] = Verdict(e, worker[w].result)
          /\ \A f \in Events \ {e} : row'[f] = row[f]
      BY <1>3, <2>0, MarkRows
    <2>2. /\ worker[w].pc = "mark" /\ Holds(w, e) /\ paid' = paid /\ faults' = faults
          /\ \A v \in Workers \ {w} : worker'[v] = worker[v]
      BY <1>3, <2>0 DEF Mark, Advance, TypeOK, bounds
    <2>3. /\ Unclaimed(row'[e]) /\ row'[e].attempts <= row[e].attempts
          /\ row'[e].status = "published" => worker[w].result = "ok"
          /\ worker[w].result = "deferred" => row'[e].attempts = Refunded(row[e]).attempts
      BY <2>1, VerdictRow
    <2>4. row[e].status = "publishing" /\ row[e].attempts <= paid[e] + faults + 1
      BY <2>2 DEF Holds, Paid, AttemptsArePaid
    <2>5. row'[e].attempts <= paid'[e] + faults' + IF row'[e].status = "published" THEN 1 ELSE 0
      <3>1. CASE worker[w].result = "ok"
        <4>1. row'[e].status = "published"
          BY <2>1, <3>1 DEF Verdict, Freed, TypeOK, EventRow
        <4> QED
          BY <1>0, <2>2, <2>3, <2>4, <4>1
      <3>2. CASE worker[w].result = "deferred"
        <4>1. row'[e].attempts <= paid[e] + faults
          BY <2>3, <2>4, <3>2, RefundPaid
        <4> QED
          BY <1>0, <2>2, <4>1
      <3>3. CASE worker[w].result = "failed"
        <4>1. Charged(e)
          BY <2>0, <2>2, <3>3 DEF Paid, ClaimsArePaid, MarkPaid
        <4> QED
          BY <1>0, <2>2, <2>3, <4>1 DEF Charged
      <3>4. worker[w].result \in {"ok", "failed", "deferred"}
        BY <2>2 DEF Fenced, MemoryAgrees, TypeOK, Memory, Results
      <3> QED
        BY <3>1, <3>2, <3>3, <3>4
    <2>6. worker'[w] = Idle \/ worker'[w].pc = "deliver"
      BY <1>3 DEF Mark, Advance, TypeOK, Memory
    <2>7. MarkPaid(w)'
      BY <2>6 DEF MarkPaid, Idle
    <2>8. ASSUME NEW f \in Events, row'[f] = row[f], Holds(w, f)
          PROVE  Holds(w, f)'
      <3>1. f # e
        BY <2>3, <2>4, <2>8 DEF Unclaimed
      <3>2. f \in worker[w].todo
        BY <2>0, <2>2, <2>8, <3>1 DEF Fenced, BatchStands, Left
      <3>3. worker'[w].token = worker[w].token /\ worker'[w].batch = worker[w].batch
        BY <1>3, <3>2 DEF Mark, Advance, TypeOK, Memory
      <3> QED
        BY <2>8, <3>3 DEF Holds
    <2>9. faults <= faults' /\ \A f \in Events : paid[f] <= paid'[f]
      BY <1>0, <2>2
    <2>10. \A f \in Events : \/ row'[f] = row[f]
                             \/ row'[f].attempts <= paid'[f] + faults'
                                                    + IF row'[f].status = "published" THEN 1 ELSE 0
      BY <2>1, <2>5
    <2> QED
      BY <2>1, <2>2, <2>7, <2>8, <2>9, <2>10, PaidFrame
  <1>4. ASSUME NEW w \in Workers, MarkLost(w)
        PROVE  Paid'
    <2>1. /\ worker[w].pc = "mark" /\ ~Holds(w, worker[w].active)
          /\ Stop(w) /\ UNCHANGED <<row, paid, faults>>
      BY <1>4 DEF MarkLost, bounds
    <2>2. worker[w].active \in Left(w)
      BY <2>1 DEF Left
    <2>3. \A e \in Events : ~Holds(w, e)
      BY <2>1, <2>2 DEF Fenced, BatchStands
    <2> QED
      BY <2>1, <2>3, StopPaid
  <1>5. ASSUME NEW w \in Workers, MarkFails(w) \/ Crash(w)
        PROVE  Paid'
    <2>1. Stop(w) /\ UNCHANGED <<row, paid>> /\ faults' = faults + 1
      BY <1>5 DEF MarkFails, Crash, Fault
    <2> QED
      BY <2>1, StopPaid
  <1>6. ASSUME NEW w \in Workers, Shutdown(w)
        PROVE  Paid'
    <2>1. /\ Stop(w) /\ row' = Refunding(w, worker[w].batch) /\ paid' = paid /\ faults' = faults
      BY <1>6 DEF Shutdown, Refunding, Released
    <2>2. OwnRows(w)
      BY <2>1, ShutdownRows
    <2>3. ASSUME NEW e \in Events
          PROVE  \/ row'[e] = row[e] /\ (e \in worker[w].batch => ~Holds(w, e))
                 \/ /\ Holds(w, e) /\ Unclaimed(row'[e]) /\ row'[e].attempts <= row[e].attempts
                    /\ row'[e].attempts = Refunded(row[e]).attempts
      <3>1. Refunded(row[e]).attempts <= row[e].attempts
        BY RefundedRow DEF TypeOK
      <3>2. \/ row'[e] = row[e] /\ (e \in worker[w].batch => ~Holds(w, e))
            \/ /\ Holds(w, e) /\ Unclaimed(row'[e])
               /\ row'[e].attempts = Refunded(row[e]).attempts
        BY <2>1, ShutdownRows
      <3> QED
        BY <3>1, <3>2
    <2>4. faults <= faults' /\ \A e \in Events : paid[e] <= paid'[e]
      BY <2>1 DEF TypeOK
    <2> QED
      BY <2>1, <2>2, <2>3, <2>4, EndPaid
  <1>7. ASSUME NEW w \in Workers, NEW e \in Events, Panic(w, e) \/ PanicUnmarked(w, e)
        PROVE  Paid'
    <2>1. /\ Stop(w) /\ paid' = [paid EXCEPT ![e] = @ + 1]
          /\ Fault \/ Failure
      BY <1>7, Zenon DEF Panic, PanicUnmarked
    <2>2. OwnRows(w)
      BY <1>7, PanicRows, PanicUnmarkedRows
    <2>3. /\ faults <= faults' /\ paid'[e] = paid[e] + 1
          /\ \A f \in Events : paid[f] <= paid'[f]
      BY <1>0, <2>1 DEF Fault, Failure, TypeOK
    <2>4. ASSUME NEW f \in Events
          PROVE  \/ row'[f] = row[f] /\ (f \in worker[w].batch => ~Holds(w, f))
                 \/ /\ Holds(w, f) /\ Unclaimed(row'[f]) /\ row'[f].attempts <= row[f].attempts
                    /\ row'[f].attempts = Refunded(row[f]).attempts \/ paid[f] < paid'[f]
      <3>1. CASE f = e
        <4>1. \/ row'[e] = row[e] /\ ~Holds(w, e)
              \/ Unclaimed(row'[e]) /\ row'[e].attempts <= row[e].attempts
          BY <1>7, PanicRows, PanicUnmarkedRows
        <4>2. row'[e] = row[e] \/ Holds(w, e)
          BY <2>2 DEF OwnRows
        <4>3. Unclaimed(row'[e]) => ~Holds(w, e) \/ row'[e] # row[e]
          BY DEF Unclaimed, Holds
        <4> QED
          BY <1>0, <2>3, <3>1, <4>1, <4>2, <4>3
      <3>2. CASE f # e
        <4>1. \/ row'[f] = row[f] /\ (f \in worker[w].batch => ~Holds(w, f))
              \/ /\ Holds(w, f) /\ Unclaimed(row'[f])
                 /\ row'[f].attempts = Refunded(row[f]).attempts
          BY <1>7, <3>2, PanicRows, PanicUnmarkedRows
        <4>2. Refunded(row[f]).attempts <= row[f].attempts
          BY RefundedRow DEF TypeOK
        <4> QED
          BY <4>1, <4>2
      <3> QED
        BY <3>1, <3>2
    <2> QED
      BY <2>1, <2>2, <2>3, <2>4, EndPaid
  <1>8. ASSUME UNCHANGED <<worker, nextToken, delivered, paid>>, OneLease', faults <= faults',
               \A e \in Events : /\ row'[e].status = row[e].status /\ row'[e].token = row[e].token
                                 /\ row'[e].attempts = row[e].attempts
                                 /\ row'[e].lease = "expired" => \/ row[e].lease = "expired"
                                                                 \/ ~Held(e)
                                                                 \/ faults < faults'
        PROVE  Paid'
    <2>1. \A w \in Workers, e \in Events : Holds(w, e)' <=> Holds(w, e)
      BY <1>8, TimeFenced
    <2>2. \A e \in Events : Held(e)' <=> Held(e)
      BY <2>1 DEF Held
    <2>3. \A e \in Events : Charged(e) => Charged(e)'
      BY <1>0, <1>8 DEF Charged
    <2>4. ASSUME NEW e \in Events, row'[e].status = "publishing", row'[e].lease = "expired" \/ ~Held(e)'
          PROVE  Charged(e)'
      <3>1. CASE row[e].lease = "expired" \/ ~Held(e)
        BY <1>8, <2>3, <2>4, <3>1 DEF Paid, ClaimsArePaid
      <3>2. CASE faults < faults'
        BY <1>0, <1>8, <2>4, <3>2 DEF Paid, AttemptsArePaid, Charged
      <3> QED
        BY <1>8, <2>2, <2>4, <3>1, <3>2
    <2>5. ASSUME NEW w \in Workers
          PROVE  MarkPaid(w)'
      <3>1. MarkPaid(w) /\ worker' = worker
        BY <1>8 DEF Paid, ClaimsArePaid
      <3>2. Holds(w, worker[w].active) => worker[w].active \in Events
        BY DEF Holds, TypeOK, Memory
      <3>3. Holds(w, worker[w].active)' => Holds(w, worker[w].active)
        <4>1. SUFFICES ASSUME Holds(w, worker[w].active)'
                       PROVE  Holds(w, worker[w].active)
          OBVIOUS
        <4>2. PICK e \in Events : e = worker[w].active
          BY <1>8, <4>1 DEF Holds, TypeOK, Memory
        <4>3. Holds(w, e)'
          BY <1>8, <4>1, <4>2 DEF Holds
        <4> QED
          BY <2>1, <4>2, <4>3
      <3>4. worker[w].active \in Events => (Charged(worker[w].active) => Charged(worker[w].active)')
        BY <1>0, <1>8 DEF Charged
      <3> QED
        BY <1>8, <3>1, <3>2, <3>3, <3>4 DEF MarkPaid
    <2>6. AttemptsArePaid'
      <3>1. ASSUME NEW e \in Events
            PROVE  /\ row'[e].attempts <= paid'[e] + faults'
                        + IF row'[e].status \in {"publishing", "published"} THEN 1 ELSE 0
                   /\ row'[e].status = "publishing" => row'[e].attempts >= 1
        BY <1>0, <1>8 DEF Paid, AttemptsArePaid
      <3> QED
        BY <3>1 DEF AttemptsArePaid
    <2>7. NoOrphanedClaims'
      <3>1. faults' = 0 => faults = 0
        BY <1>8 DEF TypeOK
      <3> QED
        BY <1>8, <2>2, <3>1 DEF Paid, NoOrphanedClaims
    <2> QED
      BY <2>4, <2>5, <2>6, <2>7 DEF Paid, ClaimsArePaid
  <1>9. ASSUME NEW w \in Workers, Stall(w)
        PROVE  Paid'
    <2>1. /\ UNCHANGED <<delivered, paid, worker, nextToken>> /\ faults' = faults + 1
          /\ Lapse(worker[w].token)
      BY <1>9 DEF Stall, Fault
    <2>2. OneLease'
      BY <1>9, FenceStep DEF Next, Trouble, Fenced
    <2>3. \A e \in Events : /\ row'[e].status = row[e].status /\ row'[e].token = row[e].token
                            /\ row'[e].attempts = row[e].attempts
      BY <2>1, LapseRows
    <2>4. faults < faults' /\ faults <= faults'
      BY <2>1 DEF TypeOK
    <2> QED
      BY <1>8, <2>1, <2>2, <2>3, <2>4
  <1>10. ASSUME NEW f \in Events, LeaseExpires(f)
         PROVE  Paid'
    <2>1. /\ UNCHANGED <<delivered, paid, worker, nextToken, faults>> /\ Lapse(row[f].token)
          /\ \A w \in Workers : worker[w].token # row[f].token
      BY <1>10 DEF LeaseExpires, bounds
    <2>2. OneLease'
      BY <1>10, FenceStep DEF Next, Fenced
    <2>3. ASSUME NEW e \in Events
          PROVE  /\ row'[e].status = row[e].status /\ row'[e].token = row[e].token
                 /\ row'[e].attempts = row[e].attempts
                 /\ row'[e].lease = "expired" => row[e].lease = "expired" \/ ~Held(e)
      BY <2>1, LapseRows DEF Held, Holds
    <2>4. faults <= faults'
      BY <2>1 DEF TypeOK
    <2> QED
      BY <1>8, <2>1, <2>2, <2>3, <2>4
  <1>11. ASSUME NEW f \in Events, BackoffElapses(f)
         PROVE  Paid'
    <2>1. UNCHANGED <<delivered, paid, worker, nextToken, faults>>
      BY <1>11 DEF BackoffElapses, bounds
    <2>2. OneLease'
      BY <1>11, FenceStep DEF Next, Fenced
    <2>3. \A e \in Events : /\ row'[e].status = row[e].status /\ row'[e].token = row[e].token
                            /\ row'[e].attempts = row[e].attempts
                            /\ row'[e].lease = row[e].lease
      BY <1>11, BackoffRows
    <2>4. faults <= faults'
      BY <2>1 DEF TypeOK
    <2> QED
      BY <1>8, <2>1, <2>2, <2>3, <2>4
  <1>12. ASSUME UNCHANGED vars
         PROVE  Paid'
    <2>1. UNCHANGED <<row, delivered, paid, worker, nextToken, faults>>
      BY <1>12 DEF vars, bounds
    <2>2. OneLease'
      BY <2>1 DEF Fenced, OneLease
    <2>3. faults <= faults'
      BY <2>1 DEF TypeOK
    <2> QED
      BY <1>8, <2>1, <2>2, <2>3
  <1> QED
    BY <1>1, <1>2, <1>3, <1>4, <1>5, <1>6, <1>7, <1>9, <1>10, <1>11, <1>12
       DEF Next, Progress, Trouble, DeliveryFails

-----------------------------------------------------------------------------
(* Delivery before publication.                                            *)

LEMMA PublishedStep ==
  ASSUME TypeOK, Fenced, PublishedWasDelivered, [Next]_vars
  PROVE  PublishedWasDelivered'
  <1>1. ASSUME delivered \subseteq delivered',
               \A e \in Events : row'[e].status = "published" => row[e].status = "published"
        PROVE  PublishedWasDelivered'
    BY <1>1 DEF PublishedWasDelivered
  <1>2. ASSUME NEW w \in Workers, NEW S \in SUBSET Events, Claim(w, S)
        PROVE  PublishedWasDelivered'
    <2>1. ASSUME NEW e \in Events, row'[e].status = "published"
          PROVE  row[e].status = "published"
      <3>1. e \notin S
        BY <1>2, <2>1, ClaimRows
      <3> QED
        BY <1>2, <2>1, <3>1, ClaimRows
    <2>2. delivered' = delivered
      BY <1>2 DEF Claim
    <2> QED
      BY <1>1, <2>1, <2>2
  <1>3. ASSUME NEW w \in Workers, NEW e \in Events, DeliverOk(w, e) \/ DeliveryFails(w, e)
        PROVE  PublishedWasDelivered'
    <2>1. delivered \subseteq delivered' /\ row' = row
      BY <1>3 DEF DeliverOk, DeliveryFails, DeliverFails
    <2> QED
      BY <1>1, <2>1
  <1>4. ASSUME NEW w \in Workers, Mark(w)
        PROVE  PublishedWasDelivered'
    <2>1. PICK e \in Events : e = worker[w].active
      BY <1>4, MarkRows
    <2>2. row'[e] = Verdict(e, worker[w].result) /\ \A f \in Events \ {e} : row'[f] = row[f]
      BY <1>4, <2>1, MarkRows
    <2>3. row'[e].status = "published" => worker[w].result = "ok"
      BY <2>2, VerdictRow
    <2>4. worker[w].result = "ok" => e \in delivered
      BY <1>4, <2>1 DEF Mark, Fenced, MemoryAgrees
    <2>5. delivered' = delivered
      BY <1>4 DEF Mark
    <2> QED
      BY <2>2, <2>3, <2>4, <2>5 DEF PublishedWasDelivered
  <1>5. ASSUME NEW w \in Workers, MarkLost(w) \/ MarkFails(w) \/ Crash(w)
        PROVE  PublishedWasDelivered'
    <2>1. delivered' = delivered /\ row' = row
      BY <1>5 DEF MarkLost, MarkFails, Crash
    <2> QED
      BY <1>1, <2>1
  <1>6. ASSUME NEW w \in Workers, Shutdown(w)
        PROVE  PublishedWasDelivered'
    <2>1. row' = Refunding(w, worker[w].batch) /\ delivered' = delivered
      BY <1>6 DEF Shutdown, Refunding, Released
    <2>2. \A e \in Events : row'[e] = row[e] \/ row'[e].status = "pending"
      BY <2>1, ShutdownRows
    <2> QED
      BY <1>1, <2>1, <2>2
  <1>7. ASSUME NEW w \in Workers, NEW e \in Events, Panic(w, e) \/ PanicUnmarked(w, e)
        PROVE  PublishedWasDelivered'
    <2>1. delivered' = delivered
      BY <1>7, Zenon DEF Panic, PanicUnmarked
    <2>2. row'[e] = row[e] \/ row'[e].status # "published"
      BY <1>7, PanicRows, PanicUnmarkedRows
    <2>3. \A f \in Events \ {e} : row'[f] = row[f] \/ row'[f].status = "pending"
      BY <1>7, PanicRows, PanicUnmarkedRows
    <2> QED
      BY <1>1, <2>1, <2>2, <2>3
  <1>8. ASSUME NEW t, Lapse(t), delivered' = delivered
        PROVE  PublishedWasDelivered'
    BY <1>1, <1>8, LapseRows
  <1>9. ASSUME NEW w \in Workers, Stall(w)
        PROVE  PublishedWasDelivered'
    BY <1>8, <1>9 DEF Stall
  <1>10. ASSUME NEW e \in Events, LeaseExpires(e)
         PROVE  PublishedWasDelivered'
    BY <1>8, <1>10 DEF LeaseExpires
  <1>11. ASSUME NEW e \in Events, BackoffElapses(e)
         PROVE  PublishedWasDelivered'
    <2>1. delivered' = delivered
      BY <1>11 DEF BackoffElapses
    <2> QED
      BY <1>1, <1>11, <2>1, BackoffRows
  <1>12. ASSUME UNCHANGED vars
         PROVE  PublishedWasDelivered'
    BY <1>1, <1>12 DEF vars
  <1> QED
    BY <1>2, <1>3, <1>4, <1>5, <1>6, <1>7, <1>9, <1>10, <1>11, <1>12
       DEF Next, Progress, Trouble, DeliveryFails

-----------------------------------------------------------------------------
(* The theorems.                                                           *)

LEMMA Start == Init => IInv
  <1> SUFFICES ASSUME Init PROVE IInv
    OBVIOUS
  <1>1. TypeOK
    BY OutboxAssumption DEF Init, TypeOK, EventRow, EventStatus, Memory, Results, Idle
  <1>2. \A w \in Workers : MemoryAgrees(w) /\ BatchStands(w)
    BY DEF Init, MemoryAgrees, BatchStands, Holds, Idle
  <1>3. TokensFresh /\ OneLease
    BY DEF Init, TokensFresh, OneLease, Idle
  <1>4. Paid /\ PublishedWasDelivered
    BY DEF Init, Paid, ClaimsArePaid, MarkPaid, AttemptsArePaid, NoOrphanedClaims,
           PublishedWasDelivered, Idle
  <1> QED
    BY <1>1, <1>2, <1>3, <1>4 DEF IInv, Fenced, Paid

LEMMA Step == IInv /\ [Next]_vars => IInv'
  <1> SUFFICES ASSUME IInv, [Next]_vars PROVE IInv'
    OBVIOUS
  <1>1. TypeOK'
    BY TypeStep DEF IInv
  <1>2. Fenced'
    BY <1>1, FenceStep DEF IInv
  <1>3. Paid'
    BY <1>1, PaidStep DEF IInv, Paid
  <1>4. PublishedWasDelivered'
    BY PublishedStep DEF IInv
  <1> QED
    BY <1>1, <1>2, <1>3, <1>4 DEF IInv, Paid

\* The inductive invariant holds in every reachable state.
THEOREM InductiveInvariant == Spec => []IInv
  BY Start, Step, PTL DEF Spec

\* At least once, for any number of workers and faults: what is marked published was
\* delivered (processOutboxBatch, ReleaseClaims).
THEOREM NothingPublishedUndelivered == Spec => []PublishedWasDelivered
  <1>1. IInv => PublishedWasDelivered
    BY DEF IInv
  <1> QED
    BY <1>1, InductiveInvariant, PTL

\* The attempts charged when a batch is claimed are all accounted for: by failed
\* deliveries, panics and faults, but for one of a claim in progress (claimOutboxBatch,
\* cleanupOutboxPanic).
THEOREM AttemptsAccounted == Spec => []AttemptsArePaid
  <1>1. IInv => AttemptsArePaid
    BY DEF IInv
  <1> QED
    BY <1>1, InductiveInvariant, PTL

\* Without crashes, stalls and failing marks every claim has its worker: cancelled
\* and panicking workers free what they claimed (releaseOutboxClaims).
THEOREM NoClaimOrphaned == Spec => []NoOrphanedClaims
  <1>1. IInv => NoOrphanedClaims
    BY DEF IInv
  <1> QED
    BY <1>1, InductiveInvariant, PTL

\* No late mark, release or recovery touches a row that was published or has died.
THEOREM SettledIsFinal == Spec => SettledForGood
  <1> DEFINE Settled == \A e \in Events : row[e].status \in {"published", "dead"} => row'[e] = row[e]
  <1>1. IInv /\ [Next]_vars => [Settled]_vars
    <2> SUFFICES ASSUME IInv, Next, NEW e \in Events, row[e].status \in {"published", "dead"}
                 PROVE  row'[e] = row[e]
      OBVIOUS
    <2>0. TypeOK /\ \A w \in Workers : ~Holds(w, e)
      BY DEF IInv, Holds
    <2>1. ASSUME NEW w \in Workers, OwnRows(w)
          PROVE  row'[e] = row[e]
      BY <2>0, <2>1 DEF OwnRows
    <2>2. ASSUME NEW w \in Workers, NEW S \in SUBSET Events, Claim(w, S)
          PROVE  row'[e] = row[e]
      <3>1. e \notin S
        BY <2>0, <2>2, ClaimRows
      <3> QED
        BY <2>0, <2>2, <3>1, ClaimRows DEF Expired
    <2>3. ASSUME NEW w \in Workers, Shutdown(w)
          PROVE  row'[e] = row[e]
      <3>1. row' = Refunding(w, worker[w].batch)
        BY <2>3 DEF Shutdown, Refunding
      <3> QED
        BY <2>0, <2>1, <3>1, ShutdownRows
    <2>4. ASSUME NEW w \in Workers, NEW f \in Events, Panic(w, f) \/ PanicUnmarked(w, f)
          PROVE  row'[e] = row[e]
      BY <2>0, <2>1, <2>4, PanicRows, PanicUnmarkedRows
    <2>5. ASSUME NEW w \in Workers, Mark(w)
          PROVE  row'[e] = row[e]
      BY <2>0, <2>1, <2>5, MarkRows
    <2>6. ASSUME NEW t, Lapse(t)
          PROVE  row'[e] = row[e]
      BY <2>0, <2>6, LapseRows
    <2>7. ASSUME NEW f \in Events, BackoffElapses(f)
          PROVE  row'[e] = row[e]
      BY <2>0, <2>7, BackoffRows
    <2>8. ASSUME NEW w \in Workers, NEW f \in Events, DeliverOk(w, f) \/ DeliveryFails(w, f)
          PROVE  row'[e] = row[e]
      BY <2>8 DEF DeliverOk, DeliveryFails, DeliverFails
    <2>9. ASSUME NEW w \in Workers, MarkLost(w) \/ MarkFails(w) \/ Crash(w)
          PROVE  row'[e] = row[e]
      BY <2>9 DEF MarkLost, MarkFails, Crash
    <2>10. ASSUME NEW w \in Workers, Stall(w)
           PROVE  row'[e] = row[e]
      BY <2>6, <2>10 DEF Stall
    <2>11. ASSUME NEW f \in Events, LeaseExpires(f)
           PROVE  row'[e] = row[e]
      BY <2>6, <2>11 DEF LeaseExpires
    <2> QED
      BY <2>2, <2>3, <2>4, <2>5, <2>7, <2>8, <2>9, <2>10, <2>11 DEF Next, Progress, Trouble, DeliveryFails
  <1> QED
    BY <1>1, InductiveInvariant, PTL DEF Spec, SettledForGood

\* A live claim ends only by a step of the worker that made it: no recovery, mark or
\* release of another one takes its rows away.
THEOREM LiveClaimsRespected == Spec => ClaimRespected
  <1> DEFINE Respected ==
        \A e \in Events :
          row[e].status = "publishing" /\ row[e].lease = "live" /\ row'[e].token # row[e].token
            => \E w \in Workers : worker[w].token = row[e].token /\ worker'[w] # worker[w]
  <1>1. IInv /\ [Next]_vars => [Respected]_vars
    <2> SUFFICES ASSUME IInv, Next, NEW e \in Events, row[e].status = "publishing",
                        row[e].lease = "live", row'[e].token # row[e].token
                 PROVE  \E w \in Workers : worker[w].token = row[e].token /\ worker'[w] # worker[w]
      OBVIOUS
    <2>0. TypeOK
      BY DEF IInv
    <2>1. ASSUME NEW w \in Workers, OwnRows(w), worker'[w].pc # worker[w].pc
          PROVE  \E v \in Workers : worker[v].token = row[e].token /\ worker'[v] # worker[v]
      BY <2>1 DEF OwnRows, Holds
    <2>2. ASSUME NEW w \in Workers, OwnRows(w), Stop(w), worker[w].pc # "idle"
          PROVE  \E v \in Workers : worker[v].token = row[e].token /\ worker'[v] # worker[v]
      <3>1. worker'[w].pc = "idle"
        BY <2>0, <2>2, StopTyped DEF Idle
      <3> QED
        BY <2>1, <2>2, <3>1
    <2>3. ASSUME NEW w \in Workers, NEW S \in SUBSET Events, Claim(w, S)
          PROVE  FALSE
      <3>1. e \notin S
        BY <2>0, <2>3, ClaimRows
      <3> QED
        BY <2>0, <2>3, <3>1, ClaimRows DEF Expired
    <2>4. ASSUME NEW w \in Workers, Shutdown(w)
          PROVE  \E v \in Workers : worker[v].token = row[e].token /\ worker'[v] # worker[v]
      <3>1. row' = Refunding(w, worker[w].batch) /\ Stop(w) /\ worker[w].pc # "idle"
        BY <2>4 DEF Shutdown, Refunding, Released
      <3>2. OwnRows(w)
        BY <2>0, <3>1, ShutdownRows
      <3> QED
        BY <2>2, <3>1, <3>2
    <2>5. ASSUME NEW w \in Workers, NEW f \in Events, Panic(w, f) \/ PanicUnmarked(w, f)
          PROVE  \E v \in Workers : worker[v].token = row[e].token /\ worker'[v] # worker[v]
      <3>1. Stop(w) /\ worker[w].pc = "deliver"
        BY <2>5, Zenon DEF Panic, PanicUnmarked
      <3>2. OwnRows(w)
        BY <2>0, <2>5, PanicRows, PanicUnmarkedRows
      <3> QED
        BY <2>2, <3>1, <3>2
    <2>6. ASSUME NEW w \in Workers, Mark(w)
          PROVE  \E v \in Workers : worker[v].token = row[e].token /\ worker'[v] # worker[v]
      <3>1. OwnRows(w)
        BY <2>0, <2>6, MarkRows
      <3>2. worker[w].pc = "mark" /\ worker'[w].pc \in {"idle", "deliver"}
        BY <2>0, <2>6 DEF Mark, Advance, Idle, TypeOK, Memory
      <3> QED
        BY <2>1, <3>1, <3>2
    <2>7. ASSUME NEW t, Lapse(t)
          PROVE  FALSE
      BY <2>0, <2>7, LapseRows
    <2>8. ASSUME NEW f \in Events, BackoffElapses(f)
          PROVE  FALSE
      BY <2>0, <2>8, BackoffRows
    <2>9. row' # row
      OBVIOUS
    <2>10. ASSUME NEW w \in Workers, Stall(w)
           PROVE  FALSE
      BY <2>7, <2>10 DEF Stall
    <2>11. ASSUME NEW f \in Events, LeaseExpires(f)
           PROVE  FALSE
      BY <2>7, <2>11 DEF LeaseExpires
    <2>12. ASSUME NEW w \in Workers, MarkLost(w) \/ MarkFails(w) \/ Crash(w)
           PROVE  FALSE
      BY <2>9, <2>12 DEF MarkLost, MarkFails, Crash
    <2>13. ASSUME NEW w \in Workers, NEW f \in Events, DeliverOk(w, f) \/ DeliveryFails(w, f)
           PROVE  FALSE
      BY <2>9, <2>13 DEF DeliverOk, DeliveryFails, DeliverFails
    <2> QED
      BY <2>3, <2>4, <2>5, <2>6, <2>8, <2>10, <2>11, <2>12, <2>13 DEF Next, Progress, Trouble, DeliveryFails
  <1> QED
    BY <1>1, InductiveInvariant, PTL DEF Spec, ClaimRespected

===============================================================================
