--------------------------- MODULE PublishJobProofs ---------------------------
(***************************************************************************)
(* IInv of PublishJobInv is inductive: one lemma per action or group of     *)
(* actions that disturb the same facts, then the theorems that follow from *)
(* it and the refinement of PublishOutcome. Then what the fencing tokens    *)
(* guarantee: a lease in use is ended by its holder alone, and a job is     *)
(* killed only when its retry budget or its owner's quota is used up, a     *)
(* budget that shutdowns do not touch.                                      *)
(***************************************************************************)
EXTENDS PublishJobInv, TLAPS

LEMMA UnleasedType ==
  ASSUME NEW r \in JobRow, NEW status \in JobStatus, NEW due \in BOOLEAN
  PROVE  /\ Unleased(r, status, due) \in JobRow
         /\ Unleased(r, status, due).attempts = r.attempts
         /\ Unleased(r, status, due).status = status
         /\ Unleased(r, status, due).token = 0
         /\ Unleased(r, status, due).due = due
  BY DEF Unleased, JobRow, Leases

LEMMA LeasedType ==
  ASSUME NEW r \in JobRow, NEW attempts \in 0..MaxAttempts, NEW token \in Nat
  PROVE  /\ Leased(r, attempts, token) \in JobRow
         /\ Leased(r, attempts, token).attempts = attempts
         /\ Leased(r, attempts, token).status = "running"
         /\ Leased(r, attempts, token).token = token
  BY DEF Leased, JobRow, Leases, JobStatus

LEMMA FreshRowsType ==
  \A r \in FreshRows : r \in JobRow /\ r.status = "queued" /\ r.token = 0
  <1> SUFFICES ASSUME NEW b \in BOOLEAN
               PROVE  LET r == [status |-> "queued", attempts |-> 0, token |-> 0,
                                lease |-> "none", due |-> TRUE, watermark |-> b]
                      IN r \in JobRow /\ r.status = "queued" /\ r.token = 0
    BY DEF FreshRows
  <1>1. 0 \in 0..MaxAttempts
    BY PublishAssumption
  <1> QED
    BY <1>1, Zenon DEF JobRow, JobStatus, Leases

LEMMA InitIInv == Init => IInv
  <1> SUFFICES ASSUME Init PROVE IInv
    OBVIOUS
  <1> USE PublishAssumption DEF Init
  <1>1. TypeOK
    <2>1. row \in [Jobs -> JobRow]
      BY FreshRowsType
    <2>2. worker \in [Workers -> Activity]
      BY DEF Idle, Activity, Points, ExecPoints, Causes
    <2>3. /\ image \in [Jobs -> ImageStatus]
          /\ session \in [Jobs -> SessionStatus]
          /\ announced \in [Jobs -> BOOLEAN]
          /\ billed \in [Jobs -> Int]
      BY DEF ImageStatus, SessionStatus
    <2>4. /\ variants \in [Jobs -> SUBSET Kinds]
          /\ files \in [Jobs -> SUBSET Paths]
          /\ doomed \in [Jobs -> SUBSET Paths]
      BY DEF Kinds, Paths
    <2> QED
      BY <2>1, <2>2, <2>3, <2>4 DEF TypeOK
  <1>2. Consistent
    <2>1. \A j \in Jobs : row[j].status = "queued"
      BY FreshRowsType
    <2> QED
      BY <2>1 DEF Consistent, Unsettled, ImageAgrees, RowAgrees, Terminal, Active, Idle
  <1> QED
    BY <1>1, <1>2 DEF IInv

\* The rows a claim chooses from: each is the old row, or an abandoned one reset.
LEMMA ClaimRows ==
  ASSUME TypeOK, NEW w \in Workers, NEW j \in Jobs, Claim(w, j)
  PROVE  /\ row' \in [Jobs -> JobRow]
         /\ row[j].attempts + 1 \in 0..MaxAttempts
         /\ row'[j].status = "running" /\ row'[j].token = nextToken
         /\ row'[j].attempts = row[j].attempts + 1
         /\ ~Terminal(j)
         /\ Assign(w, j, "start", "none", row[j].attempts + 1)
         /\ \A k \in Jobs : k # j =>
              \/ row'[k] = row[k]
              \/ /\ row[k].status = "running" /\ row[k].lease # "live"
                 /\ row'[k].status = "retry" /\ row'[k].token = 0
                 /\ row'[k].attempts = row[k].attempts
  <1> DEFINE rows == [k \in Jobs |->
                        IF Abandoned(row[k]) /\ HasAttempts(row[k])
                        THEN Unleased(row[k], "retry", TRUE) ELSE row[k]]
  <1>1. \A k \in Jobs : /\ row[k] \in JobRow
                        /\ rows[k] \in JobRow
                        /\ rows[k].attempts = row[k].attempts
                        /\ \/ rows[k] = row[k]
                           \/ /\ row[k].status = "running" /\ row[k].lease # "live"
                              /\ rows[k].status = "retry" /\ rows[k].token = 0
    BY UnleasedType DEF TypeOK, JobStatus, Abandoned
  <1>2. /\ Waiting(rows[j]) /\ HasAttempts(rows[j])
        /\ row' = [rows EXCEPT ![j] = Leased(rows[j], rows[j].attempts + 1, nextToken)]
        /\ Assign(w, j, "start", "none", rows[j].attempts + 1)
    BY DEF Claim
  <1> HIDE DEF rows
  <1>3. rows[j].attempts + 1 \in 0..MaxAttempts /\ nextToken \in Nat
    BY <1>1, <1>2, PublishAssumption DEF HasAttempts, JobRow, TypeOK
  <1>4. ~Terminal(j)
    BY <1>1, <1>2 DEF Waiting, Terminal
  <1>5. rows \in [Jobs -> JobRow]
    BY <1>1 DEF rows
  <1> QED
    BY <1>1, <1>2, <1>3, <1>4, <1>5, LeasedType

LEMMA AssignType ==
  ASSUME TypeOK, NEW w \in Workers, NEW j \in Jobs, NEW point \in Points,
         NEW cause \in Causes, NEW attempts \in 0..MaxAttempts,
         Assign(w, j, point, cause, attempts)
  PROVE  worker' \in [Workers -> Activity] /\ nextToken' \in Nat \ {0}
  BY DEF Assign, TypeOK, Activity

LEMMA ClaimIInv ==
  ASSUME IInv, NEW w \in Workers, NEW j \in Jobs, Claim(w, j)
  PROVE  IInv'
  <1> USE DEF IInv
  <1>1. UNCHANGED <<domainVars, files, ghosts, boundVars>>
    BY DEF Claim
  <1>2. TypeOK'
    BY <1>1, ClaimRows, AssignType DEF TypeOK, domainVars, boundVars, Points, ExecPoints, Causes
  <1>3. Consistent'
    <2>1. \A k \in Jobs : (Unsettled(k) /\ ImageAgrees(k) /\ RowAgrees(k))'
      BY <1>1, ClaimRows DEF Consistent, Unsettled, ImageAgrees, RowAgrees, Terminal, domainVars
    <2>2. \A v \in Workers : Active(v)' => WorkerKnows(v)'
      BY <1>1, ClaimRows DEF Consistent, Active, WorkerKnows, Terminal, Assign, TypeOK
    <2> QED
      BY <2>1, <2>2 DEF Consistent
  <1> QED
    BY <1>2, <1>3

\* The three ways a worker moves on by itself keep its memory well-formed.
LEMMA MoveType ==
  ASSUME TypeOK, NEW w \in Workers
  PROVE  /\ \A p \in Points : Goto(w, p) => worker' \in [Workers -> Activity]
         /\ \A c \in Causes : Abort(w, c) => worker' \in [Workers -> Activity]
         /\ Stop(w) => worker' \in [Workers -> Activity]
  <1>1. worker \in [Workers -> Activity] /\ worker[w] \in Activity
    BY DEF TypeOK
  <1>2. Idle \in Activity /\ "fail" \in Points
    BY PublishAssumption DEF Idle, Activity, Points, ExecPoints, Causes
  <1>3. ASSUME NEW p \in Points, Goto(w, p) PROVE worker' \in [Workers -> Activity]
    BY <1>1, <1>3 DEF Goto, Activity
  <1>4. ASSUME NEW c \in Causes, Abort(w, c) PROVE worker' \in [Workers -> Activity]
    BY <1>1, <1>2, <1>4 DEF Abort, Activity
  <1>5. ASSUME Stop(w) PROVE worker' \in [Workers -> Activity]
    BY <1>1, <1>2, <1>5 DEF Stop
  <1> QED
    BY <1>3, <1>4, <1>5

\* A worker that stops or turns to failing has nothing left to know, and what the
\* others know does not change while rows and files stay as they are.
LEMMA MoveConsistent ==
  ASSUME IInv, NEW w \in Workers, Active(w), UNCHANGED <<row, domainVars, files>>,
         \/ Stop(w)
         \/ \E c \in Causes : Abort(w, c)
         \/ \E p \in Points : /\ Goto(w, p)
                              /\ p \notin {"commit", "sweep"}
                              /\ p = "clean" => "target" \in files[worker[w].job]
  PROVE  Consistent'
  <1>1. \A k \in Jobs : (Unsettled(k) /\ ImageAgrees(k) /\ RowAgrees(k))'
    BY DEF IInv, Consistent, Unsettled, ImageAgrees, RowAgrees, Terminal, domainVars
  <1>2. \A v \in Workers : v # w => worker'[v] = worker[v]
    BY DEF Stop, Abort, Goto, IInv, TypeOK
  <1>3. Active(w)' => WorkerKnows(w)'
    BY DEF Stop, Abort, Goto, Idle, IInv, TypeOK, Consistent, Active, WorkerKnows, Activity
  <1>4. \A v \in Workers : Active(v)' => WorkerKnows(v)'
    BY <1>2, <1>3 DEF IInv, Consistent, Active, WorkerKnows, Terminal
  <1> QED
    BY <1>1, <1>4 DEF Consistent

LEMMA LocalIInv ==
  ASSUME IInv, NEW w \in Workers,
         \/ Stat(w) \/ Render(w) \/ Inspect(w) \/ CommitOverQuota(w) \/ FencedOut(w)
         \/ StepError(w) \/ LeaseLost(w) \/ FailFencedOut(w) \/ Crash(w)
  PROVE  IInv'
  <1>1. /\ Active(w)
        /\ UNCHANGED <<row, domainVars, files, ghosts, nextToken>>
        /\ faults' \in Nat /\ shutdowns' \in Nat /\ lost' \in Nat
    BY DEF Stat, Render, Inspect, CommitOverQuota, FencedOut, StepError, LeaseLost,
           FailFencedOut, Crash, Active, ExecPoints, Fault, boundVars, IInv, TypeOK
  <1>2. \/ Stop(w)
        \/ \E c \in Causes : Abort(w, c)
        \/ \E p \in Points : /\ Goto(w, p)
                             /\ p \notin {"commit", "sweep"}
                             /\ p = "clean" => "target" \in files[worker[w].job]
    <2>1. "error" \in Causes /\ "quota" \in Causes
      BY DEF Causes
    <2>2. {"inspect", "render", "promote", "clean"} \subseteq Points
      BY DEF Points, ExecPoints
    <2> QED
      BY <2>1, <2>2 DEF Stat, Render, Inspect, CommitOverQuota, FencedOut, StepError, LeaseLost,
           FailFencedOut, Crash
  <1>3. TypeOK'
    BY <1>1, <1>2, MoveType DEF IInv, TypeOK, domainVars
  <1>4. Consistent'
    BY <1>1, <1>2, MoveConsistent
  <1> QED
    BY <1>3, <1>4 DEF IInv

LEMMA PromoteIInv ==
  ASSUME IInv, NEW w \in Workers, Promote(w)
  PROVE  IInv'
  <1> DEFINE j == worker[w].job
  <1>1. /\ Active(w) /\ j \in Jobs /\ ~Terminal(j)
        /\ row[j].status = "running"
        /\ UNCHANGED <<row, domainVars, ghosts, nextToken, boundVars>>
        /\ Goto(w, "inspect")
    BY DEF Promote, IInv, Consistent, WorkerKnows, Active, Holds, Terminal
  <1>2. /\ files' \in [Jobs -> SUBSET Paths]
        /\ \A k \in Jobs : k # j => files'[k] = files[k]
        /\ "target" \in files'[j]
        /\ "source" \in files'[j] => "source" \in files[j]
    BY <1>1 DEF Promote, IInv, TypeOK, Paths
  <1>3. TypeOK'
    BY <1>1, <1>2, MoveType DEF IInv, TypeOK, domainVars, boundVars, Points, ExecPoints
  <1>4. \A k \in Jobs : (Unsettled(k) /\ ImageAgrees(k) /\ RowAgrees(k))'
    BY <1>1, <1>2 DEF IInv, Consistent, Unsettled, ImageAgrees, RowAgrees, Terminal, domainVars
  <1>5. \A v \in Workers : Active(v)' => WorkerKnows(v)'
    BY <1>1, <1>2 DEF IInv, Consistent, WorkerKnows, Active, Terminal, Goto, TypeOK, Activity
  <1> QED
    BY <1>3, <1>4, <1>5 DEF IInv, Consistent

LEMMA CleanIInv ==
  ASSUME IInv, NEW w \in Workers, Clean(w)
  PROVE  IInv'
  <1> DEFINE j == worker[w].job
  <1>1. /\ Active(w) /\ j \in Jobs
        /\ "target" \in files[j] \/ Terminal(j)
        /\ UNCHANGED <<row, domainVars, ghosts, nextToken, boundVars>>
    BY DEF Clean, IInv, Consistent, WorkerKnows, Active
  <1>2. /\ files' \in [Jobs -> SUBSET Paths]
        /\ \A k \in Jobs : k # j => files'[k] = files[k]
        /\ files'[j] \ {"source", "staging"} = files[j] \ {"source", "staging"}
        /\ files'[j] \subseteq files[j]
        /\ "source" \notin files'[j]
    BY <1>1 DEF Clean, IInv, TypeOK, Paths
  <1>3. /\ worker' \in [Workers -> Activity]
        /\ \A v \in Workers : v # w => worker'[v] = worker[v]
        /\ worker'[w].pc = "commit" /\ worker'[w].job = j
    <2>1. PICK clean \in BOOLEAN :
            worker' = [worker EXCEPT ![w].pc = "commit", ![w].clean = clean]
      BY DEF Clean
    <2>2. worker \in [Workers -> Activity] /\ worker[w] \in Activity /\ "commit" \in Points
      BY DEF IInv, TypeOK, Points, ExecPoints
    <2> QED
      BY <2>1, <2>2 DEF Activity
  <1>4. TypeOK'
    BY <1>1, <1>2, <1>3 DEF IInv, TypeOK, domainVars, boundVars
  <1>5. \A k \in Jobs : (Unsettled(k) /\ ImageAgrees(k) /\ RowAgrees(k))'
    BY <1>1, <1>2 DEF IInv, Consistent, Unsettled, ImageAgrees, RowAgrees, Terminal, domainVars
  <1>6. \A v \in Workers : Active(v)' => WorkerKnows(v)'
    BY <1>1, <1>2, <1>3 DEF IInv, Consistent, WorkerKnows, Active, Terminal
  <1> QED
    BY <1>4, <1>5, <1>6 DEF IInv, Consistent

LEMMA CommitIInv ==
  ASSUME IInv, NEW w \in Workers, Commit(w)
  PROVE  IInv'
  <1> DEFINE j == worker[w].job
  <1>1. /\ Active(w) /\ j \in Jobs /\ ~Terminal(j)
        /\ image[j] = "processing" /\ variants[j] = {"fixed", "publish_source"}
        /\ billed[j] = 0 /\ doomed[j] = {}
        /\ "target" \in files[j] /\ "source" \notin files[j]
    BY DEF Commit, IInv, Consistent, Unsettled, ImageAgrees, WorkerKnows, Active, Holds, Terminal
  <1>2. /\ row' \in [Jobs -> JobRow] /\ row'[j].status = "completed"
        /\ \A k \in Jobs : k # j => row'[k] = row[k]
    <2>1. row[j] \in JobRow /\ row[j].due \in BOOLEAN /\ "completed" \in JobStatus
      BY <1>1 DEF IInv, TypeOK, JobRow, JobStatus
    <2> QED
      BY <1>1, <2>1, UnleasedType DEF Commit, IInv, TypeOK
  <1>3. /\ image' = [image EXCEPT ![j] = "completed"]
        /\ variants' = [variants EXCEPT ![j] = {"fixed", "publish"}]
        /\ billed' = [billed EXCEPT ![j] = 1]
        /\ announced' = [announced EXCEPT ![j] = TRUE]
        /\ session' = [session EXCEPT ![j] =
                         IF worker[w].clean THEN "completed" ELSE "cleanup_pending"]
        /\ Stop(w)
        /\ UNCHANGED <<doomed, files, ghosts, nextToken, boundVars>>
    <2>1. (variants[j] \ {"publish_source"}) \cup {"publish"} = {"fixed", "publish"}
      BY <1>1
    <2>2. billed' = [billed EXCEPT ![j] = billed[j] + 1] /\ billed[j] + 1 = 1
      BY <1>1 DEF Commit
    <2> QED
      BY <1>1, <2>1, <2>2 DEF Commit
  <1>4. TypeOK'
    <2>1. "completed" \in ImageStatus /\ {"fixed", "publish"} \subseteq Kinds
          /\ {"completed", "cleanup_pending"} \subseteq SessionStatus
      BY DEF ImageStatus, Kinds, SessionStatus
    <2> QED
      BY <1>1, <1>2, <1>3, <2>1, MoveType DEF IInv, TypeOK, boundVars
  <1>5. \A k \in Jobs : (Unsettled(k) /\ ImageAgrees(k) /\ RowAgrees(k))'
    BY <1>1, <1>2, <1>3
       DEF IInv, TypeOK, Consistent, Unsettled, ImageAgrees, RowAgrees, Terminal
  <1>6. \A v \in Workers : Active(v)' => WorkerKnows(v)'
    BY <1>1, <1>2, <1>3 DEF IInv, TypeOK, Consistent, WorkerKnows, Active, Terminal, Stop, Idle
  <1> QED
    BY <1>4, <1>5, <1>6 DEF IInv, Consistent

\* A step that rewrites only unsettled rows, to other unsettled rows, and stops a
\* worker or none keeps what everybody knows.
LEMMA RequeueIInv ==
  ASSUME IInv,
         UNCHANGED <<domainVars, files, nextToken>>,
         row' \in [Jobs -> JobRow],
         \A k \in Jobs : row'[k] = row[k] \/ (~Terminal(k) /\ row'[k].status \in {"running", "retry"}),
         worker' = worker \/ \E w \in Workers : Stop(w),
         ghosts' \subseteq Jobs \X Nat,
         faults' \in Nat, shutdowns' \in Nat, lost' \in Nat
  PROVE  IInv'
  <1>1. TypeOK'
    BY MoveType DEF IInv, TypeOK, domainVars
  <1>2. \A k \in Jobs : (Unsettled(k) /\ ImageAgrees(k) /\ RowAgrees(k))'
    BY DEF IInv, Consistent, Unsettled, ImageAgrees, RowAgrees, Terminal, domainVars
  <1>3. \A v \in Workers : Active(v)' => Active(v) /\ worker'[v] = worker[v]
    BY DEF Stop, Idle, Active, IInv, TypeOK
  <1>4. \A v \in Workers : Active(v)' => WorkerKnows(v)'
    BY <1>3 DEF IInv, Consistent, WorkerKnows, Terminal
  <1> QED
    BY <1>1, <1>2, <1>4 DEF IInv, Consistent

\* Writing one unsettled row so that it stays unsettled.
LEMMA RowWrite ==
  ASSUME IInv, NEW j \in Jobs, ~Terminal(j), NEW r \in JobRow, r.status \in {"running", "retry"},
         row' = [row EXCEPT ![j] = r]
  PROVE  /\ row' \in [Jobs -> JobRow]
         /\ \A k \in Jobs : row'[k] = row[k] \/ (~Terminal(k) /\ row'[k].status = r.status)
  BY DEF IInv, TypeOK

LEMMA LeaseType ==
  ASSUME NEW r \in JobRow, NEW l \in Leases
  PROVE  /\ [r EXCEPT !.lease = l] \in JobRow
         /\ [r EXCEPT !.lease = l].status = r.status
  BY DEF JobRow

LEMMA HolderUnsettled ==
  ASSUME IInv, NEW w \in Workers, Holds(w)
  PROVE  /\ Active(w) /\ worker[w].job \in Jobs
         /\ row[worker[w].job].status = "running" /\ row[worker[w].job] \in JobRow
         /\ ~Terminal(worker[w].job)
  BY DEF IInv, Consistent, WorkerKnows, Active, Holds, Terminal, TypeOK

LEMMA RefundedType ==
  ASSUME NEW r \in JobRow
  PROVE  Refunded(r) \in JobRow
  BY PublishAssumption DEF Refunded, JobRow

LEMMA ReleasedType ==
  ASSUME IInv, NEW w \in Workers, Active(w), NEW refund \in BOOLEAN,
         row' = Released(worker[w].job, w, refund)
  PROVE  /\ row' \in [Jobs -> JobRow]
         /\ \A k \in Jobs : row'[k] = row[k] \/ (~Terminal(k) /\ row'[k].status = "retry")
  <1>1. CASE Holds(w)
    <2>1. "retry" \in JobStatus
      BY DEF JobStatus
    <2> DEFINE j == worker[w].job
               r == IF refund THEN Refunded(row[j]) ELSE row[j]
    <2>2. j \in Jobs /\ ~Terminal(j) /\ r \in JobRow
      BY <1>1, HolderUnsettled, RefundedType
    <2>3. row' = [row EXCEPT ![j] = Unleased(r, "retry", TRUE)]
      BY <1>1 DEF Released
    <2> HIDE DEF r, j
    <2>4. Unleased(r, "retry", TRUE) \in JobRow /\ Unleased(r, "retry", TRUE).status = "retry"
      BY <2>1, <2>2, UnleasedType
    <2> QED
      BY <2>2, <2>3, <2>4, RowWrite
  <1>2. CASE ~Holds(w)
    BY <1>2 DEF Released, IInv, TypeOK
  <1> QED
    BY <1>1, <1>2

LEMMA InterruptIInv ==
  ASSUME IInv, NEW w \in Workers,
         \/ Shutdown(w) \/ Panic(w) \/ PanicUnreleased(w) \/ FailRetry(w) \/ Extend(w)
  PROVE  IInv'
  <1>1. CASE Shutdown(w)
    <2>1. /\ row' \in [Jobs -> JobRow]
          /\ \A k \in Jobs : row'[k] = row[k] \/ (~Terminal(k) /\ row'[k].status = "retry")
      BY <1>1, ReleasedType DEF Shutdown, Active
    <2> QED
      BY <1>1, <2>1, RequeueIInv DEF Shutdown, IInv, TypeOK
  <1>2. CASE Panic(w)
    <2>1. /\ row' \in [Jobs -> JobRow]
          /\ \A k \in Jobs : row'[k] = row[k] \/ (~Terminal(k) /\ row'[k].status = "retry")
      BY <1>2, ReleasedType DEF Panic, Active
    <2>2. /\ UNCHANGED <<domainVars, files, ghosts, nextToken>> /\ Stop(w)
          /\ faults' \in Nat /\ shutdowns' \in Nat /\ lost' \in Nat
          /\ ghosts' \subseteq Jobs \X Nat
      BY <1>2 DEF Panic, Fault, IInv, TypeOK
    <2> QED
      BY <2>1, <2>2, RequeueIInv
  <1>3. CASE PanicUnreleased(w)
    <2>1. worker[w].job \in Jobs /\ worker[w].token \in Nat
      BY <1>3 DEF PanicUnreleased, ExecPoints, IInv, Consistent, Active, WorkerKnows, TypeOK, Activity
    <2>2. ghosts' \subseteq Jobs \X Nat
      BY <1>3, <2>1 DEF PanicUnreleased, IInv, TypeOK
    <2> QED
      BY <1>3, <2>2, RequeueIInv DEF PanicUnreleased, IInv, TypeOK
  <1>4. CASE FailRetry(w)
    <2>1. "retry" \in JobStatus
      BY DEF JobStatus
    <2>2. /\ row' \in [Jobs -> JobRow]
          /\ \A k \in Jobs : row'[k] = row[k] \/ (~Terminal(k) /\ row'[k].status = "retry")
      <3> DEFINE j == worker[w].job
      <3>1. /\ j \in Jobs /\ ~Terminal(j) /\ row[j] \in JobRow
            /\ row' = [row EXCEPT ![j] = Unleased(row[j], "retry", FALSE)]
        BY <1>4, HolderUnsettled DEF FailRetry
      <3>2. /\ Unleased(row[j], "retry", FALSE) \in JobRow
            /\ Unleased(row[j], "retry", FALSE).status = "retry"
        BY <2>1, <3>1, UnleasedType
      <3> QED
        BY <3>1, <3>2, RowWrite
    <2> QED
      BY <1>4, <2>2, RequeueIInv DEF FailRetry, IInv, TypeOK, boundVars
  <1>5. CASE Extend(w)
    <2>1. /\ row' \in [Jobs -> JobRow]
          /\ \A k \in Jobs : row'[k] = row[k] \/ (~Terminal(k) /\ row'[k].status = "running")
      BY <1>5, HolderUnsettled DEF Extend, IInv, TypeOK, JobRow, Leases
    <2> QED
      BY <1>5, <2>1, RequeueIInv DEF Extend, IInv, TypeOK, boundVars
  <1> QED
    BY <1>1, <1>2, <1>3, <1>4, <1>5

LEMMA ClaimExhaustedIInv ==
  ASSUME IInv, NEW w \in Workers, NEW j \in Jobs, ClaimExhausted(w, j)
  PROVE  IInv'
  <1>1. /\ row[j] \in JobRow /\ row[j].attempts \in 0..MaxAttempts /\ nextToken \in Nat
        /\ ~Terminal(j)
    BY DEF ClaimExhausted, Abandoned, Waiting, Terminal, IInv, TypeOK, JobRow
  <1>2. /\ row' \in [Jobs -> JobRow] /\ row'[j].status = "running"
        /\ \A k \in Jobs : k # j => row'[k] = row[k]
    BY <1>1, LeasedType DEF ClaimExhausted, IInv, TypeOK
  <1>3. "fail" \in Points /\ "exhausted" \in Causes
    BY DEF Points, Causes
  <1>4. TypeOK'
    BY <1>1, <1>2, <1>3, AssignType DEF ClaimExhausted, IInv, TypeOK, domainVars, boundVars
  <1>5. \A k \in Jobs : (Unsettled(k) /\ ImageAgrees(k) /\ RowAgrees(k))'
    BY <1>1, <1>2 DEF ClaimExhausted, IInv, Consistent, Unsettled, ImageAgrees, RowAgrees,
                      Terminal, domainVars
  <1>6. \A v \in Workers : Active(v)' => WorkerKnows(v)'
    BY <1>1, <1>2 DEF ClaimExhausted, Assign, IInv, TypeOK, Consistent, WorkerKnows, Active, Terminal
  <1> QED
    BY <1>4, <1>5, <1>6 DEF IInv, Consistent

LEMMA FailDeadIInv ==
  ASSUME IInv, NEW w \in Workers, FailDead(w)
  PROVE  IInv'
  <1> DEFINE j == worker[w].job
  <1>1. /\ Active(w) /\ j \in Jobs /\ ~Terminal(j) /\ row[j] \in JobRow
        /\ image[j] = "processing" /\ billed[j] = 0 /\ doomed[j] = {}
    BY HolderUnsettled DEF FailDead, IInv, Consistent, Unsettled, ImageAgrees
  <1>2. /\ row' \in [Jobs -> JobRow] /\ row'[j].status = "dead"
        /\ \A k \in Jobs : k # j => row'[k] = row[k]
    <2>1. "dead" \in JobStatus
      BY DEF JobStatus
    <2> QED
      BY <1>1, <2>1, UnleasedType DEF FailDead, IInv, TypeOK
  <1>3. /\ image' = [image EXCEPT ![j] = "deleted"]
        /\ variants' = [variants EXCEPT ![j] = {}]
        /\ session' = [session EXCEPT ![j] = "failed"]
        /\ doomed' = [doomed EXCEPT ![j] = {"target", "source"}]
        /\ Goto(w, "sweep")
        /\ UNCHANGED <<billed, announced, files, ghosts, nextToken, boundVars>>
    <2>1. doomed[j] \cup DeadPaths(j) = {"target", "source"}
      BY <1>1 DEF DeadPaths
    <2> QED
      BY <1>1, <2>1 DEF FailDead
  <1>4. TypeOK'
    <2>1. /\ "deleted" \in ImageStatus /\ "failed" \in SessionStatus /\ "sweep" \in Points
          /\ {} \subseteq Kinds /\ {"target", "source"} \subseteq Paths
      BY DEF ImageStatus, SessionStatus, Points, Kinds, Paths
    <2> QED
      BY <1>1, <1>2, <1>3, <2>1, MoveType DEF IInv, TypeOK, boundVars
  <1>5. \A k \in Jobs : (Unsettled(k) /\ ImageAgrees(k) /\ RowAgrees(k))'
    <2>1. files[j] \ {"staging"} \subseteq {"target", "source"}
      BY <1>1 DEF IInv, TypeOK, Paths
    <2> QED
      BY <1>1, <1>2, <1>3, <2>1
         DEF IInv, TypeOK, Consistent, Unsettled, ImageAgrees, RowAgrees, Terminal
  <1>6. \A v \in Workers : Active(v)' => WorkerKnows(v)'
    BY <1>1, <1>2, <1>3 DEF IInv, TypeOK, Consistent, WorkerKnows, Active, Terminal, Goto, Activity
  <1> QED
    BY <1>4, <1>5, <1>6 DEF IInv, Consistent

\* Files of one job disappear, at most those an image that is gone has doomed.
LEMMA RemovalConsistent ==
  ASSUME IInv, NEW j \in Jobs, image[j] = "deleted",
         files' \in [Jobs -> SUBSET Paths], files'[j] \subseteq files[j],
         \A k \in Jobs : k # j => files'[k] = files[k] /\ doomed'[k] = doomed[k],
         files'[j] \ {"staging"} \subseteq doomed'[j],
         UNCHANGED <<row, image, variants, session, billed, announced>>
  PROVE  \A k \in Jobs : /\ (Unsettled(k) /\ ImageAgrees(k) /\ RowAgrees(k))'
                         /\ Terminal(k)' <=> Terminal(k)
                         /\ k = j => Terminal(k)
  BY DEF IInv, Consistent, Unsettled, ImageAgrees, RowAgrees, Terminal

LEMMA SweepIInv ==
  ASSUME IInv, NEW w \in Workers, Sweep(w)
  PROVE  IInv'
  <1> DEFINE j == worker[w].job
  <1>1. /\ Active(w) /\ j \in Jobs /\ image[j] = "deleted"
        /\ files[j] \ {"staging"} \subseteq doomed[j]
        /\ UNCHANGED <<row, domainVars, ghosts, nextToken, boundVars>> /\ Stop(w)
    BY DEF Sweep, IInv, Consistent, WorkerKnows, RowAgrees, ImageAgrees, Active
  <1>2. /\ files' \in [Jobs -> SUBSET Paths] /\ files'[j] \subseteq files[j]
        /\ \A k \in Jobs : k # j => files'[k] = files[k]
    BY <1>1 DEF Sweep, IInv, TypeOK
  <1>3. TypeOK'
    BY <1>1, <1>2, MoveType DEF IInv, TypeOK, domainVars, boundVars
  <1>4. \A k \in Jobs : /\ (Unsettled(k) /\ ImageAgrees(k) /\ RowAgrees(k))'
                        /\ Terminal(k)' <=> Terminal(k)
                        /\ k = j => Terminal(k)
    BY <1>1, <1>2, RemovalConsistent DEF domainVars
  <1>5. \A v \in Workers : Active(v)' => WorkerKnows(v)'
    BY <1>1, <1>2, <1>4 DEF IInv, TypeOK, Consistent, WorkerKnows, Active, Stop, Idle
  <1> QED
    BY <1>3, <1>4, <1>5 DEF IInv, Consistent

LEMMA DeletionIInv ==
  ASSUME IInv, NEW j \in Jobs, DeleteImage(j) \/ StorageDelete(j)
  PROVE  IInv'
  <1>1. CASE StorageDelete(j)
    <2>1. image[j] = "deleted" /\ variants[j] = {} /\ files[j] \ {"staging"} \subseteq doomed[j]
      <3>1. doomed[j] # {} /\ Unsettled(j) /\ ImageAgrees(j) /\ RowAgrees(j)
        BY <1>1 DEF StorageDelete, IInv, Consistent
      <3>2. Terminal(j) /\ (row[j].status = "dead" => image[j] = "deleted")
        BY <3>1 DEF Unsettled, RowAgrees
      <3>3. image[j] \in {"processing", "completed", "deleted"}
        BY DEF IInv, TypeOK, ImageStatus
      <3> QED
        BY <3>1, <3>2, <3>3 DEF ImageAgrees, Terminal
    <2>2. /\ files' = [files EXCEPT ![j] = files[j] \ doomed[j]]
          /\ doomed' = [doomed EXCEPT ![j] = {}]
          /\ UNCHANGED <<row, image, variants, session, billed, announced,
                         worker, ghosts, nextToken, boundVars>>
      BY <1>1, <2>1 DEF StorageDelete, Referenced
    <2>3. TypeOK'
      BY <2>2 DEF IInv, TypeOK, boundVars
    <2>4. \A k \in Jobs : /\ (Unsettled(k) /\ ImageAgrees(k) /\ RowAgrees(k))'
                          /\ Terminal(k)' <=> Terminal(k)
                          /\ k = j => Terminal(k)
      <3>1. /\ files' \in [Jobs -> SUBSET Paths] /\ files'[j] \subseteq files[j]
            /\ \A k \in Jobs : k # j => files'[k] = files[k] /\ doomed'[k] = doomed[k]
            /\ files'[j] \ {"staging"} \subseteq doomed'[j]
        BY <2>1, <2>2, <2>3 DEF IInv, TypeOK
      <3> QED
        BY <2>1, <2>2, <3>1, RemovalConsistent
    <2>5. \A v \in Workers : Active(v)' => WorkerKnows(v)'
      BY <2>2, <2>4 DEF IInv, TypeOK, Consistent, WorkerKnows, Active
    <2> QED
      BY <2>3, <2>4, <2>5 DEF IInv, Consistent
  <1>2. CASE DeleteImage(j)
    <2>1. /\ row[j].status = "completed" /\ billed[j] = 1 /\ doomed[j] = {}
          /\ files[j] \ {"staging"} \subseteq {"target"}
      BY <1>2 DEF DeleteImage, IInv, Consistent, ImageAgrees, TypeOK, Paths
    <2>2. /\ image' = [image EXCEPT ![j] = "deleted"]
          /\ variants' = [variants EXCEPT ![j] = {}]
          /\ billed' = [billed EXCEPT ![j] = 0]
          /\ doomed' = [doomed EXCEPT ![j] = {"target"}]
          /\ UNCHANGED <<row, session, announced, files, worker, ghosts, nextToken, boundVars>>
      <3>1. doomed[j] \cup {"target"} = {"target"} /\ billed[j] - 1 = 0
        BY <2>1
      <3> QED
        BY <1>2, <3>1 DEF DeleteImage
    <2>3. TypeOK'
      <3>1. "deleted" \in ImageStatus /\ {} \subseteq Kinds /\ {"target"} \subseteq Paths
        BY DEF ImageStatus, Kinds, Paths
      <3> QED
        BY <2>2, <3>1 DEF IInv, TypeOK, boundVars
    <2>4. \A k \in Jobs : (Unsettled(k) /\ ImageAgrees(k) /\ RowAgrees(k))'
      BY <2>1, <2>2 DEF IInv, TypeOK, Consistent, Unsettled, ImageAgrees, RowAgrees, Terminal
    <2>5. \A v \in Workers : Active(v)' => WorkerKnows(v)'
      BY <2>2 DEF IInv, Consistent, WorkerKnows, Active, Terminal
    <2> QED
      BY <2>3, <2>4, <2>5 DEF IInv, Consistent
  <1> QED
    BY <1>1, <1>2

LEMMA ClockIInv ==
  ASSUME IInv, NEW j \in Jobs, LeaseExpires(j) \/ Stall(j) \/ BackoffElapses(j)
  PROVE  IInv'
  <1>1. /\ row' \in [Jobs -> JobRow]
        /\ \A k \in Jobs : row'[k] = row[k] \/ (~Terminal(k) /\ row'[k].status \in {"running", "retry"})
    <2>1. row[j] \in JobRow /\ "expired" \in Leases
      BY DEF IInv, TypeOK, Leases
    <2>2. CASE LeaseExpires(j) \/ Stall(j)
      <3>1. /\ row' = [row EXCEPT ![j] = [row[j] EXCEPT !.lease = "expired"]]
            /\ row[j].status = "running" /\ ~Terminal(j)
        BY <2>2 DEF LeaseExpires, Stall, Terminal
      <3> QED
        BY <2>1, <3>1, LeaseType, RowWrite
    <2>3. CASE BackoffElapses(j)
      <3>1. /\ row' = [row EXCEPT ![j] = [row[j] EXCEPT !.due = TRUE]]
            /\ row[j].status = "retry" /\ ~Terminal(j)
        BY <2>3 DEF BackoffElapses, Terminal
      <3>2. [row[j] EXCEPT !.due = TRUE] \in JobRow /\ [row[j] EXCEPT !.due = TRUE].status = "retry"
        BY <2>1, <3>1 DEF JobRow
      <3> QED
        BY <3>1, <3>2, RowWrite
    <2> QED
      BY <2>2, <2>3
  <1>2. /\ UNCHANGED <<domainVars, files, worker, ghosts, nextToken>>
        /\ faults' \in Nat /\ shutdowns' \in Nat /\ lost' \in Nat
    BY DEF LeaseExpires, Stall, BackoffElapses, Fault, boundVars, IInv, TypeOK
  <1>3. ghosts' \subseteq Jobs \X Nat
    BY <1>2 DEF IInv, TypeOK
  <1> QED
    BY <1>1, <1>2, <1>3, RequeueIInv

LEMMA GhostIInv ==
  ASSUME IInv, NEW g \in ghosts,
         GhostExtend(g[1], g[2]) \/ GhostStop(g[1], g[2]) \/ GhostDies(g[1], g[2])
  PROVE  IInv'
  <1>1. /\ row' \in [Jobs -> JobRow]
        /\ \A k \in Jobs : row'[k] = row[k] \/ (~Terminal(k) /\ row'[k].status \in {"running", "retry"})
    <2>1. CASE GhostExtend(g[1], g[2])
      <3>1. g[1] \in Jobs /\ row[g[1]] \in JobRow /\ "live" \in Leases
        BY DEF IInv, TypeOK, Leases
      <3>2. /\ row' = [row EXCEPT ![g[1]] = [row[g[1]] EXCEPT !.lease = "live"]]
            /\ row[g[1]].status = "running" /\ ~Terminal(g[1])
        BY <2>1 DEF GhostExtend, Terminal
      <3> QED
        BY <3>1, <3>2, LeaseType, RowWrite
    <2>2. CASE GhostStop(g[1], g[2]) \/ GhostDies(g[1], g[2])
      BY <2>2 DEF GhostStop, GhostDies, IInv, TypeOK
    <2> QED
      BY <2>1, <2>2
  <1>2. /\ UNCHANGED <<domainVars, files, worker, nextToken>> /\ ghosts' \subseteq ghosts
        /\ faults' \in Nat /\ shutdowns' \in Nat /\ lost' \in Nat
    BY DEF GhostExtend, GhostStop, GhostDies, Fault, boundVars, IInv, TypeOK
  <1>3. ghosts' \subseteq Jobs \X Nat
    BY <1>2 DEF IInv, TypeOK
  <1> QED
    BY <1>1, <1>2, <1>3, RequeueIInv

LEMMA NextIInv == IInv /\ [Next]_vars => IInv'
  <1> SUFFICES ASSUME IInv, [Next]_vars PROVE IInv'
    OBVIOUS
  <1>1. ASSUME NEW w \in Workers, WorkerStep(w) PROVE IInv'
    BY <1>1, ClaimIInv, ClaimExhaustedIInv, LocalIInv, PromoteIInv, CleanIInv, CommitIInv,
       InterruptIInv, FailDeadIInv, SweepIInv
       DEF WorkerStep, Progress, Interruption
  <1>2. ASSUME NEW j \in Jobs, JobStep(j) PROVE IInv'
    BY <1>2, ClockIInv, DeletionIInv DEF JobStep
  <1>3. ASSUME Ghost \/ \E g \in ghosts : GhostDies(g[1], g[2]) PROVE IInv'
    BY <1>3, GhostIInv DEF Ghost
  <1>4. CASE UNCHANGED vars
    BY <1>4 DEF vars, domainVars, boundVars, IInv, TypeOK, Consistent, Unsettled, ImageAgrees,
                RowAgrees, Terminal, Active, WorkerKnows
  <1> QED
    BY <1>1, <1>2, <1>3, <1>4 DEF Next

-----------------------------------------------------------------------------
(* The theorems.                                                           *)

\* The rows, the files and the memory of the workers agree in every reachable state.
THEOREM InductiveInvariant == Spec => []IInv
  BY InitIInv, NextIInv, PTL DEF Spec

\* Type correctness: in particular attempts never exceed max_attempts.
THEOREM TypeCorrect == Spec => []TypeOK
  <1>1. IInv => TypeOK
    BY DEF IInv
  <1> QED
    BY <1>1, InductiveInvariant, PTL

\* However many workers execute a job, its image is billed exactly while it is
\* published, and announced exactly when it was.
THEOREM BilledExactlyOnce == Spec => []AccountedOnce
  <1>1. IInv => AccountedOnce
    <2> SUFFICES ASSUME IInv, NEW j \in Jobs
                 PROVE  /\ billed[j] = IF image[j] = "completed" THEN 1 ELSE 0
                        /\ announced[j] <=> row[j].status = "completed"
      BY DEF AccountedOnce
    <2>1. image[j] \in {"processing", "completed", "deleted"}
      BY DEF IInv, TypeOK, ImageStatus
    <2> QED
      BY <2>1 DEF IInv, Consistent, ImageAgrees, RowAgrees
  <1> QED
    BY <1>1, InductiveInvariant, PTL

\* An unsettled job always has something to build the image from, and a published
\* image its file, whichever worker removes the source.
THEOREM ContentIsSafe == Spec => []ContentSurvives
  <1>1. IInv => ContentSurvives
    <2> SUFFICES ASSUME IInv, NEW j \in Jobs
                 PROVE  /\ ~Terminal(j) => files[j] \cap {"source", "target"} # {}
                        /\ "publish" \in variants[j] => "target" \in files[j]
      BY DEF ContentSurvives
    <2>1. image[j] \in {"processing", "completed", "deleted"}
      BY DEF IInv, TypeOK, ImageStatus
    <2> QED
      BY <2>1 DEF IInv, Consistent, ImageAgrees, Unsettled
  <1> QED
    BY <1>1, InductiveInvariant, PTL

\* Every file of an image that is gone is queued for deletion or deleted.
THEOREM NothingLeaks == Spec => []NoLeak
  <1>1. IInv => NoLeak
    BY DEF IInv, Consistent, ImageAgrees, NoLeak
  <1> QED
    BY <1>1, InductiveInvariant, PTL

\* Image, variants, session and job row never disagree on the outcome.
THEOREM Agreement == Spec => []OutcomesAgree
  <1>1. IInv => OutcomesAgree
    <2> SUFFICES ASSUME IInv, NEW j \in Jobs
                 PROVE  /\ row[j].status = "dead" => image[j] = "deleted" /\ session[j] = "failed"
                        /\ row[j].status = "completed" => session[j] \in {"completed", "cleanup_pending"}
                        /\ image[j] = "processing" <=> "publish_source" \in variants[j]
                        /\ image[j] = "completed" => row[j].status = "completed"
      BY DEF OutcomesAgree
    <2>1. image[j] \in {"processing", "completed", "deleted"}
      BY DEF IInv, TypeOK, ImageStatus
    <2> QED
      BY <2>1 DEF IInv, Consistent, ImageAgrees, RowAgrees
  <1> QED
    BY <1>1, InductiveInvariant, PTL

\* A settled row is written by no step at all but the clock's.
LEMMA SettledStays ==
  ASSUME IInv, [Next]_vars, NEW j \in Jobs, Terminal(j)
  PROVE  /\ row'[j].status = row[j].status
         /\ files'[j] \subseteq files[j]
         /\ image[j] = "deleted" => image'[j] = "deleted"
  <1> USE DEF IInv
  <1>1. ASSUME NEW w \in Workers, Holds(w) PROVE worker[w].job # j
    BY <1>1, HolderUnsettled
  <1>2. ASSUME NEW w \in Workers, WorkerStep(w)
        PROVE  /\ row'[j].status = row[j].status
               /\ files'[j] \subseteq files[j]
               /\ image[j] = "deleted" => image'[j] = "deleted"
    <2>1. CASE \E k \in Jobs : Claim(w, k)
      <3>1. PICK k \in Jobs : Claim(w, k)
        BY <2>1
      <3>2. k # j /\ row[j].status # "running"
        BY <3>1, ClaimRows DEF Terminal
      <3>3. row'[j] = row[j]
        BY <3>1, <3>2, ClaimRows
      <3> QED
        BY <3>1, <3>3 DEF Claim, domainVars
    <2>2. CASE \E k \in Jobs : ClaimExhausted(w, k)
      BY <2>2 DEF ClaimExhausted, Abandoned, Waiting, Terminal, TypeOK, domainVars
    <2>3. CASE \/ Stat(w) \/ Render(w) \/ Inspect(w) \/ FencedOut(w) \/ FailFencedOut(w)
               \/ CommitOverQuota(w) \/ LeaseLost(w) \/ StepError(w) \/ PanicUnreleased(w) \/ Crash(w)
      BY <2>3 DEF Stat, Render, Inspect, FencedOut, FailFencedOut, CommitOverQuota, LeaseLost,
                  StepError, PanicUnreleased, Crash, domainVars
    <2>4. CASE Promote(w)
      BY <1>1, <2>4 DEF Promote, TypeOK, domainVars
    <2>5. CASE Clean(w) \/ Sweep(w)
      BY <2>5 DEF Clean, Sweep, TypeOK, domainVars
    <2>6. CASE Commit(w)
      BY <1>1, <2>6 DEF Commit, TypeOK
    <2>7. CASE FailRetry(w)
      BY <1>1, <2>7 DEF FailRetry, TypeOK, domainVars
    <2>8. CASE FailDead(w)
      BY <1>1, <2>8 DEF FailDead, TypeOK
    <2>9. CASE Extend(w)
      BY <1>1, <2>9 DEF Extend, TypeOK, domainVars
    <2>10. CASE Shutdown(w) \/ Panic(w)
      BY <1>1, <2>10 DEF Shutdown, Panic, Released, TypeOK, domainVars
    <2> QED
      BY <1>2, <2>1, <2>2, <2>3, <2>4, <2>5, <2>6, <2>7, <2>8, <2>9, <2>10
         DEF WorkerStep, Progress, Interruption
  <1>3. ASSUME NEW k \in Jobs, JobStep(k)
        PROVE  /\ row'[j].status = row[j].status
               /\ files'[j] \subseteq files[j]
               /\ image[j] = "deleted" => image'[j] = "deleted"
    BY <1>3 DEF JobStep, LeaseExpires, Stall, BackoffElapses, DeleteImage, StorageDelete, TypeOK,
                JobRow, domainVars
  <1>4. ASSUME NEW g \in ghosts,
               GhostExtend(g[1], g[2]) \/ GhostStop(g[1], g[2]) \/ GhostDies(g[1], g[2])
        PROVE  /\ row'[j].status = row[j].status
               /\ files'[j] \subseteq files[j]
               /\ image[j] = "deleted" => image'[j] = "deleted"
    <2>1. row'[j] = row[j]
      <3>1. CASE GhostExtend(g[1], g[2])
        <4>1. g[1] # j
          BY <3>1 DEF GhostExtend, Terminal
        <4>2. row' = [row EXCEPT ![g[1]] = [row[g[1]] EXCEPT !.lease = "live"]]
          BY <3>1 DEF GhostExtend
        <4> QED
          BY <4>1, <4>2 DEF TypeOK
      <3>2. CASE GhostStop(g[1], g[2]) \/ GhostDies(g[1], g[2])
        BY <3>2 DEF GhostStop, GhostDies
      <3> QED
        BY <1>4, <3>1, <3>2
    <2>2. UNCHANGED <<files, image>>
      BY <1>4 DEF GhostExtend, GhostStop, GhostDies, domainVars
    <2> QED
      BY <2>1, <2>2
  <1>5. CASE UNCHANGED vars
    BY <1>5 DEF vars, domainVars
  <1> QED
    BY <1>2, <1>3, <1>4, <1>5 DEF Next, Ghost

\* A worker that lost its lease never revives a settled job or restores its files.
THEOREM StaleWorkersAreHarmless == Spec => NoResurrection
  <1>1. IInv /\ [Next]_vars =>
          [\A j \in Jobs : Terminal(j) =>
             /\ row'[j].status = row[j].status
             /\ files'[j] \subseteq files[j]
             /\ image[j] = "deleted" => image'[j] = "deleted"]_vars
    BY SettledStays
  <1> QED
    BY <1>1, InductiveInvariant, PTL DEF Spec, NoResurrection

-----------------------------------------------------------------------------
(* The refinement. Promote stores, Commit publishes, FailDead rejects,      *)
(* DeleteImage removes, Sweep and StorageDelete reclaim; the rest stutters. *)


\* What the refinement mapping reads of one job.
Seen(j) == <<OutcomeOf(j), billed[j], "target" \in files[j]>>

LEMMA OutcomeValue ==
  ASSUME NEW j \in Jobs
  PROVE  /\ image[j] = "processing" => OutcomeOf(j) = "processing"
         /\ image[j] = "completed" => OutcomeOf(j) = "published"
         /\ image[j] = "deleted" =>
              OutcomeOf(j) = IF row[j].status = "dead" THEN "rejected" ELSE "removed"
         /\ image'[j] = "processing" => OutcomeOf(j)' = "processing"
         /\ image'[j] = "completed" => OutcomeOf(j)' = "published"
         /\ image'[j] = "deleted" =>
              OutcomeOf(j)' = IF row'[j].status = "dead" THEN "rejected" ELSE "removed"
  <1>1. image[j] = "processing" => OutcomeOf(j) = "processing"
    BY DEF OutcomeOf
  <1>2. image[j] = "completed" => OutcomeOf(j) = "published"
    BY DEF OutcomeOf
  <1>3. image[j] = "deleted" =>
          OutcomeOf(j) = IF row[j].status = "dead" THEN "rejected" ELSE "removed"
    BY DEF OutcomeOf
  <1>4. image'[j] = "processing" => OutcomeOf(j)' = "processing"
    BY DEF OutcomeOf
  <1>5. image'[j] = "completed" => OutcomeOf(j)' = "published"
    BY DEF OutcomeOf
  <1>6. image'[j] = "deleted" =>
          OutcomeOf(j)' = IF row'[j].status = "dead" THEN "rejected" ELSE "removed"
    BY DEF OutcomeOf
  <1> QED
    BY <1>1, <1>2, <1>3, <1>4, <1>5, <1>6

\* A step that nobody can see stutters.
LEMMA OutcomeStutter ==
  ASSUME TypeOK, TypeOK', \A j \in Jobs : Seen(j)' = Seen(j)
  PROVE  UNCHANGED Outcome!outcomeVars
  <1>1. \A j \in Jobs : /\ OutcomeOf(j)' = OutcomeOf(j)
                        /\ billed'[j] = billed[j]
                        /\ ("target" \in files[j])' = ("target" \in files[j])
    BY DEF Seen
  <1>2. billed' = billed
    BY <1>1 DEF TypeOK
  <1>3. [j \in Jobs |-> OutcomeOf(j)]' = [j \in Jobs |-> OutcomeOf(j)]
    BY <1>1
  <1>4. [j \in Jobs |-> "target" \in files[j]]' = [j \in Jobs |-> "target" \in files[j]]
    BY <1>1
  <1> QED
    BY <1>2, <1>3, <1>4 DEF Outcome!outcomeVars

LEMMA InitOutcome == Init => Outcome!Init
  <1> SUFFICES ASSUME Init PROVE Outcome!Init
    OBVIOUS
  <1>1. \A j \in Jobs : OutcomeOf(j) = "processing" /\ ("target" \in files[j]) = FALSE
    <2> SUFFICES ASSUME NEW j \in Jobs
                 PROVE  OutcomeOf(j) = "processing" /\ ("target" \in files[j]) = FALSE
      OBVIOUS
    <2>1. image[j] = "processing" /\ files[j] = {"source", "staging"}
      BY DEF Init
    <2>2. OutcomeOf(j) = "processing"
      BY <2>1 DEF OutcomeOf
    <2>3. "target" \notin files[j]
      BY <2>1
    <2> QED
      BY <2>2, <2>3
  <1> QED
    BY <1>1 DEF Init, Outcome!Init

\* An image that is gone keeps the outcome it has, and of the others only the image
\* row is seen.
LEMMA Unseen ==
  ASSUME IInv, [Next]_vars, NEW k \in Jobs,
         image'[k] = image[k], billed'[k] = billed[k],
         ("target" \in files[k])' = ("target" \in files[k])
  PROVE  Seen(k)' = Seen(k)
  <1>1. image[k] = "deleted" => row'[k].status = row[k].status
    BY SettledStays DEF IInv, Consistent, Unsettled
  <1>2. image[k] \in {"processing", "completed", "deleted"}
    BY DEF IInv, TypeOK, ImageStatus
  <1>3. OutcomeOf(k)' = OutcomeOf(k)
    BY <1>1, <1>2 DEF OutcomeOf
  <1> QED
    BY <1>3 DEF Seen

\* One abstract step is one job seen to change in one way.
LEMMA OneSeen ==
  ASSUME TypeOK, TypeOK', NEW j \in Jobs, \A k \in Jobs \ {j} : Seen(k)' = Seen(k),
         \/ /\ OutcomeOf(j) = "processing" /\ OutcomeOf(j)' = OutcomeOf(j)
            /\ "target" \notin files[j] /\ "target" \in files'[j] /\ billed'[j] = billed[j]
         \/ /\ OutcomeOf(j) = "processing" /\ OutcomeOf(j)' = "published"
            /\ "target" \in files[j] /\ "target" \in files'[j] /\ billed'[j] = 1
         \/ /\ OutcomeOf(j) = "processing" /\ OutcomeOf(j)' = "rejected"
            /\ files'[j] = files[j] /\ billed'[j] = billed[j]
         \/ /\ OutcomeOf(j) = "published" /\ OutcomeOf(j)' = "removed"
            /\ files'[j] = files[j] /\ billed'[j] = 0
         \/ /\ OutcomeOf(j) \in {"rejected", "removed"} /\ OutcomeOf(j)' = OutcomeOf(j)
            /\ "target" \in files[j] /\ "target" \notin files'[j] /\ billed'[j] = billed[j]
  PROVE  Outcome!Next
  <1> DEFINE outcomes == [k \in Jobs |-> OutcomeOf(k)]
             stored   == [k \in Jobs |-> "target" \in files[k]]
  <1>1. \A k \in Jobs \ {j} : /\ OutcomeOf(k)' = OutcomeOf(k)
                              /\ billed'[k] = billed[k]
                              /\ ("target" \in files[k])' = ("target" \in files[k])
    BY DEF Seen
  <1>2. outcomes' = [outcomes EXCEPT ![j] = OutcomeOf(j)']
    BY <1>1
  <1>3. stored' = [stored EXCEPT ![j] = ("target" \in files[j])']
    BY <1>1
  <1>4. billed' = [billed EXCEPT ![j] = billed'[j]]
    BY <1>1 DEF TypeOK
  <1>5. outcomes[j] = OutcomeOf(j) /\ stored[j] = ("target" \in files[j])
    OBVIOUS
  <1>6. /\ OutcomeOf(j)' = OutcomeOf(j) => outcomes' = outcomes
        /\ ("target" \in files[j])' = ("target" \in files[j]) => stored' = stored
        /\ billed'[j] = billed[j] => billed' = billed
    <2>1. OutcomeOf(j)' = OutcomeOf(j) => outcomes' = outcomes
      BY <1>1
    <2>2. ("target" \in files[j])' = ("target" \in files[j]) => stored' = stored
      BY <1>1
    <2>3. billed'[j] = billed[j] => billed' = billed
      BY <1>4 DEF TypeOK
    <2> QED
      BY <2>1, <2>2, <2>3
  <1>7. \/ Outcome!Store(j) \/ Outcome!Publish(j) \/ Outcome!Reject(j)
        \/ Outcome!Remove(j) \/ Outcome!Reclaim(j)
    <2> HIDE DEF outcomes, stored
    <2>1. CASE /\ OutcomeOf(j) = "processing" /\ OutcomeOf(j)' = OutcomeOf(j)
               /\ "target" \notin files[j] /\ "target" \in files'[j] /\ billed'[j] = billed[j]
      BY <1>3, <1>5, <1>6, <2>1 DEF Outcome!Store, outcomes, stored
    <2>2. CASE /\ OutcomeOf(j) = "processing" /\ OutcomeOf(j)' = "published"
               /\ "target" \in files[j] /\ "target" \in files'[j] /\ billed'[j] = 1
      BY <1>2, <1>4, <1>5, <1>6, <2>2 DEF Outcome!Publish, outcomes, stored
    <2>3. CASE /\ OutcomeOf(j) = "processing" /\ OutcomeOf(j)' = "rejected"
               /\ files'[j] = files[j] /\ billed'[j] = billed[j]
      BY <1>2, <1>5, <1>6, <2>3 DEF Outcome!Reject, outcomes, stored
    <2>4. CASE /\ OutcomeOf(j) = "published" /\ OutcomeOf(j)' = "removed"
               /\ files'[j] = files[j] /\ billed'[j] = 0
      BY <1>2, <1>4, <1>5, <1>6, <2>4 DEF Outcome!Remove, outcomes, stored
    <2>5. CASE /\ OutcomeOf(j) \in {"rejected", "removed"} /\ OutcomeOf(j)' = OutcomeOf(j)
               /\ "target" \in files[j] /\ "target" \notin files'[j] /\ billed'[j] = billed[j]
      <3>1. outcomes[j] \in {"rejected", "removed"} /\ stored[j] = TRUE
        BY <1>5, <2>5
      <3>2. stored' = [stored EXCEPT ![j] = FALSE]
        <4>1. ("target" \in files[j])' = FALSE
          BY <2>5
        <4> QED
          BY <1>3, <4>1
      <3>3. outcomes' = outcomes /\ billed' = billed
        BY <1>6, <2>5
      <3> QED
        BY <3>1, <3>2, <3>3 DEF Outcome!Reclaim, outcomes, stored
    <2> QED
      BY <2>1, <2>2, <2>3, <2>4, <2>5
  <1> QED
    BY <1>7 DEF Outcome!Next

LEMMA OutcomeStep == IInv /\ IInv' /\ [Next]_vars => [Outcome!Next]_(Outcome!outcomeVars)
  <1> SUFFICES ASSUME IInv, IInv', [Next]_vars
               PROVE  Outcome!Next \/ UNCHANGED Outcome!outcomeVars
    OBVIOUS
  <1> USE DEF IInv
  <1>1. \A k \in Jobs : image[k] \in {"processing", "completed", "deleted"}
    BY DEF TypeOK, ImageStatus
  <1>2. ASSUME UNCHANGED <<image, billed>>,
               \A k \in Jobs : ("target" \in files[k])' = ("target" \in files[k])
        PROVE  UNCHANGED Outcome!outcomeVars
    BY <1>2, Unseen, OutcomeStutter
  <1>3. ASSUME NEW w \in Workers, Promote(w)
        PROVE  Outcome!Next \/ UNCHANGED Outcome!outcomeVars
    <2>0. PICK j \in Jobs : j = worker[w].job
      BY <1>3, HolderUnsettled DEF Promote
    <2>1. /\ j \in Jobs /\ image[j] = "processing"
          /\ UNCHANGED <<image, billed>>
          /\ OutcomeOf(j) = "processing" /\ OutcomeOf(j)' = "processing"
      <3>1. j \in Jobs /\ image[j] = "processing" /\ UNCHANGED <<image, billed>>
        BY <1>3, <2>0, HolderUnsettled DEF Promote, Consistent, Unsettled, domainVars
      <3> QED
        BY <3>1, OutcomeValue
    <2>2. "target" \in files'[j] /\ \A k \in Jobs \ {j} : files'[k] = files[k]
      BY <1>3, <2>0, <2>1 DEF Promote, TypeOK
    <2>3. \A k \in Jobs \ {j} : Seen(k)' = Seen(k)
      BY <2>1, <2>2, Unseen
    <2>4. CASE "target" \in files[j]
      <3>1. \A k \in Jobs : ("target" \in files[k])' = ("target" \in files[k])
        BY <2>1, <2>2, <2>4
      <3> QED
        BY <1>2, <2>1, <3>1
    <2>5. CASE "target" \notin files[j]
      BY <2>1, <2>2, <2>3, <2>5, OneSeen
    <2> QED
      BY <2>4, <2>5
  <1>4. ASSUME NEW w \in Workers, Commit(w)
        PROVE  Outcome!Next
    <2>0. PICK j \in Jobs : j = worker[w].job
      BY <1>4, HolderUnsettled DEF Commit
    <2>1. /\ j \in Jobs /\ image[j] = "processing" /\ "target" \in files[j] /\ billed[j] = 0
      BY <1>4, <2>0, HolderUnsettled DEF Commit, Consistent, Unsettled, ImageAgrees, Active, WorkerKnows
    <2>2. /\ image' = [image EXCEPT ![j] = "completed"]
          /\ billed' = [billed EXCEPT ![j] = 1]
          /\ UNCHANGED files
      <3>1. billed' = [billed EXCEPT ![j] = billed[j] + 1] /\ billed[j] + 1 = 1
        BY <1>4, <2>0, <2>1 DEF Commit
      <3> QED
        BY <1>4, <2>0, <2>1, <3>1 DEF Commit
    <2>3. OutcomeOf(j) = "processing" /\ OutcomeOf(j)' = "published" /\ billed'[j] = 1
      BY <2>1, <2>2, OutcomeValue DEF TypeOK
    <2>4. \A k \in Jobs \ {j} : Seen(k)' = Seen(k)
      BY <2>2, Unseen DEF TypeOK
    <2> QED
      BY <2>1, <2>2, <2>3, <2>4, OneSeen
  <1>5. ASSUME NEW w \in Workers, FailDead(w)
        PROVE  Outcome!Next
    <2>0. PICK j \in Jobs : j = worker[w].job
      BY <1>5, HolderUnsettled DEF FailDead
    <2>1. j \in Jobs /\ image[j] = "processing"
      BY <1>5, <2>0, HolderUnsettled DEF FailDead, Consistent, Unsettled
    <2>2. /\ image' = [image EXCEPT ![j] = "deleted"]
          /\ row'[j].status = "dead"
          /\ UNCHANGED <<billed, files>>
      BY <1>5, <2>0, <2>1 DEF FailDead, TypeOK, Unleased, JobRow
    <2>3. OutcomeOf(j) = "processing" /\ OutcomeOf(j)' = "rejected"
      BY <2>1, <2>2, OutcomeValue DEF TypeOK
    <2>4. \A k \in Jobs \ {j} : Seen(k)' = Seen(k)
      BY <2>2, Unseen DEF TypeOK
    <2> QED
      BY <2>1, <2>2, <2>3, <2>4, OneSeen
  <1>6. ASSUME NEW j \in Jobs, image[j] = "deleted", UNCHANGED <<image, billed>>,
               files'[j] \subseteq files[j], \A k \in Jobs \ {j} : files'[k] = files[k]
        PROVE  Outcome!Next \/ UNCHANGED Outcome!outcomeVars
    <2>1. \A k \in Jobs \ {j} : Seen(k)' = Seen(k)
      BY <1>6, Unseen
    <2>2. row'[j].status = row[j].status
      BY <1>6, SettledStays DEF Consistent, Unsettled
    <2>3. OutcomeOf(j) \in {"rejected", "removed"} /\ OutcomeOf(j)' = OutcomeOf(j)
      BY <1>6, <2>2 DEF OutcomeOf
    <2>4. CASE "target" \in files[j] /\ "target" \notin files'[j]
      BY <1>6, <2>1, <2>3, <2>4, OneSeen
    <2>5. CASE ("target" \in files[j])' = ("target" \in files[j])
      BY <1>2, <1>6, <2>5
    <2> QED
      BY <1>6, <2>4, <2>5
  <1>7. ASSUME NEW w \in Workers, Sweep(w)
        PROVE  Outcome!Next \/ UNCHANGED Outcome!outcomeVars
    <2> DEFINE j == worker[w].job
    <2>1. j \in Jobs /\ image[j] = "deleted"
      BY <1>7 DEF Sweep, Consistent, Active, WorkerKnows, RowAgrees
    <2>2. /\ UNCHANGED <<image, billed>>
          /\ files'[j] \subseteq files[j] /\ \A k \in Jobs \ {j} : files'[k] = files[k]
      BY <1>7, <2>1 DEF Sweep, TypeOK, domainVars
    <2> QED
      BY <1>6, <2>1, <2>2
  <1>8. ASSUME NEW j \in Jobs, StorageDelete(j)
        PROVE  Outcome!Next \/ UNCHANGED Outcome!outcomeVars
    <2>1. image[j] = "deleted"
      <3>1. doomed[j] # {} /\ Unsettled(j) /\ ImageAgrees(j) /\ RowAgrees(j)
        BY <1>8 DEF StorageDelete, Consistent
      <3> QED
        BY <1>1, <3>1 DEF ImageAgrees, Unsettled, RowAgrees, Terminal
    <2>2. /\ UNCHANGED <<image, billed>>
          /\ files'[j] \subseteq files[j] /\ \A k \in Jobs \ {j} : files'[k] = files[k]
      BY <1>8 DEF StorageDelete, TypeOK
    <2> QED
      BY <1>6, <2>1, <2>2
  <1>9. ASSUME NEW j \in Jobs, DeleteImage(j)
        PROVE  Outcome!Next
    <2>1. image[j] = "completed" /\ row[j].status = "completed" /\ billed[j] = 1
      BY <1>9 DEF DeleteImage, Consistent, ImageAgrees
    <2>2. /\ image' = [image EXCEPT ![j] = "deleted"]
          /\ billed' = [billed EXCEPT ![j] = billed[j] - 1]
          /\ UNCHANGED <<row, files>>
      BY <1>9 DEF DeleteImage
    <2>3. OutcomeOf(j) = "published" /\ OutcomeOf(j)' = "removed" /\ billed'[j] = 0
      BY <2>1, <2>2, OutcomeValue DEF TypeOK
    <2>4. \A k \in Jobs \ {j} : Seen(k)' = Seen(k)
      BY <2>2, Unseen DEF TypeOK
    <2> QED
      BY <2>2, <2>3, <2>4, OneSeen
  <1>10. ASSUME NEW w \in Workers,
                \/ \E j \in Jobs : Claim(w, j) \/ ClaimExhausted(w, j)
                \/ Stat(w) \/ Render(w) \/ Inspect(w) \/ FencedOut(w) \/ FailFencedOut(w)
                \/ FailRetry(w) \/ CommitOverQuota(w) \/ Extend(w) \/ LeaseLost(w)
                \/ StepError(w) \/ Shutdown(w) \/ Panic(w) \/ PanicUnreleased(w) \/ Crash(w)
         PROVE  UNCHANGED Outcome!outcomeVars
    <2>1. UNCHANGED <<image, billed, files>>
      BY <1>10 DEF Claim, ClaimExhausted, Stat, Render, Inspect, FencedOut, FailFencedOut, FailRetry,
                   CommitOverQuota, Extend, LeaseLost, StepError, Shutdown, Panic, PanicUnreleased,
                   Crash, domainVars
    <2> QED
      BY <1>2, <2>1
  <1>11. ASSUME NEW w \in Workers, Clean(w)
         PROVE  UNCHANGED Outcome!outcomeVars
    <2>1. UNCHANGED <<image, billed>>
      BY <1>11 DEF Clean, domainVars
    <2>2. \A k \in Jobs : ("target" \in files[k])' = ("target" \in files[k])
      BY <1>11 DEF Clean, TypeOK
    <2> QED
      BY <1>2, <2>1, <2>2
  <1>12. ASSUME \/ \E j \in Jobs : LeaseExpires(j) \/ Stall(j) \/ BackoffElapses(j)
                \/ \E g \in ghosts : GhostExtend(g[1], g[2]) \/ GhostStop(g[1], g[2]) \/ GhostDies(g[1], g[2])
                \/ UNCHANGED vars
         PROVE  UNCHANGED Outcome!outcomeVars
    <2>1. UNCHANGED <<image, billed, files>>
      BY <1>12 DEF LeaseExpires, Stall, BackoffElapses, GhostExtend, GhostStop, GhostDies, vars, domainVars
    <2> QED
      BY <1>2, <2>1
  <1> QED
    BY <1>3, <1>4, <1>5, <1>7, <1>8, <1>9, <1>10, <1>11, <1>12
       DEF Next, WorkerStep, Progress, Interruption, JobStep, Ghost

\* Workers with leases, retries, crashes and stalls implement the one-step outcome
\* the rest of the system relies on.
THEOREM PublishRefinesOutcome == Spec => ImplementsOutcome
  <1>1. IInv /\ [Next]_vars => [Outcome!Next]_Outcome!outcomeVars
    BY NextIInv, OutcomeStep
  <1> QED
    BY <1>1, InductiveInvariant, InitOutcome, PTL DEF Spec, ImplementsOutcome, Outcome!Spec

-----------------------------------------------------------------------------
(* Leases and the retry budget.                                            *)

\* What a row says about its lease.
LeaseOf(r) == <<r.status, r.token, r.attempts>>

\* What a worker knows of its lease.
ClaimOf(a) == <<a.job, a.token, a.attempts>>

\* A step that claims nothing: rows keep their lease or end it, workers keep their
\* claim or forget it, and none turns exhausted.
LEMMA UnclaimedStep ==
  ASSUME IInv, TokensFresh, HolderCounts, nextToken' = nextToken,
         \A k \in Jobs : \/ LeaseOf(row'[k]) = LeaseOf(row[k])
                         \/ row'[k].status # "running" /\ row'[k].token = 0,
         \A v \in Workers : \/ worker'[v].pc = "idle"
                            \/ /\ Active(v) /\ ClaimOf(worker'[v]) = ClaimOf(worker[v])
                               /\ worker'[v].cause \in {worker[v].cause, "error", "quota"}
  PROVE  TokensFresh' /\ HolderCounts'
  <1>1. \A v \in Workers : Active(v)' =>
          /\ Active(v)
          /\ worker'[v].job = worker[v].job /\ worker'[v].token = worker[v].token
          /\ worker'[v].attempts = worker[v].attempts
          /\ worker'[v].cause = "exhausted" => worker[v].cause = "exhausted"
    BY DEF ClaimOf, Active
  <1>2. TokensFresh'
    <2>1. \A k \in Jobs : /\ row'[k].token < nextToken'
                          /\ row'[k].status = "running" <=> row'[k].token # 0
      BY DEF TokensFresh, LeaseOf, IInv, TypeOK
    <2> QED
      BY <1>1, <2>1 DEF TokensFresh
  <1>3. HolderCounts'
    <2> SUFFICES ASSUME NEW v \in Workers, Active(v)'
                 PROVE  /\ Holds(v)' => worker'[v].attempts = row'[worker'[v].job].attempts
                        /\ worker'[v].cause = "exhausted" => worker'[v].attempts = MaxAttempts
      BY DEF HolderCounts
    <2>1. worker[v].job \in Jobs
      BY <1>1 DEF IInv, Consistent, WorkerKnows
    <2>2. Holds(v)' => /\ LeaseOf(row'[worker[v].job]) = LeaseOf(row[worker[v].job])
                       /\ Holds(v)
      BY <1>1, <2>1 DEF Holds, LeaseOf, Active
    <2> QED
      BY <1>1, <2>1, <2>2 DEF HolderCounts, LeaseOf
  <1> QED
    BY <1>2, <1>3

\* The row a holder writes is its own.
LEMMA HolderWrites ==
  ASSUME IInv, NEW w \in Workers, Holds(w),
         NEW r \in JobRow, LeaseOf(r) = LeaseOf(row[worker[w].job]) \/ (r.status # "running" /\ r.token = 0),
         row' = [row EXCEPT ![worker[w].job] = r]
  PROVE  /\ \A k \in Jobs : \/ LeaseOf(row'[k]) = LeaseOf(row[k])
                            \/ row'[k].status # "running" /\ row'[k].token = 0
         /\ \A k \in Jobs : row'[k] # row[k] => k = worker[w].job
  BY HolderUnsettled DEF IInv, TypeOK

LEMMA HolderRows ==
  ASSUME IInv, NEW w \in Workers,
         \/ Commit(w) \/ FailRetry(w) \/ FailDead(w) \/ Shutdown(w) \/ Panic(w) \/ Extend(w)
  PROVE  /\ \A k \in Jobs : \/ LeaseOf(row'[k]) = LeaseOf(row[k])
                            \/ row'[k].status # "running" /\ row'[k].token = 0
         /\ \A k \in Jobs : row'[k] # row[k] => Holds(w) /\ k = worker[w].job
  <1> DEFINE j == worker[w].job
  <1>1. {"completed", "dead", "retry"} \subseteq JobStatus
    BY DEF JobStatus
  <1>2. CASE Commit(w)
    <2>1. Holds(w) /\ row[j] \in JobRow /\ row[j].due \in BOOLEAN
      BY <1>2, HolderUnsettled DEF Commit, JobRow
    <2> QED
      BY <1>1, <1>2, <2>1, UnleasedType, HolderWrites DEF Commit
  <1>3. CASE FailRetry(w)
    <2>1. Holds(w) /\ row[j] \in JobRow
      BY <1>3, HolderUnsettled DEF FailRetry
    <2>2. row' = [row EXCEPT ![j] = Unleased(row[j], "retry", FALSE)]
      BY <1>3 DEF FailRetry
    <2>3. /\ Unleased(row[j], "retry", FALSE) \in JobRow
          /\ Unleased(row[j], "retry", FALSE).status # "running"
          /\ Unleased(row[j], "retry", FALSE).token = 0
      BY <1>1, <2>1, UnleasedType
    <2> QED
      BY <2>1, <2>2, <2>3, HolderWrites
  <1>4. CASE FailDead(w)
    <2>1. Holds(w) /\ row[j] \in JobRow
      BY <1>4, HolderUnsettled DEF FailDead
    <2>2. row' = [row EXCEPT ![j] = Unleased(row[j], "dead", FALSE)]
      BY <1>4 DEF FailDead
    <2>3. /\ Unleased(row[j], "dead", FALSE) \in JobRow
          /\ Unleased(row[j], "dead", FALSE).status # "running"
          /\ Unleased(row[j], "dead", FALSE).token = 0
      BY <1>1, <2>1, UnleasedType
    <2> QED
      BY <2>1, <2>2, <2>3, HolderWrites
  <1>5. ASSUME NEW refund \in BOOLEAN, row' = Released(j, w, refund)
        PROVE  /\ \A k \in Jobs : \/ LeaseOf(row'[k]) = LeaseOf(row[k])
                                  \/ row'[k].status # "running" /\ row'[k].token = 0
               /\ \A k \in Jobs : row'[k] # row[k] => Holds(w) /\ k = j
    <2>1. CASE Holds(w)
      <3> DEFINE r == IF refund THEN Refunded(row[j]) ELSE row[j]
      <3>1. r \in JobRow /\ row' = [row EXCEPT ![j] = Unleased(r, "retry", TRUE)]
        BY <1>5, <2>1, HolderUnsettled, RefundedType DEF Released
      <3> HIDE DEF r
      <3>2. /\ Unleased(r, "retry", TRUE) \in JobRow
            /\ Unleased(r, "retry", TRUE).status # "running"
            /\ Unleased(r, "retry", TRUE).token = 0
        BY <1>1, <3>1, UnleasedType
      <3> QED
        BY <2>1, <3>1, <3>2, HolderWrites
    <2>2. CASE ~Holds(w)
      BY <1>5, <2>2 DEF Released
    <2> QED
      BY <2>1, <2>2
  <1>6. CASE Shutdown(w)
    BY <1>5, <1>6 DEF Shutdown
  <1>7. CASE Panic(w)
    BY <1>5, <1>7 DEF Panic
  <1>8. CASE Extend(w)
    <2>1. /\ Holds(w) /\ row[j] \in JobRow /\ "live" \in Leases
          /\ row' = [row EXCEPT ![j] = [row[j] EXCEPT !.lease = "live"]]
      BY <1>8, HolderUnsettled DEF Extend, Leases
    <2>2. /\ [row[j] EXCEPT !.lease = "live"] \in JobRow
          /\ LeaseOf([row[j] EXCEPT !.lease = "live"]) = LeaseOf(row[j])
      BY <2>1 DEF JobRow, LeaseOf
    <2> QED
      BY <2>1, <2>2, HolderWrites
  <1> QED
    BY <1>2, <1>3, <1>4, <1>6, <1>7, <1>8

\* No step of a worker other than a claim gives it another claim.
LEMMA WorkerKeepsClaim ==
  ASSUME IInv, NEW w \in Workers, Active(w),
         \/ Stop(w)
         \/ \E p \in Points : Goto(w, p)
         \/ \E c \in {"error", "quota"} : Abort(w, c)
         \/ Clean(w)
  PROVE  \A v \in Workers : \/ worker'[v].pc = "idle"
                            \/ worker'[v] = worker[v]
                            \/ /\ Active(v) /\ ClaimOf(worker'[v]) = ClaimOf(worker[v])
                               /\ worker'[v].cause \in {worker[v].cause, "error", "quota"}
  <1>1. worker \in [Workers -> Activity] /\ worker[w] \in Activity
    BY DEF IInv, TypeOK
  <1>2. CASE Clean(w)
    <2>1. PICK clean \in BOOLEAN :
            worker' = [worker EXCEPT ![w].pc = "commit", ![w].clean = clean]
      BY <1>2 DEF Clean
    <2> QED
      BY <1>1, <2>1 DEF ClaimOf, Activity
  <1>3. CASE Stop(w)
    BY <1>1, <1>3 DEF Stop, Idle
  <1>4. CASE \E p \in Points : Goto(w, p)
    BY <1>1, <1>4 DEF Goto, ClaimOf, Activity
  <1>5. CASE \E c \in {"error", "quota"} : Abort(w, c)
    BY <1>1, <1>5 DEF Abort, ClaimOf, Activity
  <1> QED
    BY <1>2, <1>3, <1>4, <1>5

\* Steps that claim nothing, with the claims they keep.
LEMMA WorkerUnclaimed ==
  ASSUME IInv, TokensFresh, HolderCounts, NEW w \in Workers, WorkerStep(w),
         ~ \E j \in Jobs : Claim(w, j) \/ ClaimExhausted(w, j)
  PROVE  TokensFresh' /\ HolderCounts'
  <1>1. nextToken' = nextToken /\ Active(w)
    BY DEF WorkerStep, Progress, Interruption, Stat, Render, Promote, Inspect, Clean, Commit, FencedOut,
           FailFencedOut, FailRetry, FailDead, Sweep, CommitOverQuota, Extend, LeaseLost, StepError,
           Shutdown, Panic, PanicUnreleased, Crash, Active, ExecPoints
  <1>2. \A k \in Jobs : \/ LeaseOf(row'[k]) = LeaseOf(row[k])
                        \/ row'[k].status # "running" /\ row'[k].token = 0
    <2>1. CASE UNCHANGED row
      BY <2>1
    <2>2. CASE ~UNCHANGED row
      <3>1. \/ Commit(w) \/ FailRetry(w) \/ FailDead(w) \/ Shutdown(w) \/ Panic(w) \/ Extend(w)
        BY <2>2 DEF WorkerStep, Progress, Interruption, Stat, Render, Promote, Inspect, Clean, FencedOut,
           FailFencedOut, Sweep, CommitOverQuota, LeaseLost, StepError, PanicUnreleased, Crash
      <3> QED
        BY <3>1, HolderRows
    <2> QED
      BY <2>1, <2>2
  <1>3. \/ worker' = worker
        \/ Stop(w)
        \/ \E p \in Points : Goto(w, p)
        \/ \E c \in {"error", "quota"} : Abort(w, c)
        \/ Clean(w)
    <2>1. {"inspect", "render", "promote", "clean", "sweep"} \subseteq Points
      BY DEF Points, ExecPoints
    <2> QED
      BY <2>1 DEF WorkerStep, Progress, Interruption, Stat, Render, Promote, Inspect, Commit, FencedOut,
           FailFencedOut, FailRetry, FailDead, Sweep, CommitOverQuota, Extend, LeaseLost, StepError,
           Shutdown, Panic, PanicUnreleased, Crash
  <1>4. \A v \in Workers : \/ worker'[v].pc = "idle"
                           \/ /\ Active(v) /\ ClaimOf(worker'[v]) = ClaimOf(worker[v])
                              /\ worker'[v].cause \in {worker[v].cause, "error", "quota"}
    BY <1>1, <1>3, WorkerKeepsClaim DEF Active
  <1> QED
    BY <1>1, <1>2, <1>4, UnclaimedStep

LEMMA ClaimedStep ==
  ASSUME IInv, TokensFresh, HolderCounts, NEW w \in Workers, NEW j \in Jobs,
         Claim(w, j) \/ ClaimExhausted(w, j)
  PROVE  TokensFresh' /\ HolderCounts'
  <1> DEFINE n == row'[j].attempts
  <1>1. /\ row'[j].status = "running" /\ row'[j].token = nextToken
        /\ nextToken' = nextToken + 1 /\ nextToken \in Nat \ {0}
        /\ \A k \in Jobs : k # j => \/ row'[k] = row[k]
                                    \/ row'[k].status = "retry" /\ row'[k].token = 0
    <2>1. CASE Claim(w, j)
      BY <2>1, ClaimRows DEF Assign, IInv, TypeOK
    <2>2. CASE ClaimExhausted(w, j)
      <3>1. row[j] \in JobRow /\ row[j].attempts \in 0..MaxAttempts /\ nextToken \in Nat
        BY DEF IInv, TypeOK, JobRow
      <3> QED
        BY <2>2, <3>1, LeasedType DEF ClaimExhausted, Assign, IInv, TypeOK
    <2> QED
      BY <2>1, <2>2
  <1>2. /\ worker'[w].job = j /\ worker'[w].token = nextToken /\ worker'[w].attempts = n
        /\ worker'[w].cause = "exhausted" => n = MaxAttempts
        /\ \A v \in Workers : v # w => worker'[v] = worker[v]
    <2>1. CASE Claim(w, j)
      BY <2>1, ClaimRows DEF Assign, IInv, TypeOK
    <2>2. CASE ClaimExhausted(w, j)
      <3>1. row[j] \in JobRow /\ row[j].attempts \in 0..MaxAttempts /\ nextToken \in Nat
        BY DEF IInv, TypeOK, JobRow
      <3>2. row[j].attempts = MaxAttempts
        BY <2>2, <3>1, PublishAssumption DEF ClaimExhausted, HasAttempts
      <3>3. n = row[j].attempts
        BY <2>2, <3>1, LeasedType DEF ClaimExhausted, IInv, TypeOK
      <3> QED
        BY <2>2, <3>2, <3>3 DEF ClaimExhausted, Assign, IInv, TypeOK
    <2> QED
      BY <2>1, <2>2
  <1>3. \A v \in Workers : v # w /\ Active(v) => /\ worker[v].token \in 1..(nextToken - 1)
                                                 /\ worker[v].job \in Jobs
    BY DEF TokensFresh, IInv, Consistent, WorkerKnows
  <1>4. TokensFresh'
    <2>1. \A k \in Jobs : /\ row'[k].token < nextToken'
                          /\ row'[k].status = "running" <=> row'[k].token # 0
      <3> SUFFICES ASSUME NEW k \in Jobs
                   PROVE  /\ row'[k].token < nextToken'
                          /\ row'[k].status = "running" <=> row'[k].token # 0
        OBVIOUS
      <3>1. /\ row[k].token < nextToken
            /\ row[k].status = "running" <=> row[k].token # 0
            /\ row[k].token \in Nat
        BY DEF TokensFresh, IInv, TypeOK, JobRow
      <3> QED
        BY <1>1, <3>1
    <2>2. \A v \in Workers : Active(v)' => worker'[v].token \in 1..(nextToken' - 1)
      BY <1>1, <1>2, <1>3 DEF Active
    <2>3. \A u, v \in Workers :
            Active(u)' /\ Active(v)' /\ worker'[u].token = worker'[v].token => u = v
      BY <1>1, <1>2, <1>3 DEF Active, TokensFresh
    <2> QED
      BY <2>1, <2>2, <2>3 DEF TokensFresh
  <1>5. HolderCounts'
    <2> SUFFICES ASSUME NEW v \in Workers, Active(v)'
                 PROVE  /\ Holds(v)' => worker'[v].attempts = row'[worker'[v].job].attempts
                        /\ worker'[v].cause = "exhausted" => worker'[v].attempts = MaxAttempts
      BY DEF HolderCounts
    <2>1. CASE v = w
      BY <1>2, <2>1
    <2>2. CASE v # w
      <3>1. /\ worker'[v] = worker[v] /\ Active(v)
            /\ worker[v].token \in 1..(nextToken - 1) /\ worker[v].job \in Jobs
        BY <1>2, <1>3, <2>2 DEF Active
      <3>2. Holds(v)' => row'[worker[v].job] = row[worker[v].job] /\ Holds(v)
        BY <1>1, <3>1 DEF Holds, Active
      <3> QED
        BY <3>1, <3>2 DEF HolderCounts
    <2> QED
      BY <2>1, <2>2
  <1> QED
    BY <1>4, <1>5

LEMMA NextFenced == FencedInv /\ [Next]_vars => FencedInv'
  <1> SUFFICES ASSUME FencedInv, [Next]_vars PROVE FencedInv'
    OBVIOUS
  <1> USE DEF FencedInv
  <1>1. ASSUME NEW w \in Workers, WorkerStep(w) PROVE TokensFresh' /\ HolderCounts'
    BY <1>1, WorkerUnclaimed, ClaimedStep
  <1>2. ASSUME UNCHANGED <<worker, nextToken>>,
               \/ UNCHANGED row
               \/ \E k \in Jobs : \E l \in Leases : row' = [row EXCEPT ![k].lease = l]
               \/ \E k \in Jobs : row' = [row EXCEPT ![k].due = TRUE]
        PROVE  TokensFresh' /\ HolderCounts'
    <2>1. \A k \in Jobs : LeaseOf(row'[k]) = LeaseOf(row[k])
      <3>1. CASE UNCHANGED row
        BY <3>1
      <3>2. CASE \E k \in Jobs : \E l \in Leases : row' = [row EXCEPT ![k].lease = l]
        BY <3>2 DEF LeaseOf, IInv, TypeOK, JobRow
      <3>3. CASE \E k \in Jobs : row' = [row EXCEPT ![k].due = TRUE]
        BY <3>3 DEF LeaseOf, IInv, TypeOK, JobRow
      <3> QED
        BY <1>2, <3>1, <3>2, <3>3
    <2>2. \A v \in Workers : \/ worker'[v].pc = "idle"
                             \/ /\ Active(v) /\ ClaimOf(worker'[v]) = ClaimOf(worker[v])
                                /\ worker'[v].cause \in {worker[v].cause, "error", "quota"}
      BY <1>2 DEF Active
    <2> QED
      BY <1>2, <2>1, <2>2, UnclaimedStep
  <1>3. ASSUME NEW j \in Jobs, JobStep(j) PROVE TokensFresh' /\ HolderCounts'
    <2>1. "expired" \in Leases
      BY DEF Leases
    <2> QED
      BY <1>2, <1>3, <2>1 DEF JobStep, LeaseExpires, Stall, BackoffElapses, DeleteImage, StorageDelete
  <1>4. ASSUME NEW g \in ghosts,
               GhostExtend(g[1], g[2]) \/ GhostStop(g[1], g[2]) \/ GhostDies(g[1], g[2])
        PROVE  TokensFresh' /\ HolderCounts'
    <2>1. "live" \in Leases /\ g[1] \in Jobs
      BY DEF Leases, IInv, TypeOK
    <2> QED
      BY <1>2, <1>4, <2>1 DEF GhostExtend, GhostStop, GhostDies
  <1>5. ASSUME UNCHANGED vars PROVE TokensFresh' /\ HolderCounts'
    BY <1>2, <1>5 DEF vars
  <1>6. TokensFresh' /\ HolderCounts'
    BY <1>1, <1>3, <1>4, <1>5 DEF Next, Ghost
  <1> QED
    BY <1>6, NextIInv

LEMMA InitFenced == Init => FencedInv
  <1> SUFFICES ASSUME Init PROVE FencedInv
    OBVIOUS
  <1>1. TokensFresh /\ HolderCounts
    BY FreshRowsType DEF Init, TokensFresh, HolderCounts, Active, Idle
  <1> QED
    BY <1>1, InitIInv DEF FencedInv

\* Tokens are unique, and a holder knows its row's attempts, in every reachable state.
THEOREM FencedInvariant == Spec => []FencedInv
  BY InitFenced, NextFenced, PTL DEF Spec

\* A job dies only in FailDead, by the hand of its holder.
LEMMA DeathHasACause ==
  ASSUME FencedInv, [Next]_vars, NEW j \in Jobs, row[j].status # "dead", row'[j].status = "dead"
  PROVE  \/ row[j].attempts = MaxAttempts
         \/ \E w \in Workers : worker[w].job = j /\ worker[w].cause = "quota"
  <1> USE DEF FencedInv
  <1>1. PICK w \in Workers : FailDead(w) /\ worker[w].job = j
    <2>1. ASSUME NEW w \in Workers, WorkerStep(w), ~FailDead(w) PROVE FALSE
      <3>1. ~ \E k \in Jobs : Claim(w, k) \/ ClaimExhausted(w, k)
        <4>1. ASSUME NEW k \in Jobs, Claim(w, k) PROVE FALSE
          BY <4>1, ClaimRows DEF IInv
        <4>2. ASSUME NEW k \in Jobs, ClaimExhausted(w, k) PROVE FALSE
          BY <4>2 DEF ClaimExhausted, Leased, IInv, TypeOK, JobRow
        <4> QED
          BY <4>1, <4>2
      <3>2. row' # row
        OBVIOUS
      <3>3. \/ Commit(w) \/ FailRetry(w) \/ Shutdown(w) \/ Panic(w) \/ Extend(w)
        BY <2>1, <3>1, <3>2 DEF WorkerStep, Progress, Interruption, Stat, Render, Promote, Inspect, Clean,
           FencedOut, FailFencedOut, Sweep, CommitOverQuota, LeaseLost, StepError, PanicUnreleased, Crash
      <3>4. Holds(w) /\ j = worker[w].job
        BY <3>3, HolderRows
      <3>5. row[j] \in JobRow /\ j \in Jobs
        BY DEF IInv, TypeOK
      <3>6. CASE Commit(w)
        BY <3>4, <3>5, <3>6 DEF Commit, Unleased, IInv, TypeOK, JobRow
      <3>7. CASE FailRetry(w)
        BY <3>4, <3>5, <3>7 DEF FailRetry, Unleased, IInv, TypeOK, JobRow
      <3>8. CASE Shutdown(w) \/ Panic(w)
        <4>1. PICK refund \in BOOLEAN : row' = Released(j, w, refund)
          BY <3>4, <3>8 DEF Shutdown, Panic
        <4>2. PICK r \in JobRow : row' = [row EXCEPT ![j] = Unleased(r, "retry", TRUE)]
          BY <3>4, <3>5, <4>1, RefundedType DEF Released
        <4>3. Unleased(r, "retry", TRUE).status = "retry"
          BY UnleasedType DEF JobStatus
        <4> QED
          BY <3>5, <4>2, <4>3 DEF IInv, TypeOK
      <3>9. CASE Extend(w)
        BY <3>4, <3>5, <3>9 DEF Extend, IInv, TypeOK, JobRow
      <3> QED
        BY <3>3, <3>6, <3>7, <3>8, <3>9
    <2>2. ASSUME NEW k \in Jobs, JobStep(k) PROVE FALSE
      <3>1. CASE LeaseExpires(k) \/ Stall(k)
        BY <3>1 DEF LeaseExpires, Stall, IInv, TypeOK, JobRow
      <3>2. CASE BackoffElapses(k)
        BY <3>2 DEF BackoffElapses, IInv, TypeOK, JobRow
      <3>3. CASE DeleteImage(k) \/ StorageDelete(k)
        BY <3>3 DEF DeleteImage, StorageDelete
      <3> QED
        BY <2>2, <3>1, <3>2, <3>3 DEF JobStep
    <2>3. ASSUME NEW g \in ghosts,
                 GhostExtend(g[1], g[2]) \/ GhostStop(g[1], g[2]) \/ GhostDies(g[1], g[2])
          PROVE  FALSE
      <3>1. g[1] \in Jobs
        BY DEF IInv, TypeOK
      <3> QED
        <4>1. CASE GhostExtend(g[1], g[2])
          BY <3>1, <4>1 DEF GhostExtend, IInv, TypeOK, JobRow
        <4>2. CASE GhostStop(g[1], g[2]) \/ GhostDies(g[1], g[2])
          BY <4>2 DEF GhostStop, GhostDies
        <4> QED
          BY <2>3, <4>1, <4>2
    <2>4. PICK w \in Workers : FailDead(w)
      BY <2>1, <2>2, <2>3 DEF Next, Ghost, vars
    <2>5. worker[w].job = j
      BY <2>4, HolderRows
    <2> QED
      BY <2>4, <2>5
  <1>2. Holds(w) /\ Active(w) /\ MustDie(w) /\ worker[w].attempts = row[j].attempts
    BY <1>1, HolderUnsettled DEF FailDead, HolderCounts
  <1>3. row[j].attempts \in 0..MaxAttempts
    BY DEF IInv, TypeOK, JobRow
  <1> QED
    BY <1>1, <1>2, <1>3, PublishAssumption DEF MustDie

\* Neither a crash, nor a shutdown, nor a stale worker shortens a job's retry budget.
THEOREM NoEarlyDeath == Spec => KilledForCause
  <1>1. FencedInv /\ [Next]_vars =>
          [\A j \in Jobs :
             row[j].status # "dead" /\ row'[j].status = "dead"
               => \/ row[j].attempts = MaxAttempts
                  \/ \E w \in Workers : worker[w].job = j /\ worker[w].cause = "quota"]_vars
    BY DeathHasACause
  <1> QED
    BY <1>1, FencedInvariant, PTL DEF Spec, KilledForCause

\* A live lease changes hands only by a step of its holder.
LEMMA LeaseEndsByHolder ==
  ASSUME IInv, [Next]_vars, NEW j \in Jobs,
         row[j].status = "running", row[j].lease = "live", row'[j].token # row[j].token
  PROVE  \E w \in Workers : /\ worker[w].job = j
                            /\ worker[w].token = row[j].token
                            /\ worker'[w] # worker[w]
  <1>1. ASSUME NEW w \in Workers, WorkerStep(w)
        PROVE  \/ Commit(w) \/ FailRetry(w) \/ FailDead(w) \/ Shutdown(w) \/ Panic(w)
    <2>1. ASSUME NEW k \in Jobs, Claim(w, k) PROVE FALSE
      <3>1. PICK r \in JobRow : r = row[k]
        BY DEF IInv, TypeOK
      <3>2. k # j
        BY <2>1, HolderUnsettled DEF Claim, Waiting, Abandoned, Unleased
      <3> QED
        BY <2>1, <3>2, ClaimRows DEF IInv
    <2>2. ASSUME NEW k \in Jobs, ClaimExhausted(w, k) PROVE FALSE
      BY <2>2 DEF ClaimExhausted, Abandoned, Waiting, IInv, TypeOK
    <2>3. ~Extend(w)
      BY DEF Extend, IInv, TypeOK, JobRow
    <2> QED
      BY <1>1, <2>1, <2>2, <2>3 DEF WorkerStep, Progress, Interruption, Stat, Render, Promote, Inspect, Clean,
           FencedOut, FailFencedOut, Sweep, CommitOverQuota, LeaseLost, StepError, PanicUnreleased, Crash
  <1>2. ASSUME NEW k \in Jobs, JobStep(k) PROVE FALSE
    BY <1>2 DEF JobStep, LeaseExpires, Stall, BackoffElapses, DeleteImage, StorageDelete, IInv, TypeOK, JobRow
  <1>3. ASSUME NEW g \in ghosts,
               GhostExtend(g[1], g[2]) \/ GhostStop(g[1], g[2]) \/ GhostDies(g[1], g[2])
        PROVE  FALSE
    <2>1. g[1] \in Jobs
      BY DEF IInv, TypeOK
    <2> QED
      BY <1>3, <2>1 DEF GhostExtend, GhostStop, GhostDies, IInv, TypeOK, JobRow
  <1>4. PICK w \in Workers : \/ Commit(w) \/ FailRetry(w) \/ FailDead(w) \/ Shutdown(w) \/ Panic(w)
    BY <1>1, <1>2, <1>3 DEF Next, Ghost, vars
  <1>5. Holds(w) /\ worker[w].job = j
    BY <1>4, HolderRows
  <1>6. worker'[w] # worker[w]
    <2>1. worker[w] \in Activity /\ worker \in [Workers -> Activity]
      BY DEF IInv, TypeOK
    <2>2. worker[w].pc # "idle"
      BY <1>5 DEF Holds
    <2>3. CASE Stop(w)
      BY <2>1, <2>2, <2>3 DEF Stop, Idle
    <2>4. CASE FailDead(w)
      BY <2>1, <2>4 DEF FailDead, Goto, Activity
    <2> QED
      BY <1>4, <2>3, <2>4 DEF Commit, FailRetry, Shutdown, Panic
  <1> QED
    BY <1>5, <1>6 DEF Holds

\* Not another claim, a late failure or the release of an older execution: only its
\* holder ends a live lease.
THEOREM LeasesAreRespected == Spec => LeaseRespected
  <1>1. IInv /\ [Next]_vars =>
          [\A j \in Jobs :
             row[j].status = "running" /\ row[j].lease = "live" /\ row'[j].token # row[j].token
               => \E w \in Workers : /\ worker[w].job = j
                                     /\ worker[w].token = row[j].token
                                     /\ worker'[w] # worker[w]]_vars
    BY LeaseEndsByHolder
  <1> QED
    BY <1>1, InductiveInvariant, PTL DEF Spec, LeaseRespected

-----------------------------------------------------------------------------
(* The retry budget: a row's attempts, but for the current one, were paid for *)
(* by faults.                                                                *)

LEMMA HolderUnique ==
  ASSUME FencedInv, NEW u \in Workers, NEW v \in Workers, Holds(u), Holds(v),
         worker[u].job = worker[v].job
  PROVE  u = v
  BY HolderUnsettled DEF FencedInv, TokensFresh, Holds

\* The step of a worker is its own.
LEMMA OthersStay ==
  ASSUME TypeOK, NEW w \in Workers, WorkerStep(w), NEW v \in Workers, v # w
  PROVE  worker'[v] = worker[v]
  <1>1. worker \in [Workers -> Activity]
    BY DEF TypeOK
  <1>2. CASE \E j \in Jobs : Claim(w, j) \/ ClaimExhausted(w, j)
    BY <1>1, <1>2 DEF Claim, ClaimExhausted, Assign
  <1>3. CASE Stat(w) \/ Render(w) \/ Promote(w) \/ Inspect(w) \/ Clean(w) \/ Commit(w) \/ FencedOut(w)
    BY <1>1, <1>3 DEF Stat, Render, Promote, Inspect, Clean, Commit, FencedOut, Goto, Abort, Stop
  <1>4. CASE FailFencedOut(w) \/ FailRetry(w) \/ FailDead(w) \/ Sweep(w) \/ CommitOverQuota(w)
    BY <1>1, <1>4 DEF FailFencedOut, FailRetry, FailDead, Sweep, CommitOverQuota, Goto, Abort, Stop
  <1>5. CASE Extend(w) \/ LeaseLost(w) \/ Interruption(w)
    BY <1>1, <1>5 DEF Extend, LeaseLost, Interruption, StepError, Shutdown, Panic, PanicUnreleased, Crash,
                      Abort, Stop
  <1> QED
    BY <1>2, <1>3, <1>4, <1>5 DEF WorkerStep, Progress

\* A row keeps its lease, or ends it, or gets a new one.
LEMMA LeasesMove ==
  ASSUME FencedInv, [Next]_vars, NEW k \in Jobs
  PROVE  \/ LeaseOf(row'[k]) = LeaseOf(row[k])
         \/ row'[k].status # "running" /\ row'[k].token = 0
         \/ row'[k].token = nextToken
  <1> USE DEF FencedInv
  <1>1. ASSUME NEW w \in Workers, WorkerStep(w)
        PROVE  \/ LeaseOf(row'[k]) = LeaseOf(row[k])
               \/ row'[k].status # "running" /\ row'[k].token = 0
               \/ row'[k].token = nextToken
    <2>1. ASSUME NEW j \in Jobs, Claim(w, j)
          PROVE  \/ LeaseOf(row'[k]) = LeaseOf(row[k])
                 \/ row'[k].status # "running" /\ row'[k].token = 0
                 \/ row'[k].token = nextToken
      BY <2>1, ClaimRows DEF IInv
    <2>2. ASSUME NEW j \in Jobs, ClaimExhausted(w, j)
          PROVE  LeaseOf(row'[k]) = LeaseOf(row[k]) \/ row'[k].token = nextToken
      <3>1. row[j] \in JobRow /\ row[j].attempts \in 0..MaxAttempts /\ nextToken \in Nat
        BY DEF IInv, TypeOK, JobRow
      <3> QED
        BY <2>2, <3>1, LeasedType DEF ClaimExhausted, IInv, TypeOK
    <2>3. CASE ~ \E j \in Jobs : Claim(w, j) \/ ClaimExhausted(w, j)
      <3>1. CASE UNCHANGED row
        BY <3>1
      <3>2. CASE ~UNCHANGED row
        <4>1. \/ Commit(w) \/ FailRetry(w) \/ FailDead(w) \/ Shutdown(w) \/ Panic(w) \/ Extend(w)
          BY <1>1, <2>3, <3>2 DEF WorkerStep, Progress, Interruption, Stat, Render, Promote, Inspect, Clean,
             FencedOut, FailFencedOut, Sweep, CommitOverQuota, LeaseLost, StepError, PanicUnreleased, Crash
        <4> QED
          BY <4>1, HolderRows
      <3> QED
        BY <3>1, <3>2
    <2> QED
      BY <2>1, <2>2, <2>3
  <1>2. ASSUME NEW j \in Jobs, JobStep(j)  PROVE LeaseOf(row'[k]) = LeaseOf(row[k])
    <2>1. row[j] \in JobRow /\ row \in [Jobs -> JobRow]
      BY DEF IInv, TypeOK
    <2>2. CASE LeaseExpires(j) \/ Stall(j)
      BY <2>1, <2>2 DEF LeaseExpires, Stall, LeaseOf, JobRow
    <2>3. CASE BackoffElapses(j)
      BY <2>1, <2>3 DEF BackoffElapses, LeaseOf, JobRow
    <2>4. CASE DeleteImage(j) \/ StorageDelete(j)
      BY <2>4 DEF DeleteImage, StorageDelete
    <2> QED
      BY <1>2, <2>2, <2>3, <2>4 DEF JobStep
  <1>3. ASSUME NEW g \in ghosts,
               GhostExtend(g[1], g[2]) \/ GhostStop(g[1], g[2]) \/ GhostDies(g[1], g[2])
        PROVE  LeaseOf(row'[k]) = LeaseOf(row[k])
    <2>1. g[1] \in Jobs
      BY DEF IInv, TypeOK
    <2> QED
      BY <1>3, <2>1 DEF GhostExtend, GhostStop, GhostDies, LeaseOf, IInv, TypeOK, JobRow
  <1> QED
    BY <1>1, <1>2, <1>3 DEF Next, Ghost, vars

\* A worker that holds the lease after a step which gave it none held it before.
LEMMA HeldBefore ==
  ASSUME FencedInv, [Next]_vars, NEW v \in Workers, Active(v), Active(v)', Holds(v)',
         worker'[v].job = worker[v].job, worker'[v].token = worker[v].token
  PROVE  Holds(v)
  <1>1. worker[v].job \in Jobs /\ worker[v].token \in 1..(nextToken - 1) /\ nextToken \in Nat
    BY DEF FencedInv, TokensFresh, IInv, Consistent, WorkerKnows, TypeOK
  <1>2. /\ row'[worker[v].job].status = "running" /\ row'[worker[v].job].token = worker[v].token
    BY DEF Holds
  <1>3. LeaseOf(row'[worker[v].job]) = LeaseOf(row[worker[v].job])
    BY <1>1, <1>2, LeasesMove
  <1> QED
    BY <1>2, <1>3 DEF Holds, LeaseOf, Active

\* A target is removed only when its job is settled, and made only by the holder.
LEMMA TargetStays ==
  ASSUME FencedInv, [Next]_vars, NEW j \in Jobs
  PROVE  /\ "target" \in files[j] \/ Terminal(j) => ("target" \in files[j] \/ Terminal(j))'
         /\ "target" \notin files[j] /\ "target" \in files'[j]
              => \E w \in Workers : worker[w].job = j /\ Holds(w) /\ Promote(w)
  <1> USE DEF FencedInv
  <1>1. Terminal(j) => Terminal(j)'
    BY SettledStays DEF Terminal
  <1>2. CASE UNCHANGED files
    BY <1>1, <1>2 DEF Terminal
  <1>3. CASE ~UNCHANGED files
    <2>1. \/ \E w \in Workers : Promote(w) \/ Clean(w) \/ Sweep(w)
          \/ \E k \in Jobs : StorageDelete(k)
      BY <1>3 DEF Next, WorkerStep, Progress, Interruption, JobStep, Ghost, vars, Claim, ClaimExhausted, Stat,
         Render, Inspect, Commit, FencedOut, FailFencedOut, FailRetry, FailDead, CommitOverQuota, Extend,
         LeaseLost, StepError, Shutdown, Panic, PanicUnreleased, Crash, LeaseExpires, Stall, BackoffElapses,
         DeleteImage, GhostExtend, GhostStop, GhostDies
    <2>2. ASSUME NEW w \in Workers, Promote(w)
          PROVE  /\ "target" \in files[j] => "target" \in files'[j]
                 /\ "target" \notin files[j] /\ "target" \in files'[j] => worker[w].job = j /\ Holds(w)
      BY <2>2 DEF Promote, IInv, TypeOK
    <2>3. ASSUME NEW w \in Workers, Clean(w)
          PROVE  "target" \in files[j] <=> "target" \in files'[j]
      BY <2>3 DEF Clean, IInv, TypeOK
    <2>4. ASSUME NEW w \in Workers, Sweep(w)
          PROVE  /\ files'[j] \subseteq files[j]
                 /\ "target" \in files[j] => "target" \in files'[j] \/ Terminal(j)
      BY <2>4 DEF Sweep, IInv, TypeOK, Consistent, WorkerKnows, Active, Terminal
    <2>5. ASSUME NEW k \in Jobs, StorageDelete(k)
          PROVE  /\ files'[j] \subseteq files[j]
                 /\ "target" \in files[j] => "target" \in files'[j] \/ Terminal(j)
      <3>1. Terminal(k)
        BY <2>5 DEF StorageDelete, IInv, Consistent, Unsettled
      <3>2. files \in [Jobs -> SUBSET Paths]
        BY DEF IInv, TypeOK
      <3> QED
        BY <2>5, <3>1, <3>2 DEF StorageDelete
    <2> QED
      BY <1>1, <2>1, <2>2, <2>3, <2>4, <2>5 DEF Terminal
  <1> QED
    BY <1>2, <1>3

\* What a worker that goes on or fails knows: the holder never fails by itself.
LEMMA ExecutesStays ==
  ASSUME BudgetInv, [Next]_vars, NEW v \in Workers, Active(v)'
  PROVE  Executes(v)'
  <1> USE DEF BudgetInv
  <1>1. worker \in [Workers -> Activity] /\ worker[v] \in Activity /\ IInv
    BY DEF FencedInv, IInv, TypeOK
  <1>2. CASE worker'[v] = worker[v]
    <2>0. PICK j : j = worker[v].job
      OBVIOUS
    <2>1. Active(v) /\ Executes(v) /\ j \in Jobs
      BY <1>2, <2>0 DEF Active, FencedInv, IInv, Consistent, WorkerKnows
    <2>2. worker[v].pc = "inspect" => ("target" \in files[j] \/ Terminal(j))'
      BY <2>0, <2>1, TargetStays DEF Executes
    <2>3. ASSUME worker[v].pc = "render", Holds(v)', "target" \in files'[j]  PROVE FALSE
      <3>1. Holds(v)
        BY <1>2, <2>1, <2>3, HeldBefore
      <3>2. "target" \notin files[j]
        BY <2>0, <2>1, <2>3, <3>1 DEF Executes
      <3>3. PICK w \in Workers : worker[w].job = j /\ Holds(w) /\ Promote(w)
        BY <2>1, <2>3, <3>2, TargetStays
      <3>4. w = v
        BY <2>0, <3>1, <3>3, HolderUnique
      <3> QED
        BY <2>3, <3>3, <3>4 DEF Promote
    <2> QED
      BY <1>2, <2>0, <2>1, <2>2, <2>3 DEF Executes, Terminal
  <1>3. CASE worker'[v] # worker[v]
    <2>1. WorkerStep(v)
      <3>1. \A w \in Workers : WorkerStep(w) => w = v
        BY <1>1, <1>3, OthersStay DEF IInv
      <3>2. ~ \E k \in Jobs : JobStep(k)
        BY <1>3 DEF JobStep, LeaseExpires, Stall, BackoffElapses, DeleteImage, StorageDelete
      <3>3. ~ (Ghost \/ \E g \in ghosts : GhostDies(g[1], g[2]))
        BY <1>3 DEF Ghost, GhostExtend, GhostStop, GhostDies
      <3>4. ~ UNCHANGED vars
        BY <1>3 DEF vars
      <3> QED
        BY <3>1, <3>2, <3>3, <3>4 DEF Next
    <2>2. worker'[v].pc \notin ExecPoints => Executes(v)'
      BY DEF Executes, ExecPoints
    <2>3. Active(v) => Executes(v)
      OBVIOUS
    <2>4. ASSUME NEW j \in Jobs, Claim(v, j) \/ ClaimExhausted(v, j)  PROVE Executes(v)'
      <3>1. Claim(v, j) => Assign(v, j, "start", "none", row[j].attempts + 1)
        BY <1>1, ClaimRows DEF IInv
      <3>2. Claim(v, j) => worker'[v].pc = "start" /\ worker'[v].cause = "none"
        BY <1>1, <3>1 DEF Assign
      <3>3. ClaimExhausted(v, j) => worker'[v].pc = "fail"
        BY <1>1 DEF ClaimExhausted, Assign
      <3> QED
        BY <2>2, <2>4, <3>2, <3>3 DEF Executes, ExecPoints
    <2>5. CASE Stat(v)
      <3>1. /\ UNCHANGED <<row, files>> /\ worker[v].pc = "start" /\ Active(v)
            /\ worker'[v].job = worker[v].job /\ worker'[v].cause = worker[v].cause
            /\ worker'[v].pc = IF "target" \in files[worker[v].job] THEN "inspect"
                               ELSE IF Watermarked(worker[v].job) THEN "render" ELSE "promote"
        BY <1>1, <2>5 DEF Stat, Goto, Activity, Active
      <3>2. worker[v].cause = "none"
        BY <2>3, <3>1 DEF Executes, ExecPoints
      <3>3. CASE "target" \in files[worker[v].job]
        BY <3>1, <3>2, <3>3 DEF Executes
      <3>4. CASE "target" \notin files[worker[v].job]
        BY <3>1, <3>2, <3>4 DEF Executes
      <3> QED
        BY <3>3, <3>4
    <2>6. CASE Render(v) \/ Inspect(v)
      <3>1. /\ Active(v) /\ worker[v].pc \in ExecPoints
            /\ worker'[v].pc \in {"promote", "clean", "fail"}
            /\ worker'[v].pc # "fail" => worker'[v].cause = worker[v].cause
        BY <1>1, <2>6 DEF Render, Inspect, Goto, Abort, Activity, Active, ExecPoints
      <3> QED
        BY <2>2, <2>3, <3>1 DEF Executes, ExecPoints
    <2>7. CASE Promote(v)
      <3>1. /\ Active(v) /\ worker[v].pc \in ExecPoints /\ worker'[v].pc = "inspect"
            /\ worker'[v].cause = worker[v].cause /\ worker'[v].job = worker[v].job
        BY <1>1, <2>7 DEF Promote, Goto, Activity, Active, ExecPoints
      <3>2. "target" \in files'[worker[v].job]
        BY <1>1, <2>7 DEF Promote, IInv, TypeOK, Consistent, WorkerKnows, Active
      <3> QED
        BY <2>3, <3>1, <3>2 DEF Executes
    <2>8. CASE Clean(v)
      <3>1. /\ Active(v) /\ worker[v].pc \in ExecPoints /\ worker'[v].pc = "commit"
            /\ worker'[v].cause = worker[v].cause
        BY <1>1, <2>8 DEF Clean, Activity, Active, ExecPoints
      <3> QED
        BY <2>3, <3>1 DEF Executes
    <2>9. CASE FencedOut(v) \/ CommitOverQuota(v) \/ StepError(v) \/ FailDead(v)
      <3>1. worker'[v].pc \in {"fail", "sweep"}
        <4>1. CASE FencedOut(v) \/ CommitOverQuota(v) \/ StepError(v)
          <5>1. Abort(v, "error") \/ Abort(v, "quota")
            BY <4>1 DEF FencedOut, CommitOverQuota, StepError
          <5> QED
            BY <1>1, <5>1 DEF Abort, Activity
        <4>2. CASE FailDead(v)
          <5>1. Goto(v, "sweep")
            BY <4>2 DEF FailDead
          <5> QED
            BY <1>1, <5>1 DEF Goto, Activity
        <4> QED
          BY <2>9, <4>1, <4>2
      <3> QED
        BY <2>2, <3>1 DEF ExecPoints
    <2>10. CASE \/ Commit(v) \/ FailFencedOut(v) \/ FailRetry(v) \/ Sweep(v) \/ Shutdown(v) \/ Panic(v)
                \/ PanicUnreleased(v) \/ Crash(v)
      <3>1. worker'[v] = Idle
        BY <1>1, <2>10 DEF Commit, FailFencedOut, FailRetry, Sweep, Shutdown, Panic, PanicUnreleased, Crash,
                           Stop
      <3> QED
        BY <3>1 DEF Idle, Active
    <2>11. CASE LeaseLost(v)
      <3>1. worker'[v].pc \in {"idle", "fail"}
        BY <1>1, <2>11 DEF LeaseLost, Abort, Stop, Idle, Activity
      <3> QED
        BY <2>2, <3>1 DEF ExecPoints
    <2>12. ~Extend(v)
      BY <1>3 DEF Extend
    <2> QED
      BY <2>1, <2>4, <2>5, <2>6, <2>7, <2>8, <2>9, <2>10, <2>11, <2>12
         DEF WorkerStep, Progress, Interruption
  <1> QED
    BY <1>2, <1>3

\* A fault pays for the attempt it costs.
LEMMA FaultPays ==
  ASSUME TypeOK, NEW j \in Jobs, PaidFor(j), faults' + lost' = faults + lost + 1,
         faults' + lost' \in Nat, row'[j].attempts = row[j].attempts
  PROVE  PaidFor(j)'
  BY DEF PaidFor, TypeOK, JobRow

LEMMA StillPaid ==
  ASSUME NEW j \in Jobs, PaidFor(j), UNCHANGED <<faults, lost>>,
         row'[j].attempts = row[j].attempts, Terminal(j) => Terminal(j)',
         row'[j].lease = row[j].lease, Charged(j) => Charged(j)'
  PROVE  PaidFor(j)'
  BY DEF PaidFor

\* Who is charged with an attempt is charged until the attempt ends.
LEMMA ChargedStays ==
  ASSUME BudgetInv, NEW w \in Workers, WorkerStep(w), NEW j \in Jobs, UNCHANGED row,
         ~StepError(w), ~Shutdown(w), ~Panic(w), ~PanicUnreleased(w), ~Crash(w), Charged(j)
  PROVE  Charged(j)'
  <1> USE DEF BudgetInv
  <1>1. worker \in [Workers -> Activity] /\ worker[w] \in Activity /\ IInv
    BY DEF FencedInv, IInv, TypeOK
  <1>2. PICK v \in Workers : /\ worker[v].job = j /\ Holds(v)
                             /\ worker[v].pc \in ExecPoints \/ worker[v].cause = "quota"
    BY DEF Charged
  <1>3. CASE v # w
    <2>1. worker'[v] = worker[v]
      BY <1>1, <1>3, OthersStay DEF IInv
    <2> QED
      BY <1>2, <2>1 DEF Charged, Holds
  <1>4. CASE v = w
    <2>1. /\ Holds(w) /\ Active(w) /\ worker[w].job = j /\ row[j].status = "running" /\ ~Terminal(j)
          /\ row[j] \in JobRow
      BY <1>1, <1>2, <1>4, HolderUnsettled
    <2>2. /\ Executes(w) /\ files[j] \cap {"source", "target"} # {}
          /\ worker[w].pc = "sweep" => row[j].status = "dead"
      BY <1>1, <2>1 DEF IInv, Consistent, Unsettled, WorkerKnows
    <2>3. worker[w].pc # "sweep"
      BY <2>1, <2>2
    <2>4. /\ worker'[w].job = j /\ worker'[w].token = worker[w].token
          /\ worker'[w].pc \in ExecPoints \/ (worker'[w].pc = "fail" /\ worker'[w].cause = "quota")
      <3>1. CASE Stat(w)
        BY <1>1, <2>1, <3>1 DEF Stat, Goto, Activity, ExecPoints
      <3>2. CASE Render(w)
        <4>1. "source" \in files[j]
          BY <2>1, <2>2, <3>2 DEF Render, Executes
        <4> QED
          BY <1>1, <2>1, <3>2, <4>1 DEF Render, Goto, Activity, ExecPoints
      <3>3. CASE Inspect(w)
        <4>1. "target" \in files[j]
          BY <2>1, <2>2, <3>3 DEF Inspect, Executes
        <4> QED
          BY <1>1, <2>1, <3>3, <4>1 DEF Inspect, Goto, Activity, ExecPoints
      <3>4. CASE Promote(w) \/ Clean(w)
        BY <1>1, <2>1, <3>4 DEF Promote, Clean, Goto, Activity, ExecPoints
      <3>5. CASE CommitOverQuota(w)
        BY <1>1, <2>1, <3>5 DEF CommitOverQuota, Abort, Activity
      <3>6. ~FencedOut(w) /\ ~FailFencedOut(w) /\ ~LeaseLost(w) /\ ~Sweep(w)
        BY <2>1, <2>3 DEF FencedOut, FailFencedOut, LeaseLost, Sweep
      <3>7. ~Commit(w) /\ ~FailRetry(w) /\ ~FailDead(w)
        <4>1. \A status \in JobStatus, due \in BOOLEAN :
                status # "running" => row # [row EXCEPT ![j] = Unleased(row[j], status, due)]
          BY <1>1, <2>1, UnleasedType DEF IInv, TypeOK
        <4>2. {"completed", "retry", "dead"} \subseteq JobStatus /\ row[j].due \in BOOLEAN
          BY <2>1 DEF JobStatus, JobRow
        <4> QED
          BY <2>1, <4>1, <4>2 DEF Commit, FailRetry, FailDead
      <3>8. ~Extend(w)
        BY <2>1 DEF Extend, IInv, TypeOK, FencedInv, JobRow
      <3>9. ~ \E k \in Jobs : Claim(w, k) \/ ClaimExhausted(w, k)
        BY <2>1 DEF Claim, ClaimExhausted, Active
      <3> QED
        BY <3>1, <3>2, <3>3, <3>4, <3>5, <3>6, <3>7, <3>8, <3>9
           DEF WorkerStep, Progress, Interruption
    <2> QED
      BY <2>1, <2>4 DEF Charged, Holds, ExecPoints
  <1> QED
    BY <1>3, <1>4

\* The attempt of a holder that failed, of one that was claimed only to be killed, and of a
\* lease that ran out has been paid for.
LEMMA HolderPaid ==
  ASSUME BudgetInv, NEW w \in Workers, Holds(w),
         \/ worker[w].pc \notin ExecPoints /\ worker[w].cause # "quota"
         \/ row[worker[w].job].lease # "live"
  PROVE  row[worker[w].job].attempts <= faults + lost
  <1>1. /\ worker[w].job \in Jobs /\ ~Terminal(worker[w].job) /\ PaidFor(worker[w].job)
    BY HolderUnsettled DEF BudgetInv, FencedInv
  <1>2. Charged(worker[w].job) => worker[w].pc \in ExecPoints \/ worker[w].cause = "quota"
    BY HolderUnique DEF Charged, BudgetInv
  <1> QED
    BY <1>1, <1>2 DEF PaidFor

\* What a claim takes has been paid for.
LEMMA ClaimPaid ==
  ASSUME BudgetInv, NEW j \in Jobs, Abandoned(row[j]) \/ row[j].status \in {"queued", "retry"}
  PROVE  row[j].attempts <= faults + lost
  <1>1. PaidFor(j) /\ ~Terminal(j)
    BY DEF BudgetInv, Abandoned, Terminal
  <1>2. Charged(j) => row[j].status = "running"
    BY DEF Charged, Holds
  <1> QED
    BY <1>1, <1>2 DEF PaidFor, Abandoned

LEMMA ClaimBudget ==
  ASSUME BudgetInv, NEW w \in Workers, NEW j \in Jobs, Claim(w, j), NEW k \in Jobs
  PROVE  PaidFor(k)'
  <1> USE DEF BudgetInv
  <1>1. /\ IInv /\ TypeOK /\ PaidFor(k) /\ worker \in [Workers -> Activity] /\ faults \in Nat
        /\ lost \in Nat /\ UNCHANGED <<faults, lost>> /\ worker[w].pc = "idle"
    BY DEF FencedInv, IInv, TypeOK, Claim, boundVars
  <1>2. Assign(w, j, "start", "none", row[j].attempts + 1)
    BY <1>1, ClaimRows
  <1>3. /\ worker'[w].pc = "start" /\ worker'[w].job = j /\ worker'[w].token = nextToken
        /\ \A v \in Workers : v # w => worker'[v] = worker[v]
    BY <1>1, <1>2 DEF Assign
  <1>4. CASE k = j
    <2> DEFINE rows == [i \in Jobs |-> IF Abandoned(row[i]) /\ HasAttempts(row[i])
                                       THEN Unleased(row[i], "retry", TRUE) ELSE row[i]]
    <2>1. /\ Waiting(rows[j])
          /\ row' = [rows EXCEPT ![j] = Leased(rows[j], rows[j].attempts + 1, nextToken)]
      BY DEF Claim
    <2>2. row'[j] = Leased(rows[j], rows[j].attempts + 1, nextToken)
      BY <2>1
    <2>3. rows[j] = row[j] \/ Abandoned(row[j])
      OBVIOUS
    <2> HIDE DEF rows
    <2>4. Abandoned(row[j]) \/ row[j].status \in {"queued", "retry"}
      BY <2>1, <2>3 DEF Waiting
    <2>5. rows[j] \in JobRow
      <3>1. row[j] \in JobRow
        BY <1>1 DEF TypeOK
      <3> QED
        BY <3>1, UnleasedType DEF rows, JobStatus
    <2>6. row'[j].lease = "live" /\ row'[j].status = "running" /\ row'[j].token = nextToken
      BY <2>2, <2>5 DEF Leased, JobRow
    <2>7. Charged(j)'
      BY <1>3, <2>6 DEF Charged, Holds, ExecPoints
    <2>8. row'[j].attempts = row[j].attempts + 1 /\ row[j].attempts \in Nat
      BY <1>1, ClaimRows DEF TypeOK, JobRow
    <2>9. row[j].attempts <= faults + lost
      BY <2>4, ClaimPaid
    <2> QED
      BY <1>1, <1>4, <2>6, <2>7, <2>8, <2>9 DEF PaidFor
  <1>5. CASE k # j
    <2>1. CASE row'[k] = row[k]
      <3>1. Charged(k) => Charged(k)'
        BY <1>1, <1>3, <2>1 DEF Charged, Holds
      <3> QED
        BY <1>1, <2>1, <3>1, StillPaid DEF Terminal
    <2>2. CASE row'[k] # row[k]
      <3>1. /\ row[k].status = "running" /\ row[k].lease # "live"
            /\ row'[k].attempts = row[k].attempts
        BY <1>1, <1>5, <2>2, ClaimRows
      <3>2. row[k].attempts <= faults + lost
        BY <3>1, ClaimPaid DEF Abandoned
      <3> QED
        BY <1>1, <3>1, <3>2 DEF PaidFor
    <2> QED
      BY <2>1, <2>2
  <1> QED
    BY <1>4, <1>5

LEMMA ClaimExhaustedBudget ==
  ASSUME BudgetInv, NEW w \in Workers, NEW j \in Jobs, ClaimExhausted(w, j), NEW k \in Jobs
  PROVE  PaidFor(k)'
  <1> USE DEF BudgetInv
  <1>1. /\ IInv /\ TypeOK /\ PaidFor(k) /\ worker \in [Workers -> Activity] /\ faults \in Nat
        /\ lost \in Nat /\ UNCHANGED <<faults, lost>> /\ worker[w].pc = "idle"
        /\ nextToken \in Nat /\ row[j] \in JobRow /\ row[j].attempts \in 0..MaxAttempts
    BY DEF FencedInv, IInv, TypeOK, ClaimExhausted, boundVars, JobRow
  <1>2. \A v \in Workers : v # w => worker'[v] = worker[v]
    BY <1>1 DEF ClaimExhausted, Assign
  <1>3. row'[j].attempts = row[j].attempts /\ \A i \in Jobs : i # j => row'[i] = row[i]
    BY <1>1, LeasedType DEF ClaimExhausted, TypeOK
  <1>4. CASE k = j
    <2>1. row[j].attempts <= faults + lost
      BY ClaimPaid DEF ClaimExhausted, Waiting
    <2> QED
      BY <1>1, <1>3, <1>4, <2>1 DEF PaidFor
  <1>5. CASE k # j
    <2>1. Charged(k) => Charged(k)'
      BY <1>1, <1>2, <1>3, <1>5 DEF Charged, Holds
    <2> QED
      BY <1>1, <1>3, <1>5, <2>1, StillPaid DEF Terminal
  <1> QED
    BY <1>4, <1>5

\* A holder ends its lease: its own row alone changes.
LEMMA HolderBudget ==
  ASSUME BudgetInv, NEW w \in Workers, WorkerStep(w), UNCHANGED <<faults, lost>>, Holds(w),
         \A k \in Jobs : k # worker[w].job => row'[k] = row[k],
         \/ /\ row'[worker[w].job].status \in {"completed", "dead"}
            /\ row'[worker[w].job].attempts = row[worker[w].job].attempts
         \/ row'[worker[w].job].attempts <= faults + lost,
         NEW k \in Jobs
  PROVE  PaidFor(k)'
  <1> USE DEF BudgetInv
  <1>1. PICK j \in Jobs : j = worker[w].job
    BY HolderUnsettled DEF FencedInv
  <1>2. /\ IInv /\ TypeOK /\ PaidFor(k) /\ PaidFor(j) /\ faults \in Nat /\ lost \in Nat
    BY DEF FencedInv, IInv, TypeOK
  <1>3. CASE k = j
    <2>1. IInv'
      BY <1>2, NextIInv DEF Next
    <2>2. row'[j].attempts \in Nat /\ row[j].attempts \in Nat
      BY <1>2, <2>1 DEF IInv, TypeOK, JobRow
    <2> QED
      BY <1>1, <1>2, <1>3, <2>2 DEF PaidFor, Terminal
  <1>4. CASE k # j
    <2>1. ASSUME NEW v \in Workers, worker[v].job = k  PROVE worker'[v] = worker[v]
      BY <1>1, <1>2, <1>4, <2>1, OthersStay
    <2>2. Charged(k) => Charged(k)'
      BY <1>1, <1>4, <2>1 DEF Charged, Holds
    <2> QED
      BY <1>1, <1>2, <1>4, <2>2, StillPaid DEF Terminal
  <1> QED
    BY <1>3, <1>4

LEMMA WorkerBudget ==
  ASSUME BudgetInv, NEW w \in Workers, WorkerStep(w), NEW k \in Jobs
  PROVE  PaidFor(k)'
  <1> USE DEF BudgetInv
  <1>1. /\ IInv /\ TypeOK /\ PaidFor(k) /\ faults \in Nat /\ lost \in Nat
        /\ row \in [Jobs -> JobRow] /\ \A i \in Jobs : row[i].attempts \in Nat
    BY DEF FencedInv, IInv, TypeOK, JobRow
  <1>2. ASSUME NEW j \in Jobs, Claim(w, j) \/ ClaimExhausted(w, j)  PROVE PaidFor(k)'
    BY <1>2, ClaimBudget, ClaimExhaustedBudget
  <1>3. CASE StepError(w) \/ Crash(w) \/ PanicUnreleased(w)
    <2>1. UNCHANGED row /\ faults' + lost' = faults + lost + 1 /\ faults' + lost' \in Nat
      BY <1>1, <1>3 DEF StepError, Crash, PanicUnreleased, Fault
    <2> QED
      BY <1>1, <2>1, FaultPays
  <1>4. ASSUME NEW refund \in BOOLEAN, row' = Released(worker[w].job, w, refund), Active(w)
        PROVE  /\ ~Holds(w) => UNCHANGED row
               /\ Holds(w) => /\ \A i \in Jobs : i # worker[w].job => row'[i] = row[i]
                              /\ row'[worker[w].job].attempts =
                                   IF refund THEN Refunded(row[worker[w].job]).attempts
                                   ELSE row[worker[w].job].attempts
    <2>1. CASE ~Holds(w)
      BY <1>4, <2>1 DEF Released
    <2>2. CASE Holds(w)
      <3> DEFINE j == worker[w].job
                 r == IF refund THEN Refunded(row[j]) ELSE row[j]
      <3>1. j \in Jobs /\ row[j] \in JobRow
        BY <1>1, <2>2, HolderUnsettled
      <3>2. r \in JobRow /\ row' = [row EXCEPT ![j] = Unleased(r, "retry", TRUE)]
        BY <1>4, <2>2, <3>1, RefundedType DEF Released
      <3>3. r.attempts = IF refund THEN Refunded(row[j]).attempts ELSE row[j].attempts
        OBVIOUS
      <3> HIDE DEF r
      <3>4. Unleased(r, "retry", TRUE).attempts = r.attempts
        BY <3>2, UnleasedType DEF JobStatus
      <3> QED
        BY <1>1, <2>2, <3>1, <3>2, <3>3, <3>4
    <2> QED
      BY <2>1, <2>2
  <1>5. CASE Panic(w)
    <2>1. /\ row' = Released(worker[w].job, w, FALSE) /\ Active(w)
          /\ faults' + lost' = faults + lost + 1 /\ faults' + lost' \in Nat
      BY <1>1, <1>5 DEF Panic, Fault, Active
    <2>2. row'[k].attempts = row[k].attempts
      <3>1. CASE ~Holds(w)
        BY <1>4, <2>1, <3>1
      <3>2. CASE Holds(w)
        BY <1>4, <2>1, <3>2
      <3> QED
        BY <3>1, <3>2
    <2> QED
      BY <1>1, <2>1, <2>2, FaultPays
  <1>6. CASE Shutdown(w)
    <2>1. PICK refund \in BOOLEAN : refund <=> worker[w].cause # "exhausted"
      OBVIOUS
    <2>2. /\ row' = Released(worker[w].job, w, refund) /\ Active(w)
          /\ UNCHANGED <<faults, lost>> /\ Stop(w)
      BY <1>6, <2>1 DEF Shutdown, Active
    <2>3. CASE ~Holds(w)
      <3>1. UNCHANGED row
        BY <1>4, <2>2, <2>3
      <3>2. Charged(k) => Charged(k)'
        BY <1>1, <2>3, <3>1, OthersStay DEF Charged, Holds
      <3> QED
        BY <1>1, <2>2, <3>1, <3>2, StillPaid DEF Terminal
    <2>4. CASE Holds(w)
      <3>1. PICK j \in Jobs : j = worker[w].job
        BY <1>1, <2>4, HolderUnsettled
      <3>2. CASE refund
        <4>1. row'[j].attempts = Refunded(row[j]).attempts
          BY <1>4, <2>2, <2>4, <3>1, <3>2
        <4>2. Refunded(row[j]).attempts = IF row[j].attempts > 0 THEN row[j].attempts - 1 ELSE 0
          BY <1>1 DEF Refunded, JobRow
        <4>3. row[j].attempts <= faults + lost + 1
          BY DEF PaidFor
        <4>4. row'[j].attempts <= faults + lost
          BY <1>1, <4>1, <4>2, <4>3
        <4> QED
          BY <1>4, <2>2, <2>4, <3>1, <4>4, HolderBudget
      <3>3. CASE ~refund
        <4>1. worker[w].cause = "exhausted" /\ worker[w].pc \notin ExecPoints
          BY <2>1, <2>2, <3>3 DEF Executes
        <4>2. row'[j].attempts = row[j].attempts
          BY <1>4, <2>2, <2>4, <3>1, <3>3
        <4>3. row'[j].attempts <= faults + lost
          BY <2>4, <3>1, <4>1, <4>2, HolderPaid
        <4> QED
          BY <1>4, <2>2, <2>4, <3>1, <4>3, HolderBudget
      <3> QED
        BY <3>2, <3>3
    <2> QED
      BY <2>3, <2>4
  <1>7. ASSUME NEW status \in JobStatus, NEW due \in BOOLEAN, Holds(w),
               row' = [row EXCEPT ![worker[w].job] = Unleased(row[worker[w].job], status, due)]
        PROVE  /\ \A i \in Jobs : i # worker[w].job => row'[i] = row[i]
               /\ row'[worker[w].job].attempts = row[worker[w].job].attempts
               /\ row'[worker[w].job].status = status
    BY <1>1, <1>7, HolderUnsettled, UnleasedType
  <1>8. CASE Commit(w) \/ FailDead(w)
    <2>1. PICK status \in {"completed", "dead"}, due \in BOOLEAN :
            row' = [row EXCEPT ![worker[w].job] = Unleased(row[worker[w].job], status, due)]
      <3>1. Commit(w) => row[worker[w].job].due \in BOOLEAN
        BY <1>1, HolderUnsettled DEF Commit, JobRow
      <3> QED
        BY <1>8, <3>1 DEF Commit, FailDead
    <2>2. Holds(w) /\ UNCHANGED <<faults, lost>>
      BY <1>8 DEF Commit, FailDead, boundVars
    <2>3. status \in JobStatus
      BY DEF JobStatus
    <2> QED
      BY <1>7, <2>1, <2>2, <2>3, HolderBudget
  <1>9. CASE FailRetry(w)
    <2>1. /\ row' = [row EXCEPT ![worker[w].job] = Unleased(row[worker[w].job], "retry", FALSE)]
          /\ Holds(w) /\ UNCHANGED <<faults, lost>> /\ worker[w].pc = "fail"
          /\ worker[w].cause # "quota" /\ "retry" \in JobStatus
      BY <1>9 DEF FailRetry, MustDie, boundVars, JobStatus
    <2>2. row'[worker[w].job].attempts <= faults + lost
      BY <1>7, <2>1, HolderPaid DEF ExecPoints
    <2> QED
      BY <1>7, <2>1, <2>2, HolderBudget
  <1>10. CASE Extend(w)
    <2>1. /\ Holds(w) /\ UNCHANGED <<faults, lost>> /\ row[worker[w].job].lease = "expired"
          /\ row' = [row EXCEPT ![worker[w].job].lease = "live"]
          /\ worker[w].job \in Jobs
      BY <1>1, <1>10, HolderUnsettled DEF Extend, boundVars
    <2>2. /\ \A i \in Jobs : i # worker[w].job => row'[i] = row[i]
          /\ row'[worker[w].job].attempts = row[worker[w].job].attempts
      BY <1>1, <2>1 DEF JobRow
    <2>3. row'[worker[w].job].attempts <= faults + lost
      BY <2>1, <2>2, HolderPaid
    <2> QED
      BY <2>1, <2>2, <2>3, HolderBudget
  <1>11. CASE \/ Stat(w) \/ Render(w) \/ Promote(w) \/ Inspect(w) \/ Clean(w) \/ FencedOut(w)
              \/ FailFencedOut(w) \/ Sweep(w) \/ CommitOverQuota(w) \/ LeaseLost(w)
    <2>1. UNCHANGED row /\ UNCHANGED <<faults, lost>>
      BY <1>11 DEF Stat, Render, Promote, Inspect, Clean, FencedOut, FailFencedOut, Sweep, CommitOverQuota,
                   LeaseLost, boundVars
    <2>2. CASE StepError(w) \/ Shutdown(w) \/ Panic(w) \/ PanicUnreleased(w) \/ Crash(w)
      BY <1>3, <1>5, <1>6, <2>2
    <2>3. CASE ~(StepError(w) \/ Shutdown(w) \/ Panic(w) \/ PanicUnreleased(w) \/ Crash(w))
      <3>1. Charged(k) => Charged(k)'
        BY <2>1, <2>3, ChargedStays
      <3> QED
        BY <1>1, <2>1, <3>1, StillPaid DEF Terminal
    <2> QED
      BY <2>2, <2>3
  <1> QED
    BY <1>2, <1>3, <1>5, <1>6, <1>8, <1>9, <1>10, <1>11 DEF WorkerStep, Progress, Interruption

LEMMA OutsideBudget ==
  ASSUME BudgetInv, NEW k \in Jobs,
         \/ \E j \in Jobs : JobStep(j)
         \/ \E g \in ghosts : GhostExtend(g[1], g[2]) \/ GhostStop(g[1], g[2]) \/ GhostDies(g[1], g[2])
         \/ UNCHANGED vars
  PROVE  PaidFor(k)'
  <1> USE DEF BudgetInv
  <1>1. /\ IInv /\ TypeOK /\ PaidFor(k) /\ faults \in Nat /\ lost \in Nat
        /\ row \in [Jobs -> JobRow] /\ \A i \in Jobs : row[i].attempts \in Nat
    BY DEF FencedInv, IInv, TypeOK, JobRow
  <1>2. UNCHANGED worker
    BY DEF JobStep, LeaseExpires, Stall, BackoffElapses, DeleteImage, StorageDelete, GhostExtend, GhostStop,
           GhostDies, vars
  <1>3. ASSUME LeaseOf(row'[k]) = LeaseOf(row[k])  PROVE Charged(k) => Charged(k)'
    BY <1>2, <1>3 DEF Charged, Holds, LeaseOf
  <1>4. ASSUME NEW j \in Jobs, NEW l \in Leases, row' = [row EXCEPT ![j].lease = l]
        PROVE  /\ LeaseOf(row'[k]) = LeaseOf(row[k]) /\ row'[k].attempts = row[k].attempts
               /\ k # j => row'[k] = row[k]
    BY <1>1, <1>4 DEF LeaseOf, JobRow
  <1>5. ASSUME UNCHANGED <<faults, lost>>, row'[k].lease = row[k].lease,
               LeaseOf(row'[k]) = LeaseOf(row[k])
        PROVE  PaidFor(k)'
    <2>1. Terminal(k) => Terminal(k)'
      BY <1>5 DEF LeaseOf, Terminal
    <2>2. row'[k].attempts = row[k].attempts
      BY <1>5 DEF LeaseOf
    <2> QED
      BY <1>1, <1>3, <1>5, <2>1, <2>2, StillPaid
  <1>6. ASSUME NEW j \in Jobs, Stall(j)  PROVE PaidFor(k)'
    <2>1. /\ row' = [row EXCEPT ![j].lease = "expired"] /\ "expired" \in Leases
          /\ faults' + lost' = faults + lost + 1 /\ faults' + lost' \in Nat
      BY <1>1, <1>6 DEF Stall, Fault, Leases
    <2>2. row'[k].attempts = row[k].attempts
      BY <1>4, <2>1
    <2> QED
      BY <1>1, <2>1, <2>2, FaultPays
  <1>7. ASSUME NEW j \in Jobs, LeaseExpires(j)  PROVE PaidFor(k)'
    <2>1. /\ row' = [row EXCEPT ![j].lease = "expired"] /\ "expired" \in Leases
          /\ UNCHANGED <<faults, lost>> /\ ~Held(j) /\ row[j].status = "running"
      BY <1>7 DEF LeaseExpires, Leases, boundVars
    <2>2. /\ LeaseOf(row'[k]) = LeaseOf(row[k]) /\ row'[k].attempts = row[k].attempts
          /\ k # j => row'[k] = row[k]
      BY <1>4, <2>1
    <2>3. CASE k # j
      BY <1>5, <2>1, <2>2, <2>3
    <2>4. CASE k = j
      <3>1. ~Charged(j) /\ ~Terminal(j)
        BY <2>1 DEF Held, Charged, Terminal
      <3> QED
        BY <1>1, <2>1, <2>2, <2>4, <3>1 DEF PaidFor
    <2> QED
      BY <2>3, <2>4
  <1>8. ASSUME NEW j \in Jobs, BackoffElapses(j) \/ DeleteImage(j) \/ StorageDelete(j)
        PROVE  PaidFor(k)'
    <2>1. LeaseOf(row'[k]) = LeaseOf(row[k]) /\ row'[k].lease = row[k].lease
      <3>1. CASE BackoffElapses(j)
        BY <1>1, <3>1 DEF BackoffElapses, LeaseOf, JobRow
      <3>2. CASE DeleteImage(j) \/ StorageDelete(j)
        BY <3>2 DEF DeleteImage, StorageDelete
      <3> QED
        BY <1>8, <3>1, <3>2
    <2>2. UNCHANGED <<faults, lost>>
      BY <1>8 DEF BackoffElapses, DeleteImage, StorageDelete, boundVars
    <2> QED
      BY <1>5, <2>1, <2>2
  <1>9. ASSUME NEW g \in ghosts, GhostExtend(g[1], g[2])  PROVE PaidFor(k)'
    <2>1. /\ g[1] \in Jobs /\ row' = [row EXCEPT ![g[1]].lease = "live"] /\ "live" \in Leases
          /\ UNCHANGED <<faults, lost>> /\ row[g[1]].status = "running" /\ row[g[1]].lease # "live"
      BY <1>1, <1>9 DEF GhostExtend, Leases, boundVars, TypeOK
    <2>2. /\ LeaseOf(row'[k]) = LeaseOf(row[k]) /\ row'[k].attempts = row[k].attempts
          /\ k # g[1] => row'[k] = row[k]
      BY <1>4, <2>1
    <2>3. CASE k # g[1]
      BY <1>5, <2>1, <2>2, <2>3
    <2>4. CASE k = g[1]
      <3>1. row[k].attempts <= faults + lost
        BY <2>1, <2>4, ClaimPaid DEF Abandoned
      <3> QED
        BY <1>1, <2>1, <2>2, <3>1 DEF PaidFor
    <2> QED
      BY <2>3, <2>4
  <1>10. ASSUME NEW g \in ghosts, GhostStop(g[1], g[2])  PROVE PaidFor(k)'
    BY <1>5, <1>10 DEF GhostStop, boundVars
  <1>11. ASSUME NEW g \in ghosts, GhostDies(g[1], g[2])  PROVE PaidFor(k)'
    <2>1. UNCHANGED row /\ faults' + lost' = faults + lost + 1 /\ faults' + lost' \in Nat
      BY <1>1, <1>11 DEF GhostDies, Fault
    <2> QED
      BY <1>1, <2>1, FaultPays
  <1>12. ASSUME UNCHANGED vars  PROVE PaidFor(k)'
    BY <1>5, <1>12 DEF vars, boundVars
  <1> QED
    BY <1>6, <1>7, <1>8, <1>9, <1>10, <1>11, <1>12 DEF JobStep

LEMMA NextBudget == BudgetInv /\ [Next]_vars => BudgetInv'
  <1> SUFFICES ASSUME BudgetInv, [Next]_vars PROVE BudgetInv'
    OBVIOUS
  <1>1. FencedInv'
    BY NextFenced DEF BudgetInv
  <1>2. \A w \in Workers : Active(w)' => Executes(w)'
    BY ExecutesStays
  <1>3. \A k \in Jobs : PaidFor(k)'
    BY WorkerBudget, OutsideBudget DEF Next, Ghost
  <1> QED
    BY <1>1, <1>2, <1>3 DEF BudgetInv

LEMMA InitBudget == Init => BudgetInv
  <1> SUFFICES ASSUME Init PROVE BudgetInv
    OBVIOUS
  <1>1. FencedInv
    BY InitFenced
  <1>2. \A w \in Workers : ~Active(w)
    BY DEF Init, Active, Idle
  <1>3. \A j \in Jobs : row[j].attempts = 0 /\ faults = 0 /\ lost = 0
    <2>1. \A r \in FreshRows : r.attempts = 0
      BY DEF FreshRows
    <2> QED
      BY <2>1 DEF Init
  <1>4. \A j \in Jobs : PaidFor(j)
    <2>1. 0 <= 0 + 0 /\ 0 <= 0 + 0 + 1
      OBVIOUS
    <2> QED
      BY <1>3, <2>1 DEF PaidFor
  <1> QED
    BY <1>1, <1>2, <1>4 DEF BudgetInv

\* Faults pay for attempts, in every reachable state.
THEOREM BudgetInvariant == Spec => []BudgetInv
  BY InitBudget, NextBudget, PTL DEF Spec

\* However often workers are shut down, the attempts on a row never exceed the faults by
\* more than the current one.
THEOREM ShutdownsCostNothing == Spec => []ShutdownsAreFree
  <1>1. BudgetInv => ShutdownsAreFree
    BY DEF BudgetInv, PaidFor, ShutdownsAreFree
  <1> QED
    BY <1>1, BudgetInvariant, PTL

===============================================================================
