---------------------------- MODULE PublishJobInv ----------------------------
(***************************************************************************)
(* The inductive invariant behind the safety properties of PublishJob: one *)
(* group of facts per job, one per worker, and the discipline of tokens.   *)
(***************************************************************************)
EXTENDS PublishJob

Active(w) == worker[w].pc # "idle"

\* An unsettled job still has its half-built image, something to build it from,
\* and nothing of it is queued for deletion.
Unsettled(j) ==
  ~Terminal(j) => /\ image[j] = "processing"
                  /\ doomed[j] = {}
                  /\ files[j] \cap {"source", "target"} # {}

\* What the image row says of the variants, the bill, the files and the job.
ImageAgrees(j) ==
  /\ image[j] = "processing" => /\ row[j].status # "completed"
                                /\ variants[j] = {"fixed", "publish_source"}
                                /\ billed[j] = 0
  /\ image[j] = "completed" => /\ row[j].status = "completed"
                               /\ variants[j] = {"fixed", "publish"}
                               /\ billed[j] = 1
                               /\ doomed[j] = {}
                               /\ "target" \in files[j]
                               /\ "source" \notin files[j]
  /\ image[j] = "deleted" => /\ variants[j] = {}
                             /\ billed[j] = 0
                             /\ files[j] \ {"staging"} \subseteq doomed[j]

\* What the job row says of the session and the completion event.
RowAgrees(j) ==
  /\ row[j].status = "dead" => image[j] = "deleted" /\ session[j] = "failed"
  /\ row[j].status = "completed" => session[j] \in {"completed", "cleanup_pending"}
  /\ announced[j] <=> row[j].status = "completed"

\* What a worker has established on disk before it goes on, holder or not.
WorkerKnows(w) ==
  LET j == worker[w].job
  IN /\ j \in Jobs
     /\ worker[w].pc \in {"clean", "commit"} => "target" \in files[j] \/ Terminal(j)
     /\ worker[w].pc = "commit" => "source" \notin files[j]
     /\ worker[w].pc = "sweep" => row[j].status = "dead"

\* Tokens are never reused, so the token of a running row names one execution.
TokensFresh ==
  /\ \A j \in Jobs : /\ row[j].token < nextToken
                     /\ row[j].status = "running" <=> row[j].token # 0
  /\ \A w \in Workers : Active(w) => worker[w].token \in 1..(nextToken - 1)
  /\ \A v, w \in Workers :
       Active(v) /\ Active(w) /\ worker[v].token = worker[w].token => v = w

\* The holder knows how many attempts its row has used.
HolderCounts ==
  \A w \in Workers :
    /\ Active(w) /\ Holds(w) => worker[w].attempts = row[worker[w].job].attempts
    /\ Active(w) /\ worker[w].cause = "exhausted" => worker[w].attempts = MaxAttempts

Consistent ==
  /\ \A j \in Jobs : Unsettled(j) /\ ImageAgrees(j) /\ RowAgrees(j)
  /\ \A w \in Workers : Active(w) => WorkerKnows(w)

\* The inductive invariant: the durable rows, the files and what each worker has in
\* memory agree at every step of every interleaving.
IInv == TypeOK /\ Consistent

\* The same with the accounting of tokens and attempts, which only the fate of a
\* lease and of the retry budget depend on.
FencedInv == IInv /\ TokensFresh /\ HolderCounts

\* What a worker executes it has not given up. A target that was found stays until the job
\* is settled, and while a worker holds the lease only its own promotion brings one about:
\* so a holder never fails by itself.
Executes(w) ==
  LET j == worker[w].job
  IN /\ worker[w].pc \in ExecPoints => worker[w].cause = "none"
     /\ worker[w].pc = "inspect" => "target" \in files[j] \/ Terminal(j)
     /\ worker[w].pc = "render" /\ Holds(w) => "target" \notin files[j]

\* A worker holds the lease of j and has not failed, but for the owner's quota.
Charged(j) ==
  \E w \in Workers : /\ worker[w].job = j /\ Holds(w)
                     /\ worker[w].pc \in ExecPoints \/ worker[w].cause = "quota"

\* Faults have paid for every attempt on a row, the current one excepted, or, when the job
\* is settled, the last.
PaidFor(j) ==
  /\ row[j].attempts <= faults + lost + 1
  /\ \/ row[j].attempts <= faults + lost
     \/ Terminal(j)
     \/ row[j].lease = "live" /\ Charged(j)

BudgetInv ==
  /\ FencedInv
  /\ \A w \in Workers : Active(w) => Executes(w)
  /\ \A j \in Jobs : PaidFor(j)

=============================================================================
