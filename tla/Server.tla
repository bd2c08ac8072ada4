-------------------------------- MODULE Server --------------------------------
(***************************************************************************)
(* The life of server processes on one database and one Redis: bootstrap,  *)
(* service, and the shutdown that drains the HTTP server, then the workers,*)
(* then closes the pools, each within a time limit. Of the requests those  *)
(* that count a view are followed, with those that issue an access token   *)
(* or change a setting; of the workers the view flusher, which moves       *)
(* counters from Redis to MySQL and is restarted when it panics.           *)
(*                                                                         *)
(* Views of one image are counted, which is not deleted. The Redis client   *)
(* sends a command again when its answer does not come.                     *)
(***************************************************************************)
EXTENDS Migrations

CONSTANTS
  MaxViews,   \* bound: views counted in Redis
  MaxStops    \* bound: signals to stop

ASSUME ServerAssumption ==
  /\ MaxViews \in Nat /\ MaxStops \in Nat
  /\ IsFiniteSet(Processes)

VARIABLES
  handling,   \* handling[p]: a request that will count a view is in flight
  failed,     \* failed[p]: the shutdown of p has met an error it will report
  worker,     \* worker[p]: where the view flusher is, and the views it holds
  seen,       \* views counted in Redis, ever (history)
  cached,     \* the counter views:<id> in Redis
  counted,    \* view_count in MySQL
  spoiled,    \* views were lost with a process, a failed restore or the answer of a
              \* GETDEL, or counted twice by an update that was reported as failed or
              \* an increment that was sent again (history)
  stops       \* bound

views == <<seen, cached, counted, spoiled>>
vars  == <<schema, lock, pc, at, has, faults, handling, failed, worker, views, stops>>

Off      == [at |-> "off", n |-> 0]
Idle     == [at |-> "idle", n |-> 0]
Gone     == [at |-> "gone", n |-> 0]
BackOff  == [at |-> "backoff", n |-> 0]
Holds(p) == worker[p].n

Init ==
  /\ MigrationsInit
  /\ handling = [p \in Processes |-> FALSE]
  /\ failed = [p \in Processes |-> FALSE]
  /\ worker = [p \in Processes |-> Off]
  /\ seen = 0 /\ cached = 0 /\ counted = 0 /\ spoiled = FALSE
  /\ stops = 0

runtime == <<handling, failed, worker, views, stops>>

Serving(p) == pc[p] = "up"

\* Workers and listener start when the bootstrap is done.
StartUp(p) ==
  /\ ReleaseLock(p)
  /\ worker' = [worker EXCEPT ![p] = Idle]
  /\ UNCHANGED <<handling, failed, views, stops>>

-----------------------------------------------------------------------------
(* Requests.                                                               *)

Request(p) ==
  /\ Serving(p) /\ ~ handling[p]
  /\ handling' = [handling EXCEPT ![p] = TRUE]
  /\ UNCHANGED <<schema, lock, pc, at, has, faults, failed, worker, views, stops>>

\* Redis is closed when the wait for the workers is over, MySQL after it.
RedisOpen(p) == pc[p] # "closing"

\* The counter is incremented, and the request answered.
CountView(p) ==
  /\ handling[p] /\ RedisOpen(p)
  /\ seen < MaxViews
  /\ seen' = seen + 1 /\ cached' = cached + 1
  /\ handling' = [handling EXCEPT ![p] = FALSE]
  /\ UNCHANGED <<schema, lock, pc, at, has, faults, failed, worker, counted, spoiled, stops>>

\* The answer of the increment is lost, and it is sent again.
ViewRepeated(p) ==
  /\ handling[p] /\ RedisOpen(p)
  /\ seen < MaxViews
  /\ faults < MaxFaults /\ faults' = faults + 1
  /\ seen' = seen + 1 /\ cached' = cached + 2
  /\ spoiled' = TRUE
  /\ handling' = [handling EXCEPT ![p] = FALSE]
  /\ UNCHANGED <<schema, lock, pc, at, has, failed, worker, counted, stops>>

\* The client has gone, its connection was closed by force, or Redis is closed: the
\* view is not counted, and nobody is told.
ViewDropped(p) ==
  /\ handling[p]
  /\ handling' = [handling EXCEPT ![p] = FALSE]
  /\ UNCHANGED <<schema, lock, pc, at, has, faults, failed, worker, views, stops>>

\* An access token is issued, and an administrator chooses a TTL: two requests that the
\* bootstrap of another process never sees apart.
Write(p) ==
  /\ Serving(p)
  /\ tokens' = tokens \cup {"current"}
  /\ settings' = [settings EXCEPT !.ttl = "chosen"]
  /\ UNCHANGED <<objects, ledger, lock, pc, at, has, faults, runtime>>

-----------------------------------------------------------------------------
(* The view flusher.                                                       *)

Work(p, w) ==
  /\ worker' = [worker EXCEPT ![p] = w]
  /\ UNCHANGED <<schema, lock, pc, at, has, handling, failed, seen, stops>>

Is(p, state) == worker[p].at = state

\* The workers have been told to drain: workerStopping.
Stopping(p) == pc[p] \in {"soft", "hard", "closing"}

\* A flush, by the ticker or the last one, takes the counter out of Redis (GETDEL).
Take(p) ==
  /\ \/ Is(p, "idle") /\ ~ Stopping(p) /\ Work(p, [at |-> "taken", n |-> cached])
     \/ Is(p, "idle") /\ Stopping(p) /\ Work(p, [at |-> "final", n |-> cached])
  /\ RedisOpen(p) /\ cached > 0
  /\ cached' = 0
  /\ UNCHANGED <<counted, spoiled, faults>>

\* A command or a statement has an error: without a fault only when the context of the
\* worker was cancelled.
Trouble(p) ==
  \/ pc[p] = "hard" /\ UNCHANGED faults
  \/ faults < MaxFaults /\ faults' = faults + 1

\* The GETDEL is made and its answer lost. Sent again it finds nothing, which is an error
\* to the flusher, or what was counted since (Take).
TakeLost(p) ==
  /\ Is(p, "idle") /\ RedisOpen(p) /\ cached > 0
  /\ Trouble(p)
  /\ cached' = 0 /\ spoiled' = TRUE
  /\ Work(p, worker[p])
  /\ UNCHANGED counted

\* What is done after the flush: the loop goes on, or the worker returns.
Flushed(p) == IF Is(p, "taken") \/ Is(p, "restore") THEN Idle ELSE Gone

Restoring(p) ==
  [at |-> IF Is(p, "taken") THEN "restore" ELSE "final.restore", n |-> Holds(p)]

Updating(p) == Is(p, "taken") \/ Is(p, "final")

Update(p) ==
  /\ Updating(p)
  /\ counted' = counted + Holds(p)
  /\ Work(p, Flushed(p))
  /\ UNCHANGED <<cached, spoiled, faults>>

\* The update is reported as failed. It may have been made.
UpdateFails(p) ==
  /\ Updating(p)
  /\ Trouble(p)
  /\ \/ counted' = counted /\ spoiled' = spoiled
     \/ counted' = counted + Holds(p) /\ spoiled' = TRUE
  /\ Work(p, Restoring(p))
  /\ UNCHANGED cached

\* Mutation: the counter is set to what was taken.
RestoredBySet(p) == Holds(p)

\* INCRBY.
Restored(p) == cached + Holds(p)

InRestore(p) == Is(p, "restore") \/ Is(p, "final.restore")

Restore(p) ==
  /\ InRestore(p) /\ RedisOpen(p)
  /\ cached' = Restored(p)
  /\ Work(p, Flushed(p))
  /\ UNCHANGED <<counted, spoiled, faults>>

\* Redis does not answer, or is closed.
RestoreFails(p) ==
  /\ InRestore(p)
  /\ \/ ~ RedisOpen(p) /\ UNCHANGED faults
     \/ faults < MaxFaults /\ faults' = faults + 1
  /\ spoiled' = TRUE
  /\ Work(p, Flushed(p))
  /\ UNCHANGED <<cached, counted>>

\* The answer of the INCRBY is lost: an error, or it is sent again.
RestoreUnanswered(p) ==
  /\ InRestore(p) /\ RedisOpen(p)
  /\ faults < MaxFaults /\ faults' = faults + 1
  /\ \/ cached' = Restored(p) /\ spoiled' = spoiled
     \/ cached' = Restored(p) + Holds(p) /\ spoiled' = TRUE
  /\ Work(p, Flushed(p))
  /\ UNCHANGED counted

\* The worker panics; what it held is lost.
Panic(p) ==
  /\ worker[p].at \notin {"off", "gone", "backoff"}
  /\ faults < MaxFaults /\ faults' = faults + 1
  /\ spoiled' = (spoiled \/ Holds(p) > 0)
  /\ Work(p, IF Stopping(p) THEN Gone ELSE BackOff)
  /\ UNCHANGED <<cached, counted>>

\* The supervisor has waited, and starts it again.
Again(p) ==
  /\ Is(p, "backoff") /\ ~ Stopping(p)
  /\ Work(p, Idle)
  /\ UNCHANGED <<cached, counted, spoiled, faults>>

\* It is told to stop, with nothing to flush, while it waits to be started again, or
\* when the last flush has no more time or meets an error before it takes anything.
Return(p) ==
  /\ Is(p, "idle") \/ Is(p, "backoff")
  /\ Stopping(p)
  /\ \/ (Is(p, "backoff") \/ cached = 0 \/ ~ RedisOpen(p)) /\ UNCHANGED faults
     \/ Trouble(p)
  /\ Work(p, Gone)
  /\ UNCHANGED <<cached, counted, spoiled>>

-----------------------------------------------------------------------------
(* The shutdown.                                                           *)

Phase(p, next) ==
  /\ Goto(p, next)
  /\ UNCHANGED <<schema, lock, at, has, faults, handling, worker, views, stops>>

\* A signal: readiness is withdrawn and the listener closed.
Stop(p) ==
  /\ Serving(p)
  /\ stops < MaxStops /\ stops' = stops + 1
  /\ Goto(p, "http")
  /\ UNCHANGED <<schema, lock, at, has, faults, handling, failed, worker, views>>

\* The last request has ended, and the workers are told to drain.
Drained(p) ==
  /\ pc[p] = "http" /\ ~ handling[p]
  /\ Phase(p, "soft")
  /\ UNCHANGED failed

\* 18 seconds have passed: connections are closed, handlers go on.
DrainTimesOut(p) ==
  /\ pc[p] = "http" /\ handling[p]
  /\ Phase(p, "soft")
  /\ failed' = [failed EXCEPT ![p] = TRUE]

\* Mutation: what the wait returned is not looked at.
WorkersDoneAnyhow(p) == TRUE

WorkersDone(p) == Is(p, "gone")

WorkersStop(p) ==
  /\ pc[p] \in {"soft", "hard"} /\ WorkersDone(p)
  /\ Phase(p, "closing")
  /\ UNCHANGED failed

\* 5 seconds have passed: the context of the workers is cancelled.
SoftTimesOut(p) ==
  /\ pc[p] = "soft" /\ ~ WorkersDone(p)
  /\ Phase(p, "hard")
  /\ UNCHANGED failed

\* Another 5 seconds.
HardTimesOut(p) ==
  /\ pc[p] = "hard" /\ ~ WorkersDone(p)
  /\ Phase(p, "closing")
  /\ failed' = [failed EXCEPT ![p] = TRUE]

\* The process ends, with what still runs in it.
Ends(p) ==
  /\ Dies(p)
  /\ handling' = [handling EXCEPT ![p] = FALSE]
  /\ failed' = [failed EXCEPT ![p] = FALSE]
  /\ worker' = [worker EXCEPT ![p] = Off]
  /\ spoiled' = (spoiled \/ Holds(p) > 0)
  /\ UNCHANGED <<seen, cached, counted, stops>>

CloseSQL(p) ==
  /\ pc[p] = "closing"
  /\ Ends(p)
  /\ UNCHANGED faults

Crash(p) ==
  /\ ~ Booting(p) /\ pc[p] # "down"
  /\ faults < MaxFaults /\ faults' = faults + 1
  /\ Ends(p)

-----------------------------------------------------------------------------

BootStep(p) ==
  \/ StartUp(p)
  \/ (Boot(p) \/ GetLock(p) \/ LockTimesOut(p) \/ BootSteps(p) \/ BootFails(p)) /\ UNCHANGED runtime

Requests(p) ==
  Request(p) \/ CountView(p) \/ ViewRepeated(p) \/ ViewDropped(p) \/ Write(p)

Flusher(p) ==
  \/ Take(p) \/ TakeLost(p) \/ Update(p) \/ UpdateFails(p)
  \/ Restore(p) \/ RestoreFails(p) \/ RestoreUnanswered(p)
  \/ Panic(p) \/ Again(p) \/ Return(p)

Shutdown(p) ==
  \/ Stop(p) \/ Drained(p) \/ DrainTimesOut(p)
  \/ WorkersStop(p) \/ SoftTimesOut(p) \/ HardTimesOut(p)
  \/ CloseSQL(p)

Next == \E p \in Processes :
  BootStep(p) \/ Requests(p) \/ Flusher(p) \/ Shutdown(p) \/ Crash(p)

Spec == Init /\ [][Next]_vars

\* What moves a process on by itself; the time limits of the shutdown pass.
Onward(p) ==
  \/ (Boot(p) \/ BootSteps(p)) /\ UNCHANGED runtime
  \/ StartUp(p)
  \/ Shutdown(p) /\ ~ Serving(p)

\* A process that ended is started again and takes its steps; a lock that is free
\* again and again is granted to who waits for it.
FairSpec ==
  /\ Spec
  /\ \A p \in Processes :
       /\ WF_vars(Onward(p))
       /\ SF_vars(GetLock(p) /\ UNCHANGED runtime)

-----------------------------------------------------------------------------
(* Properties.                                                             *)

TypeOK ==
  /\ lock \in Processes \cup {None}
  /\ \A p \in Processes : worker[p].at \in
       {"off", "idle", "taken", "final", "restore", "final.restore", "backoff", "gone"}
  /\ seen \in 0..MaxViews /\ faults \in 0..MaxFaults /\ stops \in 0..MaxStops

\* A process begins to serve only on the schema of its own release: everything its
\* plan creates is there, nothing of a later release has been recorded and no legacy
\* token is left. And its start takes nothing from the processes that serve: the access
\* tokens they issued and the settings an administrator chose survive it. All this
\* however processes of several releases start, die and wait for the lock.
UpgradesAreSafe ==
  [][/\ \A p \in Processes : ~ Serving(p) /\ pc'[p] = "up" =>
          /\ ledger = Versions(p)
          /\ \A i \in Carried(p) : Creates[i] \subseteq objects
          /\ "token_hash" \notin objects /\ "legacy" \notin tokens
     /\ "current" \in tokens => "current" \in tokens'
     /\ settings.ttl \notin {"none", settings'.ttl} => settings'.ttl = "chosen"]_vars

\* Every view counted in Redis is in MySQL, in Redis or in the hands of one flusher,
\* once, with failed updates and requests that count meanwhile; unless a process or
\* worker died with it, its restore failed or the answer of its GETDEL was lost, or an
\* update that failed had been made or an increment was sent twice.
ViewsConserved ==
  spoiled \/ FoldSet(LAMBDA p, n : n + Holds(p), 0, Processes) + cached + counted = seen

\* A shutdown that reports no error has outlived its requests and its workers before
\* it closes a pool, and its requests before it drained the workers.
CleanShutdown ==
  \A p \in Processes : ~ failed[p] =>
    /\ Stopping(p) => ~ handling[p]
    /\ pc[p] = "closing" => worker[p] = Gone

\* The newest release starts in the end, whatever half-applied migration earlier
\* attempts have left and although an older release keeps being restarted.
Newest(p) == \A q \in Processes : Knows[q] <= Knows[p]

StartupRecovers == \A p \in Processes : Newest(p) => []<> Serving(p)
=============================================================================
