---------------------------- MODULE ServerProofs ----------------------------
(***************************************************************************)
(* What holds of Server, and of Migrations in it, for any number of        *)
(* processes, views, signals and faults, whatever release each process is. *)
(*                                                                         *)
(* The lock is held by the process whose bootstrap is under way, and what  *)
(* that process has found in the schema only it changes until it is done.  *)
(* The views are a sum over the processes. A sum is a recursive function:  *)
(* that it exists and how one change of its summands changes it is proved  *)
(* from the least number of a set (LeastNumber).                           *)
(***************************************************************************)
EXTENDS Server, FiniteSetTheorems, WellFoundedInduction, TLAPS

-----------------------------------------------------------------------------
(* Sums over the processes.                                                *)

\* Every set of numbers has a least one.
LEMMA LeastNumber ==
  ASSUME NEW T, T \subseteq Nat, T # {}
  PROVE  \E n \in T : \A m \in T : n <= m
<1>1. PICK x \in T : \A y \in T : ~ (<<y, x>> \in OpToRel(<, Nat))
  BY NatLessThanWellFounded, WFMin
<1>2. \A y \in T : <<y, x>> \in OpToRel(<, Nat) <=> y < x
  BY DEF OpToRel
<1>3. \A y \in T : ~ (y < x)
  BY <1>1, <1>2, Zenon
<1>4. \A y \in T : x <= y
  BY <1>3
<1> QED
  BY <1>4

Pick(s) == CHOOSE x \in s : TRUE

\* What ViewsConserved adds up.
Total(w) == FoldSet(LAMBDA p, n : n + w[p].n, 0, Processes)

\* The sums over the sets of processes.
Sum(w) == CHOOSE f : f = [s \in SUBSET Processes |->
            IF s = {} THEN 0 ELSE f[s \ {Pick(s)}] + w[Pick(s)].n]

LEMMA TotalIsSum ==
  ASSUME NEW w
  PROVE  Total(w) = Sum(w)[Processes]
BY DEF Total, FoldSet, MapThenFoldSet, Sum, Pick

\* What holds of the empty set, and of a set when it holds of the set without the
\* element picked, holds of every set of processes.
LEMMA SetsOneByOne ==
  ASSUME NEW G, {} \in G,
         \A s \in SUBSET Processes : s # {} /\ s \ {Pick(s)} \in G => s \in G
  PROVE  SUBSET Processes \subseteq G
<1> SUFFICES ASSUME NEW t \in SUBSET Processes, t \notin G
             PROVE  FALSE
  OBVIOUS
<1>1. \A s \in SUBSET Processes : IsFiniteSet(s) /\ Cardinality(s) \in Nat
  BY ServerAssumption, FS_Subset, FS_CardinalityType
<1> DEFINE Bad == {Cardinality(s) : s \in {u \in SUBSET Processes : u \notin G}}
<1>2. Bad \subseteq Nat /\ Bad # {}
  BY <1>1
<1>3. PICK n \in Bad : \A m \in Bad : n <= m
  BY <1>2, LeastNumber
<1>4. PICK s \in SUBSET Processes : s \notin G /\ n = Cardinality(s)
  BY <1>3
<1>5. s # {}
  BY <1>4
<1>6. Pick(s) \in s
  BY <1>5 DEF Pick
<1>7. Cardinality(s \ {Pick(s)}) = Cardinality(s) - 1
  BY <1>1, <1>6, FS_RemoveElement
<1>8. s \ {Pick(s)} \notin G
  BY <1>4, <1>5
<1>9. Cardinality(s \ {Pick(s)}) \in Bad
  BY <1>8
<1>10. n <= Cardinality(s) - 1
  BY <1>3, <1>7, <1>9
<1>11. n \in Nat /\ n = Cardinality(s)
  BY <1>2, <1>4
<1> QED
  BY <1>10, <1>11

\* There is such a function: on the sets of at most n processes by what it is on those
\* of at most n - 1.
LEMMA SumExists ==
  ASSUME NEW w
  PROVE  \E f : f = [s \in SUBSET Processes |->
                       IF s = {} THEN 0 ELSE f[s \ {Pick(s)}] + w[Pick(s)].n]
<1> DEFINE Small(n) == {s \in SUBSET Processes : Cardinality(s) <= n}
           Good(n) == \E f : f = [s \in Small(n) |->
                        IF s = {} THEN 0 ELSE f[s \ {Pick(s)}] + w[Pick(s)].n]
           Bad == {n \in Nat : ~ Good(n)}
<1>1. \A s \in SUBSET Processes : IsFiniteSet(s) /\ Cardinality(s) \in Nat
  BY ServerAssumption, FS_Subset, FS_CardinalityType
<1>2. \A s \in SUBSET Processes : s # {} =>
        s \ {Pick(s)} \in SUBSET Processes /\ Cardinality(s \ {Pick(s)}) = Cardinality(s) - 1
  <2> SUFFICES ASSUME NEW s \in SUBSET Processes, s # {}
               PROVE  Cardinality(s \ {Pick(s)}) = Cardinality(s) - 1
    OBVIOUS
  <2>1. Pick(s) \in s
    BY DEF Pick
  <2> QED
    BY <1>1, <2>1, FS_RemoveElement
<1>3. Good(0)
  <2> DEFINE g == [s \in Small(0) |-> 0]
  <2>1. \A s \in Small(0) : s = {}
    BY <1>1, FS_EmptySet
  <2>2. g = [s \in Small(0) |-> IF s = {} THEN 0 ELSE g[s \ {Pick(s)}] + w[Pick(s)].n]
    BY <2>1
  <2> QED
    BY <2>2
<1>4. ASSUME NEW n \in Nat, n # 0, Good(n - 1)
      PROVE  Good(n)
  <2>1. PICK f : f = [s \in Small(n - 1) |->
                        IF s = {} THEN 0 ELSE f[s \ {Pick(s)}] + w[Pick(s)].n]
    BY <1>4
  <2> DEFINE g == [s \in Small(n) |->
                     IF s = {} THEN 0 ELSE f[s \ {Pick(s)}] + w[Pick(s)].n]
  <2>2. Small(n - 1) \subseteq Small(n)
    BY <1>1
  <2>3. \A s \in Small(n - 1) : g[s] = f[s]
    BY <2>1, <2>2
  <2>4. \A s \in Small(n) : s # {} => s \ {Pick(s)} \in Small(n - 1)
    BY <1>1, <1>2
  <2>5. \A s \in Small(n) : s # {} => g[s \ {Pick(s)}] = f[s \ {Pick(s)}]
    BY <2>3, <2>4
  <2>6. g = [s \in Small(n) |-> IF s = {} THEN 0 ELSE g[s \ {Pick(s)}] + w[Pick(s)].n]
    BY <2>5
  <2> QED
    BY <2>6
<1>5. Bad = {}
  <2> SUFFICES ASSUME Bad # {} PROVE FALSE
    OBVIOUS
  <2>1. PICK n \in Bad : \A m \in Bad : n <= m
    BY LeastNumber
  <2>2. n # 0
    BY <1>3
  <2>3. n - 1 \in Nat /\ n - 1 \notin Bad
    <3>1. n \in Nat
      OBVIOUS
    <3>2. n - 1 \in Nat /\ ~ (n <= n - 1)
      BY <2>2, <3>1
    <3> HIDE DEF Bad
    <3> QED
      BY <2>1, <3>2
  <2>4. Good(n - 1)
    BY <2>3
  <2> QED
    BY <1>4, <2>2, <2>4
<1>6. Small(Cardinality(Processes)) = SUBSET Processes
  BY <1>1, ServerAssumption, FS_Subset
<1>7. Good(Cardinality(Processes))
  BY <1>1, <1>5
<1> QED
  BY <1>6, <1>7

\* The recursion the sums obey.
LEMMA SumRule ==
  ASSUME NEW w, NEW s \in SUBSET Processes
  PROVE  Sum(w)[s] = IF s = {} THEN 0 ELSE Sum(w)[s \ {Pick(s)}] + w[Pick(s)].n
<1>1. Sum(w) = [t \in SUBSET Processes |->
                  IF t = {} THEN 0 ELSE Sum(w)[t \ {Pick(t)}] + w[Pick(t)].n]
  BY SumExists DEF Sum
<1> HIDE DEF Sum
<1> QED
  BY <1>1, Zenon

\* The sum of numbers is a number, and one that changes changes the sum by as much.
LEMMA SumStep ==
  ASSUME NEW w, NEW v, NEW p \in Processes, NEW x,
         \A q \in Processes : w[q].n \in Int,
         v[p] = x, x.n \in Int, \A q \in Processes \ {p} : v[q] = w[q]
  PROVE  Total(w) \in Int /\ Total(v) = Total(w) + x.n - w[p].n
<1> DEFINE Moved(s) == IF p \in s THEN x.n - w[p].n ELSE 0
           G == {s \in SUBSET Processes : Sum(w)[s] \in Int /\ Sum(v)[s] = Sum(w)[s] + Moved(s)}
<1>1. {} \in G
  <2>1. {} \in SUBSET Processes /\ Moved({}) = 0
    OBVIOUS
  <2> HIDE DEF Moved
  <2>2. Sum(w)[{}] = 0 /\ Sum(v)[{}] = 0
    BY <2>1, SumRule
  <2> QED
    BY <2>1, <2>2
<1>2. ASSUME NEW s \in SUBSET Processes, s # {}, s \ {Pick(s)} \in G
      PROVE  s \in G
  <2> DEFINE q == Pick(s)
             t == s \ {q}
  <2>1. q \in s
    BY <1>2 DEF Pick
  <2>2. /\ Sum(w)[s] = Sum(w)[t] + w[q].n
        /\ Sum(v)[s] = Sum(v)[t] + v[q].n
    BY <1>2, SumRule
  <2>3. Sum(w)[t] \in Int /\ Sum(v)[t] = Sum(w)[t] + Moved(t)
    BY <1>2
  <2>4. w[q].n \in Int /\ w[p].n \in Int
    BY <2>1
  <2>5. CASE q = p
    <3>1. Moved(t) = 0 /\ Moved(s) = x.n - w[p].n
      BY <2>1, <2>5
    <3>2. v[q].n = x.n
      BY <2>5
    <3> HIDE DEF Moved, t, q
    <3>3. Sum(w)[s] \in Int /\ Sum(v)[s] = Sum(w)[s] + Moved(s)
      BY <2>2, <2>3, <2>4, <2>5, <3>1, <3>2
    <3> QED
      BY <3>3
  <2>6. CASE q # p
    <3>1. Moved(t) = Moved(s) /\ Moved(s) \in Int
      BY <2>1, <2>4, <2>6
    <3>2. v[q].n = w[q].n
      BY <2>1, <2>6
    <3> HIDE DEF Moved, t, q
    <3>3. Sum(w)[s] \in Int /\ Sum(v)[s] = Sum(w)[s] + Moved(s)
      BY <2>2, <2>3, <2>4, <3>1, <3>2
    <3> QED
      BY <3>3
  <2> QED
    BY <2>5, <2>6
<1>3. Processes \in G
  <2> HIDE DEF G
  <2> QED
    BY <1>1, <1>2, SetsOneByOne
<1>4. Moved(Processes) = x.n - w[p].n
  OBVIOUS
<1> QED
  BY <1>3, <1>4, TotalIsSum

\* The sum of nothing but zeros.
LEMMA SumOfZeros ==
  ASSUME NEW w, \A q \in Processes : w[q].n = 0
  PROVE  Total(w) = 0
<1> DEFINE G == {s \in SUBSET Processes : Sum(w)[s] = 0}
<1>1. {} \in G
  BY SumRule
<1>2. ASSUME NEW s \in SUBSET Processes, s # {}, s \ {Pick(s)} \in G
      PROVE  s \in G
  <2>1. Pick(s) \in Processes
    BY <1>2 DEF Pick
  <2>2. Sum(w)[s] = Sum(w)[s \ {Pick(s)}] + w[Pick(s)].n
    BY <1>2, SumRule
  <2>3. Sum(w)[s \ {Pick(s)}] = 0 /\ w[Pick(s)].n = 0
    BY <1>2, <2>1
  <2>4. Sum(w)[s] = 0
    BY <2>2, <2>3
  <2> QED
    BY <2>4
<1>3. Processes \in G
  <2> HIDE DEF G
  <2> QED
    BY <1>1, <1>2, SetsOneByOne
<1> QED
  BY <1>3, TotalIsSum

-----------------------------------------------------------------------------
(* The plan.                                                               *)

LEMMA PlanLength == Len(Plan) = 5 /\ DOMAIN Plan = 1..5
BY DEF Plan

\* Versions are distinct.
LEMMA VersionsDiffer ==
  ASSUME NEW i \in DOMAIN Plan, NEW j \in DOMAIN Plan, Plan[i].version = Plan[j].version
  PROVE  i = j
<1>1. /\ Plan[1].version = 2026071501 /\ Plan[2].version = 2026071502
      /\ Plan[3].version = 2026071601 /\ Plan[4].version = 2026071602
      /\ Plan[5].version = 2026071603
  BY DEF Plan, PipelineColumns, PipelineTables, CapacityLock, RetentionIndexes, RemoteLineage
<1> QED
  BY <1>1, PlanLength

\* No migration and no model creates a column of the legacy tokens.
LEMMA NothingLegacy ==
  /\ \A i \in DOMAIN Plan : \A o \in DOMAIN Plan[i].operations :
       Plan[i].operations[o].name \notin LegacyColumns
  /\ \A i \in DOMAIN Baseline : Baseline[i] \notin LegacyColumns
<1>1. \A o \in DOMAIN Plan[1].operations : Plan[1].operations[o].name \notin LegacyColumns
  BY DEF Plan, PipelineColumns, LegacyColumns, Column, Index, Operation
<1>2. \A o \in DOMAIN Plan[2].operations : Plan[2].operations[o].name \notin LegacyColumns
  BY DEF Plan, PipelineTables, LegacyColumns, Table, Operation, ImageVariants, UploadSessions,
         UploadParts, ProcessingJobs, OutboxEvents
<1>3. \A o \in DOMAIN Plan[3].operations : Plan[3].operations[o].name \notin LegacyColumns
  BY DEF Plan, CapacityLock, LegacyColumns, Table, Operation
<1>4. \A o \in DOMAIN Plan[4].operations : Plan[4].operations[o].name \notin LegacyColumns
  BY DEF Plan, RetentionIndexes, LegacyColumns, Index, Operation
<1>5. \A o \in DOMAIN Plan[5].operations : Plan[5].operations[o].name \notin LegacyColumns
  BY DEF Plan, RemoteLineage, LegacyColumns, Column, Index, Operation
<1>6. \A i \in DOMAIN Baseline : Baseline[i] \notin LegacyColumns
  BY DEF Baseline, LegacyColumns
<1> QED
  BY <1>1, <1>2, <1>3, <1>4, <1>5, <1>6, PlanLength

\* The operations of a migration are numbered.
LEMMA OperationNumbers ==
  ASSUME NEW i \in DOMAIN Plan
  PROVE  /\ Len(Plan[i].operations) \in Nat
         /\ DOMAIN Plan[i].operations = 1..Len(Plan[i].operations)
<1>1. DOMAIN Plan[1].operations = 1..5 /\ Len(Plan[1].operations) = 5
  BY DEF Plan, PipelineColumns
<1>2. DOMAIN Plan[2].operations = 1..5 /\ Len(Plan[2].operations) = 5
  BY DEF Plan, PipelineTables
<1>3. DOMAIN Plan[3].operations = 1..2 /\ Len(Plan[3].operations) = 2
  BY DEF Plan, CapacityLock
<1>4. DOMAIN Plan[4].operations = 1..8 /\ Len(Plan[4].operations) = 8
  BY DEF Plan, RetentionIndexes
<1>5. DOMAIN Plan[5].operations = 1..4 /\ Len(Plan[5].operations) = 4
  BY DEF Plan, RemoteLineage
<1> QED
  BY <1>1, <1>2, <1>3, <1>4, <1>5, PlanLength

LEMMA CarriedInPlan ==
  ASSUME NEW p \in Processes
  PROVE  Knows[p] \in 1..5 /\ Carried(p) \subseteq DOMAIN Plan
BY MigrationsAssumption, PlanLength DEF Carried

\* There is a first migration that is not recorded, or one past them all.
LEMMA FirstPendingRight ==
  ASSUME NEW p \in Processes, NEW recorded
  PROVE  /\ FirstPending(p, recorded) \in 1..(Knows[p] + 1)
         /\ FirstPending(p, recorded) <= Knows[p]
              => Plan[FirstPending(p, recorded)].version \notin recorded
         /\ \A j \in 1..(FirstPending(p, recorded) - 1) : Plan[j].version \in recorded
<1> DEFINE Right(i) == /\ i <= Knows[p] => Plan[i].version \notin recorded
                       /\ \A j \in 1..(i - 1) : Plan[j].version \in recorded
           T == {i \in 1..(Knows[p] + 1) : i <= Knows[p] => Plan[i].version \notin recorded}
<1>1. Knows[p] \in Nat /\ Knows[p] >= 1
  BY CarriedInPlan
<1>2. Knows[p] + 1 \in T
  BY <1>1
<1>3. PICK n \in T : \A m \in T : n <= m
  <2>1. T \subseteq Nat /\ T # {}
    BY <1>1, <1>2
  <2> HIDE DEF T
  <2> QED
    BY <2>1, LeastNumber
<1>4. ASSUME NEW j \in 1..(n - 1) PROVE Plan[j].version \in recorded
  <2>1. n \in 1..(Knows[p] + 1) /\ j \in 1..(Knows[p] + 1) /\ ~ (n <= j)
    BY <1>1, <1>4
  <2>2. j \notin T
    BY <1>3, <2>1
  <2> QED
    BY <2>1, <2>2
<1>5. \E i \in 1..(Knows[p] + 1) : Right(i)
  BY <1>4
<1> QED
  BY <1>5 DEF FirstPending

-----------------------------------------------------------------------------
(* The bootstrap.                                                          *)

\* The steps of a bootstrap under the lock.
InLock == {"ledger", "tokens", "purge", "drop", "baseline", "apply", "copy", "seed", "release"}

Before == {"down", "lock"}
After  == {"up", "http", "soft", "hard", "closing"}

\* The shape of the state that migrations use.
BootTyped ==
  /\ pc \in [Processes -> Before \cup InLock \cup After]
  /\ at \in [Processes -> Nat \X (Nat \ {0})]
  /\ has \in [Processes -> SUBSET LegacyColumns]
  /\ settings \in [old : BOOLEAN, ttl : {"none", "legacy", "default", "chosen"}]

\* Who is in its bootstrap holds the lock, and nobody else.
LockHeld == \A p \in Processes : pc[p] \in InLock <=> lock = p

\* The migrations before the current one are recorded, its operations before the next
\* one are done.
Progress(p) ==
  /\ at[p][1] \in 1..(Knows[p] + 1)
  /\ \A j \in 1..(at[p][1] - 1) : Plan[j].version \in ledger
  /\ at[p][1] <= Knows[p] =>
       \A o \in DOMAIN Plan[at[p][1]].operations :
         o < at[p][2] => Plan[at[p][1]].operations[o].name \in objects

\* What the process that holds the lock has found or done.
Stage(p) ==
  /\ pc[p] # "ledger" => ledger \subseteq Versions(p)
  /\ pc[p] \in {"purge", "drop"} => has[p] = objects \cap LegacyColumns
  /\ pc[p] = "drop" => "legacy" \notin tokens
  /\ pc[p] \in {"baseline", "apply", "copy", "seed", "release"} => "token_hash" \notin objects
  /\ pc[p] = "apply" => Progress(p)
  /\ pc[p] \in {"copy", "seed", "release"} => Versions(p) \subseteq ledger

StageSafe == \A p \in Processes : pc[p] \in InLock => Stage(p)

\* A migration that is recorded is applied in full.
Recorded == \A i \in DOMAIN Plan : Plan[i].version \in ledger => Creates[i] \subseteq objects

\* The column of the legacy tokens is there as long as such a token is, and goes before
\* a process serves and tokens of the current form are issued.
TokensSafe ==
  /\ "legacy" \in tokens => "token_hash" \in objects
  /\ "current" \in tokens => "token_hash" \notin objects
  /\ \A p \in Processes : Serving(p) => "token_hash" \notin objects

BootInv == BootTyped /\ LockHeld /\ StageSafe /\ Recorded /\ TokensSafe

LEMMA InitBoot ==
  ASSUME Init
  PROVE  BootInv
<1> USE DEF Init, MigrationsInit
<1>1. BootTyped
  <2>1. pc \in [Processes -> Before \cup InLock \cup After]
    BY DEF Before
  <2>2. at \in [Processes -> Nat \X (Nat \ {0})] /\ has \in [Processes -> SUBSET LegacyColumns]
    OBVIOUS
  <2>3. settings \in [old : BOOLEAN, ttl : {"none", "legacy", "default", "chosen"}]
    <3>1. CASE settings = [old |-> FALSE, ttl |-> "none"]
      BY <3>1
    <3>2. CASE settings = [old |-> TRUE, ttl |-> "none"]
      BY <3>2
    <3> QED
      BY <3>1, <3>2
  <2> QED
    BY <2>1, <2>2, <2>3 DEF BootTyped
<1>2. LockHeld /\ StageSafe
  BY MigrationsAssumption DEF LockHeld, StageSafe, InLock
<1>3. Recorded
  BY DEF Recorded
<1>4. TokensSafe
  BY DEF TokensSafe, LegacyColumns, Serving
<1> QED
  BY <1>1, <1>2, <1>3, <1>4 DEF BootInv

\* One holder: what another process is at does not depend on the schema.
LEMMA OneHolder ==
  ASSUME LockHeld, NEW p \in Processes, NEW q \in Processes, pc[p] \in InLock, pc[q] \in InLock
  PROVE  p = q
BY DEF LockHeld

\* A step outside the bootstrap leaves the schema alone, apart from tokens and settings
\* that a process which serves writes.
LEMMA OuterStep ==
  ASSUME BootInv, NEW p \in Processes, NEW next \in Before \cup After,
         pc[p] \notin InLock, next = "up" => pc[p] = "up", pc' = [pc EXCEPT ![p] = next],
         UNCHANGED <<schema, lock>>, at' = at \/ at' = [at EXCEPT ![p] = <<1, 1>>],
         has' = has \/ has' = [has EXCEPT ![p] = {}]
  PROVE  BootInv'
<1>1. \A q \in Processes : pc'[q] \in InLock <=> pc[q] \in InLock
  BY DEF BootInv, BootTyped, Before, InLock, After
<1>2. \A q \in Processes : pc[q] \in InLock => q # p
  OBVIOUS
<1>3. \A q \in Processes \ {p} : pc'[q] = pc[q] /\ at'[q] = at[q] /\ has'[q] = has[q]
  BY DEF BootInv, BootTyped
<1>4. BootTyped'
  BY DEF BootInv, BootTyped, schema
<1>5. LockHeld'
  BY <1>1 DEF BootInv, LockHeld
<1>6. StageSafe'
  <2> SUFFICES ASSUME NEW q \in Processes, pc'[q] \in InLock
               PROVE  Stage(q)'
    BY DEF StageSafe
  <2>1. Stage(q)
    BY <1>1 DEF BootInv, StageSafe
  <2>2. pc'[q] = pc[q] /\ at'[q] = at[q] /\ has'[q] = has[q]
    BY <1>1, <1>2, <1>3
  <2> QED
    BY <2>1, <2>2 DEF Stage, Progress, schema
<1>7. Recorded' /\ TokensSafe'
  BY <1>3 DEF BootInv, BootTyped, Recorded, TokensSafe, Serving, schema
<1> QED
  BY <1>4, <1>5, <1>6, <1>7 DEF BootInv

\* The end of a process at whatever step.
LEMMA DiesStep ==
  ASSUME BootInv, NEW p \in Processes, Dies(p)
  PROVE  BootInv'
<1>1. \A q \in Processes \ {p} : pc'[q] = pc[q] /\ at'[q] = at[q] /\ has'[q] = has[q]
  BY DEF Dies, Goto, BootInv, BootTyped
<1>2. pc'[p] = "down"
  BY DEF Dies, Goto, BootInv, BootTyped
<1>3. BootTyped'
  BY DEF Dies, Goto, BootInv, BootTyped, schema, Before
<1>4. LockHeld'
  <2> SUFFICES ASSUME NEW q \in Processes
               PROVE  pc'[q] \in InLock <=> lock' = q
    BY DEF LockHeld
  <2>1. CASE q = p
    BY <1>2, <2>1, MigrationsAssumption DEF Dies, Unlock, InLock
  <2>2. CASE q # p
    BY <1>1, <2>2, MigrationsAssumption DEF Dies, Unlock, BootInv, LockHeld
  <2> QED
    BY <2>1, <2>2
<1>5. StageSafe'
  <2> SUFFICES ASSUME NEW q \in Processes, pc'[q] \in InLock
               PROVE  Stage(q)'
    BY DEF StageSafe
  <2>1. q # p
    BY <1>2 DEF InLock
  <2>2. Stage(q) /\ pc'[q] = pc[q] /\ at'[q] = at[q] /\ has'[q] = has[q]
    BY <1>1, <2>1 DEF BootInv, StageSafe
  <2> QED
    BY <2>2 DEF Dies, Stage, Progress, schema
<1>6. Recorded' /\ TokensSafe'
  BY <1>1, <1>2 DEF Dies, BootInv, Recorded, TokensSafe, Serving, schema
<1> QED
  BY <1>3, <1>4, <1>5, <1>6 DEF BootInv

\* A step of the process that holds the lock: the others are not in their bootstrap.
LEMMA InnerStep ==
  ASSUME BootInv, NEW p \in Processes, pc[p] \in InLock, NEW next \in InLock,
         pc' = [pc EXCEPT ![p] = next], lock' = lock,
         BootTyped', Stage(p)', Recorded',
         "token_hash" \in objects' => "token_hash" \in objects,
         tokens' \subseteq tokens, "legacy" \in tokens' => "token_hash" \in objects'
  PROVE  BootInv'
<1>1. \A q \in Processes \ {p} : pc'[q] = pc[q] /\ pc[q] \notin InLock
  BY OneHolder DEF BootInv, BootTyped
<1>2. pc'[p] = next
  BY DEF BootInv, BootTyped
<1>3. LockHeld'
  BY <1>1, <1>2 DEF BootInv, LockHeld
<1>4. StageSafe'
  <2> SUFFICES ASSUME NEW q \in Processes, pc'[q] \in InLock
               PROVE  Stage(q)'
    BY DEF StageSafe
  <2>1. q = p
    BY <1>1
  <2> QED
    BY <2>1
<1>5. TokensSafe'
  BY <1>1, <1>2 DEF BootInv, TokensSafe, Serving, InLock
<1> QED
  BY <1>3, <1>4, <1>5 DEF BootInv

\* The lock is granted when nobody holds it.
LEMMA GetLockStep ==
  ASSUME BootInv, NEW p \in Processes, GetLock(p)
  PROVE  BootInv'
<1>1. \A q \in Processes \ {p} : pc'[q] = pc[q]
  BY DEF GetLock, Goto, BootInv, BootTyped
<1>2. pc'[p] = "ledger"
  BY DEF GetLock, Goto, BootInv, BootTyped
<1>3. \A q \in Processes : pc[q] \notin InLock
  BY MigrationsAssumption DEF GetLock, Free, BootInv, LockHeld
<1>4. BootTyped'
  BY DEF GetLock, Goto, BootInv, BootTyped, InLock, schema
<1>5. LockHeld'
  BY <1>1, <1>2, <1>3 DEF GetLock, LockHeld, InLock
<1>6. StageSafe'
  <2> SUFFICES ASSUME NEW q \in Processes, pc'[q] \in InLock
               PROVE  Stage(q)'
    BY DEF StageSafe
  <2>1. q = p
    BY <1>1, <1>3
  <2> QED
    BY <1>2, <2>1 DEF Stage
<1>7. Recorded' /\ TokensSafe'
  BY <1>1, <1>2 DEF GetLock, BootInv, Recorded, TokensSafe, Serving, schema
<1> QED
  BY <1>4, <1>5, <1>6, <1>7 DEF BootInv

\* The steps before the migrations.
LEMMA InspectStep ==
  ASSUME BootInv, NEW p \in Processes, InspectLedger(p) \/ InspectTokens(p)
  PROVE  BootInv'
<1>1. CASE InspectLedger(p)
  <2>1. pc[p] = "ledger" /\ pc' = [pc EXCEPT ![p] = "tokens"] /\ pc'[p] = "tokens"
    BY <1>1 DEF InspectLedger, Goto, BootInv, BootTyped
  <2>2. BootTyped'
    BY <1>1, <2>1 DEF InspectLedger, BootInv, BootTyped, InLock, schema
  <2>3. Stage(p)'
    BY <1>1, <2>1 DEF InspectLedger, LedgerAccepted, Stage, Versions, Carried, schema
  <2>4. UNCHANGED <<lock, objects, ledger, tokens>>
    BY <1>1 DEF InspectLedger, schema
  <2>5. Recorded' /\ ("legacy" \in tokens' => "token_hash" \in objects')
    BY <2>4 DEF BootInv, Recorded, TokensSafe
  <2> QED
    BY <2>1, <2>2, <2>3, <2>4, <2>5, InnerStep DEF InLock
<1>2. CASE InspectTokens(p)
  <2>1. pc[p] = "tokens" /\ pc' = [pc EXCEPT ![p] = "purge"] /\ pc'[p] = "purge"
    BY <1>2 DEF InspectTokens, Goto, BootInv, BootTyped
  <2>2. has'[p] = objects \cap LegacyColumns
    BY <1>2 DEF InspectTokens, BootInv, BootTyped
  <2>3. BootTyped'
    BY <1>2, <2>1 DEF InspectTokens, BootInv, BootTyped, InLock, schema
  <2>4. UNCHANGED <<lock, objects, ledger, tokens>>
    BY <1>2 DEF InspectTokens, schema
  <2>5. Stage(p)
    BY <2>1 DEF BootInv, StageSafe, InLock
  <2>6. Stage(p)'
    BY <2>1, <2>2, <2>4, <2>5 DEF Stage, Versions, Carried
  <2>7. Recorded' /\ ("legacy" \in tokens' => "token_hash" \in objects')
    BY <2>4 DEF BootInv, Recorded, TokensSafe
  <2> QED
    BY <2>1, <2>3, <2>4, <2>6, <2>7, InnerStep DEF InLock
<1> QED
  BY <1>1, <1>2

\* Legacy tokens go before their column, and no token of the current form with them.
LEMMA PurgeStep ==
  ASSUME BootInv, NEW p \in Processes, PurgeTokens(p)
  PROVE  BootInv' /\ ("current" \in tokens => "current" \in tokens')
<1>1. pc[p] = "purge" /\ pc' = [pc EXCEPT ![p] = "drop"] /\ pc'[p] = "drop"
  BY DEF PurgeTokens, Goto, BootInv, BootTyped
<1>2. UNCHANGED <<lock, objects, ledger, settings, at, has>>
  BY DEF PurgeTokens
<1>3. Stage(p)
  BY <1>1 DEF BootInv, StageSafe, InLock
<1>4. Incompatible(p) <=> "token_hash" \in objects
  BY <1>1, <1>3 DEF Stage, Incompatible, LegacyColumns
<1>5. tokens' \subseteq tokens /\ "legacy" \notin tokens'
      /\ ("current" \in tokens => "current" \in tokens')
  BY <1>4 DEF PurgeTokens, BootInv, TokensSafe
<1>6. BootTyped'
  BY <1>1, <1>2 DEF BootInv, BootTyped, InLock
<1>7. Stage(p)'
  BY <1>1, <1>2, <1>3, <1>5 DEF Stage, Versions, Carried
<1>8. Recorded'
  BY <1>2 DEF BootInv, Recorded
<1> QED
  BY <1>1, <1>2, <1>5, <1>6, <1>7, <1>8, InnerStep DEF InLock

\* What was created stays when the legacy columns are dropped.
LEMMA DropStep ==
  ASSUME BootInv, NEW p \in Processes, DropColumns(p)
  PROVE  BootInv'
<1>1. pc[p] = "drop" /\ pc' = [pc EXCEPT ![p] = "baseline"] /\ pc'[p] = "baseline"
  BY DEF DropColumns, Goto, BootInv, BootTyped
<1>2. UNCHANGED <<lock, ledger, tokens, settings, at, has>> /\ objects' = objects \ has[p]
  BY DEF DropColumns
<1>3. Stage(p)
  BY <1>1 DEF BootInv, StageSafe, InLock
<1>4. objects' = objects \ LegacyColumns /\ "token_hash" \notin objects' /\ "legacy" \notin tokens'
  BY <1>1, <1>2, <1>3 DEF Stage, LegacyColumns
<1>5. BootTyped'
  BY <1>1, <1>2 DEF BootInv, BootTyped, InLock
<1>6. Stage(p)'
  BY <1>1, <1>2, <1>3, <1>4 DEF Stage, Versions, Carried
<1>7. Recorded'
  <2> SUFFICES ASSUME NEW i \in DOMAIN Plan, Plan[i].version \in ledger,
                      NEW o \in DOMAIN Plan[i].operations
               PROVE  Plan[i].operations[o].name \in objects'
    BY <1>2 DEF Recorded, Creates
  <2>1. Plan[i].operations[o].name \in objects
    BY DEF BootInv, Recorded, Creates
  <2> QED
    BY <1>4, <2>1, NothingLegacy
<1> QED
  BY <1>1, <1>2, <1>4, <1>5, <1>6, <1>7, InnerStep DEF InLock

LEMMA CreateTableStep ==
  ASSUME BootInv, NEW p \in Processes, CreateTable(p)
  PROVE  BootInv'
<1>1. pc[p] = "baseline" /\ pc' = [pc EXCEPT ![p] = "baseline"]
  BY DEF CreateTable, BootInv, BootTyped
<1>2. UNCHANGED <<lock, ledger, tokens, settings, pc, at, has>>
  BY DEF CreateTable
<1>3. PICK i \in DOMAIN Baseline : objects' = objects \cup {Baseline[i]}
  BY DEF CreateTable
<1>4. "token_hash" \in objects' <=> "token_hash" \in objects
  BY <1>3, NothingLegacy DEF LegacyColumns
<1>5. Stage(p)
  BY <1>1 DEF BootInv, StageSafe, InLock
<1>6. Stage(p)'
  BY <1>1, <1>2, <1>4, <1>5 DEF Stage, Versions, Carried
<1>7. BootTyped' /\ Recorded'
  BY <1>2, <1>3 DEF BootInv, BootTyped, Recorded
<1>8. "legacy" \in tokens' => "token_hash" \in objects'
  BY <1>2, <1>4 DEF BootInv, TokensSafe
<1> QED
  BY <1>1, <1>2, <1>4, <1>6, <1>7, <1>8, InnerStep DEF InLock

\* The migrations, from the first that is not recorded.
LEMMA BaselineDoneStep ==
  ASSUME BootInv, NEW p \in Processes, BaselineDone(p)
  PROVE  BootInv'
<1>1. pc[p] = "baseline" /\ pc' = [pc EXCEPT ![p] = "apply"] /\ pc'[p] = "apply"
  BY DEF BaselineDone, Goto, BootInv, BootTyped
<1>2. UNCHANGED <<objects, ledger, tokens, settings, lock, has>>
  BY DEF BaselineDone, schema
<1>3. at' = [at EXCEPT ![p] = <<FirstPending(p, ledger), 1>>]
      /\ at'[p] = <<FirstPending(p, ledger), 1>>
  BY DEF BaselineDone, NextMigration, BootInv, BootTyped
<1>4. Stage(p)
  BY <1>1 DEF BootInv, StageSafe, InLock
<1>5. FirstPending(p, ledger) \in 1..(Knows[p] + 1) /\ Knows[p] \in 1..5
  BY FirstPendingRight, CarriedInPlan
<1>6. Progress(p)'
  <2>1. \A j \in 1..(FirstPending(p, ledger) - 1) : Plan[j].version \in ledger
    BY FirstPendingRight
  <2>2. ASSUME FirstPending(p, ledger) <= Knows[p],
               NEW o \in DOMAIN Plan[FirstPending(p, ledger)].operations
        PROVE  ~ (o < 1)
    <3>1. FirstPending(p, ledger) \in DOMAIN Plan
      BY <1>5, <2>2, PlanLength
    <3> QED
      BY <3>1, OperationNumbers
  <2> QED
    BY <1>2, <1>3, <1>5, <2>1, <2>2 DEF Progress
<1>7. Stage(p)'
  BY <1>1, <1>2, <1>4, <1>6 DEF Stage, Versions, Carried
<1>8. BootTyped'
  BY <1>1, <1>2, <1>3, <1>5 DEF BootInv, BootTyped, InLock
<1>9. Recorded' /\ ("legacy" \in tokens' => "token_hash" \in objects')
  BY <1>2 DEF BootInv, Recorded, TokensSafe
<1> QED
  BY <1>1, <1>2, <1>7, <1>8, <1>9, InnerStep DEF InLock

\* An operation is done, or was done before the process that tried it first died.
LEMMA ApplyStep ==
  ASSUME BootInv, NEW p \in Processes, ApplyOperation(p)
  PROVE  BootInv'
<1> DEFINE i == at[p][1]
           k == at[p][2]
<1>1. pc[p] = "apply" /\ i <= Knows[p] /\ k <= Len(Plan[i].operations)
  BY DEF ApplyOperation, Unapplied, Pending, Migration
<1>2. UNCHANGED <<ledger, tokens, settings, lock, pc, has>> /\ pc' = [pc EXCEPT ![p] = "apply"]
  BY <1>1 DEF ApplyOperation, BootInv, BootTyped
<1>3. Stage(p) /\ Progress(p)
  BY <1>1 DEF BootInv, StageSafe, InLock, Stage
<1>4. Knows[p] \in 1..5 /\ i \in DOMAIN Plan /\ at[p] = <<i, k>> /\ i \in Nat /\ k \in Nat \ {0}
  BY <1>1, <1>3, CarriedInPlan, PlanLength DEF Progress, BootInv, BootTyped
<1>5. at' = [at EXCEPT ![p] = <<i, k + 1>>] /\ at'[p] = <<i, k + 1>>
  <2>1. [at[p] EXCEPT ![2] = k + 1] = <<i, k + 1>>
    BY <1>4
  <2>2. at' = [at EXCEPT ![p] = [at[p] EXCEPT ![2] = k + 1]]
    BY DEF ApplyOperation, NextOperation
  <2>3. at' = [at EXCEPT ![p] = <<i, k + 1>>]
    BY <2>1, <2>2
  <2>4. at \in [Processes -> Nat \X (Nat \ {0})]
    BY DEF BootInv, BootTyped
  <2> QED
    BY <2>3, <2>4
<1>6. k \in DOMAIN Plan[i].operations
  BY <1>1, <1>4, OperationNumbers
<1>7. /\ objects' = objects \/ objects' = objects \cup {Plan[i].operations[k].name}
      /\ Plan[i].operations[k].name \in objects'
  BY DEF ApplyOperation, Current, Migration, Exists
<1>8. objects \subseteq objects'
      /\ ("token_hash" \in objects' <=> "token_hash" \in objects)
  BY <1>4, <1>6, <1>7, NothingLegacy DEF LegacyColumns
<1>9. Progress(p)'
  <2> SUFFICES ASSUME NEW o \in DOMAIN Plan[i].operations, o < k + 1
               PROVE  Plan[i].operations[o].name \in objects'
    BY <1>2, <1>3, <1>5 DEF Progress
  <2>1. o \in Nat
    BY <1>4, OperationNumbers
  <2>2. CASE o < k
    BY <1>1, <1>3, <1>8, <2>2 DEF Progress
  <2>3. CASE o = k
    BY <1>7, <2>3
  <2> QED
    BY <1>4, <2>1, <2>2, <2>3
<1>10. Stage(p)'
  BY <1>1, <1>2, <1>3, <1>8, <1>9 DEF Stage, Versions, Carried
<1>11. BootTyped'
  BY <1>2, <1>4, <1>5 DEF BootInv, BootTyped
<1>12. Recorded'
  BY <1>2, <1>8 DEF BootInv, Recorded
<1>13. tokens' \subseteq tokens /\ ("legacy" \in tokens' => "token_hash" \in objects')
  BY <1>2, <1>8 DEF BootInv, TokensSafe
<1> QED
  BY <1>1, <1>2, <1>8, <1>10, <1>11, <1>12, <1>13, InnerStep DEF InLock

\* A version is recorded when all its operations are done.
LEMMA RecordStep ==
  ASSUME BootInv, NEW p \in Processes, Record(p)
  PROVE  BootInv'
<1> DEFINE i == at[p][1]
           k == at[p][2]
           more == ledger \cup {Plan[i].version}
<1>1. pc[p] = "apply" /\ i <= Knows[p] /\ ~ (k <= Len(Plan[i].operations))
  BY DEF Record, Unapplied, Pending, Migration
<1>2. /\ UNCHANGED <<objects, tokens, settings, lock, pc, has>>
      /\ pc' = [pc EXCEPT ![p] = "apply"]
      /\ ledger' = more
  BY <1>1 DEF Record, Migration, BootInv, BootTyped
<1>3. Stage(p) /\ Progress(p)
  BY <1>1 DEF BootInv, StageSafe, InLock, Stage
<1>4. Knows[p] \in 1..5 /\ i \in DOMAIN Plan /\ i \in Carried(p) /\ k \in Nat
  BY <1>1, <1>3, CarriedInPlan, PlanLength DEF Progress, BootInv, BootTyped, Carried
<1>5. at' = [at EXCEPT ![p] = <<FirstPending(p, more), 1>>]
      /\ at'[p] = <<FirstPending(p, more), 1>>
  BY DEF Record, NextMigration, Migration, BootInv, BootTyped
<1>6. FirstPending(p, more) \in 1..(Knows[p] + 1)
  BY FirstPendingRight
<1>7. Progress(p)'
  <2>1. \A j \in 1..(FirstPending(p, more) - 1) : Plan[j].version \in more
    BY FirstPendingRight
  <2>2. ASSUME FirstPending(p, more) <= Knows[p],
               NEW o \in DOMAIN Plan[FirstPending(p, more)].operations
        PROVE  ~ (o < 1)
    <3>1. FirstPending(p, more) \in DOMAIN Plan
      BY <1>4, <1>6, <2>2, PlanLength
    <3> QED
      BY <3>1, OperationNumbers
  <2> HIDE DEF more
  <2> QED
    BY <1>2, <1>5, <1>6, <2>1, <2>2 DEF Progress
<1>8. Creates[i] \subseteq objects
  <2> SUFFICES ASSUME NEW o \in DOMAIN Plan[i].operations
               PROVE  Plan[i].operations[o].name \in objects
    BY <1>4 DEF Creates
  <2>1. o < k
    BY <1>1, <1>4, OperationNumbers
  <2> QED
    BY <1>1, <1>3, <2>1 DEF Progress
<1>9. Recorded'
  <2> SUFFICES ASSUME NEW j \in DOMAIN Plan, Plan[j].version \in more
               PROVE  Creates[j] \subseteq objects
    BY <1>2 DEF Recorded
  <2>1. CASE Plan[j].version \in ledger
    BY <2>1 DEF BootInv, Recorded
  <2>2. CASE Plan[j].version = Plan[i].version
    BY <1>4, <1>8, <2>2, VersionsDiffer
  <2> QED
    BY <2>1, <2>2
<1>10. more \subseteq Versions(p)
  BY <1>1, <1>3, <1>4 DEF Stage, Versions
<1>11. Stage(p)'
  BY <1>1, <1>2, <1>3, <1>7, <1>10 DEF Stage, Versions, Carried
<1>12. BootTyped'
  BY <1>2, <1>4, <1>5, <1>6 DEF BootInv, BootTyped
<1>13. "legacy" \in tokens' => "token_hash" \in objects'
  BY <1>2 DEF BootInv, TokensSafe
<1> QED
  BY <1>1, <1>2, <1>9, <1>11, <1>12, <1>13, InnerStep DEF InLock

\* When no migration is left, all of the release are recorded.
LEMMA PlanDoneStep ==
  ASSUME BootInv, NEW p \in Processes, PlanDone(p)
  PROVE  BootInv'
<1>1. pc[p] = "apply" /\ pc' = [pc EXCEPT ![p] = "copy"] /\ pc'[p] = "copy"
  BY DEF PlanDone, Goto, BootInv, BootTyped
<1>2. UNCHANGED <<objects, ledger, tokens, settings, lock, at, has>>
  BY DEF PlanDone, schema
<1>3. Stage(p) /\ Progress(p)
  BY <1>1 DEF BootInv, StageSafe, InLock, Stage
<1>4. Versions(p) \subseteq ledger
  <2> SUFFICES ASSUME NEW j \in Carried(p)
               PROVE  Plan[j].version \in ledger
    BY DEF Versions
  <2>1. j \in 1..(at[p][1] - 1)
    BY <1>3, CarriedInPlan DEF PlanDone, Progress, Carried
  <2> QED
    BY <1>3, <2>1 DEF Progress
<1>5. Stage(p)'
  BY <1>1, <1>2, <1>3, <1>4 DEF Stage, Versions, Carried
<1>6. BootTyped'
  BY <1>1, <1>2 DEF BootInv, BootTyped, InLock
<1>7. Recorded' /\ ("legacy" \in tokens' => "token_hash" \in objects')
  BY <1>2 DEF BootInv, Recorded, TokensSafe
<1> QED
  BY <1>1, <1>2, <1>5, <1>6, <1>7, InnerStep DEF InLock

\* A setting that has a value keeps it.
LEMMA SeededKeeps ==
  ASSUME BootTyped, NEW value \in {"legacy", "default"}
  PROVE  /\ Seeded(value) \in [old : BOOLEAN, ttl : {"none", "legacy", "default", "chosen"}]
         /\ settings.ttl # "none" => Seeded(value).ttl = settings.ttl
BY DEF BootTyped, Seeded

LEMMA SeedStep ==
  ASSUME BootInv, NEW p \in Processes, CopyLegacyTTL(p) \/ SeedDefaults(p)
  PROVE  BootInv' /\ (settings.ttl # "none" => settings'.ttl = settings.ttl)
<1>1. PICK next \in {"seed", "release"} :
        pc[p] \in {"copy", "seed"} /\ pc' = [pc EXCEPT ![p] = next] /\ pc'[p] = next
  BY DEF CopyLegacyTTL, SeedDefaults, Goto, BootInv, BootTyped
<1>2. UNCHANGED <<objects, ledger, tokens, lock, at, has>>
  BY DEF CopyLegacyTTL, SeedDefaults
<1>3. settings' = settings \/ \E value \in {"legacy", "default"} : settings' = Seeded(value)
  BY DEF CopyLegacyTTL, SeedDefaults
<1>4. /\ settings' \in [old : BOOLEAN, ttl : {"none", "legacy", "default", "chosen"}]
      /\ settings.ttl # "none" => settings'.ttl = settings.ttl
  BY <1>3, SeededKeeps DEF BootInv, BootTyped
<1>5. BootTyped'
  BY <1>1, <1>2, <1>4 DEF BootInv, BootTyped, InLock
<1>6. Stage(p)
  BY <1>1 DEF BootInv, StageSafe, InLock
<1>7. Stage(p)'
  BY <1>1, <1>2, <1>6 DEF Stage, Versions, Carried
<1>8. Recorded' /\ ("legacy" \in tokens' => "token_hash" \in objects')
  BY <1>2 DEF BootInv, Recorded, TokensSafe
<1> QED
  BY <1>1, <1>2, <1>4, <1>5, <1>7, <1>8, InnerStep DEF InLock

\* A process that serves has found, or made, the schema of its release.
LEMMA ReleaseStep ==
  ASSUME BootInv, NEW p \in Processes, ReleaseLock(p)
  PROVE  /\ BootInv'
         /\ pc' = [pc EXCEPT ![p] = "up"]
         /\ ledger = Versions(p)
         /\ \A i \in Carried(p) : Creates[i] \subseteq objects
         /\ "token_hash" \notin objects /\ "legacy" \notin tokens
<1>1. pc[p] = "release" /\ pc' = [pc EXCEPT ![p] = "up"] /\ pc'[p] = "up"
  BY DEF ReleaseLock, Goto, BootInv, BootTyped
<1>2. UNCHANGED <<objects, ledger, tokens, settings, at, has>>
  BY DEF ReleaseLock, schema
<1>3. Stage(p)
  BY <1>1 DEF BootInv, StageSafe, InLock
<1>4. ledger = Versions(p) /\ "token_hash" \notin objects /\ "legacy" \notin tokens
  BY <1>1, <1>3 DEF Stage, BootInv, TokensSafe
<1>5. \A i \in Carried(p) : Creates[i] \subseteq objects
  BY <1>4, CarriedInPlan DEF BootInv, Recorded, Versions
<1>6. \A q \in Processes \ {p} : pc'[q] = pc[q] /\ pc[q] \notin InLock
  BY <1>1, OneHolder DEF BootInv, BootTyped, InLock
<1>7. lock = p /\ lock' = None
  BY <1>1 DEF ReleaseLock, Unlock, BootInv, LockHeld, InLock
<1>8. BootTyped'
  BY <1>1, <1>2 DEF BootInv, BootTyped, After
<1>9. LockHeld'
  BY <1>1, <1>6, <1>7, MigrationsAssumption DEF LockHeld, InLock
<1>10. StageSafe'
  BY <1>1, <1>6 DEF StageSafe, InLock
<1>11. Recorded' /\ TokensSafe'
  BY <1>1, <1>2, <1>4, <1>6 DEF BootInv, Recorded, TokensSafe, Serving
<1> QED
  BY <1>1, <1>4, <1>5, <1>8, <1>9, <1>10, <1>11 DEF BootInv

\* Nothing changes for the bootstrap.
LEMMA SameBoot ==
  ASSUME BootInv, UNCHANGED <<schema, lock, pc, at, has>>
  PROVE  BootInv'
<1>1. BootTyped' /\ LockHeld' /\ Recorded' /\ TokensSafe'
  BY DEF BootInv, BootTyped, LockHeld, Recorded, TokensSafe, Serving, schema
<1>2. StageSafe'
  BY DEF BootInv, StageSafe, Stage, Progress, Versions, Carried, schema
<1> QED
  BY <1>1, <1>2 DEF BootInv

\* A process that serves issues a token and sets a TTL.
LEMMA WriteStep ==
  ASSUME BootInv, NEW p \in Processes, Write(p)
  PROVE  BootInv' /\ settings'.ttl = "chosen"
<1>1. /\ UNCHANGED <<objects, ledger, lock, pc, at, has>>
      /\ tokens' = tokens \cup {"current"}
      /\ "token_hash" \notin objects
  BY DEF Write, BootInv, TokensSafe
<1>2. BootTyped' /\ settings'.ttl = "chosen"
  BY <1>1 DEF Write, BootInv, BootTyped
<1>3. LockHeld' /\ Recorded' /\ TokensSafe'
  BY <1>1 DEF BootInv, LockHeld, Recorded, TokensSafe, Serving
<1>4. StageSafe'
  BY <1>1 DEF BootInv, StageSafe, Stage, Progress, Versions, Carried
<1> QED
  BY <1>2, <1>3, <1>4 DEF BootInv

\* Nobody begins to serve, and tokens and settings in use stay.
Calm ==
  /\ \A q \in Processes : pc'[q] = "up" => pc[q] = "up"
  /\ "current" \in tokens => "current" \in tokens'
  /\ settings.ttl \notin {"none", settings'.ttl} => settings'.ttl = "chosen"

\* A process whose bootstrap goes on or ends does not begin to serve.
LEMMA CalmMove ==
  ASSUME BootTyped, NEW p \in Processes, NEW next, next # "up", Goto(p, next),
         "current" \in tokens => "current" \in tokens',
         settings.ttl \notin {"none", settings'.ttl} => settings'.ttl = "chosen"
  PROVE  Calm
BY DEF Calm, BootTyped, Goto

LEMMA DiesCalm ==
  ASSUME BootInv, NEW p \in Processes, Dies(p)
  PROVE  BootInv' /\ Calm
<1>1. Goto(p, "down") /\ UNCHANGED <<tokens, settings>>
  BY DEF Dies, schema
<1> QED
  BY <1>1, DiesStep, CalmMove DEF BootInv

LEMMA BootStepsCalm ==
  ASSUME BootInv, NEW p \in Processes,
         Boot(p) \/ GetLock(p) \/ LockTimesOut(p) \/ BootSteps(p) \/ BootFails(p)
  PROVE  BootInv' /\ Calm
<1>1. ASSUME UNCHANGED <<tokens, settings>>, NEW next, next # "up", Goto(p, next)
      PROVE  Calm
  BY <1>1, CalmMove DEF BootInv
<1>2. CASE Boot(p)
  <2>1. pc[p] \notin InLock /\ pc' = [pc EXCEPT ![p] = "lock"] /\ UNCHANGED <<schema, lock, at, has>>
    BY <1>2 DEF Boot, Goto, InLock
  <2>2. BootInv'
    BY <2>1, OuterStep DEF Before
  <2> QED
    BY <1>1, <1>2, <2>2 DEF Boot, schema
<1>3. CASE GetLock(p)
  BY <1>1, <1>3, GetLockStep DEF GetLock, schema
<1>4. CASE LockTimesOut(p) \/ BootRefused(p) \/ BootFails(p)
  BY <1>4, DiesCalm DEF LockTimesOut, BootRefused, BootFails
<1>5. CASE InspectLedger(p) \/ InspectTokens(p)
  BY <1>1, <1>5, InspectStep DEF InspectLedger, InspectTokens, schema
<1>6. CASE PurgeTokens(p)
  BY <1>6, PurgeStep, CalmMove DEF PurgeTokens, BootInv
<1>7. CASE DropColumns(p)
  BY <1>1, <1>7, DropStep DEF DropColumns
<1>8. CASE CreateTable(p)
  BY <1>8, CreateTableStep DEF CreateTable, Calm
<1>9. CASE BaselineDone(p)
  BY <1>1, <1>9, BaselineDoneStep DEF BaselineDone, schema
<1>10. CASE ApplyOperation(p)
  BY <1>10, ApplyStep DEF ApplyOperation, Calm
<1>11. CASE Record(p)
  BY <1>11, RecordStep DEF Record, Calm
<1>12. CASE PlanDone(p)
  BY <1>1, <1>12, PlanDoneStep DEF PlanDone, schema
<1>13. CASE CopyLegacyTTL(p)
  BY <1>13, SeedStep, CalmMove DEF CopyLegacyTTL, BootInv
<1>14. CASE SeedDefaults(p)
  BY <1>14, SeedStep, CalmMove DEF SeedDefaults, BootInv
<1> QED
  BY <1>2, <1>3, <1>4, <1>5, <1>6, <1>7, <1>8, <1>9, <1>10, <1>11, <1>12, <1>13, <1>14
  DEF BootSteps

\* What a process does while it serves, flushes and stops.
LEMMA RuntimeCalm ==
  ASSUME BootInv, NEW p \in Processes, Requests(p) \/ Flusher(p) \/ Shutdown(p) \/ Crash(p)
  PROVE  BootInv' /\ Calm
<1>1. ASSUME UNCHANGED <<schema, lock, pc, at, has>>
      PROVE  BootInv' /\ Calm
  BY <1>1, SameBoot DEF schema, Calm
<1>2. CASE Request(p) \/ CountView(p) \/ ViewRepeated(p) \/ ViewDropped(p)
  BY <1>1, <1>2 DEF Request, CountView, ViewRepeated, ViewDropped
<1>3. CASE Write(p)
  BY <1>3, WriteStep DEF Write, Calm
<1>4. CASE Flusher(p)
  BY <1>1, <1>4 DEF Flusher, Take, TakeLost, Update, UpdateFails, Restore, RestoreFails,
                    RestoreUnanswered, Panic, Again, Return, Work
<1>5. ASSUME pc[p] \in After, NEW next \in {"http", "soft", "hard", "closing"}, Goto(p, next),
             UNCHANGED <<schema, lock, at, has>>
      PROVE  BootInv' /\ Calm
  <2>1. pc[p] \notin InLock /\ next \in Before \cup After /\ next # "up"
    BY <1>5 DEF After, InLock
  <2>2. BootInv'
    BY <1>5, <2>1, OuterStep DEF Goto
  <2> QED
    BY <1>5, <2>1, <2>2, CalmMove DEF BootInv, schema
<1>6. CASE Stop(p) \/ Drained(p) \/ DrainTimesOut(p) \/ WorkersStop(p) \/ SoftTimesOut(p)
           \/ HardTimesOut(p)
  BY <1>5, <1>6 DEF Stop, Drained, DrainTimesOut, WorkersStop, SoftTimesOut, HardTimesOut,
                    Phase, Serving, After
<1>7. CASE CloseSQL(p) \/ Crash(p)
  BY <1>7, DiesCalm DEF CloseSQL, Crash, Ends
<1> QED
  BY <1>2, <1>3, <1>4, <1>6, <1>7 DEF Requests, Shutdown

\* The two together: a process begins to serve by releasing the lock only.
LEMMA NextBoot ==
  ASSUME BootInv, [Next]_vars
  PROVE  BootInv' /\ (Calm \/ \E p \in Processes : ReleaseLock(p))
<1>1. CASE UNCHANGED vars
  BY <1>1, SameBoot DEF vars, schema, Calm
<1>2. ASSUME NEW p \in Processes, BootStep(p)
      PROVE  BootInv' /\ (Calm \/ ReleaseLock(p))
  BY <1>2, BootStepsCalm, ReleaseStep DEF BootStep, StartUp
<1>3. ASSUME NEW p \in Processes, Requests(p) \/ Flusher(p) \/ Shutdown(p) \/ Crash(p)
      PROVE  BootInv' /\ Calm
  BY <1>3, RuntimeCalm
<1> QED
  BY <1>1, <1>2, <1>3 DEF Next

\* The inductive invariant of the bootstrap.
THEOREM BootInvariant == Spec => []BootInv
<1>1. Init => BootInv
  BY InitBoot
<1>2. BootInv /\ [Next]_vars => BootInv'
  BY NextBoot
<1> QED
  BY <1>1, <1>2, PTL DEF Spec

\* However processes of several releases start, die and wait for the lock: a process
\* begins to serve only on the complete schema of its own release, and its start takes
\* no token and no setting from those that serve (applyPendingSchemaMigrations,
\* migrateLegacyTokens, seedDefaultConfigs).
THEOREM UpgradesStaySafe == Spec => UpgradesAreSafe
<1> DEFINE Safe ==
      /\ \A p \in Processes : ~ Serving(p) /\ pc'[p] = "up" =>
           /\ ledger = Versions(p)
           /\ \A i \in Carried(p) : Creates[i] \subseteq objects
           /\ "token_hash" \notin objects /\ "legacy" \notin tokens
      /\ "current" \in tokens => "current" \in tokens'
      /\ settings.ttl \notin {"none", settings'.ttl} => settings'.ttl = "chosen"
<1>1. ASSUME BootInv, [Next]_vars
      PROVE  [Safe]_vars
  <2>1. CASE Calm
    BY <2>1 DEF Calm, Serving
  <2>2. ASSUME NEW p \in Processes, ReleaseLock(p)
        PROVE  Safe
    <3>1. UNCHANGED <<tokens, settings>>
      BY <2>2 DEF ReleaseLock, schema
    <3>2. \A q \in Processes \ {p} : pc'[q] = pc[q]
      BY <1>1, <2>2, ReleaseStep DEF BootInv, BootTyped
    <3> QED
      BY <1>1, <2>2, <3>1, <3>2, ReleaseStep DEF Serving
  <2> QED
    BY <1>1, <2>1, <2>2, NextBoot
<1> QED
  BY <1>1, BootInvariant, PTL DEF Spec, UpgradesAreSafe

-----------------------------------------------------------------------------
(* Service and shutdown.                                                   *)

WorkerType ==
  [at : {"off", "idle", "taken", "final", "restore", "final.restore", "backoff", "gone"},
   n : Nat]

RuntimeTyped ==
  /\ worker \in [Processes -> WorkerType]
  /\ handling \in [Processes -> BOOLEAN] /\ failed \in [Processes -> BOOLEAN]
  /\ seen \in Nat /\ cached \in Nat /\ counted \in Nat /\ spoiled \in BOOLEAN

\* Where a flusher has taken nothing.
Lazy == {"off", "idle", "gone", "backoff"}

\* It holds nothing there.
EmptyHands == \A p \in Processes : worker[p].at \in Lazy => worker[p].n = 0

\* The flusher of a process that does not serve yet is off.
OffBefore == \A p \in Processes : pc[p] \in Before \cup InLock => worker[p] = Off

ServerInv ==
  /\ BootInv
  /\ RuntimeTyped
  /\ EmptyHands
  /\ OffBefore
  /\ CleanShutdown
  /\ spoiled \/ Total(worker) + cached + counted = seen

\* What ViewsConserved says, in terms of the sum.
LEMMA ViewsAreSum == ViewsConserved <=> (spoiled \/ Total(worker) + cached + counted = seen)
BY DEF ViewsConserved, Total, Holds

\* One flusher moves on.
LEMMA WorkerMoves ==
  ASSUME RuntimeTyped, NEW p \in Processes, NEW x \in WorkerType,
         worker' = [worker EXCEPT ![p] = x]
  PROVE  /\ worker' \in [Processes -> WorkerType]
         /\ worker'[p] = x /\ \A q \in Processes \ {p} : worker'[q] = worker[q]
         /\ Total(worker) \in Int
         /\ Total(worker') = Total(worker) + x.n - worker[p].n
<1>1. worker' \in [Processes -> WorkerType]
  BY DEF RuntimeTyped
<1>2. worker'[p] = x /\ \A q \in Processes \ {p} : worker'[q] = worker[q]
  BY DEF RuntimeTyped
<1>3. \A q \in Processes : worker[q] \in WorkerType
  BY DEF RuntimeTyped
<1>4. \A y \in WorkerType : y.n \in Int
  BY DEF WorkerType
<1>5. x.n \in Int /\ \A q \in Processes : worker[q].n \in Int
  BY <1>3, <1>4
<1>6. PICK w, v : w = worker /\ v = worker'
  OBVIOUS
<1>7. /\ \A q \in Processes : w[q].n \in Int
      /\ v[p] = x /\ x.n \in Int /\ \A q \in Processes \ {p} : v[q] = w[q]
  BY <1>2, <1>5, <1>6
<1>8. Total(w) \in Int /\ Total(v) = Total(w) + x.n - w[p].n
  <2> HIDE <1>1, <1>2, <1>3, <1>4, <1>5, <1>6
  <2> QED
    BY <1>7, SumStep
<1> QED
  BY <1>1, <1>2, <1>6, <1>8

\* A step of one process.
LEMMA LocalStep ==
  ASSUME ServerInv, BootInv', RuntimeTyped', NEW p \in Processes,
         \A q \in Processes \ {p} :
           /\ pc'[q] = pc[q] /\ worker'[q] = worker[q]
           /\ handling'[q] = handling[q] /\ failed'[q] = failed[q],
         worker'[p].at \in Lazy => worker'[p].n = 0,
         pc'[p] \in Before \cup InLock => worker'[p] = Off,
         pc'[p] \in {"soft", "hard", "closing"} => failed'[p] \/ ~ handling'[p],
         pc'[p] = "closing" => failed'[p] \/ worker'[p] = Gone,
         spoiled' \/ Total(worker') + cached' + counted' = seen'
  PROVE  ServerInv'
<1>1. EmptyHands'
  <2> SUFFICES ASSUME NEW q \in Processes
               PROVE  worker'[q].at \in Lazy => worker'[q].n = 0
    BY DEF EmptyHands, Lazy
  <2> QED
    BY DEF ServerInv, EmptyHands, Lazy
<1>2. OffBefore'
  <2> SUFFICES ASSUME NEW q \in Processes, pc'[q] \in Before \cup InLock
               PROVE  worker'[q] = Off
    BY DEF OffBefore, Off
  <2> QED
    BY DEF ServerInv, OffBefore
<1>3. CleanShutdown'
  <2> SUFFICES ASSUME NEW q \in Processes, ~ failed'[q]
               PROVE  /\ pc'[q] \in {"soft", "hard", "closing"} => ~ handling'[q]
                      /\ pc'[q] = "closing" => worker'[q] = Gone
    BY DEF CleanShutdown, Stopping, Gone
  <2>1. CASE q = p
    BY <2>1
  <2>2. CASE q # p
    BY <2>2 DEF ServerInv, CleanShutdown, Stopping
  <2> QED
    BY <2>1, <2>2
<1> QED
  BY <1>1, <1>2, <1>3 DEF ServerInv

LEMMA InitServer ==
  ASSUME Init
  PROVE  ServerInv
<1>1. BootInv
  BY InitBoot
<1>2. \A p \in Processes : worker[p] = Off /\ failed[p] = FALSE /\ handling[p] = FALSE /\ pc[p] = "down"
  BY DEF Init, MigrationsInit
<1>3. Off \in WorkerType
  BY DEF Off, WorkerType
<1>4. RuntimeTyped
  BY <1>3 DEF Init, RuntimeTyped
<1>5. EmptyHands /\ OffBefore
  BY <1>2 DEF EmptyHands, OffBefore, Off
<1>6. CleanShutdown
  BY <1>2 DEF CleanShutdown, Stopping
<1>7. Total(worker) = 0
  <2>1. \A p \in Processes : worker[p].n = 0
    BY <1>2 DEF Off
  <2>2. PICK w : w = worker
    OBVIOUS
  <2>3. Total(w) = 0
    BY <2>1, <2>2, SumOfZeros
  <2> QED
    BY <2>2, <2>3
<1>8. Total(worker) + cached + counted = seen
  BY <1>7 DEF Init
<1> QED
  BY <1>1, <1>4, <1>5, <1>6, <1>8 DEF ServerInv

\* A bootstrap changes nothing of the service.
LEMMA BootMoves ==
  ASSUME BootInv, NEW p \in Processes,
         Boot(p) \/ GetLock(p) \/ LockTimesOut(p) \/ BootSteps(p) \/ BootFails(p)
  PROVE  /\ pc[p] \in Before \cup InLock /\ pc'[p] \in Before \cup InLock
         /\ \A q \in Processes \ {p} : pc'[q] = pc[q]
<1>1. ASSUME pc[p] \in Before \cup InLock, NEW next \in Before \cup InLock, Goto(p, next)
      PROVE  /\ pc[p] \in Before \cup InLock /\ pc'[p] \in Before \cup InLock
             /\ \A q \in Processes \ {p} : pc'[q] = pc[q]
  BY <1>1 DEF Goto, BootInv, BootTyped
<1>2. CASE Boot(p) \/ GetLock(p)
  BY <1>1, <1>2 DEF Boot, GetLock, Before, InLock
<1>3. CASE LockTimesOut(p)
  BY <1>1, <1>3 DEF LockTimesOut, Dies, Before
<1>4. CASE BootFails(p)
  <2>1. pc[p] \in Before \cup InLock
    BY <1>4 DEF BootFails, Booting, BootInv, BootTyped, After
  <2> QED
    BY <1>1, <1>4, <2>1 DEF BootFails, Dies, Before
<1>5. CASE BootRefused(p)
  <2>1. pc[p] \in Before \cup InLock
    BY <1>5 DEF BootRefused, Rejected, Unapplied, Pending, InLock
  <2> QED
    BY <1>1, <1>5, <2>1 DEF BootRefused, Dies, Before
<1>6. CASE InspectLedger(p) \/ InspectTokens(p) \/ PurgeTokens(p) \/ DropColumns(p)
           \/ BaselineDone(p) \/ PlanDone(p) \/ CopyLegacyTTL(p) \/ SeedDefaults(p)
  BY <1>1, <1>6 DEF InspectLedger, InspectTokens, PurgeTokens, DropColumns, BaselineDone,
                    PlanDone, CopyLegacyTTL, SeedDefaults, InLock
<1>7. CASE CreateTable(p) \/ ApplyOperation(p) \/ Record(p)
  BY <1>7 DEF CreateTable, ApplyOperation, Record, Unapplied, Pending, InLock
<1> QED
  BY <1>2, <1>3, <1>4, <1>5, <1>6, <1>7 DEF BootSteps

LEMMA BootKeepsService ==
  ASSUME ServerInv, BootInv', NEW p \in Processes, BootStep(p)
  PROVE  ServerInv'
<1>1. CASE StartUp(p)
  <2>1. /\ pc'[p] = "up" /\ \A q \in Processes \ {p} : pc'[q] = pc[q]
        /\ pc[p] = "release"
    BY <1>1 DEF StartUp, ReleaseLock, Goto, ServerInv, BootInv, BootTyped
  <2>2. worker[p] = Off
    BY <2>1 DEF ServerInv, OffBefore, InLock
  <2>3. Idle \in WorkerType /\ Idle.n = 0 /\ Off.n = 0
    BY DEF Idle, Off, WorkerType
  <2>4. worker' = [worker EXCEPT ![p] = Idle] /\ UNCHANGED <<handling, failed, views, stops>>
    BY <1>1 DEF StartUp
  <2>5. /\ worker' \in [Processes -> WorkerType]
        /\ worker'[p] = Idle /\ \A q \in Processes \ {p} : worker'[q] = worker[q]
        /\ Total(worker) \in Int /\ Total(worker') = Total(worker) + Idle.n - worker[p].n
    BY <2>3, <2>4, WorkerMoves DEF ServerInv
  <2>6. Total(worker') = Total(worker)
    BY <2>2, <2>3, <2>5
  <2>7. RuntimeTyped'
    BY <2>4, <2>5 DEF ServerInv, RuntimeTyped, views
  <2>8. spoiled' \/ Total(worker') + cached' + counted' = seen'
    BY <2>4, <2>6 DEF ServerInv, views
  <2>9. pc'[p] \notin Before \cup InLock /\ pc'[p] \notin {"soft", "hard", "closing"}
    BY <2>1 DEF Before, InLock
  <2> QED
    BY <2>1, <2>3, <2>4, <2>5, <2>7, <2>8, <2>9, LocalStep
<1>2. CASE /\ Boot(p) \/ GetLock(p) \/ LockTimesOut(p) \/ BootSteps(p) \/ BootFails(p)
           /\ UNCHANGED runtime
  <2>1. /\ pc[p] \in Before \cup InLock /\ pc'[p] \in Before \cup InLock
        /\ \A q \in Processes \ {p} : pc'[q] = pc[q]
    BY <1>2, BootMoves DEF ServerInv
  <2>2. UNCHANGED <<worker, handling, failed, seen, cached, counted, spoiled>>
    BY <1>2 DEF runtime, views
  <2>3. worker[p] = Off
    BY <2>1 DEF ServerInv, OffBefore
  <2>4. RuntimeTyped'
    BY <2>2 DEF ServerInv, RuntimeTyped
  <2>5. spoiled' \/ Total(worker') + cached' + counted' = seen'
    BY <2>2 DEF ServerInv
  <2>6. pc'[p] \notin {"soft", "hard", "closing"}
    BY <2>1 DEF Before, InLock
  <2>7. Off.n = 0
    BY DEF Off
  <2> QED
    BY <2>1, <2>2, <2>3, <2>4, <2>5, <2>6, <2>7, LocalStep
<1> QED
  BY <1>1, <1>2 DEF BootStep

LEMMA RequestsKeepService ==
  ASSUME ServerInv, BootInv', NEW p \in Processes, Requests(p)
  PROVE  ServerInv'
<1>1. UNCHANGED <<pc, failed, worker, counted>>
  BY DEF Requests, Request, CountView, ViewRepeated, ViewDropped, Write, runtime, views
<1>2. \/ UNCHANGED <<seen, cached, spoiled>>
      \/ seen' = seen + 1 /\ cached' = cached + 1 /\ spoiled' = spoiled
      \/ seen' = seen + 1 /\ cached' = cached + 2 /\ spoiled' = TRUE
  BY DEF Requests, Request, CountView, ViewRepeated, ViewDropped, Write, runtime, views
<1>3. PICK b \in BOOLEAN : handling' = [handling EXCEPT ![p] = b] /\ (b => pc[p] = "up" \/ handling[p])
  <2>1. CASE Request(p)
    BY <2>1 DEF Request, Serving
  <2>2. CASE CountView(p) \/ ViewRepeated(p) \/ ViewDropped(p)
    BY <2>2 DEF CountView, ViewRepeated, ViewDropped
  <2>3. CASE Write(p)
    BY <2>3 DEF Write, Serving, runtime, ServerInv, RuntimeTyped
  <2> QED
    BY <2>1, <2>2, <2>3 DEF Requests
<1>4. /\ \A q \in Processes \ {p} : handling'[q] = handling[q]
      /\ handling' \in [Processes -> BOOLEAN]
      /\ handling'[p] = b
  BY <1>3 DEF ServerInv, RuntimeTyped
<1>5. RuntimeTyped'
  <2>1. seen' \in Nat /\ cached' \in Nat
    BY <1>2 DEF ServerInv, RuntimeTyped
  <2>2. spoiled' \in BOOLEAN
    <3>1. spoiled' = spoiled \/ spoiled' = TRUE
      BY <1>2
    <3>2. spoiled \in BOOLEAN
      BY DEF ServerInv, RuntimeTyped
    <3> QED
      BY <3>1, <3>2
  <2> QED
    BY <1>1, <1>4, <2>1, <2>2 DEF ServerInv, RuntimeTyped
<1>6. Total(worker) \in Int
  <2>1. PICK x \in WorkerType : x = worker[p]
    BY DEF ServerInv, RuntimeTyped
  <2>2. worker = [worker EXCEPT ![p] = x]
    BY <2>1 DEF ServerInv, RuntimeTyped
  <2> QED
    BY <1>1, <2>2, WorkerMoves DEF ServerInv
<1>7. spoiled' \/ Total(worker') + cached' + counted' = seen'
  BY <1>1, <1>2, <1>6 DEF ServerInv, RuntimeTyped
<1>8. pc'[p] \in {"soft", "hard", "closing"} => failed'[p] \/ ~ handling'[p]
  BY <1>1, <1>3, <1>4 DEF ServerInv, CleanShutdown, Stopping
<1>9. pc'[p] = "closing" => failed'[p] \/ worker'[p] = Gone
  BY <1>1 DEF ServerInv, CleanShutdown
<1>10. /\ worker'[p].at \in Lazy => worker'[p].n = 0
       /\ pc'[p] \in Before \cup InLock => worker'[p] = Off
  BY <1>1 DEF ServerInv, EmptyHands, OffBefore
<1> QED
  BY <1>1, <1>4, <1>5, <1>7, <1>8, <1>9, <1>10, LocalStep

\* The flusher: what it takes it adds somewhere or still holds, or the run is spoiled.
LEMMA FlusherMoves ==
  ASSUME ServerInv, NEW p \in Processes, Flusher(p)
  PROVE  /\ UNCHANGED <<pc, failed, handling, seen>>
         /\ worker[p].at \notin {"off", "gone"}
         /\ cached' \in Nat /\ counted' \in Nat
         /\ spoiled' \in BOOLEAN /\ (spoiled => spoiled')
         /\ \E x \in WorkerType :
              /\ worker' = [worker EXCEPT ![p] = x]
              /\ x.at \in Lazy => x.n = 0
              /\ ~ spoiled' => x.n + cached' + counted' = worker[p].n + cached + counted
<1>1. worker[p] \in WorkerType /\ worker[p].n \in Nat /\ cached \in Nat /\ counted \in Nat
  BY DEF ServerInv, RuntimeTyped, WorkerType
<1>2. worker[p].at \in Lazy => worker[p].n = 0
  BY DEF ServerInv, EmptyHands
<1>3. /\ Idle \in WorkerType /\ Idle.n = 0 /\ Gone \in WorkerType /\ Gone.n = 0
      /\ BackOff \in WorkerType /\ BackOff.n = 0
      /\ Flushed(p) \in WorkerType /\ Flushed(p).n = 0
  BY DEF Idle, Gone, BackOff, Flushed, WorkerType
<1>4. /\ Restoring(p) \in WorkerType /\ Restoring(p).n = worker[p].n
      /\ Restoring(p).at \notin Lazy
  BY <1>1 DEF Restoring, Holds, WorkerType, Lazy
<1>5. UNCHANGED <<pc, failed, handling, seen>>
  BY DEF Flusher, Take, TakeLost, Update, UpdateFails, Restore, RestoreFails,
         RestoreUnanswered, Panic, Again, Return, Work
<1>6. worker[p].at \notin {"off", "gone"}
  BY DEF Flusher, Take, TakeLost, Update, UpdateFails, Restore, RestoreFails,
         RestoreUnanswered, Panic, Again, Return, Is, Updating, InRestore
<1>7. spoiled' \in BOOLEAN /\ (spoiled => spoiled')
  <2>1. spoiled \in BOOLEAN
    BY DEF ServerInv, RuntimeTyped
  <2>2. CASE Panic(p)
    <3>1. spoiled' = (spoiled \/ Holds(p) > 0)
      BY <2>2 DEF Panic
    <3>2. (spoiled \/ Holds(p) > 0) \in BOOLEAN
      BY Zenon
    <3> QED
      BY <3>1, <3>2, Zenon
  <2>3. CASE ~ Panic(p)
    <3>1. spoiled' = spoiled \/ spoiled' = TRUE
      BY <2>3 DEF Flusher, Take, TakeLost, Update, UpdateFails, Restore, RestoreFails,
                  RestoreUnanswered, Again, Return
    <3> QED
      BY <2>1, <3>1
  <2> QED
    BY <2>2, <2>3
<1>8. \E x \in WorkerType :
        /\ cached' \in Nat /\ counted' \in Nat
        /\ worker' = [worker EXCEPT ![p] = x]
        /\ x.at \in Lazy => x.n = 0
        /\ ~ spoiled' => x.n + cached' + counted' = worker[p].n + cached + counted
  <2>1. CASE Take(p)
    <3>1. PICK x \in WorkerType : x.n = cached /\ x.at \notin Lazy /\ Work(p, x)
      BY <1>1, <2>1 DEF Take, WorkerType, Lazy
    <3>2. worker[p].n = 0
      BY <1>2, <2>1 DEF Take, Is, Lazy
    <3>3. cached' = 0 /\ counted' = counted
      BY <2>1 DEF Take
    <3>4. /\ cached' \in Nat /\ counted' \in Nat
          /\ x.n + cached' + counted' = worker[p].n + cached + counted
      BY <1>1, <3>1, <3>2, <3>3
    <3> QED
      BY <3>1, <3>4 DEF Work
  <2>2. CASE Update(p)
    <3>1. cached' = cached /\ counted' = counted + worker[p].n
      BY <2>2 DEF Update, Holds
    <3>2. worker' = [worker EXCEPT ![p] = Flushed(p)]
      BY <2>2 DEF Update, Work
    <3>3. /\ cached' \in Nat /\ counted' \in Nat
          /\ Flushed(p).n + cached' + counted' = worker[p].n + cached + counted
      BY <1>1, <1>3, <3>1
    <3> QED
      BY <1>3, <3>2, <3>3
  <2>3. CASE UpdateFails(p)
    <3>1. /\ cached' = cached
          /\ \/ counted' = counted
             \/ counted' = counted + worker[p].n /\ spoiled'
      BY <2>3 DEF UpdateFails, Holds
    <3>2. worker' = [worker EXCEPT ![p] = Restoring(p)]
      BY <2>3 DEF UpdateFails, Work
    <3>3. cached' \in Nat /\ counted' \in Nat
      BY <1>1, <3>1
    <3>4. counted' = counted
          => Restoring(p).n + cached' + counted' = worker[p].n + cached + counted
      BY <1>1, <1>4, <3>1
    <3> QED
      BY <1>4, <3>1, <3>2, <3>3, <3>4
  <2>4. CASE Restore(p)
    <3>1. cached' = cached + worker[p].n /\ counted' = counted
      BY <2>4 DEF Restore, Restored, Holds
    <3>2. worker' = [worker EXCEPT ![p] = Flushed(p)]
      BY <2>4 DEF Restore, Work
    <3>3. /\ cached' \in Nat /\ counted' \in Nat
          /\ Flushed(p).n + cached' + counted' = worker[p].n + cached + counted
      BY <1>1, <1>3, <3>1
    <3> QED
      BY <1>3, <3>2, <3>3
  <2>5. CASE RestoreFails(p)
    <3>1. UNCHANGED <<cached, counted>> /\ spoiled'
      BY <2>5 DEF RestoreFails
    <3>2. worker' = [worker EXCEPT ![p] = Flushed(p)]
      BY <2>5 DEF RestoreFails, Work
    <3> QED
      BY <1>1, <1>3, <3>1, <3>2
  <2>6. CASE Panic(p)
    <3>1. UNCHANGED <<cached, counted>> /\ (worker[p].n > 0 => spoiled')
      BY <2>6 DEF Panic, Holds
    <3>2. PICK x \in {Gone, BackOff} : worker' = [worker EXCEPT ![p] = x]
      BY <2>6 DEF Panic, Work
    <3>3. x \in WorkerType /\ x.n = 0
      BY <1>3
    <3>4. ~ (worker[p].n > 0) => x.n + cached' + counted' = worker[p].n + cached + counted
      BY <1>1, <3>1, <3>3
    <3> QED
      BY <1>1, <3>1, <3>2, <3>3, <3>4
  <2>7. CASE Again(p) \/ Return(p)
    <3>1. UNCHANGED <<cached, counted>>
      BY <2>7 DEF Again, Return
    <3>2. PICK x \in {Gone, Idle} : worker' = [worker EXCEPT ![p] = x]
      BY <2>7 DEF Again, Return, Work
    <3>3. x \in WorkerType /\ x.n = 0
      BY <1>3
    <3>4. worker[p].n = 0
      BY <1>2, <2>7 DEF Again, Return, Is, Lazy
    <3>5. x.n + cached' + counted' = worker[p].n + cached + counted
      BY <1>1, <3>1, <3>3, <3>4
    <3> QED
      BY <1>1, <3>1, <3>2, <3>3, <3>5
  <2>8. CASE TakeLost(p)
    <3>1. cached' = 0 /\ counted' = counted /\ spoiled'
      BY <2>8 DEF TakeLost
    <3>2. worker' = [worker EXCEPT ![p] = worker[p]]
      BY <2>8 DEF TakeLost, Work
    <3> QED
      BY <1>1, <1>2, <3>1, <3>2
  <2>9. CASE RestoreUnanswered(p)
    <3>1. /\ counted' = counted
          /\ \/ cached' = cached + worker[p].n
             \/ cached' = cached + worker[p].n + worker[p].n /\ spoiled'
      BY <2>9 DEF RestoreUnanswered, Restored, Holds
    <3>2. worker' = [worker EXCEPT ![p] = Flushed(p)]
      BY <2>9 DEF RestoreUnanswered, Work
    <3>3. cached' \in Nat /\ counted' \in Nat
      BY <1>1, <3>1
    <3>4. ~ spoiled' => Flushed(p).n + cached' + counted' = worker[p].n + cached + counted
      BY <1>1, <1>3, <3>1
    <3> QED
      BY <1>3, <3>2, <3>3, <3>4
  <2> QED
    BY <2>1, <2>2, <2>3, <2>4, <2>5, <2>6, <2>7, <2>8, <2>9 DEF Flusher
<1> QED
  BY <1>5, <1>6, <1>7, <1>8

LEMMA FlusherKeepsService ==
  ASSUME ServerInv, BootInv', NEW p \in Processes, Flusher(p)
  PROVE  ServerInv'
<1>1. PICK x \in WorkerType :
        /\ worker' = [worker EXCEPT ![p] = x]
        /\ x.at \in Lazy => x.n = 0
        /\ ~ spoiled' => x.n + cached' + counted' = worker[p].n + cached + counted
  BY FlusherMoves
<1>2. /\ UNCHANGED <<pc, failed, handling, seen>>
      /\ worker[p].at \notin {"off", "gone"}
      /\ cached' \in Nat /\ counted' \in Nat
      /\ spoiled' \in BOOLEAN /\ (spoiled => spoiled')
  BY FlusherMoves
<1>3. /\ worker' \in [Processes -> WorkerType]
      /\ worker'[p] = x /\ \A q \in Processes \ {p} : worker'[q] = worker[q]
      /\ Total(worker) \in Int /\ Total(worker') = Total(worker) + x.n - worker[p].n
  BY <1>1, WorkerMoves DEF ServerInv
<1>4. RuntimeTyped'
  BY <1>2, <1>3 DEF ServerInv, RuntimeTyped
<1>5. pc[p] \notin Before \cup InLock
  BY <1>2 DEF ServerInv, OffBefore, Off
<1>6. pc[p] = "closing" => failed[p]
  BY <1>2 DEF ServerInv, CleanShutdown, Gone
<1>7. pc[p] \in {"soft", "hard", "closing"} => failed[p] \/ ~ handling[p]
  BY DEF ServerInv, CleanShutdown, Stopping
<1>8. ASSUME ~ spoiled'
      PROVE  Total(worker') + cached' + counted' = seen'
  <2>1. Total(worker) + cached + counted = seen
    BY <1>2, <1>8 DEF ServerInv
  <2>2. x.n + cached' + counted' = worker[p].n + cached + counted
    BY <1>1, <1>8
  <2>3. worker[p].n \in Nat /\ x.n \in Nat /\ cached \in Nat /\ counted \in Nat
    BY DEF ServerInv, RuntimeTyped, WorkerType
  <2> QED
    BY <1>2, <1>3, <2>1, <2>2, <2>3
<1> QED
  BY <1>1, <1>2, <1>3, <1>4, <1>5, <1>6, <1>7, <1>8, LocalStep

\* A shutdown waits for requests and workers, or notes that it did not.
LEMMA ShutdownMoves ==
  ASSUME ServerInv, BootInv', NEW p \in Processes, Shutdown(p), ~ CloseSQL(p)
  PROVE  ServerInv'
<1>1. UNCHANGED <<handling, worker, seen, cached, counted, spoiled>>
  BY DEF Shutdown, Stop, Drained, DrainTimesOut, WorkersStop, SoftTimesOut, HardTimesOut, Phase,
         views
<1>2. PICK next \in {"http", "soft", "hard", "closing"} : Goto(p, next)
  BY DEF Shutdown, Stop, Drained, DrainTimesOut, WorkersStop, SoftTimesOut, HardTimesOut, Phase
<1>3. pc'[p] = next /\ \A q \in Processes \ {p} : pc'[q] = pc[q]
  BY <1>2 DEF Goto, ServerInv, BootInv, BootTyped
<1>4. failed' = failed \/ failed' = [failed EXCEPT ![p] = TRUE]
  BY DEF Shutdown, Stop, Drained, DrainTimesOut, WorkersStop, SoftTimesOut, HardTimesOut
<1>5. /\ failed' \in [Processes -> BOOLEAN]
      /\ \A q \in Processes \ {p} : failed'[q] = failed[q]
      /\ failed[p] => failed'[p]
  BY <1>4 DEF ServerInv, RuntimeTyped
<1>6. RuntimeTyped'
  BY <1>1, <1>5 DEF ServerInv, RuntimeTyped
<1>7. spoiled' \/ Total(worker') + cached' + counted' = seen'
  BY <1>1 DEF ServerInv
<1>8. /\ worker'[p].at \in Lazy => worker'[p].n = 0
      /\ pc'[p] \notin Before \cup InLock
  BY <1>1, <1>3 DEF ServerInv, EmptyHands, Before, InLock
<1>9. /\ pc'[p] \in {"soft", "hard", "closing"} => failed'[p] \/ ~ handling'[p]
      /\ pc'[p] = "closing" => failed'[p] \/ worker'[p] = Gone
  <2>1. pc[p] \in {"soft", "hard", "closing"} => failed[p] \/ ~ handling[p]
    BY DEF ServerInv, CleanShutdown, Stopping
  <2>2. CASE Stop(p)
    BY <1>3, <2>2 DEF Stop, Goto, ServerInv, BootInv, BootTyped
  <2>3. CASE Drained(p)
    BY <1>1, <1>3, <2>3 DEF Drained, Phase, Goto, ServerInv, BootInv, BootTyped
  <2>4. CASE DrainTimesOut(p) \/ HardTimesOut(p)
    BY <2>4 DEF DrainTimesOut, HardTimesOut, ServerInv, RuntimeTyped
  <2>5. CASE WorkersStop(p)
    <3>1. worker[p] = Gone
      BY <2>5 DEF WorkersStop, WorkersDone, Is, ServerInv, EmptyHands, RuntimeTyped, WorkerType,
                  Gone, Lazy
    <3> QED
      BY <1>1, <1>5, <2>1, <2>5, <3>1 DEF WorkersStop
  <2>6. CASE SoftTimesOut(p)
    BY <1>1, <1>3, <1>5, <2>1, <2>6 DEF SoftTimesOut, Phase, Goto, ServerInv, BootInv, BootTyped
  <2> QED
    BY <2>2, <2>3, <2>4, <2>5, <2>6 DEF Shutdown
<1> QED
  BY <1>1, <1>3, <1>5, <1>6, <1>7, <1>8, <1>9, LocalStep

\* A process ends: what it held is lost, and the run spoiled.
LEMMA EndMoves ==
  ASSUME ServerInv, BootInv', NEW p \in Processes, Ends(p)
  PROVE  ServerInv'
<1>1. pc'[p] = "down" /\ \A q \in Processes \ {p} : pc'[q] = pc[q]
  BY DEF Ends, Dies, Goto, ServerInv, BootInv, BootTyped
<1>2. Off \in WorkerType /\ Off.n = 0
  BY DEF Off, WorkerType
<1>3. /\ worker' \in [Processes -> WorkerType]
      /\ worker'[p] = Off /\ \A q \in Processes \ {p} : worker'[q] = worker[q]
      /\ Total(worker) \in Int /\ Total(worker') = Total(worker) + Off.n - worker[p].n
  BY <1>2, WorkerMoves DEF Ends, ServerInv
<1>4. /\ handling' \in [Processes -> BOOLEAN] /\ failed' \in [Processes -> BOOLEAN]
      /\ \A q \in Processes \ {p} : handling'[q] = handling[q] /\ failed'[q] = failed[q]
  BY DEF Ends, ServerInv, RuntimeTyped
<1>5. UNCHANGED <<seen, cached, counted>> /\ spoiled' = (spoiled \/ worker[p].n > 0)
  BY DEF Ends, Holds
<1>6. spoiled' \in BOOLEAN
  <2>1. (spoiled \/ worker[p].n > 0) \in BOOLEAN
    BY Zenon
  <2> QED
    BY <1>5, <2>1, Zenon
<1>7. RuntimeTyped'
  BY <1>3, <1>4, <1>5, <1>6 DEF ServerInv, RuntimeTyped
<1>8. ASSUME ~ spoiled'
      PROVE  Total(worker') + cached' + counted' = seen'
  <2>1. Total(worker) + cached + counted = seen
    BY <1>5, <1>8 DEF ServerInv
  <2>2. ~ (worker[p].n > 0)
    BY <1>5, <1>8
  <2>3. worker[p].n \in Nat
    BY DEF ServerInv, RuntimeTyped, WorkerType
  <2>4. Total(worker') = Total(worker)
    BY <1>2, <1>3, <2>2, <2>3
  <2> QED
    BY <1>5, <2>1, <2>4
<1> QED
  BY <1>1, <1>2, <1>3, <1>4, <1>7, <1>8, LocalStep

-----------------------------------------------------------------------------
(* The theorems of the service.                                            *)

LEMMA NextServer ==
  ASSUME ServerInv, [Next]_vars
  PROVE  ServerInv'
<1>1. BootInv'
  BY NextBoot DEF ServerInv
<1>2. CASE UNCHANGED vars
  BY <1>1, <1>2 DEF vars, views, ServerInv, RuntimeTyped, EmptyHands, OffBefore, CleanShutdown,
                    Stopping
<1>3. CASE Next
  BY <1>1, <1>3, BootKeepsService, RequestsKeepService, FlusherKeepsService, ShutdownMoves, EndMoves
  DEF Next, Shutdown, CloseSQL, Crash
<1> QED
  BY <1>2, <1>3

\* The inductive invariant.
THEOREM ServerInvariant == Spec => []ServerInv
<1>1. Init => ServerInv
  BY InitServer
<1>2. ServerInv /\ [Next]_vars => ServerInv'
  BY NextServer
<1> QED
  BY <1>1, <1>2, PTL DEF Spec

\* Every view counted in Redis is in MySQL, in Redis or in the hands of one flusher, once,
\* however flushes, restarts and shutdowns of any number of processes interleave.
THEOREM ViewsAreConserved == Spec => []ViewsConserved
<1>1. ServerInv => ViewsConserved
  BY ViewsAreSum DEF ServerInv
<1> QED
  BY <1>1, ServerInvariant, PTL

\* A shutdown that reports no error has outlived its requests and its workers before it
\* closes a pool.
THEOREM ShutdownsAreClean == Spec => []CleanShutdown
<1>1. ServerInv => CleanShutdown
  BY DEF ServerInv
<1> QED
  BY <1>1, ServerInvariant, PTL

===============================================================================
