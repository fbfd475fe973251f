----------------------------- MODULE WorkerPool -----------------------------
(***************************************************************************)
(* The thread pool of the AprilTag detector (apriltag/common/workerpool.c) *)
(* with the detector as its client: it adds jobs, runs them, and destroys  *)
(* the pool.  Every critical section of the mutex is one step; what a      *)
(* thread does without the mutex is a step of its own.  A condition        *)
(* variable is the set of threads that wait for it, and a waiting thread   *)
(* may wake up by itself.  A pool of one thread runs its jobs in the       *)
(* caller and has no concurrency: it is left out.                          *)
(***************************************************************************)
EXTENDS Integers, FiniteSets

CONSTANTS
  Workers,      \* the threads of the pool
  MaxJobs,      \* bound of the model: jobs added in the life of the pool
  MaxSpurious   \* bound of the model: wake-ups nobody asked for

ASSUME PoolAssumption ==
  /\ IsFiniteSet(Workers) /\ Cardinality(Workers) > 1
  /\ MaxJobs \in Nat
  /\ MaxSpurious \in Nat

VARIABLES
  st,               \* where each worker is
  task,             \* the position each worker holds, then the job it works on
  slots,            \* the memory of the array of tasks
  size,             \* its zarray_size
  taskspos,
  start_predicate,
  end_count,
  pc,               \* where the client is
  asleep,           \* the client waits for endcond
  added,            \* jobs added so far; job n is the n-th
  stops,            \* tasks without a function added by workerpool_destroy
  done,             \* how often each job has been executed
  spurious,         \* wake-ups nobody asked for
  extra             \* those of a worker while a run was in progress

pool == <<slots, size, taskspos, start_predicate, end_count>>
vars == <<st, task, pool, pc, asleep, added, stops, done, spurious, extra>>

N == Cardinality(Workers)
Jobs == 1 .. MaxJobs
Stop == 0                          \* the task without a function
Unused == -1
Positions == 0 .. MaxJobs + N

Init ==
  /\ st = [w \in Workers |-> "none"]
  /\ task = [w \in Workers |-> 0]
  /\ slots = [i \in Positions |-> Unused]
  /\ size = 0 /\ taskspos = 0 /\ start_predicate = FALSE /\ end_count = 0
  /\ pc = "spawning" /\ asleep = FALSE
  /\ added = 0 /\ stops = 0 /\ done = [j \in Jobs |-> 0]
  /\ spurious = 0 /\ extra = 0

At(w, from, to) == st[w] = from /\ st' = [st EXCEPT ![w] = to]

\* Everybody who waits for startcond goes for the mutex.
Awake == [w \in Workers |-> IF st[w] = "wait" THEN "lock" ELSE st[w]]

-----------------------------------------------------------------------------
(* A worker.                                                               *)

NothingToDo == taskspos = size \/ ~start_predicate

\* Mutant: the broadcast on endcond is forgotten.
Waits_Silent(w) ==
  /\ NothingToDo
  /\ At(w, "lock", "wait")
  /\ end_count' = end_count + 1
  /\ UNCHANGED <<task, slots, size, taskspos, start_predicate, pc, asleep, added, stops,
                 done, spurious, extra>>

\* It counts itself as done, wakes the client, and waits.
Waits(w) ==
  /\ NothingToDo
  /\ At(w, "lock", "wait")
  /\ end_count' = end_count + 1
  /\ asleep' = FALSE
  /\ UNCHANGED <<task, slots, size, taskspos, start_predicate, pc, added, stops, done,
                 spurious, extra>>

\* It takes a pointer into the array and leaves the mutex.  (The array keeps its
\* place in memory: it is grown by AddTask only, and NoneLeftBehind says that
\* nobody holds a pointer then.)
Takes(w) ==
  /\ ~NothingToDo
  /\ At(w, "lock", "holds")
  /\ task' = [task EXCEPT ![w] = taskspos]
  /\ taskspos' = taskspos + 1
  /\ UNCHANGED <<slots, size, start_predicate, end_count, pc, asleep, added, stops,
                 done, spurious, extra>>

\* It reads the task through the pointer and calls its function, or exits.
Calls(w) ==
  /\ slots[task[w]] \in Jobs
  /\ At(w, "holds", "works")
  /\ task' = [task EXCEPT ![w] = slots[task[w]]]
  /\ UNCHANGED <<pool, pc, asleep, added, stops, done, spurious, extra>>

Exits(w) ==
  /\ slots[task[w]] \notin Jobs
  /\ At(w, "holds", "exit")
  /\ UNCHANGED <<task, pool, pc, asleep, added, stops, done, spurious, extra>>

Finishes(w) ==
  /\ At(w, "works", "lock")
  /\ done' = [done EXCEPT ![task[w]] = @ + 1]
  /\ UNCHANGED <<task, pool, pc, asleep, added, stops, spurious, extra>>

\* pthread_cond_wait returns without a broadcast.
WakesUp(w) ==
  /\ spurious < MaxSpurious
  /\ At(w, "wait", "lock")
  /\ spurious' = spurious + 1
  /\ extra' = IF pc = "running" THEN extra + 1 ELSE extra
  /\ UNCHANGED <<task, pool, pc, asleep, added, stops, done>>

Worker(w) == Waits(w) \/ Takes(w) \/ Calls(w) \/ Exits(w) \/ Finishes(w)

-----------------------------------------------------------------------------
(* The client.                                                             *)

Spawn(w) ==
  /\ pc = "spawning"
  /\ At(w, "none", "lock")
  /\ UNCHANGED <<task, pool, pc, asleep, added, stops, done, spurious, extra>>

\* pthread_create fails: workerpool_create returns NULL and leaves the threads
\* it has created behind.
SpawnFails ==
  /\ pc = "spawning"
  /\ \E w \in Workers : st[w] = "none"
  /\ pc' = "failed"
  /\ UNCHANGED <<st, task, pool, asleep, added, stops, done, spurious, extra>>

\* The client looks at the count, and goes on or waits for endcond.
EveryoneDone == end_count >= N

LooksInVain ==
  /\ \/ pc = "spawning" /\ \A w \in Workers : st[w] # "none"
     \/ pc = "running"
  /\ ~asleep /\ ~EveryoneDone
  /\ asleep' = TRUE
  /\ UNCHANGED <<st, task, pool, pc, added, stops, done, spurious, extra>>

Created ==
  /\ pc = "spawning" /\ \A w \in Workers : st[w] # "none"
  /\ ~asleep /\ EveryoneDone
  /\ pc' = "idle"
  /\ UNCHANGED <<st, task, pool, asleep, added, stops, done, spurious, extra>>

Put(t) ==
  /\ slots' = [slots EXCEPT ![size] = t]
  /\ size' = size + 1
  /\ UNCHANGED <<taskspos, start_predicate, end_count>>

AddTask ==
  /\ pc = "idle" /\ added < MaxJobs
  /\ Put(added + 1)
  /\ added' = added + 1
  /\ UNCHANGED <<st, task, pc, asleep, stops, done, spurious, extra>>

\* Mutant: the count of the previous run is kept.
StartRun_KeepsCount ==
  /\ pc = "idle"
  /\ start_predicate' = TRUE
  /\ st' = Awake
  /\ pc' = "running"
  /\ UNCHANGED <<task, slots, size, taskspos, end_count, asleep, added, stops, done,
                 spurious, extra>>

\* workerpool_run up to its first wait.
StartRun ==
  /\ pc = "idle"
  /\ end_count' = 0
  /\ start_predicate' = TRUE
  /\ st' = Awake
  /\ pc' = "running" /\ asleep' = TRUE
  /\ UNCHANGED <<task, slots, size, taskspos, added, stops, done, spurious, extra>>

EndRun ==
  /\ pc = "running" /\ ~asleep /\ EveryoneDone
  /\ taskspos' = 0
  /\ start_predicate' = FALSE
  /\ pc' = "clearing"
  /\ UNCHANGED <<st, task, slots, size, end_count, asleep, added, stops, done, spurious, extra>>

\* Mutant: the array of tasks is not cleared.
ClearTasks_Keeps ==
  /\ pc = "clearing"
  /\ pc' = "idle"
  /\ UNCHANGED <<st, task, pool, asleep, added, stops, done, spurious, extra>>

\* zarray_clear, without the mutex: the memory stays.
ClearTasks ==
  /\ pc = "clearing"
  /\ size' = 0
  /\ pc' = "idle"
  /\ UNCHANGED <<st, task, slots, taskspos, start_predicate, end_count, asleep,
                 added, stops, done, spurious, extra>>

\* workerpool_destroy adds one task without a function for every thread,
Destroy ==
  /\ pc = "idle"
  /\ pc' = "stopping"
  /\ UNCHANGED <<st, task, pool, asleep, added, stops, done, spurious, extra>>

\* Mutant: the loop adds one task too many.
AddStop_OneMore ==
  /\ pc = "stopping" /\ stops <= N
  /\ Put(Stop)
  /\ stops' = stops + 1
  /\ UNCHANGED <<st, task, pc, asleep, added, done, spurious, extra>>

AddStop ==
  /\ pc = "stopping" /\ stops < N
  /\ Put(Stop)
  /\ stops' = stops + 1
  /\ UNCHANGED <<st, task, pc, asleep, added, done, spurious, extra>>

\* starts everybody,
StartStop ==
  /\ pc = "stopping" /\ stops = N
  /\ start_predicate' = TRUE
  /\ st' = Awake
  /\ pc' = "joining"
  /\ UNCHANGED <<task, slots, size, taskspos, end_count, asleep, added, stops, done,
                 spurious, extra>>

\* and joins them before it frees the pool.
Join ==
  /\ pc = "joining" /\ \A w \in Workers : st[w] = "exit"
  /\ pc' = "gone"
  /\ UNCHANGED <<st, task, pool, asleep, added, stops, done, spurious, extra>>

ClientWakesUp ==
  /\ asleep /\ spurious < MaxSpurious
  /\ asleep' = FALSE
  /\ spurious' = spurious + 1
  /\ UNCHANGED <<st, task, pool, pc, added, stops, done, extra>>

Client ==
  \/ (\E w \in Workers : Spawn(w)) \/ SpawnFails \/ Created
  \/ LooksInVain
  \/ AddTask \/ StartRun \/ EndRun \/ ClearTasks
  \/ Destroy \/ AddStop \/ StartStop \/ Join

\* The pool is gone, or has never come up: its threads, if any, wait.
Ended == pc \in {"gone", "failed"} /\ UNCHANGED vars

Next ==
  \/ \E w \in Workers : Worker(w) \/ WakesUp(w)
  \/ Client \/ ClientWakesUp
  \/ Ended

Spec == Init /\ [][Next]_vars

\* Threads are scheduled and jobs end; wake-ups that nobody asked for need not
\* come, and the client need not use the pool.
Fairness ==
  /\ \A w \in Workers : WF_vars(Worker(w))
  /\ WF_vars(Client /\ pc \notin {"spawning", "idle"})

FairSpec == Spec /\ Fairness

-----------------------------------------------------------------------------
(* Properties.                                                             *)

TypeOK ==
  /\ st \in [Workers -> {"none", "lock", "wait", "holds", "works", "exit"}]
  /\ task \in [Workers -> Positions]
  /\ \A w \in Workers : st[w] = "works" => task[w] \in Jobs
  /\ slots \in [Positions -> Jobs \cup {Stop, Unused}]
  /\ size \in Positions /\ taskspos \in Positions
  /\ start_predicate \in BOOLEAN /\ end_count \in Nat
  /\ pc \in {"spawning", "failed", "idle", "running", "clearing", "stopping",
            "joining", "gone"}
  /\ asleep \in BOOLEAN
  /\ added \in 0 .. MaxJobs /\ stops \in 0 .. N /\ done \in [Jobs -> Nat]
  /\ spurious \in 0 .. MaxSpurious /\ extra \in 0 .. spurious

\* workerpool_run "waits for them to complete": when it has returned, no thread
\* holds a pointer into the array or works on a job, whose parameters are gone.
\* The exception is a thread that has woken up by itself during the run: it
\* counts itself twice, for start_predicate does not stop it.
NoneLeftBehind ==
  extra = 0 /\ pc \in {"idle", "clearing", "stopping", "gone"} =>
    \A w \in Workers : st[w] \notin {"holds", "works"}

\* Each job is executed once, and no job is left when a run has ended or the
\* pool has been destroyed, with the same exception.
JobsDoneOnce ==
  extra = 0 =>
    /\ \A j \in Jobs : done[j] <= 1
    /\ pc \in {"clearing", "gone"} => \A j \in 1 .. added : done[j] = 1

-----------------------------------------------------------------------------
(* The inductive invariant behind the theorems of WorkerPool_proofs.       *)

\* What the client has set up for each place it can be at.
ClientMatchesPool ==
  /\ start_predicate <=> pc \in {"running", "joining", "gone"}
  /\ ~start_predicate => taskspos = 0
  /\ taskspos <= size /\ stops <= size /\ size - stops <= added
  /\ stops > 0 => pc \in {"stopping", "joining", "gone"}
  /\ pc \notin {"spawning", "failed"} => \A w \in Workers : st[w] # "none"
  /\ pc = "gone" => \A w \in Workers : st[w] = "exit"

\* While nobody wakes up by itself, end_count counts the threads that wait.
CountMatchesWaiting ==
  extra = 0 =>
    /\ NoneLeftBehind
    /\ pc \in {"spawning", "failed"} => \A w \in Workers : st[w] \notin {"holds", "works"}
    /\ pc = "running" =>
         /\ end_count = Cardinality({w \in Workers : st[w] = "wait"})
         /\ \A w \in Workers : st[w] = "wait" => taskspos = size

\* The array holds the jobs of the current run in the order they were added,
\* then the tasks without a function.
FirstJob == added - (size - stops) + 1

ArrayInOrder ==
  \A i \in 0 .. size - 1 :
    slots[i] = IF i < size - stops THEN FirstJob + i ELSE Stop

\* The job a thread has, if any.
Has(w, j) == \/ st[w] = "holds" /\ slots[task[w]] = j
             \/ st[w] = "works" /\ task[w] = j

\* Each job is somewhere: not yet taken, with one thread, or done.
Taken == IF pc = "clearing" THEN size ELSE taskspos

JobsAccounted ==
  extra = 0 =>
    /\ \A w \in Workers : st[w] = "holds" => task[w] < taskspos
    /\ \A w \in Workers : st[w] = "works" => task[w] < FirstJob + taskspos /\ task[w] <= added
    /\ \A w \in Workers : st[w] = "exit" => taskspos > size - stops
    /\ \A j \in Jobs :
         /\ done[j] = 0 \/ (j <= added /\ j < FirstJob + Taken)
         /\ \A w \in Workers : Has(w, j) => done[j] = 0
         /\ \/ done[j] = 1
            \/ j > added \/ j >= FirstJob + Taken
            \/ \E w \in Workers : Has(w, j)
    /\ \A v, w \in Workers : \A j \in Jobs : Has(v, j) /\ Has(w, j) => v = w

IInv == TypeOK /\ ClientMatchesPool /\ CountMatchesWaiting /\ ArrayInOrder /\ JobsAccounted

-----------------------------------------------------------------------------

\* A run returns and a pool that is destroyed goes away, whatever wakes up.
PoolEnds ==
  /\ pc = "running" ~> pc = "idle"
  /\ pc = "stopping" ~> pc = "gone"
=============================================================================
