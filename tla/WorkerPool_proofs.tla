------------------------- MODULE WorkerPool_proofs -------------------------
(***************************************************************************)
(* The thread pool of the AprilTag detector, for every number of threads   *)
(* and of jobs: while no thread wakes up by itself during a run, a run     *)
(* leaves nobody behind and executes each of its jobs exactly once.  The   *)
(* core is that end_count is then the number of threads that wait, so the  *)
(* client can only see N of them when all threads wait, and a thread only  *)
(* waits in a run when no task is left.                                    *)
(***************************************************************************)
EXTENDS WorkerPool, FiniteSetTheorems, TLAPS

LEMMA SizeOfPool == N \in Nat /\ N > 1
BY PoolAssumption, FS_CardinalityType DEF N

LEMMA WaitingInPool ==
  LET Waiting == {w \in Workers : st[w] = "wait"}
  IN  /\ IsFiniteSet(Waiting)
      /\ Cardinality(Waiting) >= N => Waiting = Workers
<1> DEFINE Waiting == {w \in Workers : st[w] = "wait"}
<1>1. Waiting \subseteq Workers
  OBVIOUS
<1>2. /\ IsFiniteSet(Waiting)
      /\ Cardinality(Waiting) <= Cardinality(Workers)
      /\ Cardinality(Waiting) = Cardinality(Workers) => Waiting = Workers
  BY <1>1, PoolAssumption, FS_Subset
<1>3. Cardinality(Waiting) \in Nat
  BY <1>2, FS_CardinalityType
<1>4. QED
  BY <1>2, <1>3, SizeOfPool DEF N

LEMMA InitIInv == Init => IInv
<1> SUFFICES ASSUME Init PROVE IInv
  OBVIOUS
<1>1. TypeOK
  <2>1. start_predicate \in BOOLEAN /\ asleep \in BOOLEAN
    BY DEF Init
  <2>2. QED
    BY <2>1, SizeOfPool, PoolAssumption DEF Init, TypeOK, Positions, Jobs, Unused
<1>2. QED
  BY <1>1, SizeOfPool, PoolAssumption
  DEF Init, IInv, TypeOK, ClientMatchesPool, CountMatchesWaiting, NoneLeftBehind,
      ArrayInOrder, JobsAccounted, FirstJob, Taken, Has, Jobs, Positions, Unused

LEMMA TypePreserved ==
  ASSUME TypeOK, ClientMatchesPool, [Next]_vars PROVE TypeOK'
<1> USE SizeOfPool, PoolAssumption
    DEF TypeOK, Positions, Jobs, Stop, Unused, At, pool
<1>1. ASSUME NEW w \in Workers, Worker(w) PROVE TypeOK'
  <2>1. CASE Waits(w)
    <3>1. start_predicate' \in BOOLEAN /\ asleep' \in BOOLEAN
      BY <2>1 DEF Waits
    <3>2. QED
      BY <2>1, <3>1 DEF Waits
  <2>2. CASE Takes(w)
    BY <2>2 DEF Takes, NothingToDo, ClientMatchesPool
  <2>3. CASE Calls(w)
    BY <2>3 DEF Calls
  <2>4. CASE Exits(w)
    BY <2>4 DEF Exits
  <2>5. CASE Finishes(w)
    <3>1. task[w] \in Jobs
      BY <2>5 DEF Finishes
    <3>2. QED
      BY <2>5, <3>1 DEF Finishes
  <2>6. QED
    BY <1>1, <2>1, <2>2, <2>3, <2>4, <2>5 DEF Worker
<1>2. ASSUME NEW w \in Workers, WakesUp(w) PROVE TypeOK'
  BY <1>2 DEF WakesUp
<1>3. CASE Client
  <2>1. ASSUME NEW w \in Workers, Spawn(w) PROVE TypeOK'
    BY <2>1 DEF Spawn
  <2>2. CASE SpawnFails \/ Created \/ LooksInVain \/ EndRun \/ ClearTasks \/ Destroy \/ Join
    <3>1. start_predicate' \in BOOLEAN /\ asleep' \in BOOLEAN
      BY <2>2 DEF SpawnFails, Created, LooksInVain, EndRun, ClearTasks, Destroy, Join
    <3>2. QED
      BY <2>2, <3>1 DEF SpawnFails, Created, LooksInVain, EndRun, ClearTasks, Destroy, Join
  <2>3. CASE AddTask
    BY <2>3 DEF AddTask, Put, ClientMatchesPool
  <2>4. CASE StartRun \/ StartStop
    <3>1. start_predicate' \in BOOLEAN /\ asleep' \in BOOLEAN
      BY <2>4 DEF StartRun, StartStop
    <3>2. QED
      BY <2>4, <3>1 DEF StartRun, StartStop, Awake
  <2>5. CASE AddStop
    BY <2>5 DEF AddStop, Put, ClientMatchesPool
  <2>6. QED
    BY <1>3, <2>1, <2>2, <2>3, <2>4, <2>5 DEF Client
<1>4. CASE ClientWakesUp
  <2>1. start_predicate' \in BOOLEAN /\ asleep' \in BOOLEAN
    BY <1>4 DEF ClientWakesUp
  <2>2. QED
    BY <1>4, <2>1 DEF ClientWakesUp
<1>5. CASE UNCHANGED vars
  BY <1>5 DEF vars
<1>6. QED
  BY <1>1, <1>2, <1>3, <1>4, <1>5 DEF Next, Ended

LEMMA ClientPreserved ==
  ASSUME TypeOK, ClientMatchesPool, [Next]_vars PROVE ClientMatchesPool'
<1> USE SizeOfPool DEF TypeOK, ClientMatchesPool, Positions, At, pool
<1>1. ASSUME NEW w \in Workers, Worker(w) PROVE ClientMatchesPool'
  <2>1. CASE Waits(w)
    BY <2>1 DEF Waits
  <2>2. CASE Takes(w)
    BY <2>2 DEF Takes, NothingToDo
  <2>3. CASE Calls(w) \/ Exits(w) \/ Finishes(w)
    BY <2>3 DEF Calls, Exits, Finishes
  <2>4. QED
    BY <1>1, <2>1, <2>2, <2>3 DEF Worker
<1>2. ASSUME NEW w \in Workers, WakesUp(w) PROVE ClientMatchesPool'
  BY <1>2 DEF WakesUp
<1>3. CASE Client
  <2>1. ASSUME NEW w \in Workers, Spawn(w) PROVE ClientMatchesPool'
    BY <2>1 DEF Spawn
  <2>2. CASE SpawnFails \/ Created \/ LooksInVain
    BY <2>2 DEF SpawnFails, Created, LooksInVain
  <2>3. CASE AddTask
    BY <2>3 DEF AddTask, Put
  <2>4. CASE StartRun
    BY <2>4 DEF StartRun, Awake
  <2>5. CASE EndRun \/ ClearTasks
    BY <2>5 DEF EndRun, ClearTasks
  <2>6. CASE Destroy \/ AddStop
    BY <2>6 DEF Destroy, AddStop, Put
  <2>7. CASE StartStop \/ Join
    BY <2>7 DEF StartStop, Awake, Join
  <2>8. QED
    BY <1>3, <2>1, <2>2, <2>3, <2>4, <2>5, <2>6, <2>7 DEF Client
<1>4. CASE ClientWakesUp
  BY <1>4 DEF ClientWakesUp
<1>5. CASE UNCHANGED vars
  BY <1>5 DEF vars
<1>6. QED
  BY <1>1, <1>2, <1>3, <1>4, <1>5 DEF Next, Ended

LEMMA CountPreserved ==
  ASSUME TypeOK, ClientMatchesPool, CountMatchesWaiting, [Next]_vars
  PROVE  CountMatchesWaiting'
<1> DEFINE Waiting == {w \in Workers : st[w] = "wait"}
<1> USE SizeOfPool DEF TypeOK, ClientMatchesPool, CountMatchesWaiting, NoneLeftBehind, At, pool
<1>0. IsFiniteSet(Waiting) /\ (Cardinality(Waiting) >= N => Waiting = Workers)
  BY WaitingInPool
<1>1. ASSUME NEW w \in Workers, Worker(w) PROVE CountMatchesWaiting'
  <2>1. CASE Waits(w)
    <3>1. Waiting' = Waiting \cup {w} /\ w \notin Waiting
      BY <2>1 DEF Waits
    <3>2. Cardinality(Waiting') = Cardinality(Waiting) + 1
      BY <1>0, <3>1, FS_AddElement, SMTT(30)
    <3>3. pc = "running" => taskspos = size
      BY <2>1 DEF Waits, NothingToDo
    <3>4. QED
      BY <2>1, <3>2, <3>3 DEF Waits
  <2>2. CASE Takes(w)
    <3>1. pc \in {"running", "joining"} /\ taskspos # size /\ Waiting' = Waiting
      BY <2>2 DEF Takes, NothingToDo
    <3>2. QED
      BY <2>2, <3>1 DEF Takes
  <2>3. CASE Calls(w) \/ Exits(w) \/ Finishes(w)
    <3>1. st[w] \in {"holds", "works"} /\ Waiting' = Waiting
      BY <2>3 DEF Calls, Exits, Finishes
    <3>2. UNCHANGED <<taskspos, size, end_count, pc, extra>>
      BY <2>3 DEF Calls, Exits, Finishes
    <3>3. QED
      BY <2>3, <3>1, <3>2 DEF Calls, Exits, Finishes
  <2>4. QED
    BY <1>1, <2>1, <2>2, <2>3 DEF Worker
<1>2. ASSUME NEW w \in Workers, WakesUp(w) PROVE CountMatchesWaiting'
  BY <1>2 DEF WakesUp
<1>3. CASE Client
  <2>1. ASSUME NEW w \in Workers, Spawn(w) PROVE CountMatchesWaiting'
    BY <2>1 DEF Spawn
  <2>2. CASE SpawnFails \/ Created \/ LooksInVain \/ AddTask \/ ClearTasks
               \/ Destroy \/ AddStop \/ Join
    <3>1. Waiting' = Waiting
      BY <2>2 DEF SpawnFails, Created, LooksInVain, AddTask, ClearTasks, Destroy, AddStop, Join
    <3>2. QED
      BY <2>2, <3>1
      DEF SpawnFails, Created, LooksInVain, AddTask, Put, ClearTasks, Destroy, AddStop, Join
  <2>3. CASE StartRun
    <3>1. Waiting' = {}
      BY <2>3 DEF StartRun, Awake
    <3>2. QED
      BY <2>3, <3>1, FS_EmptySet DEF StartRun
  <2>4. CASE EndRun
    <3>1. extra = 0 => Waiting = Workers
      BY <2>4, <1>0 DEF EndRun, EveryoneDone
    <3>2. QED
      BY <2>4, <3>1 DEF EndRun
  <2>5. CASE StartStop
    BY <2>5 DEF StartStop, Awake
  <2>6. QED
    BY <1>3, <2>1, <2>2, <2>3, <2>4, <2>5 DEF Client
<1>4. CASE ClientWakesUp
  BY <1>4 DEF ClientWakesUp
<1>5. CASE UNCHANGED vars
  BY <1>5 DEF vars
<1>6. QED
  BY <1>1, <1>2, <1>3, <1>4, <1>5 DEF Next, Ended

LEMMA ArrayPreserved ==
  ASSUME TypeOK, ClientMatchesPool, ArrayInOrder, [Next]_vars PROVE ArrayInOrder'
<1> USE SizeOfPool, PoolAssumption
    DEF TypeOK, ClientMatchesPool, ArrayInOrder, FirstJob, Positions, pool
<1>1. CASE UNCHANGED <<slots, size, added, stops>>
  BY <1>1
<1>2. CASE AddTask
  <2>1. stops = 0
    BY <1>2 DEF AddTask
  <2>2. QED
    BY <1>2, <2>1 DEF AddTask, Put
<1>3. CASE ClearTasks
  BY <1>3 DEF ClearTasks
<1>4. CASE AddStop
  BY <1>4 DEF AddStop, Put
<1>5. QED
  BY <1>1, <1>2, <1>3, <1>4
  DEF Next, Worker, Waits, Takes, Calls, Exits, Finishes, WakesUp, Client, Spawn,
      SpawnFails, Created, LooksInVain, StartRun, EndRun, Destroy, StartStop, Join,
      ClientWakesUp, Ended, vars

\* What a pointer into the array leads to.
LEMMA TaskAt ==
  ASSUME TypeOK, ClientMatchesPool, ArrayInOrder, NEW i \in 0 .. size - 1
  PROVE  /\ i < size - stops => slots[i] = FirstJob + i /\ slots[i] \in Jobs
         /\ i >= size - stops => slots[i] = Stop /\ slots[i] \notin Jobs
<1>1. size \in Nat /\ stops \in Nat /\ added \in 0 .. MaxJobs /\ size - stops <= added
  BY SizeOfPool, PoolAssumption DEF TypeOK, ClientMatchesPool, Positions
<1>2. QED
  BY <1>1, PoolAssumption DEF ArrayInOrder, FirstJob, Stop, Jobs

LEMMA JobsPreserved ==
  ASSUME IInv, [Next]_vars PROVE JobsAccounted'
<1> USE SizeOfPool, PoolAssumption DEF IInv
<1>1. CASE extra' # 0
  BY <1>1 DEF JobsAccounted
<1>2. CASE extra' = 0
  <2>1. extra = 0 /\ added \in 0 .. MaxJobs /\ size \in Nat /\ stops \in Nat /\ taskspos \in Nat
        /\ size - stops <= added /\ stops <= size /\ taskspos <= size
    BY <1>2 DEF TypeOK, ClientMatchesPool, Positions, Next, Worker, Waits, Takes, Calls,
                Exits, Finishes, WakesUp, Client, Spawn, SpawnFails, Created, LooksInVain,
                AddTask, StartRun, EndRun, ClearTasks, Destroy, AddStop, StartStop, Join,
                ClientWakesUp, Ended, vars
  <2>2. ASSUME NEW w \in Workers, Worker(w) PROVE JobsAccounted'
    <3>1. CASE Waits(w)
      BY <2>1, <3>1 DEF Waits, JobsAccounted, FirstJob, Taken, Has, At, TypeOK
    <3>2. CASE Takes(w)
      <4>1. /\ taskspos < size /\ pc # "clearing" /\ st[w] = "lock"
            /\ taskspos' = taskspos + 1 /\ task' = [task EXCEPT ![w] = taskspos]
            /\ st' = [st EXCEPT ![w] = "holds"]
            /\ UNCHANGED <<slots, size, stops, added, pc, done, extra>>
        BY <2>1, <3>2 DEF Takes, NothingToDo, ClientMatchesPool, At
      <4>2. /\ taskspos < size - stops => slots[taskspos] = FirstJob + taskspos
            /\ taskspos >= size - stops => slots[taskspos] \notin Jobs
        BY <2>1, <4>1, TaskAt
      <4>3. \A v \in Workers : \A j \in Jobs : Has(v, j) => j < FirstJob + taskspos
        <5> SUFFICES ASSUME NEW v \in Workers, NEW j \in Jobs, Has(v, j)
                     PROVE  j < FirstJob + taskspos
          OBVIOUS
        <5>1. CASE st[v] = "works" /\ task[v] = j
          BY <2>1, <5>1 DEF JobsAccounted
        <5>2. CASE st[v] = "holds" /\ slots[task[v]] = j
          <6>1. task[v] \in 0 .. size - 1 /\ task[v] < taskspos
            BY <2>1, <5>2 DEF JobsAccounted, TypeOK, Positions
          <6>2. QED
            BY <2>1, <5>2, <6>1, TaskAt DEF FirstJob
        <5>3. QED
          BY <5>1, <5>2 DEF Has
      <4>4. \A v \in Workers : \A j \in Jobs :
              Has(v, j)' <=> IF v = w THEN slots[taskspos] = j ELSE Has(v, j)
        BY <4>1 DEF Has, TypeOK
      <4>5. FirstJob' = FirstJob /\ Taken' = Taken + 1 /\ Taken = taskspos
            /\ FirstJob \in Int /\ FirstJob = added - size + stops + 1
        BY <2>1, <4>1 DEF FirstJob, Taken
      <4>6. \A v \in Workers : /\ st'[v] = "holds" => task'[v] < taskspos'
                               /\ st'[v] = "works" => task'[v] < FirstJob' + taskspos' /\ task'[v] <= added'
                               /\ st'[v] = "exit" => taskspos' > size' - stops'
        BY <2>1, <4>1, <4>5 DEF JobsAccounted, TypeOK, Positions
      <4>7. \A j \in Jobs :
              /\ done'[j] = 0 \/ (j <= added' /\ j < FirstJob' + Taken')
              /\ \A v \in Workers : Has(v, j)' => done'[j] = 0
              /\ \/ done'[j] = 1
                 \/ j > added' \/ j >= FirstJob' + Taken'
                 \/ \E v \in Workers : Has(v, j)'
        <5> TAKE j \in Jobs
        <5>1. done'[j] = 0 \/ (j <= added' /\ j < FirstJob' + Taken')
          BY <2>1, <4>1, <4>5 DEF JobsAccounted, Jobs
        <5>2. \A v \in Workers : Has(v, j)' => done'[j] = 0
          <6>1. slots[taskspos] = j => done[j] = 0
            BY <2>1, <4>1, <4>2, <4>5 DEF JobsAccounted, Jobs
          <6>2. QED
            BY <2>1, <4>1, <4>4, <6>1 DEF JobsAccounted
        <5>3. \/ done'[j] = 1
              \/ j > added' \/ j >= FirstJob' + Taken'
              \/ \E v \in Workers : Has(v, j)'
          <6>1. CASE j = FirstJob + taskspos
            BY <2>1, <4>1, <4>2, <4>4, <4>5, <6>1 DEF Jobs
          <6>2. CASE j # FirstJob + taskspos
            <7>1. (\E v \in Workers : Has(v, j)) => \E v \in Workers : Has(v, j)'
              BY <4>1, <4>4 DEF Has
            <7>2. QED
              BY <2>1, <4>1, <4>5, <6>2, <7>1 DEF JobsAccounted, Jobs
          <6>3. QED
            BY <6>1, <6>2
        <5>4. QED
          BY <5>1, <5>2, <5>3
      <4>8. \A u, v \in Workers : \A j \in Jobs : Has(u, j)' /\ Has(v, j)' => u = v
        <5>1. \A v \in Workers : ~Has(v, slots[taskspos]) \/ slots[taskspos] \notin Jobs
          BY <2>1, <4>1, <4>2, <4>3, <4>5
        <5>2. QED
          BY <2>1, <4>4, <5>1 DEF JobsAccounted
      <4>9. QED
        BY <4>6, <4>7, <4>8 DEF JobsAccounted
    <3>3. CASE Calls(w)
      <4>1. \A v \in Workers : \A j \in Jobs : Has(v, j)' <=> Has(v, j)
        BY <3>3 DEF Calls, At, Has, TypeOK, pool
      <4>2. task[w] \in 0 .. size - 1 /\ task[w] < taskspos /\ slots[task[w]] \in Jobs
        BY <2>1, <3>3 DEF Calls, At, JobsAccounted, TypeOK, Positions
      <4>3. slots[task[w]] < FirstJob + taskspos /\ slots[task[w]] <= added
        BY <2>1, <4>2, TaskAt DEF FirstJob
      <4>4. UNCHANGED <<FirstJob, Taken, taskspos, size, stops, added, done>>
        BY <3>3 DEF Calls, pool, FirstJob, Taken
      <4>5. \A v \in Workers : /\ st'[v] = "holds" => task'[v] < taskspos'
                               /\ st'[v] = "works" => task'[v] < FirstJob' + taskspos' /\ task'[v] <= added'
                               /\ st'[v] = "exit" => taskspos' > size' - stops'
        BY <2>1, <3>3, <4>3, <4>4 DEF Calls, At, JobsAccounted, TypeOK
      <4>6. QED
        BY <2>1, <4>1, <4>4, <4>5 DEF JobsAccounted
    <3>4. CASE Exits(w)
      <4>1. \A v \in Workers : \A j \in Jobs : Has(v, j)' <=> Has(v, j)
        BY <3>4 DEF Exits, At, Has, TypeOK, pool
      <4>2. task[w] \in 0 .. size - 1 /\ task[w] < taskspos /\ slots[task[w]] \notin Jobs
        BY <2>1, <3>4 DEF Exits, At, JobsAccounted, TypeOK, Positions
      <4>3. taskspos > size - stops
        BY <2>1, <4>2, TaskAt
      <4>4. UNCHANGED <<FirstJob, Taken, taskspos, size, stops, added, done, task>>
        BY <3>4 DEF Exits, pool, FirstJob, Taken
      <4>5. \A v \in Workers : /\ st'[v] = "holds" => task'[v] < taskspos'
                               /\ st'[v] = "works" => task'[v] < FirstJob' + taskspos' /\ task'[v] <= added'
                               /\ st'[v] = "exit" => taskspos' > size' - stops'
        BY <2>1, <3>4, <4>3, <4>4 DEF Exits, At, JobsAccounted, TypeOK
      <4>6. QED
        BY <2>1, <4>1, <4>4, <4>5 DEF JobsAccounted
    <3>5. CASE Finishes(w)
      <4>1. /\ st[w] = "works" /\ task[w] \in Jobs /\ st' = [st EXCEPT ![w] = "lock"]
            /\ done' = [done EXCEPT ![task[w]] = @ + 1]
            /\ UNCHANGED <<task, slots, taskspos, size, stops, added, pc, extra>>
        BY <3>5 DEF Finishes, At, TypeOK, pool
      <4>2. UNCHANGED <<FirstJob, Taken>>
        BY <4>1 DEF FirstJob, Taken
      <4>3. Has(w, task[w]) /\ done[task[w]] = 0 /\ done'[task[w]] = 1
        BY <2>1, <4>1 DEF Has, JobsAccounted, TypeOK
      <4>4. \A v \in Workers : \A j \in Jobs : Has(v, j)' <=> Has(v, j) /\ v # w
        BY <4>1 DEF Has, TypeOK
      <4>5. \A j \in Jobs : j # task[w] => done'[j] = done[j] /\ ~Has(w, j)
        BY <4>1 DEF TypeOK, Has
      <4>6. \A v \in Workers : Has(v, task[w]) => v = w
        BY <2>1, <4>1, <4>3 DEF JobsAccounted
      <4>7. task[w] <= added /\ task[w] < FirstJob + Taken
        <5>1. pc # "clearing"
          BY <2>1, <4>1 DEF CountMatchesWaiting, NoneLeftBehind
        <5>2. task[w] < FirstJob + taskspos /\ FirstJob \in Int
          BY <2>1, <4>1 DEF JobsAccounted, FirstJob
        <5>3. task[w] <= added
          BY <2>1, <4>1 DEF JobsAccounted
        <5>4. QED
          BY <2>1, <4>1, <5>1, <5>2, <5>3 DEF Taken, Jobs
      <4>8. \A j \in Jobs :
              /\ done'[j] = 0 \/ (j <= added' /\ j < FirstJob' + Taken')
              /\ \A v \in Workers : Has(v, j)' => done'[j] = 0
              /\ \/ done'[j] = 1
                 \/ j > added' \/ j >= FirstJob' + Taken'
                 \/ \E v \in Workers : Has(v, j)'
        <5> TAKE j \in Jobs
        <5>1. CASE j = task[w]
          BY <4>1, <4>2, <4>3, <4>4, <4>6, <4>7, <5>1
        <5>2. CASE j # task[w]
          BY <2>1, <4>1, <4>2, <4>4, <4>5, <5>2 DEF JobsAccounted
        <5>3. QED
          BY <5>1, <5>2
      <4>9. \A v \in Workers : /\ st'[v] = "holds" => task'[v] < taskspos'
                               /\ st'[v] = "works" => task'[v] < FirstJob' + taskspos' /\ task'[v] <= added'
                               /\ st'[v] = "exit" => taskspos' > size' - stops'
        BY <2>1, <4>1, <4>2 DEF JobsAccounted, TypeOK
      <4>10. QED
        BY <2>1, <4>4, <4>8, <4>9 DEF JobsAccounted
    <3>6. QED
      BY <2>2, <3>1, <3>2, <3>3, <3>4, <3>5 DEF Worker
  <2>3. ASSUME NEW w \in Workers, WakesUp(w) \/ Spawn(w) PROVE JobsAccounted'
    BY <2>1, <2>3 DEF WakesUp, Spawn, At, pool, JobsAccounted, FirstJob, Taken, Has, TypeOK
  <2>4. CASE \/ SpawnFails \/ Created \/ LooksInVain \/ Destroy \/ Join
             \/ ClientWakesUp \/ UNCHANGED vars
    <3>1. UNCHANGED <<st, task, slots, size, taskspos, stops, added, done, extra>>
      BY <2>4 DEF SpawnFails, Created, LooksInVain, Destroy, Join, ClientWakesUp, vars, pool
    <3>2. UNCHANGED <<FirstJob, Taken>>
      BY <2>4, <3>1 DEF SpawnFails, Created, LooksInVain, Destroy, Join, ClientWakesUp, vars,
                        FirstJob, Taken
    <3>3. QED
      BY <2>1, <3>1, <3>2 DEF JobsAccounted, Has
  <2>5. CASE AddTask
    <3>1. /\ pc = "idle" /\ stops = 0 /\ taskspos = 0 /\ added' = added + 1 /\ size' = size + 1
          /\ UNCHANGED <<st, task, taskspos, stops, done, extra, pc>>
          /\ \A w \in Workers : st[w] \notin {"holds", "works", "exit"}
      BY <2>1, <2>5 DEF AddTask, Put, ClientMatchesPool, CountMatchesWaiting, NoneLeftBehind,
                        JobsAccounted
    <3>2. UNCHANGED <<FirstJob, Taken>> /\ Taken = 0 /\ FirstJob \in Int /\ FirstJob <= added + 1
      BY <2>1, <3>1 DEF FirstJob, Taken
    <3>3. QED
      BY <2>1, <3>1, <3>2 DEF JobsAccounted, Has, Jobs
  <2>6. CASE StartRun \/ StartStop
    <3>1. /\ pc' # "clearing" /\ pc # "clearing"
          /\ UNCHANGED <<task, slots, size, taskspos, stops, added, done, extra>>
          /\ \A w \in Workers : st'[w] = IF st[w] = "wait" THEN "lock" ELSE st[w]
      BY <2>6 DEF StartRun, StartStop, Awake
    <3>2. UNCHANGED <<FirstJob, Taken>>
      BY <3>1 DEF FirstJob, Taken
    <3>3. \A w \in Workers : \A j \in Jobs : Has(w, j)' <=> Has(w, j)
      BY <3>1 DEF Has
    <3>4. QED
      BY <2>1, <3>1, <3>2, <3>3 DEF JobsAccounted
  <2>7. CASE EndRun
    <3>1. /\ pc = "running" /\ pc' = "clearing" /\ taskspos' = 0
          /\ UNCHANGED <<st, task, slots, size, stops, added, done, extra>>
      BY <2>7 DEF EndRun
    <3>2. \A w \in Workers : st[w] = "wait"
      BY <2>1, <2>7, WaitingInPool DEF EndRun, EveryoneDone, CountMatchesWaiting
    <3>3. taskspos = size
      <4>1. \E w \in Workers : TRUE
        BY FS_EmptySet DEF N
      <4>2. QED
        BY <2>1, <3>1, <3>2, <4>1 DEF CountMatchesWaiting
    <3>4. UNCHANGED <<FirstJob, Taken>>
      BY <3>1, <3>3 DEF FirstJob, Taken
    <3>5. QED
      BY <2>1, <3>1, <3>2, <3>4 DEF JobsAccounted, Has
  <2>8. CASE ClearTasks
    <3>1. /\ pc = "clearing" /\ pc' = "idle" /\ size' = 0 /\ stops = 0 /\ taskspos = 0
          /\ UNCHANGED <<st, task, slots, taskspos, stops, added, done, extra>>
          /\ \A w \in Workers : st[w] \notin {"holds", "works", "exit"}
      BY <2>1, <2>8 DEF ClearTasks, ClientMatchesPool, CountMatchesWaiting, NoneLeftBehind,
                        JobsAccounted
    <3>2. FirstJob + Taken = added + 1 /\ FirstJob' = added + 1 /\ Taken' = 0
      BY <2>1, <3>1 DEF FirstJob, Taken
    <3>3. QED
      BY <2>1, <3>1, <3>2 DEF JobsAccounted, Has, Jobs
  <2>9. CASE AddStop
    <3>1. /\ pc = "stopping" /\ taskspos = 0 /\ size' = size + 1 /\ stops' = stops + 1
          /\ UNCHANGED <<st, task, taskspos, added, done, extra, pc>>
          /\ \A w \in Workers : st[w] \notin {"holds", "works", "exit"}
      BY <2>1, <2>9 DEF AddStop, Put, ClientMatchesPool, CountMatchesWaiting, NoneLeftBehind,
                        JobsAccounted
    <3>2. UNCHANGED <<FirstJob, Taken>>
      BY <2>1, <3>1 DEF FirstJob, Taken
    <3>3. QED
      BY <2>1, <3>1, <3>2 DEF JobsAccounted, Has
  <2>10. QED
    BY <2>2, <2>3, <2>4, <2>5, <2>6, <2>7, <2>8, <2>9 DEF Next, Client, Ended
<1>3. QED
  BY <1>1, <1>2

LEMMA StepIInv == IInv /\ [Next]_vars => IInv'
BY TypePreserved, ClientPreserved, CountPreserved, ArrayPreserved, JobsPreserved DEF IInv

THEOREM PoolInvariant == Spec => []IInv
BY InitIInv, StepIInv, PTL DEF Spec

\* The variables of the pool stay in their sets.
THEOREM PoolTypes == Spec => []TypeOK
<1>1. IInv => TypeOK
  BY DEF IInv
<1>2. QED
  BY <1>1, PoolInvariant, PTL

\* When workerpool_run has returned, no thread is still at one of its tasks,
\* unless a thread woke up by itself during a run.
THEOREM RunLeavesNoneBehind == Spec => []NoneLeftBehind
<1>1. IInv => NoneLeftBehind
  BY DEF IInv, CountMatchesWaiting, NoneLeftBehind
<1>2. QED
  BY <1>1, PoolInvariant, PTL

\* Every job is executed once, with the same exception, and a pool that is
\* destroyed has executed all its jobs.
THEOREM RunDoesJobsOnce == Spec => []JobsDoneOnce
<1>1. ASSUME IInv PROVE JobsDoneOnce
  <2> SUFFICES ASSUME extra = 0 PROVE
        /\ \A j \in Jobs : done[j] <= 1
        /\ pc \in {"clearing", "gone"} => \A j \in 1 .. added : done[j] = 1
    BY DEF JobsDoneOnce
  <2> USE SizeOfPool, PoolAssumption
  <2>1. added \in 0 .. MaxJobs /\ size \in Nat /\ stops \in Nat /\ taskspos \in Nat
    BY <1>1 DEF IInv, TypeOK, Positions
  <2>2. \A j \in Jobs : done[j] <= 1
    <3> TAKE j \in Jobs
    <3>1. done[j] \in Nat /\ (done[j] = 0 \/ (j <= added /\ j < FirstJob + Taken))
      BY <1>1 DEF IInv, TypeOK, JobsAccounted
    <3>2. \/ done[j] = 1 \/ j > added \/ j >= FirstJob + Taken
          \/ \E w \in Workers : Has(w, j)
      BY <1>1 DEF IInv, JobsAccounted
    <3>3. \A w \in Workers : Has(w, j) => done[j] = 0
      BY <1>1 DEF IInv, JobsAccounted
    <3>4. FirstJob + Taken \in Int /\ j \in Int
      BY <2>1 DEF FirstJob, Taken, Jobs
    <3>5. QED
      BY <2>1, <3>1, <3>2, <3>3, <3>4
  <2>3. ASSUME pc \in {"clearing", "gone"}, NEW j \in 1 .. added PROVE done[j] = 1
    <3>1. j \in Jobs
      BY <2>1 DEF Jobs
    <3>2. \A w \in Workers : ~Has(w, j)
      BY <1>1, <2>3 DEF IInv, CountMatchesWaiting, NoneLeftBehind, Has
    <3>3. j < FirstJob + Taken
      <4>1. CASE pc = "clearing"
        BY <1>1, <2>1, <4>1 DEF IInv, ClientMatchesPool, FirstJob, Taken
      <4>2. CASE pc = "gone"
        <5>1. \E w \in Workers : st[w] = "exit"
          <6>1. \E w \in Workers : TRUE
            BY FS_EmptySet DEF N
          <6>2. QED
            BY <1>1, <4>2, <6>1 DEF IInv, ClientMatchesPool
        <5>2. taskspos > size - stops
          BY <1>1, <5>1 DEF IInv, JobsAccounted
        <5>3. QED
          BY <2>1, <4>2, <5>2 DEF FirstJob, Taken
      <4>3. QED
        BY <2>3, <4>1, <4>2
    <3>4. FirstJob + Taken \in Int
      BY <2>1 DEF FirstJob, Taken
    <3>5. QED
      BY <1>1, <2>1, <3>1, <3>2, <3>3, <3>4 DEF IInv, JobsAccounted
  <2>4. QED
    BY <2>2, <2>3
<1>2. QED
  BY <1>1, PoolInvariant, PTL
=============================================================================
