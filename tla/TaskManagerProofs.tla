-------------------------- MODULE TaskManagerProofs --------------------------
(***************************************************************************)
(* The safety of the provider daemon for any tasks, submissions, crashes   *)
(* and reuse of task ids.  The first invariant is the conjunction of four  *)
(* properties: types need the bound on settlements, which is               *)
(* SettledOncePerSuccess, and a restart shows no live task because what    *)
(* the file holds is typed.  It also says that an outcome recorded and not *)
(* yet acted upon is the executor's own.  The second says which run owns a *)
(* task while no id is submitted twice: receipts, streams and              *)
(* cancellations rest on it.                                               *)
(***************************************************************************)
EXTENDS TaskManager, FiniteSetTheorems, TLAPS

(* TypeOK without the bound on the number of settlements.                  *)
Typed ==
  /\ up \in BOOLEAN /\ crashes \in 0..MaxCrashes
  /\ tasks \in [TaskIds -> Task]
  /\ disk \in [TaskIds -> Task] \cup {Torn}
  /\ writing \in BOOLEAN /\ saved \in BOOLEAN /\ faults \in 0..MaxFaults
  /\ receiptFile \in [TaskIds -> Receipts]
  /\ processes \in [TaskIds -> RunIds \cup {NoRun}]
  /\ stream \in [TaskIds -> Streams]
  /\ runs \in [RunIds -> Run]
  /\ settlements \in [TaskIds -> Nat]
  /\ ensNames \subseteq UploadedTasks

(* A run whose outcome is being written is of a running daemon, and an     *)
(* outcome of completed means that its executor exited with code 0.        *)
RecordedIsTrue ==
  \A r \in RunIds :
    runs[r].pc = "recorded" =>
      up /\ (tasks[runs[r].task].state = "completed" => runs[r].process = "exit0")

TaskInv == /\ Typed /\ LiveTaskHasRun /\ DiskCurrent
           /\ RecordedIsTrue /\ SettledOncePerSuccess

(* The runs a settlement counts for.                                       *)
Counted == {"closing", "done", "lost"}

-----------------------------------------------------------------------------
(* Sets of runs are finite, and no larger than the number of submissions.  *)
LEMMA RunSets ==
  ASSUME NEW S, S \subseteq RunIds
  PROVE  IsFiniteSet(S) /\ Cardinality(S) \in 0..MaxRuns
<1>1. IsFiniteSet(RunIds) /\ Cardinality(RunIds) = MaxRuns
  BY FS_Interval, TaskManagerAssumption DEF RunIds
<1>2. IsFiniteSet(S) /\ Cardinality(S) <= Cardinality(RunIds)
  BY <1>1, FS_Subset
<1>3. QED
  BY <1>1, <1>2, FS_CardinalityType

(* Typed is TypeOK once settlements are bounded by successes.              *)
LEMMA TypedIsTypeOK ==
  ASSUME Typed, SettledOncePerSuccess
  PROVE  TypeOK
<1>1. \A id \in TaskIds : settlements[id] \in 0..MaxRuns
  <2>1. TAKE id \in TaskIds
  <2>2. Successes(id) \subseteq RunIds
    BY DEF Successes
  <2>3. Cardinality(Successes(id)) \in 0..MaxRuns
    BY <2>2, RunSets
  <2>4. QED
    BY <2>3, TaskManagerAssumption DEF Typed, SettledOncePerSuccess
<1>2. settlements \in [TaskIds -> 0..MaxRuns]
  BY <1>1 DEF Typed
<1>3. QED
  BY <1>2 DEF Typed, TypeOK

(* What load_persisted_tasks makes of a table: typed, nothing under way.   *)
LEMMA InterruptedTable ==
  ASSUME NEW table \in [TaskIds -> Task]
  PROVE  /\ Interrupted(table) \in [TaskIds -> Task]
         /\ \A id \in TaskIds : Interrupted(table)[id].state \notin Live
         /\ Interrupted(Interrupted(table)) = Interrupted(table)
<1>1. \A id \in TaskIds : /\ Interrupted(table)[id] \in Task
                          /\ Interrupted(table)[id].state \notin Live
  BY DEF Interrupted, Task, States, Live
<1>2. QED
  BY <1>1 DEF Interrupted

(* What a restart reads, from any file a crash can leave, is a table with  *)
(* no live task: a torn file counts as an empty one.                       *)
LEMMA LoadedTable ==
  ASSUME NEW file \in [TaskIds -> Task] \cup {Torn}
  PROVE  /\ Loaded(file) \in [TaskIds -> Task]
         /\ \A id \in TaskIds : Loaded(file)[id].state \notin Live
         /\ Interrupted(Loaded(file)) = Loaded(file)
<1>1. CASE file = Torn
  <2>1. Loaded(file) = [id \in TaskIds |-> NoTask]
    BY <1>1 DEF Loaded
  <2>2. NoTask \in Task /\ NoTask.state \notin Live
    BY DEF NoTask, Task, States, Receipts, Live
  <2>3. Interrupted(Loaded(file)) = Loaded(file)
    BY <2>1, <2>2 DEF Interrupted
  <2>4. QED
    BY <2>1, <2>2, <2>3
<1>2. CASE file # Torn
  BY <1>2, InterruptedTable DEF Loaded
<1>3. QED
  BY <1>1, <1>2

-----------------------------------------------------------------------------
(* Types.                                                                  *)

(* The states of an executor's process.                                    *)
Processes == Alive \cup {"none", "exit0", "exit1"}

(* Updates of one field or two of a run, or of a task, are typed.          *)
LEMMA RunUpdates ==
  ASSUME Typed, NEW r \in RunIds
  PROVE  /\ runs[r].task \in TaskIds
         /\ \A pc \in PCs : [runs EXCEPT ![r].pc = pc] \in [RunIds -> Run]
         /\ \A p \in Processes : [runs EXCEPT ![r].process = p] \in [RunIds -> Run]
         /\ \A pc \in PCs, p \in Processes :
              [runs EXCEPT ![r].pc = pc, ![r].process = p] \in [RunIds -> Run]
         /\ \A held \in BOOLEAN :
              [runs EXCEPT ![r].gymHoldsPipe = held] \in [RunIds -> Run]
BY DEF Typed, Run, Processes

(* A task's state may be replaced by any other state.                      *)
LEMMA TaskUpdate ==
  ASSUME Typed, NEW id \in TaskIds, NEW state \in States
  PROVE  [tasks EXCEPT ![id].state = state] \in [TaskIds -> Task]
BY DEF Typed, Task

(* Killing an executor is such an update.                                  *)
LEMMA Killed ==
  ASSUME Typed, NEW r \in RunIds
  PROVE  (IF runs[r].process \in Alive THEN "exit1" ELSE runs[r].process) \in Processes
BY DEF Typed, Run, Processes

(* Recording an outcome, whatever it is, keeps the types.                  *)
LEMMA FinishTyped ==
  ASSUME Typed, NEW r \in RunIds, NEW state \in {"completed", "failed"},
         Finish(r, state)
  PROVE  Typed'
<1> DEFINE id == runs[r].task
           newReceipt == IF receiptFile[id] = "none" THEN tasks[id].receipt
                         ELSE receiptFile[id]
<1>1. id \in TaskIds /\ newReceipt \in Receipts
  BY DEF Typed, Run, Task
<1>2. [state |-> state, receipt |-> newReceipt] \in Task
  BY <1>1 DEF Task, States
<1>3. tasks' \in [TaskIds -> Task]
  BY <1>1, <1>2 DEF Finish, Typed
<1>4. runs' \in [RunIds -> Run]
  BY DEF Finish, Goto, Typed, Run, PCs
<1>5. QED
  BY <1>3, <1>4 DEF Finish, BeginPersist, started, Typed

(* So does what follows the write of an outcome.                           *)
LEMMA ConcludeTyped ==
  ASSUME Typed, NEW r \in RunIds, Conclude(r)
  PROVE  Typed'
<1>1. runs' \in [RunIds -> Run] /\ stream' \in [TaskIds -> Streams]
  BY DEF Conclude, Goto, Typed, Run, PCs, Streams
<1>2. settlements' \in [TaskIds -> Nat] /\ ensNames' \subseteq UploadedTasks
  BY DEF Conclude, Settle, started, Typed
<1>3. processes' \in [TaskIds -> RunIds \cup {NoRun}]
  BY DEF Conclude, Typed
<1>4. QED
  BY <1>1, <1>2, <1>3 DEF Conclude, storage, Typed

(* Every step of the daemon and of its executors keeps the types.          *)
LEMMA StepTyped ==
  ASSUME Typed, Next
  PROVE  Typed'
<1>0. /\ {"running", "cancelled"} \subseteq States
      /\ {"spawning", "draining", "killed", "exiting", "done"} \subseteq PCs
      /\ {"running", "reported", "exit0", "exit1"} \subseteq Processes
  BY DEF States, PCs, Active, Processes, Alive
<1>1. ASSUME NEW id \in TaskIds, CancelTask(id)
      PROVE  Typed'
  <2>1. tasks' \in [TaskIds -> Task]
    BY <1>0, <1>1, TaskUpdate DEF CancelTask
  <2>2. runs' \in [RunIds -> Run]
    <3>1. CASE processes[id] = NoRun
      BY <1>1, <3>1 DEF CancelTask, Typed
    <3>2. CASE processes[id] # NoRun
      <4>1. processes[id] \in RunIds
        BY <3>2 DEF Typed
      <4>2. Terminated(processes[id]) \in [RunIds -> Run]
        BY <4>1, RunUpdates, Killed DEF Terminated
      <4>3. QED
        BY <1>1, <3>2, <4>2 DEF CancelTask
    <3>3. QED
      BY <3>1, <3>2
  <2>3. QED
    BY <1>1, <2>1, <2>2 DEF CancelTask, BeginPersist, started, Typed
<1>2. ASSUME NEW id \in TaskIds, NEW r \in RunIds, Submit(r, id)
      PROVE  Typed'
  <2>1. tasks' \in [TaskIds -> Task]
    BY <1>2 DEF Submit, Typed, Task, States, Receipts
  <2>2. runs' \in [RunIds -> Run]
    BY <1>2 DEF Submit, Typed, Run, PCs, Active
  <2>3. stream' \in [TaskIds -> Streams]
    BY <1>2 DEF Submit, Typed, Streams
  <2>4. QED
    BY <1>2, <2>1, <2>2, <2>3 DEF Submit, BeginPersist, started, Typed
<1>3. ASSUME NEW r \in RunIds, Start(r)
      PROVE  Typed'
  <2>1. tasks' \in [TaskIds -> Task] /\ runs' \in [RunIds -> Run]
    BY <1>0, <1>3, RunUpdates, TaskUpdate DEF Start, Goto
  <2>2. QED
    BY <1>3, <2>1 DEF Start, BeginPersist, started, Typed
<1>4. ASSUME NEW r \in RunIds, Spawned(r)
      PROVE  Typed'
  <2>1. runs' \in [RunIds -> Run] /\ processes' \in [TaskIds -> RunIds \cup {NoRun}]
    BY <1>0, <1>4, RunUpdates DEF Spawned, Typed
  <2>2. QED
    BY <1>4, <2>1 DEF Spawned, storage, started, Typed
<1>5. ASSUME NEW r \in RunIds,
             SpawnFailed(r) \/ KilledDrained(r) \/ DrainFailed(r) \/ Reaped(r)
      PROVE  Typed'
  BY <1>5, FinishTyped DEF SpawnFailed, KilledDrained, DrainFailed, Reaped
<1>6. ASSUME NEW r \in RunIds, Drained(r)
      PROVE  Typed'
  BY <1>6 DEF Drained, Goto, memory, storage, started, Typed, Run, PCs, Active
<1>7. ASSUME NEW r \in RunIds, CloseStream(r)
      PROVE  Typed'
  BY <1>7 DEF CloseStream, Goto, storage, started, Typed, Run, PCs, Streams
<1>8. ASSUME NEW r \in RunIds, Timeout(r)
      PROVE  Typed'
  <2>1. runs' \in [RunIds -> Run]
    BY <1>0, <1>8, Killed, RunUpdates DEF Timeout
  <2>2. QED
    BY <1>8, <2>1 DEF Timeout, memory, storage, started, Typed
<1>9. ASSUME NEW r \in RunIds, Executor(r)
      PROVE  Typed'
  <2>1. runs' \in [RunIds -> Run]
    <3>1. CASE ExecutorReports(r)
      BY <3>1, <1>0, RunUpdates DEF ExecutorReports
    <3>2. CASE ExecutorSucceeds(r)
      BY <3>2, <1>0, RunUpdates DEF ExecutorSucceeds
    <3>3. CASE ExecutorFails(r)
      BY <3>3, <1>0, RunUpdates DEF ExecutorFails
    <3>4. CASE LaunchSourceGym(r)
      BY <3>4, RunUpdates, TRUE \in BOOLEAN DEF LaunchSourceGym
    <3>5. CASE GymExits(r)
      BY <3>5, RunUpdates, FALSE \in BOOLEAN DEF GymExits
    <3>6. QED
      BY <1>9, <3>1, <3>2, <3>3, <3>4, <3>5 DEF Executor
  <2>2. receiptFile' \in [TaskIds -> Receipts]
    BY <1>0, <1>9, RunUpdates DEF Executor, ExecutorReports, ExecutorSucceeds, ExecutorFails,
       LaunchSourceGym, GymExits, Receipts, Typed
  <2>3. UNCHANGED <<up, crashes, memory, storage, started>>
    BY <1>9 DEF Executor, ExecutorReports, ExecutorSucceeds, ExecutorFails,
       LaunchSourceGym, GymExits
  <2>4. QED
    BY <2>1, <2>2, <2>3 DEF memory, storage, started, Typed
<1>10. CASE EndPersist \/ PersistFails
  <2>1. faults' \in 0..MaxFaults
    BY <1>10, TaskManagerAssumption DEF EndPersist, PersistFails, Typed
  <2>2. disk' \in [TaskIds -> Task] \cup {Torn}
    BY <1>10 DEF EndPersist, PersistFails, CutShort, memory, Typed
  <2>3. QED
    BY <1>10, <2>1, <2>2 DEF EndPersist, PersistFails, memory, started, Typed
<1>11. CASE Crash
  <2>1. NoTask \in Task
    BY DEF NoTask, Task, States, Receipts
  <2>2. runs' \in [RunIds -> Run]
    BY <1>11 DEF Crash, Typed, Run, PCs
  <2>3. crashes' \in 0..MaxCrashes
    BY <1>11, TaskManagerAssumption DEF Crash, Typed
  <2>4. disk' \in [TaskIds -> Task] \cup {Torn}
    BY <1>11 DEF Crash, CutShort, Typed
  <2>5. QED
    BY <1>11, <2>1, <2>2, <2>3, <2>4 DEF Crash, started, Typed, Streams
<1>12. CASE Restart
  BY <1>12, LoadedTable DEF Restart, started, Typed
<1>13. ASSUME NEW r \in RunIds, QueueFills(r)
       PROVE  Typed'
  BY <1>13 DEF QueueFills, storage, started, Typed, Streams
<1>14. ASSUME NEW id \in TaskIds, EntryRead(id)
       PROVE  Typed'
  BY <1>14 DEF EntryRead, storage, started, Typed, Streams
<1>15. QED
  BY <1>1, <1>2, <1>3, <1>4, <1>5, <1>6, <1>7, <1>8, <1>9, <1>10, <1>11, <1>12, <1>13,
     <1>14, ConcludeTyped
  DEF Next, Advance

-----------------------------------------------------------------------------
(* A live task has a run.                                                  *)

(* Recording the outcome of r's task takes r from that task only.          *)
LEMMA FinishKeepsRuns ==
  ASSUME Typed, LiveTaskHasRun, up, NEW r \in RunIds,
         NEW state \in {"completed", "failed"}, Finish(r, state)
  PROVE  LiveTaskHasRun'
<1>1. SUFFICES ASSUME NEW id \in TaskIds, tasks'[id].state \in Live
               PROVE  \E q \in RunIds : runs'[q].task = id /\ runs'[q].pc \in Active
  BY DEF LiveTaskHasRun
<1>2. id # runs[r].task
  BY <1>1 DEF Finish, Typed, Live
<1>3. tasks'[id] = tasks[id]
  BY <1>2 DEF Finish, Typed
<1>4. PICK q \in RunIds : runs[q].task = id /\ runs[q].pc \in Active
  BY <1>1, <1>3 DEF LiveTaskHasRun
<1>5. runs'[q] = runs[q]
  BY <1>2, <1>4 DEF Finish, Goto, Typed
<1>6. QED
  BY <1>4, <1>5

(* No step leaves a live task without a run that will finish it.           *)
LEMMA StepKeepsRuns ==
  ASSUME Typed, LiveTaskHasRun, Next
  PROVE  LiveTaskHasRun'
<1>1. ASSUME NEW id \in TaskIds, CancelTask(id)
      PROVE  LiveTaskHasRun'
  <2>1. SUFFICES ASSUME NEW i \in TaskIds, tasks'[i].state \in Live
                 PROVE  \E q \in RunIds : runs'[q].task = i /\ runs'[q].pc \in Active
    BY DEF LiveTaskHasRun
  <2>2. tasks'[i] = tasks[i] /\ up
    BY <1>1, <2>1 DEF CancelTask, LoopFree, Typed, Task, Live
  <2>3. PICK q \in RunIds : runs[q].task = i /\ runs[q].pc \in Active
    BY <2>1, <2>2 DEF LiveTaskHasRun
  <2>4. runs'[q].task = runs[q].task /\ runs'[q].pc = runs[q].pc
    BY <1>1 DEF CancelTask, Terminated, Typed, Run
  <2>5. QED
    BY <2>3, <2>4
<1>2. ASSUME NEW id \in TaskIds, NEW r \in RunIds, Submit(r, id)
      PROVE  LiveTaskHasRun'
  <2>1. SUFFICES ASSUME NEW i \in TaskIds, tasks'[i].state \in Live
                 PROVE  \E q \in RunIds : runs'[q].task = i /\ runs'[q].pc \in Active
    BY DEF LiveTaskHasRun
  <2>2. CASE i = id
    <3>1. runs'[r].task = i /\ runs'[r].pc \in Active
      BY <1>2, <2>2 DEF Submit, Typed, Active
    <3>2. QED
      BY <3>1
  <2>3. CASE i # id
    <3>1. tasks'[i] = tasks[i] /\ up
      BY <1>2, <2>3 DEF Submit, LoopFree, Typed
    <3>2. PICK q \in RunIds : runs[q].task = i /\ runs[q].pc \in Active
      BY <2>1, <3>1 DEF LiveTaskHasRun
    <3>3. q # r /\ runs[q].pc # "closing"
      BY <1>2, <3>2 DEF Submit, Active
    <3>4. runs'[q] = runs[q]
      BY <1>2, <3>3 DEF Submit
    <3>5. QED
      BY <3>2, <3>4
  <2>4. QED
    BY <2>2, <2>3
<1>3. ASSUME NEW r \in RunIds, Start(r)
      PROVE  LiveTaskHasRun'
  <2>1. SUFFICES ASSUME NEW i \in TaskIds, tasks'[i].state \in Live
                 PROVE  \E q \in RunIds : runs'[q].task = i /\ runs'[q].pc \in Active
    BY DEF LiveTaskHasRun
  <2>2. \A q \in RunIds : /\ runs'[q].task = runs[q].task
                          /\ runs[q].pc \in Active => runs'[q].pc \in Active
    BY <1>3 DEF Start, Goto, Typed, Run, Active
  <2>3. runs[r].pc \in Active
    BY <1>3 DEF Start, Active
  <2>4. CASE i = runs[r].task
    BY <2>2, <2>3, <2>4
  <2>5. CASE i # runs[r].task
    <3>1. tasks'[i] = tasks[i] /\ up
      BY <1>3, <2>5 DEF Start, LoopFree, Typed
    <3>2. QED
      BY <2>1, <2>2, <3>1 DEF LiveTaskHasRun
  <2>6. QED
    BY <2>4, <2>5
<1>4. ASSUME NEW r \in RunIds,
             SpawnFailed(r) \/ KilledDrained(r) \/ DrainFailed(r) \/ Reaped(r)
      PROVE  LiveTaskHasRun'
  BY <1>4, FinishKeepsRuns
  DEF SpawnFailed, KilledDrained, DrainFailed, Reaped, LoopFree
<1>5. ASSUME NEW r \in RunIds,
             \/ Spawned(r) \/ Drained(r) \/ Conclude(r) \/ CloseStream(r)
             \/ Timeout(r) \/ QueueFills(r) \/ Executor(r)
      PROVE  LiveTaskHasRun'
  <2>1. UNCHANGED <<up, tasks>>
    BY <1>5 DEF Spawned, Drained, Conclude, CloseStream, Timeout, QueueFills, Executor,
       ExecutorReports, ExecutorSucceeds, ExecutorFails, LaunchSourceGym, GymExits, memory
  <2>2. \A q \in RunIds : /\ runs'[q].task = runs[q].task
                          /\ runs[q].pc \in Active => runs'[q].pc \in Active
    <3>1. CASE \/ Spawned(r) \/ Drained(r) \/ Conclude(r) \/ CloseStream(r)
               \/ Timeout(r) \/ QueueFills(r)
      BY <3>1 DEF Spawned, Drained, Conclude, Concluding, CloseStream, Timeout, QueueFills,
         Goto, Typed, Run, Active
    <3>2. CASE Executor(r)
      BY <3>2 DEF Executor, ExecutorReports, ExecutorSucceeds, ExecutorFails,
         LaunchSourceGym, GymExits, Typed, Run
    <3>3. QED
      BY <1>5, <3>1, <3>2
  <2>3. QED
    BY <2>1, <2>2 DEF LiveTaskHasRun
<1>6. CASE EndPersist \/ PersistFails \/ \E id \in TaskIds : EntryRead(id)
  BY <1>6 DEF EndPersist, PersistFails, EntryRead, memory, LiveTaskHasRun
<1>7. CASE Crash
  BY <1>7 DEF Crash, LiveTaskHasRun
<1>8. CASE Restart
  BY <1>8, LoadedTable DEF Restart, LiveTaskHasRun, Typed
<1>9. QED
  BY <1>1, <1>2, <1>3, <1>4, <1>5, <1>6, <1>7, <1>8 DEF Next, Advance

-----------------------------------------------------------------------------
(* The file is current.                                                    *)

(* Between two writes the file says what memory says: a step that changes  *)
(* the table also begins a write, and a write ends with the table in the   *)
(* file.                                                                   *)
LEMMA StepKeepsDisk ==
  ASSUME Typed, DiskCurrent, Next
  PROVE  DiskCurrent'
<1>1. ASSUME NEW id \in TaskIds, CancelTask(id) \/ \E r \in RunIds : Submit(r, id)
      PROVE  DiskCurrent'
  BY <1>1 DEF CancelTask, Submit, BeginPersist, DiskCurrent
<1>2. ASSUME NEW r \in RunIds,
             Start(r) \/ SpawnFailed(r) \/ KilledDrained(r) \/ DrainFailed(r) \/ Reaped(r)
      PROVE  DiskCurrent'
  BY <1>2 DEF Start, SpawnFailed, KilledDrained, DrainFailed, Reaped, Finish,
     BeginPersist, DiskCurrent
<1>3. ASSUME NEW r \in RunIds,
             \/ Spawned(r) \/ Drained(r) \/ Conclude(r) \/ CloseStream(r)
             \/ Timeout(r) \/ QueueFills(r) \/ Executor(r)
      PROVE  DiskCurrent'
  <2>1. UNCHANGED <<up, tasks, storage>>
    BY <1>3 DEF Spawned, Drained, Conclude, CloseStream, Timeout, QueueFills,
       Executor, ExecutorReports, ExecutorSucceeds, ExecutorFails, LaunchSourceGym,
       GymExits, memory
  <2>2. QED
    BY <2>1 DEF storage, DiskCurrent, Loaded, Interrupted
<1>4. CASE EndPersist
  <2>1. disk' = tasks /\ tasks' = tasks /\ tasks # Torn
    BY <1>4, TornAssumption DEF EndPersist, memory, Typed
  <2>2. QED
    BY <2>1 DEF DiskCurrent, Loaded, Interrupted
<1>5. CASE Crash \/ PersistFails
  BY <1>5 DEF Crash, PersistFails, DiskCurrent
<1>6. CASE Restart
  <2>1. disk' = disk /\ tasks' = Loaded(disk)
    BY <1>6 DEF Restart
  <2>2. Interrupted(tasks') = Loaded(disk')
    BY <2>1, LoadedTable DEF Typed
  <2>3. QED
    BY <2>2 DEF DiskCurrent, Loaded, Interrupted
<1>7. ASSUME NEW id \in TaskIds, EntryRead(id)
      PROVE  DiskCurrent'
  BY <1>7 DEF EntryRead, storage, DiskCurrent, Loaded, Interrupted
<1>8. QED
  BY <1>1, <1>2, <1>3, <1>4, <1>5, <1>6, <1>7 DEF Next, Advance

-----------------------------------------------------------------------------
(* One settlement per success.                                             *)

(* While an outcome is recorded and not yet acted upon, the event loop     *)
(* runs nothing else that could overwrite it.                              *)
LEMMA StepRecords ==
  ASSUME Typed, RecordedIsTrue, Next
  PROVE  RecordedIsTrue'
<1> DEFINE Quiet == \A r \in RunIds : runs'[r].pc # "recorded"
<1>1. ASSUME NEW id \in TaskIds, CancelTask(id) \/ EntryRead(id)
      PROVE  RecordedIsTrue'
  <2>1. Quiet
    BY <1>1 DEF CancelTask, EntryRead, Terminated, LoopFree, Typed, Run
  <2>2. QED
    BY <2>1 DEF RecordedIsTrue
<1>2. ASSUME NEW id \in TaskIds, NEW r \in RunIds, Submit(r, id)
      PROVE  RecordedIsTrue'
  <2>1. Quiet
    BY <1>2 DEF Submit, LoopFree, Typed, Run
  <2>2. QED
    BY <2>1 DEF RecordedIsTrue
<1>3. ASSUME NEW r \in RunIds,
             \/ Start(r) \/ Spawned(r) \/ Drained(r) \/ CloseStream(r)
             \/ Timeout(r) \/ QueueFills(r)
      PROVE  RecordedIsTrue'
  <2>1. Quiet
    BY <1>3 DEF Start, Spawned, Drained, CloseStream, Timeout, QueueFills, LoopFree, Goto,
       Typed, Run
  <2>2. QED
    BY <2>1 DEF RecordedIsTrue
<1>4. ASSUME NEW r \in RunIds, NEW state \in {"completed", "failed"}, LoopFree,
             state = "completed" => runs[r].process = "exit0", Finish(r, state)
      PROVE  RecordedIsTrue'
  <2>1. /\ \A q \in RunIds : runs'[q].pc = "recorded" => q = r
        /\ runs'[r].process = runs[r].process /\ runs'[r].task = runs[r].task
        /\ up'
    BY <1>4 DEF LoopFree, Finish, Goto, Typed, Run
  <2>2. tasks'[runs[r].task].state = state
    BY <1>4 DEF Finish, Typed, Run
  <2>3. QED
    BY <1>4, <2>1, <2>2 DEF RecordedIsTrue
<1>5. ASSUME NEW r \in RunIds, Conclude(r) \/ Executor(r)
      PROVE  RecordedIsTrue'
  <2>1. UNCHANGED <<up, tasks>>
    BY <1>5 DEF Conclude, Executor, ExecutorReports, ExecutorSucceeds, ExecutorFails,
       LaunchSourceGym, GymExits, memory
  <2>2. \A q \in RunIds : runs'[q].pc = "recorded" =>
          /\ runs[q].pc = "recorded" /\ runs'[q].task = runs[q].task
          /\ runs[q].process = "exit0" => runs'[q].process = "exit0"
    BY <1>5 DEF Conclude, Executor, ExecutorReports, ExecutorSucceeds, ExecutorFails,
       LaunchSourceGym, GymExits, Goto, Alive, Typed, Run
  <2>3. QED
    BY <2>1, <2>2 DEF RecordedIsTrue
<1>6. CASE EndPersist \/ PersistFails
  BY <1>6 DEF EndPersist, PersistFails, memory, RecordedIsTrue
<1>7. CASE Crash
  BY <1>7 DEF Crash, Typed, Run, RecordedIsTrue
<1>8. CASE Restart
  BY <1>8 DEF Restart, RecordedIsTrue
<1>9. QED
  BY <1>1, <1>2, <1>3, <1>4, <1>5, <1>6, <1>7, <1>8
  DEF Next, Advance, SpawnFailed, KilledDrained, DrainFailed, Reaped

(* A step that starts no settlement and takes no run out of Successes.     *)
LEMMA QuietStep ==
  ASSUME Typed, SettledOncePerSuccess, UNCHANGED settlements,
         \A r \in RunIds : r \in Successes(runs[r].task) =>
           /\ runs'[r].task = runs[r].task
           /\ runs'[r].process = "exit0"
           /\ runs'[r].pc \in Counted
  PROVE  SettledOncePerSuccess'
<1>1. SUFFICES ASSUME NEW id \in TaskIds
               PROVE  settlements'[id] <= Cardinality(Successes(id)')
  BY DEF SettledOncePerSuccess
<1>2. Successes(id) \subseteq Successes(id)' /\ Successes(id)' \subseteq RunIds
  BY DEF Successes, Counted
<1>3. Cardinality(Successes(id)) <= Cardinality(Successes(id)')
  BY <1>2, RunSets, FS_Subset
<1>4. /\ Cardinality(Successes(id)) \in Nat /\ Cardinality(Successes(id)') \in Nat
      /\ settlements[id] \in Nat
  BY <1>2, RunSets DEF Successes, Typed
<1>5. settlements[id] <= Cardinality(Successes(id))
  BY DEF SettledOncePerSuccess
<1>6. QED
  BY <1>3, <1>4, <1>5

(* What follows the write of an outcome starts a settlement only for a run *)
(* whose executor had exited with code 0 and that had not been counted     *)
(* before.                                                                 *)
LEMMA ConcludeSettles ==
  ASSUME Typed, RecordedIsTrue, SettledOncePerSuccess, NEW r \in RunIds, Conclude(r)
  PROVE  SettledOncePerSuccess'
<1>1. /\ \A q \in RunIds : /\ runs'[q].task = runs[q].task
                           /\ runs'[q].process = runs[q].process
                           /\ q # r => runs'[q].pc = runs[q].pc
      /\ runs'[r].pc \in Counted /\ runs[r].pc = "recorded"
      /\ runs[r].task \in TaskIds
  BY DEF Conclude, Concluding, Goto, Counted, Typed, Run
<1>2. CASE tasks[runs[r].task].state # "completed"
  <2>1. UNCHANGED settlements
    BY <1>2 DEF Conclude, Settle, started
  <2>2. QED
    BY <1>1, <2>1, QuietStep DEF Successes, Counted
<1>3. CASE tasks[runs[r].task].state = "completed"
  <2>1. SUFFICES ASSUME NEW id \in TaskIds
                 PROVE  settlements'[id] <= Cardinality(Successes(id)')
    BY DEF SettledOncePerSuccess
  <2>2. Successes(id) \subseteq RunIds /\ Successes(id)' \subseteq RunIds
    BY DEF Successes
  <2>3. /\ Cardinality(Successes(id)) \in Nat /\ Cardinality(Successes(id)') \in Nat
        /\ settlements[id] \in Nat /\ settlements[id] <= Cardinality(Successes(id))
    BY <2>2, RunSets DEF Typed, SettledOncePerSuccess
  <2>4. CASE id = runs[r].task
    <3>0. runs'[r].process = "exit0"
      BY <1>1, <1>3 DEF RecordedIsTrue
    <3>1. r \notin Successes(id) /\ Successes(id) \cup {r} \subseteq Successes(id)'
      BY <1>1, <2>4, <3>0 DEF Successes, Counted
    <3>2. Cardinality(Successes(id) \cup {r}) = Cardinality(Successes(id)) + 1
      BY <2>2, <3>1, RunSets, FS_AddElement
    <3>3. Cardinality(Successes(id) \cup {r}) <= Cardinality(Successes(id)')
      BY <2>2, <3>1, RunSets, FS_Subset
    <3>4. settlements'[id] = settlements[id] + 1
      BY <1>3, <2>4 DEF Conclude, Settle, Typed
    <3>5. QED
      BY <2>3, <3>2, <3>3, <3>4
  <2>5. CASE id # runs[r].task
    <3>1. settlements'[id] = settlements[id]
      BY <1>3, <2>5 DEF Conclude, Settle, Typed
    <3>2. Successes(id) \subseteq Successes(id)'
      BY <1>1, <2>5 DEF Successes, Counted
    <3>3. Cardinality(Successes(id)) <= Cardinality(Successes(id)')
      BY <2>2, <3>2, RunSets, FS_Subset
    <3>4. QED
      BY <2>3, <3>1, <3>3
  <2>6. QED
    BY <2>4, <2>5
<1>4. QED
  BY <1>2, <1>3

(* No step lets settlements exceed the executors that succeeded.           *)
LEMMA StepSettles ==
  ASSUME Typed, RecordedIsTrue, SettledOncePerSuccess, Next
  PROVE  SettledOncePerSuccess'
<1> DEFINE Kept ==
      \A r \in RunIds : r \in Successes(runs[r].task) =>
        /\ runs'[r].task = runs[r].task
        /\ runs'[r].process = "exit0"
        /\ runs'[r].pc \in Counted
<1>1. ASSUME NEW id \in TaskIds, CancelTask(id) \/ EntryRead(id)
      PROVE  SettledOncePerSuccess'
  <2>1. Kept /\ UNCHANGED settlements
    BY <1>1 DEF CancelTask, EntryRead, started, Terminated, Successes, Counted, Typed, Run,
       Alive
  <2>2. QED
    BY <2>1, QuietStep
<1>2. ASSUME NEW id \in TaskIds, NEW r \in RunIds, Submit(r, id)
      PROVE  SettledOncePerSuccess'
  <2>1. Kept /\ UNCHANGED settlements
    BY <1>2 DEF Submit, started, Successes, Counted, Typed, Run
  <2>2. QED
    BY <2>1, QuietStep
<1>3. ASSUME NEW r \in RunIds,
             \/ Start(r) \/ Spawned(r) \/ Drained(r) \/ CloseStream(r)
             \/ Timeout(r) \/ QueueFills(r)
      PROVE  SettledOncePerSuccess'
  <2>1. Kept /\ UNCHANGED settlements
    BY <1>3 DEF Start, Spawned, Drained, CloseStream, Timeout, QueueFills, started, Goto,
       Successes, Counted, Typed, Run, Alive
  <2>2. QED
    BY <2>1, QuietStep
<1>4. ASSUME NEW r \in RunIds, Executor(r)
      PROVE  SettledOncePerSuccess'
  <2>1. Kept /\ UNCHANGED settlements
    BY <1>4 DEF Executor, ExecutorReports, ExecutorSucceeds, ExecutorFails,
       LaunchSourceGym, GymExits, started, Successes, Counted, Typed, Run, Alive
  <2>2. QED
    BY <2>1, QuietStep
<1>5. ASSUME NEW r \in RunIds, NEW state \in {"completed", "failed"},
             runs[r].pc \in Active, Finish(r, state)
      PROVE  SettledOncePerSuccess'
  <2>1. Kept /\ UNCHANGED settlements
    BY <1>5 DEF Finish, Goto, started, Successes, Counted, Active, Typed, Run
  <2>2. QED
    BY <2>1, QuietStep
<1>6. CASE EndPersist \/ PersistFails \/ Restart
  <2>1. Kept /\ UNCHANGED settlements
    BY <1>6 DEF EndPersist, PersistFails, Restart, memory, started, Successes, Counted
  <2>2. QED
    BY <2>1, QuietStep
<1>7. CASE Crash
  <2>1. Kept /\ UNCHANGED settlements
    BY <1>7 DEF Crash, started, Successes, Counted, Typed, Run
  <2>2. QED
    BY <2>1, QuietStep
<1>8. QED
  BY <1>1, <1>2, <1>3, <1>4, <1>5, <1>6, <1>7, ConcludeSettles
  DEF Next, Advance, SpawnFailed, KilledDrained, DrainFailed, Reaped, Active

-----------------------------------------------------------------------------
(* The daemon before its first task.                                       *)
LEMMA InitInv ==
  ASSUME Init
  PROVE  TaskInv
<1>1. NoTask \in Task /\ NoTask.state \notin Live
  BY DEF NoTask, Task, States, Receipts, Live
<1>2. (CHOOSE id \in TaskIds : TRUE) \in TaskIds
  BY TaskManagerAssumption
<1>3. runs \in [RunIds -> Run]
  BY <1>2 DEF Init, Run, PCs, Active, Alive
<1>4. Typed
  <2>1. up \in BOOLEAN /\ writing \in BOOLEAN /\ saved \in BOOLEAN
    BY DEF Init
  <2>2. crashes \in 0..MaxCrashes /\ faults \in 0..MaxFaults
    BY TaskManagerAssumption DEF Init
  <2>3. tasks \in [TaskIds -> Task] /\ disk \in [TaskIds -> Task] \cup {Torn}
    BY <1>1 DEF Init
  <2>4. receiptFile \in [TaskIds -> Receipts] /\ processes \in [TaskIds -> RunIds \cup {NoRun}]
    BY DEF Init, Receipts
  <2>5. stream \in [TaskIds -> Streams] /\ settlements \in [TaskIds -> Nat]
    BY DEF Init, Streams
  <2>6. ensNames \subseteq UploadedTasks
    BY DEF Init
  <2>7. QED
    BY <1>3, <2>1, <2>2, <2>3, <2>4, <2>5, <2>6 DEF Typed
<1>5. LiveTaskHasRun
  BY <1>1 DEF Init, LiveTaskHasRun
<1>6. DiskCurrent
  <2>1. disk = tasks /\ tasks # Torn
    BY <1>4, TornAssumption DEF Init, Typed
  <2>2. QED
    BY <2>1 DEF DiskCurrent, Loaded
<1>7. SettledOncePerSuccess
  <2>1. SUFFICES ASSUME NEW id \in TaskIds
                 PROVE  settlements[id] <= Cardinality(Successes(id))
    BY DEF SettledOncePerSuccess
  <2>2. Cardinality(Successes(id)) \in Nat
    BY RunSets DEF Successes
  <2>3. QED
    BY <2>2 DEF Init
<1>8. RecordedIsTrue
  BY DEF Init, RecordedIsTrue
<1>9. QED
  BY <1>4, <1>5, <1>6, <1>7, <1>8 DEF TaskInv

(* The inductive invariant holds in every behaviour.                       *)
LEMMA TaskInvariant == Spec => []TaskInv
<1>1. Init => TaskInv
  BY InitInv
<1>2. ASSUME TaskInv, [Next]_vars
      PROVE  TaskInv'
  <2>1. CASE Next
    BY <1>2, <2>1, StepTyped, StepKeepsRuns, StepKeepsDisk, StepRecords, StepSettles
    DEF TaskInv
  <2>2. CASE UNCHANGED vars
    BY <1>2, <2>2 DEF vars, memory, storage, started, TaskInv, Typed, LiveTaskHasRun,
       DiskCurrent, Loaded, Interrupted, RecordedIsTrue, SettledOncePerSuccess, Successes
  <2>3. QED
    BY <1>2, <2>1, <2>2
<1>3. QED
  BY <1>1, <1>2, PTL DEF Spec

(* In every behaviour of the daemon its variables keep their types, for    *)
(* any number of tasks, submissions and crashes, ids reused or not; no     *)
(* task is settled more often than there are submissions.                  *)
THEOREM DaemonTyped == Spec => []TypeOK
<1>1. TaskInv => TypeOK
  BY TypedIsTypeOK DEF TaskInv
<1>2. QED
  BY <1>1, TaskInvariant, PTL

(* Every task shown as pending or running has a run that will finish it.   *)
THEOREM LiveTasksRun == Spec => []LiveTaskHasRun
<1>1. TaskInv => LiveTaskHasRun
  BY DEF TaskInv
<1>2. QED
  BY <1>1, TaskInvariant, PTL

(* Between two writes of tasks.json a crash costs no task and no outcome,  *)
(* unless the last write failed: whatever failed before it, and whatever   *)
(* a crash left of the file.                                               *)
THEOREM FileStaysCurrent == Spec => []DiskCurrent
<1>1. TaskInv => DiskCurrent
  BY DEF TaskInv
<1>2. QED
  BY <1>1, TaskInvariant, PTL

(* settle_job is started at most once per executor that succeeded, however *)
(* runs of one id overlap and wherever the daemon crashes.                 *)
THEOREM SettledAtMostOnce == Spec => []SettledOncePerSuccess
<1>1. TaskInv => SettledOncePerSuccess
  BY DEF TaskInv
<1>2. QED
  BY <1>1, TaskInvariant, PTL

-----------------------------------------------------------------------------
(* When no id is submitted twice, a run owns what is kept under its task's *)
(* id: the receipt file, the log stream and the process handle.            *)

Begun(r) == runs[r].pc # "none"

Unfinished == Active \cup {"recorded", "closing"}

OneRunPerTask ==
  /\ \A q, r \in RunIds :
       Begun(q) /\ Begun(r) /\ runs[q].task = runs[r].task => q = r
  /\ \A r \in RunIds : runs[r].process # "none" => Begun(r)
  /\ ~up => \A r \in RunIds : runs[r].pc \notin Unfinished

(* A success is behind its receipt, and what is stored of a task in the    *)
(* file is as sound as what is in memory.                                  *)
ReceiptsAgree ==
  /\ CompletedHasReceipt
  /\ disk # Torn => \A id \in TaskIds :
       disk[id].state = "completed" => disk[id].receipt = "success"
  /\ \A r \in RunIds : runs[r].process \in {"reported", "exit0"}
                         => receiptFile[runs[r].task] = "success"

Ending == {"recorded", "closing"}

StreamsInOrder ==
  /\ StreamClosedAfterTask
  /\ \A r \in RunIds :
       /\ runs[r].pc \in Active => stream[runs[r].task] # "closed"
       /\ runs[r].pc \in Ending => tasks[runs[r].task].state \notin Live

HandlesKept ==
  \A r \in RunIds : runs[r].pc \in {"draining", "killed", "exiting"}
                      => processes[runs[r].task] = r

OwnersInv == Typed /\ OneRunPerTask /\ ReceiptsAgree /\ StreamsInOrder /\ HandlesKept

(* A run that has begun keeps its task, and stays begun.                   *)
LEMMA BegunRunsStay ==
  ASSUME Typed, Next, NEW r \in RunIds, Begun(r)
  PROVE  Begun(r)' /\ runs'[r].task = runs[r].task
<1>1. ASSUME NEW id \in TaskIds, CancelTask(id)
      PROVE  Begun(r)' /\ runs'[r].task = runs[r].task
  BY <1>1 DEF CancelTask, Terminated, Typed, Run, Begun
<1>2. ASSUME NEW id \in TaskIds, NEW q \in RunIds, Submit(q, id)
      PROVE  Begun(r)' /\ runs'[r].task = runs[r].task
  BY <1>2 DEF Submit, Typed, Begun
<1>3. ASSUME NEW q \in RunIds, Advance(q) \/ Timeout(q) \/ QueueFills(q)
      PROVE  Begun(r)' /\ runs'[r].task = runs[r].task
  BY <1>3 DEF Advance, Start, Spawned, SpawnFailed, Drained, KilledDrained, DrainFailed,
     Reaped, Conclude, CloseStream, Timeout, QueueFills, Finish, Goto, Typed, Run, Begun
<1>4. ASSUME NEW q \in RunIds, Executor(q)
      PROVE  Begun(r)' /\ runs'[r].task = runs[r].task
  BY <1>4 DEF Executor, ExecutorReports, ExecutorSucceeds, ExecutorFails, LaunchSourceGym,
     GymExits, Typed, Run, Begun
<1>5. CASE EndPersist \/ PersistFails \/ Restart \/ \E id \in TaskIds : EntryRead(id)
  BY <1>5 DEF EndPersist, PersistFails, Restart, EntryRead, Begun
<1>6. CASE Crash
  BY <1>6 DEF Crash, Typed, Run, Begun
<1>7. QED
  BY <1>1, <1>2, <1>3, <1>4, <1>5, <1>6 DEF Next

(* Only a submission begins a run, and then of a task that had none.       *)
LEMMA OneRunStays ==
  ASSUME Resubmission = FALSE, Typed, OneRunPerTask, Next
  PROVE  OneRunPerTask'
<1>1. ASSUME NEW id \in TaskIds, NEW r \in RunIds, Submit(r, id)
      PROVE  OneRunPerTask'
  <2>1. /\ \A q \in RunIds : Begun(q) => runs[q].task # id
        /\ \A q \in RunIds \ {r} : runs'[q] = runs[q]
        /\ runs'[r] = [task |-> id, pc |-> "created",
                       process |-> "none", gymHoldsPipe |-> FALSE]
        /\ up /\ UNCHANGED up
    BY <1>1 DEF Submit, LoopFree, Begun
  <2>2. QED
    BY <2>1 DEF OneRunPerTask, Begun, Typed
<1>2. ASSUME ~\E id \in TaskIds, r \in RunIds : Submit(r, id)
      PROVE  /\ \A r \in RunIds : Begun(r)' => Begun(r)
             /\ \A r \in RunIds : runs'[r].process # "none"
                                    => runs[r].process # "none" \/ Begun(r)
             /\ ~up' => \A r \in RunIds : runs'[r].pc \notin Unfinished
  <2> DEFINE Kept == /\ \A r \in RunIds : Begun(r)' => Begun(r)
                     /\ \A r \in RunIds : runs'[r].process # "none"
                                            => runs[r].process # "none" \/ Begun(r)
                     /\ ~up' => \A r \in RunIds : runs'[r].pc \notin Unfinished
  <2>1. ASSUME NEW id \in TaskIds, CancelTask(id)
        PROVE  Kept
    BY <2>1 DEF CancelTask, LoopFree, Terminated, Alive, Typed, Run, Begun
  <2>2. ASSUME NEW q \in RunIds, Advance(q) \/ Timeout(q) \/ QueueFills(q)
        PROVE  Kept
    BY <2>2 DEF Advance, Start, Spawned, SpawnFailed, Drained, KilledDrained, DrainFailed,
       Reaped, Conclude, Concluding, CloseStream, Timeout, QueueFills, Finish, Goto,
       LoopFree, Alive, Typed, Run, Begun
  <2>3. ASSUME NEW q \in RunIds, Executor(q)
        PROVE  Kept
    BY <2>3 DEF Executor, ExecutorReports, ExecutorSucceeds, ExecutorFails,
       LaunchSourceGym, GymExits, Alive, Typed, Run, Begun, OneRunPerTask
  <2>4. CASE EndPersist \/ PersistFails \/ Restart \/ \E id \in TaskIds : EntryRead(id)
    BY <2>4 DEF EndPersist, PersistFails, Restart, EntryRead, LoopFree, Begun
  <2>5. CASE Crash
    BY <2>5 DEF Crash, Typed, Run, PCs, Active, Begun, Unfinished
  <2>6. QED
    BY <1>2, <2>1, <2>2, <2>3, <2>4, <2>5 DEF Next
<1>3. CASE ~\E id \in TaskIds, r \in RunIds : Submit(r, id)
  BY <1>2, <1>3, BegunRunsStay DEF OneRunPerTask
<1>4. QED
  BY <1>1, <1>3

-----------------------------------------------------------------------------
(* Receipts.                                                               *)

(* An outcome recorded as completed takes the receipt of a success.        *)
LEMMA FinishReceipts ==
  ASSUME Typed, ReceiptsAgree, NEW r \in RunIds, NEW state \in {"completed", "failed"},
         state = "completed" => runs[r].process = "exit0",
         Finish(r, state)
  PROVE  ReceiptsAgree'
<1>1. runs[r].task \in TaskIds
  BY DEF Typed, Run
<1>2. CompletedHasReceipt'
  <2>1. state = "completed" => receiptFile[runs[r].task] = "success"
    BY DEF ReceiptsAgree
  <2>2. QED
    BY <1>1, <2>1 DEF Finish, Typed, ReceiptsAgree, CompletedHasReceipt
<1>3. UNCHANGED disk
  BY DEF Finish, BeginPersist
<1>4. /\ UNCHANGED receiptFile
      /\ \A q \in RunIds : runs'[q].task = runs[q].task /\ runs'[q].process = runs[q].process
  BY DEF Finish, Goto, Typed, Run
<1>5. QED
  BY <1>2, <1>3, <1>4 DEF ReceiptsAgree

(* No step makes the exit code, the receipt and the table disagree: only a *)
(* run's own executor writes its receipt.                                  *)
LEMMA StepReceipts ==
  ASSUME Typed, OneRunPerTask, ReceiptsAgree, Next
  PROVE  ReceiptsAgree'
<1> DEFINE Behind == \A r \in RunIds : runs'[r].process \in {"reported", "exit0"}
                                         => receiptFile'[runs'[r].task] = "success"
<1>1. ASSUME NEW id \in TaskIds, CancelTask(id)
      PROVE  ReceiptsAgree'
  <2>1. CompletedHasReceipt' /\ UNCHANGED disk
    BY <1>1 DEF CancelTask, BeginPersist, Typed, Task, ReceiptsAgree, CompletedHasReceipt
  <2>2. Behind
    BY <1>1 DEF CancelTask, Terminated, Typed, Run, ReceiptsAgree
  <2>3. QED
    BY <2>1, <2>2 DEF ReceiptsAgree
<1>2. ASSUME NEW id \in TaskIds, NEW r \in RunIds, Submit(r, id)
      PROVE  ReceiptsAgree'
  <2>1. CompletedHasReceipt' /\ UNCHANGED disk
    BY <1>2 DEF Submit, BeginPersist, Typed, ReceiptsAgree, CompletedHasReceipt
  <2>2. Behind
    BY <1>2 DEF Submit, Typed, ReceiptsAgree
  <2>3. QED
    BY <2>1, <2>2 DEF ReceiptsAgree
<1>3. ASSUME NEW r \in RunIds, Start(r)
      PROVE  ReceiptsAgree'
  <2>1. CompletedHasReceipt' /\ UNCHANGED disk
    BY <1>3 DEF Start, BeginPersist, Typed, Task, ReceiptsAgree, CompletedHasReceipt
  <2>2. Behind
    BY <1>3 DEF Start, Goto, Typed, Run, ReceiptsAgree
  <2>3. QED
    BY <2>1, <2>2 DEF ReceiptsAgree
<1>4. ASSUME NEW r \in RunIds,
             SpawnFailed(r) \/ KilledDrained(r) \/ DrainFailed(r) \/ Reaped(r)
      PROVE  ReceiptsAgree'
  BY <1>4, FinishReceipts DEF SpawnFailed, KilledDrained, DrainFailed, Reaped
<1>5. ASSUME NEW r \in RunIds,
             \/ Spawned(r) \/ Drained(r) \/ Conclude(r) \/ CloseStream(r)
             \/ Timeout(r) \/ QueueFills(r) \/ Executor(r)
      PROVE  ReceiptsAgree'
  <2>1. UNCHANGED <<tasks, disk>>
    BY <1>5 DEF Spawned, Drained, Conclude, CloseStream, Timeout, QueueFills, Executor,
       ExecutorReports, ExecutorSucceeds, ExecutorFails, LaunchSourceGym, GymExits, memory,
       storage
  <2>2. CASE \/ Spawned(r) \/ Drained(r) \/ Conclude(r) \/ CloseStream(r)
             \/ Timeout(r) \/ QueueFills(r)
    <3>1. Behind
      BY <2>2 DEF Spawned, Drained, Conclude, CloseStream, Timeout, QueueFills, Goto, Typed,
         Run, ReceiptsAgree
    <3>2. QED
      BY <2>1, <3>1 DEF ReceiptsAgree, CompletedHasReceipt
  <2>3. CASE ExecutorSucceeds(r) \/ LaunchSourceGym(r) \/ GymExits(r)
    <3>1. Behind
      BY <2>3 DEF ExecutorSucceeds, LaunchSourceGym, GymExits, Typed, Run, ReceiptsAgree
    <3>2. QED
      BY <2>1, <3>1 DEF ReceiptsAgree, CompletedHasReceipt
  <2>4. CASE ExecutorReports(r)
    <3>1. Behind
      BY <2>4 DEF ExecutorReports, Typed, Run, ReceiptsAgree
    <3>2. QED
      BY <2>1, <3>1 DEF ReceiptsAgree, CompletedHasReceipt
  <2>5. CASE ExecutorFails(r)
    <3>1. ASSUME NEW q \in RunIds, runs'[q].process \in {"reported", "exit0"}
          PROVE  receiptFile'[runs'[q].task] = "success"
      <4>1. q # r /\ runs'[q] = runs[q]
        BY <2>5, <3>1 DEF ExecutorFails, Typed, Run
      <4>2. Begun(q) /\ Begun(r)
        BY <2>5, <3>1, <4>1 DEF OneRunPerTask, ExecutorFails, Alive
      <4>3. runs[q].task # runs[r].task
        BY <4>1, <4>2 DEF OneRunPerTask
      <4>4. receiptFile'[runs[q].task] = receiptFile[runs[q].task]
        BY <2>5, <4>3 DEF ExecutorFails, Typed, Run
      <4>5. QED
        BY <3>1, <4>1, <4>4 DEF ReceiptsAgree
    <3>2. QED
      BY <2>1, <3>1 DEF ReceiptsAgree, CompletedHasReceipt
  <2>6. QED
    BY <1>5, <2>2, <2>3, <2>4, <2>5 DEF Executor
<1>6. CASE EndPersist \/ PersistFails \/ \E id \in TaskIds : EntryRead(id)
  BY <1>6 DEF EndPersist, PersistFails, CutShort, EntryRead, memory, storage, ReceiptsAgree,
     CompletedHasReceipt
<1>7. CASE Crash
  <2>1. CompletedHasReceipt' /\ disk' \in {disk, Torn}
    BY <1>7 DEF Crash, CutShort, CompletedHasReceipt, NoTask
  <2>2. Behind
    BY <1>7 DEF Crash, Typed, Run, ReceiptsAgree
  <2>3. QED
    BY <2>1, <2>2 DEF ReceiptsAgree
<1>8. CASE Restart
  <2>1. tasks' = Loaded(disk) /\ UNCHANGED <<disk, runs, receiptFile>>
    BY <1>8 DEF Restart
  <2>2. CompletedHasReceipt'
    <3>1. CASE disk = Torn
      BY <2>1, <3>1 DEF Loaded, NoTask, CompletedHasReceipt
    <3>2. CASE disk # Torn
      <4>1. ASSUME NEW id \in TaskIds
            PROVE  Interrupted(disk)[id].state = "completed"
                     => Interrupted(disk)[id].receipt = "success"
        BY <3>2 DEF Interrupted, ReceiptsAgree, Typed, Task
      <4>2. QED
        BY <2>1, <3>2, <4>1 DEF Loaded, CompletedHasReceipt
    <3>3. QED
      BY <3>1, <3>2
  <2>3. QED
    BY <2>1, <2>2 DEF ReceiptsAgree
<1>9. QED
  BY <1>1, <1>2, <1>3, <1>4, <1>5, <1>6, <1>7, <1>8 DEF Next, Advance

-----------------------------------------------------------------------------
(* Log streams.                                                            *)

(* The sentinel of a run comes after its outcome, and no other run closes  *)
(* or reopens what its task shows.                                         *)
LEMMA StepStreams ==
  ASSUME Resubmission = FALSE, Typed, OneRunPerTask, StreamsInOrder, Next
  PROVE  StreamsInOrder'
<1>1. ASSUME NEW id \in TaskIds, CancelTask(id)
      PROVE  StreamsInOrder'
  <2>1. /\ UNCHANGED stream
        /\ \A i \in TaskIds : tasks'[i].state \in Live => tasks[i].state \in Live
    BY <1>1 DEF CancelTask, Typed, Task, Live
  <2>2. \A r \in RunIds : runs'[r].pc = runs[r].pc /\ runs'[r].task = runs[r].task
    BY <1>1 DEF CancelTask, Terminated, Typed, Run
  <2>3. QED
    BY <2>1, <2>2 DEF StreamsInOrder, StreamClosedAfterTask, Typed, Run
<1>2. ASSUME NEW id \in TaskIds, NEW r \in RunIds, Submit(r, id)
      PROVE  StreamsInOrder'
  <2>1. \A q \in RunIds : Begun(q) => runs[q].task # id
    BY <1>2 DEF Submit, Begun
  <2>2. /\ stream' = [stream EXCEPT ![id] = "open"]
        /\ tasks' = [tasks EXCEPT ![id] = [state |-> "pending", receipt |-> "none"]]
        /\ \A q \in RunIds \ {r} : runs'[q] = runs[q]
        /\ runs'[r].task = id /\ runs'[r].pc = "created"
    BY <1>2, <2>1 DEF Submit, Begun
  <2>3. StreamClosedAfterTask'
    BY <2>2 DEF StreamsInOrder, StreamClosedAfterTask, Typed
  <2>4. ASSUME NEW q \in RunIds
        PROVE  /\ runs'[q].pc \in Active => stream'[runs'[q].task] # "closed"
               /\ runs'[q].pc \in Ending => tasks'[runs'[q].task].state \notin Live
    BY <2>1, <2>2 DEF StreamsInOrder, Typed, Run, Begun, Active, Ending
  <2>5. QED
    BY <2>3, <2>4 DEF StreamsInOrder
<1>3. ASSUME NEW r \in RunIds, Start(r)
      PROVE  StreamsInOrder'
  <2>1. /\ UNCHANGED stream /\ runs[r].task \in TaskIds
        /\ tasks' = [tasks EXCEPT ![runs[r].task].state = "running"]
        /\ runs[r].pc = "created" /\ runs' = [runs EXCEPT ![r].pc = "spawning"]
    BY <1>3 DEF Start, Goto, Typed, Run
  <2>2. stream[runs[r].task] # "closed"
    BY <2>1 DEF StreamsInOrder, Active
  <2>3. StreamClosedAfterTask'
    BY <2>1, <2>2 DEF StreamsInOrder, StreamClosedAfterTask, Typed
  <2>4. ASSUME NEW q \in RunIds
        PROVE  /\ runs'[q].pc \in Active => stream'[runs'[q].task] # "closed"
               /\ runs'[q].pc \in Ending => tasks'[runs'[q].task].state \notin Live
    <3>1. CASE q = r
      BY <2>1, <2>2, <3>1 DEF Typed, Run, Ending
    <3>2. CASE q # r
      <4>1. runs'[q] = runs[q] /\ (Begun(q) => runs[q].task # runs[r].task)
        BY <2>1, <3>2 DEF Typed, OneRunPerTask, Begun
      <4>2. QED
        BY <2>1, <4>1 DEF StreamsInOrder, Typed, Begun, Ending
    <3>3. QED
      BY <3>1, <3>2
  <2>5. QED
    BY <2>3, <2>4 DEF StreamsInOrder
<1>4. ASSUME NEW r \in RunIds, NEW state \in {"completed", "failed"}, Finish(r, state)
      PROVE  StreamsInOrder'
  <2>1. /\ UNCHANGED stream /\ runs[r].task \in TaskIds
        /\ \A i \in TaskIds : tasks'[i].state \in Live => tasks[i].state \in Live
        /\ tasks'[runs[r].task].state \notin Live
        /\ runs' = [runs EXCEPT ![r].pc = "recorded"]
    BY <1>4 DEF Finish, Goto, Typed, Run, Live
  <2>2. QED
    BY <2>1 DEF StreamsInOrder, StreamClosedAfterTask, Typed, Run, Active, Ending
<1>5. ASSUME NEW r \in RunIds, Conclude(r) \/ CloseStream(r)
      PROVE  StreamsInOrder'
  <2>1. /\ UNCHANGED tasks /\ runs[r].task \in TaskIds
        /\ \/ stream' = [stream EXCEPT ![runs[r].task] = "closed"]
           \/ UNCHANGED stream
        /\ runs[r].pc \in Ending
        /\ \A q \in RunIds \ {r} : runs'[q] = runs[q]
        /\ runs'[r].task = runs[r].task /\ runs'[r].pc \in {"closing", "done"}
    BY <1>5 DEF Conclude, Concluding, CloseStream, Goto, Typed, Run, Ending
  <2>2. StreamClosedAfterTask'
    BY <2>1 DEF StreamsInOrder, StreamClosedAfterTask, Typed
  <2>3. ASSUME NEW q \in RunIds
        PROVE  /\ runs'[q].pc \in Active => stream'[runs'[q].task] # "closed"
               /\ runs'[q].pc \in Ending => tasks'[runs'[q].task].state \notin Live
    <3>1. CASE q = r
      BY <2>1, <3>1 DEF Typed, Run, Active, Ending, StreamsInOrder
    <3>2. CASE q # r
      <4>1. runs'[q] = runs[q] /\ (Begun(q) => runs[q].task # runs[r].task)
        BY <2>1, <3>2 DEF Typed, OneRunPerTask, Begun, Ending
      <4>2. /\ runs[q].pc \in Active => stream'[runs[q].task] = stream[runs[q].task]
            /\ UNCHANGED tasks
        BY <2>1, <4>1 DEF Typed, Run, Begun, Active
      <4>3. QED
        BY <4>1, <4>2 DEF StreamsInOrder
    <3>3. QED
      BY <3>1, <3>2
  <2>4. QED
    BY <2>2, <2>3 DEF StreamsInOrder
<1>6. ASSUME NEW r \in RunIds, Spawned(r) \/ Drained(r) \/ Timeout(r) \/ Executor(r)
      PROVE  StreamsInOrder'
  <2>1. /\ UNCHANGED <<tasks, stream>>
        /\ \A q \in RunIds : /\ runs'[q].task = runs[q].task
                             /\ runs'[q].pc \in Active => runs[q].pc \in Active
                             /\ runs'[q].pc \in Ending => runs[q].pc \in Ending
    BY <1>6 DEF Spawned, Drained, Timeout, Executor, ExecutorReports,
       ExecutorSucceeds, ExecutorFails, LaunchSourceGym, GymExits, memory, Goto, Typed,
       Run, Active, Ending
  <2>2. QED
    BY <2>1 DEF StreamsInOrder, StreamClosedAfterTask
<1>7. CASE EndPersist \/ PersistFails
  BY <1>7 DEF EndPersist, PersistFails, memory, StreamsInOrder, StreamClosedAfterTask
<1>8. CASE Crash
  <2>1. /\ \A id \in TaskIds : stream'[id] = "none"
        /\ \A r \in RunIds : runs'[r].pc \notin Unfinished
    BY <1>8 DEF Crash, Typed, Run, PCs, Active, Unfinished
  <2>2. QED
    BY <2>1 DEF StreamsInOrder, StreamClosedAfterTask, Unfinished, Ending
<1>9. CASE Restart
  <2>1. /\ \A r \in RunIds : runs'[r].pc \notin Unfinished
        /\ \A id \in TaskIds : tasks'[id].state \notin Live
    BY <1>9, LoadedTable DEF Restart, OneRunPerTask, Typed
  <2>2. QED
    BY <2>1 DEF StreamsInOrder, StreamClosedAfterTask, Unfinished, Ending
<1>10. ASSUME NEW id \in TaskIds, EntryRead(id) \/ \E r \in RunIds : QueueFills(r)
       PROVE  StreamsInOrder'
  <2>1. /\ UNCHANGED <<tasks, runs>>
        /\ \A i \in TaskIds : stream'[i] = "closed" => stream[i] = "closed"
    BY <1>10 DEF EntryRead, QueueFills, Typed
  <2>2. QED
    BY <2>1 DEF StreamsInOrder, StreamClosedAfterTask, Typed, Run
<1>11. QED
  BY <1>1, <1>2, <1>3, <1>4, <1>5, <1>6, <1>7, <1>8, <1>9, <1>10, TaskManagerAssumption
  DEF Next, Advance, SpawnFailed, KilledDrained, DrainFailed, Reaped

-----------------------------------------------------------------------------
(* Process handles.                                                        *)

(* The handle of a run is dropped only with its own outcome, or with the   *)
(* daemon.                                                                 *)
LEMMA StepHandles ==
  ASSUME Typed, OneRunPerTask, HandlesKept, Next
  PROVE  HandlesKept'
<1> DEFINE Waits == {"draining", "killed", "exiting"}
<1>1. ASSUME NEW id \in TaskIds, CancelTask(id)
      PROVE  HandlesKept'
  BY <1>1 DEF CancelTask, Terminated, Typed, Run, HandlesKept
<1>2. ASSUME NEW id \in TaskIds, NEW r \in RunIds, Submit(r, id)
      PROVE  HandlesKept'
  <2>1. \A q \in RunIds : runs'[q].pc \in Waits => runs'[q] = runs[q]
    BY <1>2 DEF Submit
  <2>2. QED
    BY <1>2, <2>1 DEF Submit, HandlesKept
<1>3. ASSUME NEW r \in RunIds, Spawned(r)
      PROVE  HandlesKept'
  <2>1. /\ runs[r].task \in TaskIds /\ runs[r].pc = "spawning"
        /\ processes' = [processes EXCEPT ![runs[r].task] = r]
        /\ \A q \in RunIds \ {r} : runs'[q] = runs[q]
        /\ runs'[r].task = runs[r].task
    BY <1>3 DEF Spawned, Typed, Run
  <2>2. \A q \in RunIds \ {r} : runs[q].pc \in Waits => runs[q].task # runs[r].task
    BY <2>1 DEF OneRunPerTask, Begun
  <2>3. QED
    BY <2>1, <2>2 DEF HandlesKept, Typed, Run
<1>4. ASSUME NEW r \in RunIds, Conclude(r)
      PROVE  HandlesKept'
  <2>1. /\ runs[r].task \in TaskIds /\ runs[r].pc = "recorded"
        /\ processes' = [processes EXCEPT ![runs[r].task] = NoRun]
        /\ \A q \in RunIds \ {r} : runs'[q] = runs[q]
        /\ runs'[r].pc \in {"closing", "done"}
    BY <1>4 DEF Conclude, Concluding, Goto, Typed, Run
  <2>2. \A q \in RunIds \ {r} : runs[q].pc \in Waits => runs[q].task # runs[r].task
    BY <2>1 DEF OneRunPerTask, Begun
  <2>3. QED
    BY <2>1, <2>2 DEF HandlesKept, Typed, Run
<1>5. ASSUME NEW r \in RunIds,
             \/ Start(r) \/ Drained(r) \/ CloseStream(r) \/ Timeout(r)
             \/ QueueFills(r) \/ Executor(r)
             \/ \E state \in {"completed", "failed"} : Finish(r, state)
      PROVE  HandlesKept'
  <2>1. /\ UNCHANGED processes
        /\ \A q \in RunIds : /\ runs'[q].task = runs[q].task
                             /\ runs'[q].pc \in Waits => runs[q].pc \in Waits
    <3>1. CASE \/ Start(r) \/ Drained(r) \/ CloseStream(r) \/ Timeout(r)
               \/ QueueFills(r) \/ \E state \in {"completed", "failed"} : Finish(r, state)
      BY <3>1 DEF Start, Drained, CloseStream, Timeout, QueueFills, Finish, memory, Goto,
         Typed, Run
    <3>2. CASE Executor(r)
      BY <3>2 DEF Executor, ExecutorReports, ExecutorSucceeds, ExecutorFails,
         LaunchSourceGym, GymExits, memory, Typed, Run
    <3>3. QED
      BY <1>5, <3>1, <3>2
  <2>2. QED
    BY <2>1 DEF HandlesKept
<1>6. CASE EndPersist \/ PersistFails \/ Restart \/ \E id \in TaskIds : EntryRead(id)
  BY <1>6 DEF EndPersist, PersistFails, Restart, EntryRead, memory, HandlesKept
<1>7. CASE Crash
  BY <1>7 DEF Crash, Typed, Run, HandlesKept
<1>8. QED
  BY <1>1, <1>2, <1>3, <1>4, <1>5, <1>6, <1>7
  DEF Next, Advance, SpawnFailed, KilledDrained, DrainFailed, Reaped, Active

(* The invariant of a daemon none of whose task ids is used twice.         *)
LEMMA OwnersInvariant == Resubmission = FALSE => (Spec => []OwnersInv)
<1> SUFFICES ASSUME Resubmission = FALSE PROVE Spec => []OwnersInv
  OBVIOUS
<1>1. Init => OwnersInv
  <2>1. SUFFICES ASSUME Init PROVE OwnersInv
    OBVIOUS
  <2>2. Typed
    BY <2>1, InitInv DEF TaskInv
  <2>3. /\ \A r \in RunIds : runs[r].pc = "none" /\ runs[r].process = "none"
        /\ \A id \in TaskIds : /\ tasks[id] = NoTask /\ disk[id] = NoTask
                               /\ stream[id] = "none"
        /\ up
    BY <2>1 DEF Init
  <2>4. QED
    BY <2>2, <2>3 DEF OwnersInv, OneRunPerTask, ReceiptsAgree, CompletedHasReceipt,
       StreamsInOrder, StreamClosedAfterTask, HandlesKept, Begun, Active, Ending, NoTask
<1>2. ASSUME OwnersInv, [Next]_vars
      PROVE  OwnersInv'
  <2>1. CASE Next
    BY <1>2, <2>1, StepTyped, OneRunStays, StepReceipts, StepStreams, StepHandles
    DEF OwnersInv
  <2>2. CASE UNCHANGED vars
    BY <1>2, <2>2 DEF vars, memory, storage, started, OwnersInv, Typed, OneRunPerTask, Begun, ReceiptsAgree,
       CompletedHasReceipt, StreamsInOrder, StreamClosedAfterTask, HandlesKept
  <2>3. QED
    BY <1>2, <2>1, <2>2
<1>3. QED
  BY <1>1, <1>2, PTL DEF Spec

(* When no id is submitted twice, a task shown as completed carries the    *)
(* receipt of a success, for any number of tasks and crashes, source gyms  *)
(* or not.                                                                 *)
THEOREM CompletionsHaveReceipts == Resubmission = FALSE => (Spec => []CompletedHasReceipt)
<1>1. OwnersInv => CompletedHasReceipt
  BY DEF OwnersInv, ReceiptsAgree
<1>2. QED
  BY <1>1, OwnersInvariant, PTL

(* When no id is submitted twice, no log stream ends before its task.      *)
THEOREM StreamsEndAfterTasks == Resubmission = FALSE => (Spec => []StreamClosedAfterTask)
<1>1. OwnersInv => StreamClosedAfterTask
  BY DEF OwnersInv, StreamsInOrder
<1>2. QED
  BY <1>1, OwnersInvariant, PTL

(* When no id is submitted twice, a cancellation while the executor runs   *)
(* terminates it: no step shows a task as cancelled and leaves its         *)
(* executor alive.                                                         *)
THEOREM CancellationsKill == Resubmission = FALSE => (Spec => CancelKills)
<1> DEFINE Kills(r) ==
      /\ runs[r].pc \in {"draining", "killed", "exiting"}
      /\ tasks[runs[r].task].state # "cancelled"
      /\ tasks'[runs[r].task].state = "cancelled"
      => runs'[r].process \notin Alive
<1>1. ASSUME OwnersInv, Next, NEW r \in RunIds
      PROVE  Kills(r)
  <2>0. SUFFICES ASSUME runs[r].pc \in {"draining", "killed", "exiting"},
                        tasks[runs[r].task].state # "cancelled",
                        tasks'[runs[r].task].state = "cancelled"
                 PROVE  runs'[r].process \notin Alive
    OBVIOUS
  <2>1. /\ Typed /\ runs[r].task \in TaskIds
        /\ processes[runs[r].task] = r /\ up
    BY <1>1, <2>0 DEF OwnersInv, HandlesKept, OneRunPerTask, Typed, Run, Active, Unfinished
  <2>2. ASSUME NEW id \in TaskIds, CancelTask(id)
        PROVE  runs'[r].process \notin Alive
    <3>1. id = runs[r].task
      BY <2>0, <2>1, <2>2 DEF CancelTask, Typed
    <3>2. processes[id] # NoRun
      BY <2>1, <3>1, TaskManagerAssumption DEF RunIds
    <3>3. runs' = Terminated(r)
      BY <2>1, <2>2, <3>1, <3>2 DEF CancelTask
    <3>4. QED
      BY <2>1, <3>3 DEF Terminated, Typed, Run, Alive
  <2>3. ASSUME NEW id \in TaskIds, NEW q \in RunIds, Submit(q, id)
        PROVE  FALSE
    BY <2>0, <2>1, <2>3 DEF Submit, Typed
  <2>4. ASSUME NEW q \in RunIds, Start(q)
        PROVE  FALSE
    BY <2>0, <2>1, <2>4 DEF Start, Typed, Task
  <2>5. ASSUME NEW q \in RunIds, NEW state \in {"completed", "failed"}, Finish(q, state)
        PROVE  FALSE
    BY <2>0, <2>1, <2>5 DEF Finish, Typed
  <2>6. ASSUME NEW q \in RunIds,
               \/ Spawned(q) \/ Drained(q) \/ Conclude(q) \/ CloseStream(q)
               \/ Timeout(q) \/ QueueFills(q) \/ Executor(q)
        PROVE  FALSE
    BY <2>0, <2>6 DEF Spawned, Drained, Conclude, CloseStream, Timeout, QueueFills, Executor,
       ExecutorReports, ExecutorSucceeds, ExecutorFails, LaunchSourceGym, GymExits, memory
  <2>7. ~EndPersist /\ ~PersistFails /\ ~Restart /\ ~\E id \in TaskIds : EntryRead(id)
    BY <2>0, <2>1 DEF EndPersist, PersistFails, EntryRead, memory, Restart
  <2>8. ~Crash
    BY <2>0, <2>1 DEF Crash, NoTask
  <2>9. QED
    BY <1>1, <2>2, <2>3, <2>4, <2>5, <2>6, <2>7, <2>8
    DEF Next, Advance, SpawnFailed, KilledDrained, DrainFailed, Reaped
<1>2. OwnersInv /\ [Next]_vars =>
        [\A r \in RunIds :
           LET id == runs[r].task
           IN  /\ runs[r].pc \in {"draining", "killed", "exiting"}
               /\ tasks[id].state # "cancelled" /\ tasks'[id].state = "cancelled"
               => runs'[r].process \notin Alive]_vars
  BY <1>1
<1>3. QED
  BY <1>2, OwnersInvariant, PTL DEF Spec, CancelKills
=============================================================================
