---------------------------- MODULE TaskManager ----------------------------
(***************************************************************************)
(* core/api/task_manager.py: the provider daemon's task lifecycle.  The    *)
(* daemon is one asyncio event loop: code between two awaits is one step,  *)
(* and every await is a point where other coroutines, the executor         *)
(* processes and the clock move.  Each submission starts one coroutine,    *)
(* _run_executor, called a run here; it spawns core/executor/              *)
(* orchestrator.py, drains its stdout until end of file, reaps it and      *)
(* records the outcome.                                                    *)
(***************************************************************************)
EXTENDS Integers, FiniteSets

CONSTANTS
  TaskIds,          \* task ids clients submit
  MaxRuns,          \* bound on submissions over the daemon's life
  MaxCrashes,       \* bound on crashes of the daemon
  MaxFaults,        \* bound on writes of tasks.json that fail
  Resubmission,     \* whether clients may submit an id twice
  SourceGymTasks,   \* tasks whose gym is a 0g:// source bundle
  UploadedTasks,    \* tasks whose adapter goes to 0G Storage (a 0x... ref)
  NoRun, Torn       \* no process handle; tasks.json cut short

ASSUME TaskManagerAssumption ==
  /\ MaxRuns \in Nat /\ MaxCrashes \in Nat /\ MaxFaults \in Nat
  /\ Resubmission \in BOOLEAN
  /\ SourceGymTasks \subseteq TaskIds /\ UploadedTasks \subseteq TaskIds
  /\ TaskIds # {}
  /\ NoRun \notin Nat

RunIds == 1..MaxRuns

VARIABLES
  up,           \* the daemon is running
  crashes,      \* how often it crashed
  tasks,        \* _tasks: state and receipt of every task
  disk,         \* what tasks.json holds
  writing,      \* tasks.json is being written
  saved,        \* the last write of tasks.json did not fail
  faults,       \* how many writes failed
  receiptFile,  \* receipt.json in the task's directory
  processes,    \* _processes: the handle cancel_task can terminate
  stream,       \* _log_queues[id]: none, open, full, closed by the None sentinel
  runs,         \* the coroutines and the executor process each spawned
  settlements,  \* settle_job coroutines started for a task
  ensNames      \* tasks whose weights' ENS name is being registered

memory == <<tasks, processes, stream>>
storage == <<disk, writing, saved, faults>>
started == <<settlements, ensNames>>
vars == <<up, crashes, memory, storage, receiptFile, runs, started>>

States == {"absent", "pending", "running", "completed", "failed", "cancelled"}
Live == {"pending", "running"}
Receipts == {"none", "success", "failed"}
Task == [state : States, receipt : Receipts]
NoTask == [state |-> "absent", receipt |-> "none"]
ASSUME TornAssumption == Torn \notin [TaskIds -> Task]

(* Where a run is: created by create_task, awaiting the subprocess,        *)
(* draining stdout under the deadline, draining after the kill, awaiting   *)
(* the exit code, writing its outcome (recorded), waiting for room for the *)
(* sentinel, done; lost in a crash after it had begun, dropped in one      *)
(* before.                                                                 *)
Active == {"created", "spawning", "draining", "killed", "exiting"}
PCs == Active \cup {"none", "recorded", "closing", "done", "lost", "dropped"}

Streams == {"none", "open", "full", "closed"}

(* The executor process, reported once its success receipt is written, and *)
(* whether a gym server it launched still holds the stdout it inherited.   *)
Alive == {"running", "reported"}
Run == [task : TaskIds, pc : PCs,
        process : Alive \cup {"none", "exit0", "exit1"}, gymHoldsPipe : BOOLEAN]

Init ==
  /\ up = TRUE
  /\ crashes = 0
  /\ tasks = [id \in TaskIds |-> NoTask]
  /\ disk = tasks
  /\ writing = FALSE /\ saved = TRUE /\ faults = 0
  /\ receiptFile = [id \in TaskIds |-> "none"]
  /\ processes = [id \in TaskIds |-> NoRun]
  /\ stream = [id \in TaskIds |-> "none"]
  /\ runs = [r \in RunIds |-> [task |-> CHOOSE id \in TaskIds : TRUE, pc |-> "none",
                               process |-> "none", gymHoldsPipe |-> FALSE]]
  /\ settlements = [id \in TaskIds |-> 0]
  /\ ensNames = {}

-----------------------------------------------------------------------------
(* Persistence.  write_text truncates tasks.json and then writes the whole *)
(* table; the event loop does nothing else meanwhile, nor before a         *)
(* coroutine that recorded an outcome has gone on to its next await.  The  *)
(* write may fail, before it truncated the file or after: _persist logs    *)
(* that and the daemon goes on.  Or the daemon dies during the write.      *)

LoopFree == up /\ ~writing /\ \A r \in RunIds : runs[r].pc # "recorded"

BeginPersist == writing' = TRUE /\ UNCHANGED <<disk, saved, faults>>

EndPersist ==
  /\ up /\ writing
  /\ disk' = tasks
  /\ writing' = FALSE
  /\ saved' = TRUE
  /\ UNCHANGED <<up, crashes, memory, faults, receiptFile, runs, started>>

(* What a write leaves that did not come to its end.                       *)
CutShort == {disk, Torn}

PersistFails ==
  /\ up /\ writing
  /\ faults < MaxFaults
  /\ disk' \in CutShort
  /\ writing' = FALSE
  /\ saved' = FALSE
  /\ faults' = faults + 1
  /\ UNCHANGED <<up, crashes, memory, receiptFile, runs, started>>

(* load_persisted_tasks: a file that does not parse yields no task at all, *)
(* and a task that was under way when the daemon died has failed.          *)
Interrupted(table) ==
  [id \in TaskIds |->
     IF table[id].state \in Live THEN [table[id] EXCEPT !.state = "failed"]
     ELSE table[id]]

(* Mutant of Loaded: tasks under way are not marked failed.                *)
LoadedAsWritten(file) ==
  IF file = Torn THEN [id \in TaskIds |-> NoTask] ELSE file

Loaded(file) ==
  IF file = Torn THEN [id \in TaskIds |-> NoTask] ELSE Interrupted(file)

-----------------------------------------------------------------------------
(* Submission.  The task gets a new log queue: a coroutine that still      *)
(* waits for room in the old one waits on a queue nobody can reach.        *)

Submit(r, id) ==
  /\ LoopFree
  /\ runs[r].pc = "none"
  /\ \A q \in RunIds : q < r => runs[q].pc # "none"
  /\ Resubmission \/ \A q \in RunIds : runs[q].pc = "none" \/ runs[q].task # id
  /\ tasks' = [tasks EXCEPT ![id] = [state |-> "pending", receipt |-> "none"]]
  /\ stream' = [stream EXCEPT ![id] = "open"]
  /\ BeginPersist
  /\ runs' = [q \in RunIds |->
                IF q = r THEN [task |-> id, pc |-> "created",
                               process |-> "none", gymHoldsPipe |-> FALSE]
                ELSE IF runs[q].task = id /\ runs[q].pc = "closing"
                THEN [runs[q] EXCEPT !.pc = "done"]
                ELSE runs[q]]
  /\ UNCHANGED <<up, crashes, receiptFile, processes, started>>

-----------------------------------------------------------------------------
(* The run coroutine.                                                      *)

Goto(r, pc) == runs' = [runs EXCEPT ![r].pc = pc]

(* Up to the await of create_subprocess_exec.                              *)
Start(r) ==
  LET id == runs[r].task
  IN  /\ LoopFree
      /\ runs[r].pc = "created"
      /\ tasks' = [tasks EXCEPT ![id].state = "running"]
      /\ BeginPersist
      /\ Goto(r, "spawning")
      /\ UNCHANGED <<up, crashes, processes, stream, receiptFile, started>>

(* Mutant of Spawned: the process handle is not kept.                      *)
SpawnedUnrecorded(r) ==
  /\ LoopFree
  /\ runs[r].pc = "spawning"
  /\ runs' = [runs EXCEPT ![r].pc = "draining", ![r].process = "running"]
  /\ UNCHANGED <<up, crashes, memory, storage, receiptFile, started>>

Spawned(r) ==
  /\ LoopFree
  /\ runs[r].pc = "spawning"
  /\ processes' = [processes EXCEPT ![runs[r].task] = r]
  /\ runs' = [runs EXCEPT ![r].pc = "draining", ![r].process = "running"]
  /\ UNCHANGED <<up, crashes, tasks, stream, storage, receiptFile, started>>

(* _finish_task up to its write of tasks.json: the outcome is recorded     *)
(* over whatever state the task is in and the receipt read if there is     *)
(* one.  Everything in it that can raise is caught where it is called.     *)
Finish(r, state) ==
  LET id == runs[r].task
      found == receiptFile[id]
      newReceipt == IF found = "none" THEN tasks[id].receipt ELSE found
  IN  /\ tasks' = [tasks EXCEPT ![id] = [state |-> state, receipt |-> newReceipt]]
      /\ BeginPersist
      /\ Goto(r, "recorded")
      /\ UNCHANGED <<up, crashes, processes, stream, receiptFile, started>>

(* The write done, or failed, the rest of _finish_task and the finally     *)
(* block up to its await: settlement and ENS registration are started on   *)
(* success, the task's process handle is dropped, and the sentinel put if  *)
(* the queue has room for it.                                              *)
Concluding(r) == up /\ ~writing /\ runs[r].pc = "recorded"

Settle(id) ==
  IF tasks[id].state = "completed"
  THEN /\ settlements' = [settlements EXCEPT ![id] = @ + 1]
       /\ ensNames' = IF tasks[id].receipt = "success" /\ id \in UploadedTasks
                      THEN ensNames \cup {id} ELSE ensNames
  ELSE UNCHANGED started

Conclude(r) ==
  LET id == runs[r].task
  IN  /\ Concluding(r)
      /\ Settle(id)
      /\ processes' = [processes EXCEPT ![id] = NoRun]
      /\ IF stream[id] = "full"
         THEN Goto(r, "closing") /\ UNCHANGED stream
         ELSE Goto(r, "done") /\ stream' = [stream EXCEPT ![id] = "closed"]
      /\ UNCHANGED <<up, crashes, tasks, storage, receiptFile>>

(* Mutant of SpawnFailed: the error path skips the finally block.          *)
SpawnFailedSilently(r) ==
  /\ LoopFree
  /\ runs[r].pc = "spawning"
  /\ tasks' = [tasks EXCEPT ![runs[r].task].state = "failed"]
  /\ BeginPersist
  /\ Goto(r, "done")
  /\ UNCHANGED <<up, crashes, processes, stream, receiptFile, started>>

SpawnFailed(r) ==
  /\ LoopFree
  /\ runs[r].pc = "spawning"
  /\ Finish(r, "failed")

(* End of file on the pipe: every process that holds it has closed it.     *)
PipeClosed(r) == runs[r].process \notin Alive /\ ~runs[r].gymHoldsPipe

Drained(r) ==
  /\ LoopFree
  /\ runs[r].pc = "draining"
  /\ PipeClosed(r)
  /\ Goto(r, "exiting")
  /\ UNCHANGED <<up, crashes, memory, storage, receiptFile, started>>

(* The drain raises on a line longer than the stream's limit; the executor *)
(* is left to itself.                                                      *)
DrainFailed(r) ==
  /\ LoopFree
  /\ runs[r].pc \in {"draining", "killed"}
  /\ Finish(r, "failed")

(* Mutant of Timeout: the executor is not killed.                          *)
TimeoutWithoutKill(r) ==
  /\ LoopFree
  /\ runs[r].pc = "draining"
  /\ Goto(r, "killed")
  /\ UNCHANGED <<up, crashes, memory, storage, receiptFile, started>>

(* The deadline passes: kill the executor and wait for the drain to end.   *)
Timeout(r) ==
  /\ LoopFree
  /\ runs[r].pc = "draining"
  /\ runs' = [runs EXCEPT ![r].pc = "killed",
                          ![r].process = IF @ \in Alive THEN "exit1" ELSE @]
  /\ UNCHANGED <<up, crashes, memory, storage, receiptFile, started>>

(* Mutant of KilledDrained: a state the API does not declare.              *)
KilledDrainedAsTimeout(r) ==
  /\ LoopFree
  /\ runs[r].pc = "killed"
  /\ PipeClosed(r)
  /\ Finish(r, "timeout")

KilledDrained(r) ==
  /\ LoopFree
  /\ runs[r].pc = "killed"
  /\ PipeClosed(r)
  /\ Finish(r, "failed")

(* Mutant of Reaped: the exit code is not looked at.                       *)
ReapedAsCompleted(r) ==
  /\ LoopFree
  /\ runs[r].pc = "exiting"
  /\ Finish(r, "completed")

Reaped(r) ==
  /\ LoopFree
  /\ runs[r].pc = "exiting"
  /\ Finish(r, IF runs[r].process = "exit0" THEN "completed" ELSE "failed")

(* Mutant of CloseStream: the sentinel may be put before the outcome.      *)
CloseStreamEarly(r) ==
  /\ LoopFree
  /\ runs[r].pc \in {"exiting", "closing"}
  /\ stream' = [stream EXCEPT ![runs[r].task] = "closed"]
  /\ runs' = [runs EXCEPT ![r].pc = IF @ = "closing" THEN "done" ELSE @]
  /\ UNCHANGED <<up, crashes, tasks, processes, storage, receiptFile, started>>

(* await put(None) on a queue that was full: it returns once a consumer    *)
(* has taken an entry, and waits for ever if none does.                    *)
CloseStream(r) ==
  /\ LoopFree
  /\ runs[r].pc = "closing"
  /\ stream[runs[r].task] # "full"
  /\ stream' = [stream EXCEPT ![runs[r].task] = "closed"]
  /\ Goto(r, "done")
  /\ UNCHANGED <<up, crashes, tasks, processes, storage, receiptFile, started>>

-----------------------------------------------------------------------------
(* The log queue, of 4096 entries.  The drain never waits for room: it     *)
(* drops the oldest entry, which can be an earlier run's sentinel.  A      *)
(* consumer of stream_task_logs makes room, if there is one.               *)

QueueFills(r) ==
  /\ LoopFree
  /\ runs[r].pc \in {"draining", "killed"}
  /\ stream[runs[r].task] \in {"open", "closed"}
  /\ stream' = [stream EXCEPT ![runs[r].task] = "full"]
  /\ UNCHANGED <<up, crashes, tasks, processes, storage, receiptFile, runs, started>>

EntryRead(id) ==
  /\ LoopFree
  /\ stream[id] = "full"
  /\ stream' = [stream EXCEPT ![id] = "open"]
  /\ UNCHANGED <<up, crashes, tasks, processes, storage, receiptFile, runs, started>>

-----------------------------------------------------------------------------
(* Cancellation.                                                           *)

Terminated(r) == [runs EXCEPT ![r].process = IF @ \in Alive THEN "exit1" ELSE @]

(* Mutant of CancelTask: no _persist.                                      *)
CancelTaskUnsaved(id) ==
  /\ LoopFree
  /\ tasks[id].state \in Live
  /\ IF processes[id] = NoRun
     THEN UNCHANGED runs
     ELSE runs' = Terminated(processes[id])
  /\ tasks' = [tasks EXCEPT ![id].state = "cancelled"]
  /\ UNCHANGED <<up, crashes, processes, stream, storage, receiptFile, started>>

CancelTask(id) ==
  /\ LoopFree
  /\ tasks[id].state \in Live
  /\ IF processes[id] = NoRun
     THEN UNCHANGED runs
     ELSE runs' = Terminated(processes[id])
  /\ tasks' = [tasks EXCEPT ![id].state = "cancelled"]
  /\ BeginPersist
  /\ UNCHANGED <<up, crashes, processes, stream, receiptFile, started>>

-----------------------------------------------------------------------------
(* The executor process: it writes its receipt, then exits, with 0 only    *)
(* after a success receipt.  A kill from outside leaves the receipt as it  *)
(* is, a broken output pipe turns a success into a failure.                *)

ExecutorReports(r) ==
  /\ runs[r].process = "running"
  /\ runs' = [runs EXCEPT ![r].process = "reported"]
  /\ receiptFile' = [receiptFile EXCEPT ![runs[r].task] = "success"]
  /\ UNCHANGED <<up, crashes, memory, storage, started>>

ExecutorSucceeds(r) ==
  /\ runs[r].process = "reported"
  /\ runs' = [runs EXCEPT ![r].process = "exit0"]
  /\ UNCHANGED <<up, crashes, memory, storage, receiptFile, started>>

(* Mutant of ExecutorFails: a failed pipeline exits 0.                     *)
ExecutorFailsQuietly(r) ==
  /\ runs[r].process \in Alive
  /\ runs' = [runs EXCEPT ![r].process = "exit0"]
  /\ receiptFile' = [receiptFile EXCEPT ![runs[r].task] = "failed"]
  /\ UNCHANGED <<up, crashes, memory, storage, started>>

ExecutorFails(r) ==
  /\ runs[r].process \in Alive
  /\ runs' = [runs EXCEPT ![r].process = "exit1"]
  /\ \/ receiptFile' = [receiptFile EXCEPT ![runs[r].task] = "failed"]
     \/ UNCHANGED receiptFile
  /\ UNCHANGED <<up, crashes, memory, storage, started>>

(* _launch_source_gym: the gym server inherits the executor's stdout and   *)
(* nothing in the code stops it; it may stop on its own.                   *)
LaunchSourceGym(r) ==
  /\ runs[r].process = "running"
  /\ runs[r].task \in SourceGymTasks
  /\ ~runs[r].gymHoldsPipe
  /\ runs' = [runs EXCEPT ![r].gymHoldsPipe = TRUE]
  /\ UNCHANGED <<up, crashes, memory, storage, receiptFile, started>>

GymExits(r) ==
  /\ runs[r].gymHoldsPipe
  /\ runs' = [runs EXCEPT ![r].gymHoldsPipe = FALSE]
  /\ UNCHANGED <<up, crashes, memory, storage, receiptFile, started>>

-----------------------------------------------------------------------------
(* The daemon dies, between two steps or inside a write of tasks.json, and *)
(* is started again.  Executors survive it.                                *)

Crash ==
  /\ up
  /\ crashes < MaxCrashes
  /\ up' = FALSE
  /\ crashes' = crashes + 1
  /\ disk' \in IF writing THEN CutShort ELSE {disk}
  /\ writing' = FALSE
  /\ tasks' = [id \in TaskIds |-> NoTask]
  /\ processes' = [id \in TaskIds |-> NoRun]
  /\ stream' = [id \in TaskIds |-> "none"]
  /\ runs' = [r \in RunIds |->
                [runs[r] EXCEPT !.pc = IF @ \in {"none", "lost", "dropped"} THEN @
                                       ELSE IF @ = "created" THEN "dropped"
                                       ELSE "lost"]]
  /\ UNCHANGED <<saved, faults, receiptFile, started>>

Restart ==
  /\ ~up
  /\ up' = TRUE
  /\ tasks' = Loaded(disk)
  /\ saved' = TRUE
  /\ UNCHANGED <<crashes, processes, stream, disk, writing, faults, receiptFile,
                 runs, started>>

-----------------------------------------------------------------------------
Advance(r) ==
  \/ Start(r)
  \/ Spawned(r) \/ SpawnFailed(r)
  \/ Drained(r) \/ KilledDrained(r) \/ DrainFailed(r)
  \/ Reaped(r)
  \/ Conclude(r) \/ CloseStream(r)

Executor(r) ==
  \/ ExecutorReports(r) \/ ExecutorSucceeds(r) \/ ExecutorFails(r)
  \/ LaunchSourceGym(r) \/ GymExits(r)

Next ==
  \/ \E id \in TaskIds : \/ CancelTask(id) \/ EntryRead(id)
                         \/ \E r \in RunIds : Submit(r, id)
  \/ \E r \in RunIds : Advance(r) \/ Timeout(r) \/ QueueFills(r) \/ Executor(r)
  \/ EndPersist \/ PersistFails
  \/ Crash \/ Restart

Spec == Init /\ [][Next]_vars

(* The event loop runs every coroutine that can move, a file write ends    *)
(* one way or the other, and the deadline of a run passes.  Nothing makes  *)
(* an executor finish, a client submit, cancel or read a log, or the       *)
(* daemon crash or come back.                                              *)
Fairness ==
  /\ WF_vars(EndPersist \/ PersistFails)
  /\ \A r \in RunIds :
       /\ WF_vars(Start(r))
       /\ WF_vars(Spawned(r) \/ SpawnFailed(r))
       /\ WF_vars(Drained(r) \/ KilledDrained(r))
       /\ WF_vars(Reaped(r))
       /\ WF_vars(Conclude(r))
       /\ WF_vars(CloseStream(r))
       /\ WF_vars(Timeout(r))

FairSpec == Spec /\ Fairness

-----------------------------------------------------------------------------
(* Safety, whatever clients submit, resubmit and cancel, and wherever the  *)
(* daemon crashes.                                                         *)

TypeOK ==
  /\ up \in BOOLEAN /\ crashes \in 0..MaxCrashes
  /\ tasks \in [TaskIds -> Task]
  /\ disk \in [TaskIds -> Task] \cup {Torn}
  /\ writing \in BOOLEAN /\ saved \in BOOLEAN /\ faults \in 0..MaxFaults
  /\ receiptFile \in [TaskIds -> Receipts]
  /\ processes \in [TaskIds -> RunIds \cup {NoRun}]
  /\ stream \in [TaskIds -> Streams]
  /\ runs \in [RunIds -> Run]
  /\ settlements \in [TaskIds -> 0..MaxRuns]
  /\ ensNames \subseteq UploadedTasks

(* A task the daemon shows as pending or running has a coroutine that will *)
(* finish it, also after a restart (load_persisted_tasks) and whatever     *)
(* order resubmissions of one id start and end in.                         *)
LiveTaskHasRun ==
  up => \A id \in TaskIds :
          tasks[id].state \in Live =>
            \E r \in RunIds : runs[r].task = id /\ runs[r].pc \in Active

(* Between two writes of tasks.json, and unless the last of them failed, a *)
(* crash costs no task and no outcome: what a restart would load is what   *)
(* the daemon holds, but for the tasks under way, which it reports as      *)
(* failed (_persist on every mutation).  A failed write is made good by    *)
(* the next one that succeeds.                                             *)
DiskCurrent == up /\ ~writing /\ saved => Loaded(disk) = Interrupted(tasks)

(* The runs of a task whose executor exited 0 and that are past the        *)
(* recording of their outcome, or were lost in a crash.                    *)
Successes(id) ==
  {r \in RunIds : /\ runs[r].task = id
                  /\ runs[r].process = "exit0"
                  /\ runs[r].pc \in {"closing", "done", "lost"}}

(* settle_job is started at most once for each executor that exited 0, and *)
(* never for one that failed, was killed or was cut off by a restart.      *)
SettledOncePerSuccess ==
  \A id \in TaskIds : settlements[id] <= Cardinality(Successes(id))

-----------------------------------------------------------------------------
(* Safety, when no id is submitted twice.                                  *)

(* Cancelling a task while its executor runs terminates that executor; so  *)
(* does the deadline (cancel_task through _processes).                     *)
CancelKills ==
  [][\A r \in RunIds :
       LET id == runs[r].task
       IN  /\ runs[r].pc \in {"draining", "killed", "exiting"}
           /\ tasks[id].state # "cancelled" /\ tasks'[id].state = "cancelled"
           => runs'[r].process \notin Alive]_vars

(* A task shown as completed, also after a restart, carries the receipt of *)
(* a success: the executor's exit code, the receipt file and the table     *)
(* never disagree about it.                                                *)
CompletedHasReceipt ==
  \A id \in TaskIds :
    tasks[id].state = "completed" => tasks[id].receipt = "success"

(* A log stream ends only after its task did (the docstring of             *)
(* stream_task_logs): the sentinel never overtakes the outcome.            *)
StreamClosedAfterTask ==
  \A id \in TaskIds : stream[id] = "closed" => tasks[id].state \notin Live

-----------------------------------------------------------------------------
(* Liveness.                                                               *)

(* Once the deadline has killed the executor, the task is finished: its    *)
(* outcome is recorded and its handle dropped, read or unread as its log   *)
(* may be.  What is left to do then is to put the sentinel.                *)
DeadlineEnforced ==
  \A r \in RunIds :
    (runs[r].pc = "killed") ~> (runs[r].pc \in {"closing", "done", "lost"})

(* Every log stream is ended, by the sentinel or with the daemon, unless   *)
(* its queue stays full for ever because nobody reads it.                  *)
Ongoing(id) == stream[id] \in {"open", "full"}

StreamEnds ==
  \A id \in TaskIds : []<>(stream[id] # "full") => (Ongoing(id) ~> ~Ongoing(id))

-----------------------------------------------------------------------------
(* A task the daemon has reported as cancelled is not settled: the         *)
(* provider is paid for completed work only.                               *)
CancelledNotSettled ==
  \A id \in TaskIds :
    [](tasks[id].state = "cancelled" => [](settlements[id] = 0))
=============================================================================
