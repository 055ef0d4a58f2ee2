------------------------------- MODULE Models -------------------------------
(***************************************************************************)
(* The models page: the provider's tasks, asked for every five seconds,    *)
(* with sample rows while the provider cannot be reached; the export of an *)
(* adapter; and a merge, which the page asks for and then polls for its    *)
(* result, three hundred times at most.  The handlers keep the task they   *)
(* were started for; the selection, the rows and the provider change       *)
(* meanwhile.                                                              *)
(***************************************************************************)
EXTENDS Naturals, Sequences, SequencesExt

CONSTANTS TaskList,   \* the ids of the provider's tasks, newest first
          Mock,       \* the first of the sample rows
          NoTask, NoMerge,
          MaxPolls,   \* polls of one merge
          MaxPresses, \* bound: what the user does
          MaxMerges,  \* bound: mergers that have ended
          MaxOutages  \* bound: calls that fail

ASSUME ModelsAssumption ==
  /\ Mock \notin Range(TaskList) /\ NoTask \notin Range(TaskList) \cup {Mock}
  /\ {MaxPolls, MaxPresses, MaxMerges, MaxOutages} \subseteq Nat

Tasks == Range(TaskList)

VARIABLES tasks,    \* the provider: the state of each task
          mergers,  \* mergers running for each task
          merged,   \* the ends of mergers whose result a task holds, 0 for none
          ends,     \* mergers that have ended
          view,     \* the page
          merge,    \* handleMerge under way
          presses, outages

modelVars == <<tasks, mergers, merged, ends, view, merge, presses, outages>>

Press == presses < MaxPresses /\ presses' = presses + 1
Outage == outages < MaxOutages /\ outages' = outages + 1

----------------------------------------------------------------------------
(* The provider *)

\* A completed task has its adapter on 0G or on the provider's disk.
TaskMoves ==
  /\ \E t \in Tasks :
       \/ /\ tasks[t] = "none" /\ tasks' = [tasks EXCEPT ![t] = "running"]
       \/ /\ tasks[t] = "running"
          /\ \E state \in {"stored", "local", "cancelled"} : tasks' = [tasks EXCEPT ![t] = state]
  /\ UNCHANGED <<mergers, merged, ends, view, merge, presses, outages>>

\* A merger that fails leaves the result of the one before.
MergerEnds ==
  /\ ends < MaxMerges /\ ends' = ends + 1
  /\ \E t \in Tasks :
       /\ mergers[t] > 0 /\ mergers' = [mergers EXCEPT ![t] = @ - 1]
       /\ merged' \in {merged, [merged EXCEPT ![t] = ends + 1]}
  /\ UNCHANGED <<tasks, view, merge, presses, outages>>

----------------------------------------------------------------------------
(* The rows and the selection *)

OnPage == UNCHANGED <<tasks, mergers, merged, ends, merge>>

Visible == SelectSeq(TaskList, LAMBDA t : tasks[t] \notin {"none", "cancelled"})

\* The rows after an answer of GET /tasks, and the first of them selected if none was.
Refreshed(v) ==
  [v EXCEPT !.loading = FALSE, !.offline = FALSE,
            !.rows = [n \in DOMAIN Visible |-> [id |-> Visible[n], state |-> tasks[Visible[n]]]],
            !.selected = IF @ = NoTask /\ Visible # << >> THEN Visible[1] ELSE @]

FetchTasks ==
  /\ \/ view' = Refreshed(view) /\ UNCHANGED outages
     \/ Outage /\ view' = [view EXCEPT !.loading = FALSE, !.offline = TRUE]
  /\ OnPage /\ UNCHANGED presses

Sample == [id |-> Mock, state |-> "stored"]
Rows == IF view.offline THEN <<Sample>> ELSE view.rows

\* The row of the selected id, or the first, or none while there is nothing to show.
Selected ==
  LET picked == SelectSeq(Rows, LAMBDA r : r.id = view.selected)
  IN IF view.loading \/ Rows = << >> THEN {}
     ELSE {IF picked # << >> THEN picked[1] ELSE Rows[1]}

Select ==
  /\ Press
  /\ \E r \in Range(Rows) : ~view.loading /\ view' = [view EXCEPT !.selected = r.id]
  /\ OnPage /\ UNCHANGED outages

Export ==
  /\ Press /\ ~view.exporting
  /\ \E r \in Selected : r.state = "stored" /\ view' = [view EXCEPT !.exporting = TRUE]
  /\ OnPage /\ UNCHANGED outages

ExportEnds ==
  /\ view.exporting /\ view' = [view EXCEPT !.exporting = FALSE]
  /\ OnPage /\ UNCHANGED <<presses, outages>>

----------------------------------------------------------------------------
(* handleMerge *)

Provider == UNCHANGED <<tasks, merged, ends, presses>>

Merge ==
  /\ Press /\ ~view.merging
  /\ \E r \in Selected :
       /\ r.state = "stored"
       /\ merge' = [task |-> r.id, at |-> "asked", polls |-> 0]
       /\ view' = [view EXCEPT !.merging = TRUE, !.result = 0]
  /\ UNCHANGED <<tasks, mergers, merged, ends, outages>>

\* POST /tasks/{id}/merge starts a merger, also beside one that runs.
MergeAccepted ==
  /\ merge # NoMerge /\ merge.at = "asked" /\ merge.task \in Tasks
  /\ mergers' = [mergers EXCEPT ![merge.task] = @ + 1]
  /\ merge' = [merge EXCEPT !.at = "polling"]
  /\ UNCHANGED <<view, outages>> /\ Provider

Polling == merge # NoMerge /\ merge.at = "polling" /\ merge.polls < MaxPolls

\* A poll finds no result, or an answer that is not ok.
PolledInVain ==
  /\ Polling
  /\ \/ merged[merge.task] = 0 /\ UNCHANGED outages
     \/ Outage
  /\ merge' = [merge EXCEPT !.polls = @ + 1]
  /\ UNCHANGED <<mergers, view>> /\ Provider

\* Any result of the task will do, that of an earlier merger too; the rows are fetched again.
PolledResult ==
  /\ Polling /\ merged[merge.task] > 0
  /\ merge' = NoMerge
  /\ view' = [Refreshed(view) EXCEPT !.merging = FALSE, !.result = merged[merge.task]]
  /\ UNCHANGED <<mergers, outages>> /\ Provider

\* The provider does not know the task, a call throws, or the last poll was in vain.
MergeThrows ==
  /\ merge # NoMerge
  /\ \/ merge.task = Mock /\ UNCHANGED outages
     \/ merge.polls = MaxPolls /\ UNCHANGED outages
     \/ Outage

\* Mutant: only a result makes the button available again.
MergeFailsBusy ==
  /\ MergeThrows /\ merge' = NoMerge /\ UNCHANGED <<mergers, view>> /\ Provider

MergeFails ==
  /\ MergeThrows
  /\ merge' = NoMerge /\ view' = [view EXCEPT !.merging = FALSE]
  /\ UNCHANGED mergers /\ Provider

MergeStep == MergeAccepted \/ PolledInVain \/ PolledResult \/ MergeFails

----------------------------------------------------------------------------
ModelsInit ==
  /\ tasks = [t \in Tasks |-> "none"] /\ ends = 0
  /\ mergers = [t \in Tasks |-> 0] /\ merged = mergers
  /\ view = [loading |-> TRUE, offline |-> FALSE, rows |-> << >>, selected |-> NoTask,
             exporting |-> FALSE, merging |-> FALSE, result |-> 0]
  /\ merge = NoMerge /\ presses = 0 /\ outages = 0

ModelsNext == \/ TaskMoves \/ MergerEnds \/ FetchTasks \/ Select \/ Export \/ ExportEnds
              \/ Merge \/ MergeStep

----------------------------------------------------------------------------
(* Whatever becomes of the merger, the provider and the selection, a merge *)
(* that was asked for ends and the button can be used again.               *)
MergeEnds == view.merging ~> ~view.merging
=============================================================================
