---------------------------- MODULE ToolScheduler ----------------------------
(***************************************************************************)
(* Execution of one batch of tool calls (core/tool.rs): execute_tool_calls *)
(* builds a dependency graph over the calls, runs them in Kahn layers -    *)
(* every call of a layer concurrently - and hands back one result per call *)
(* in emission order.  execute_one takes a call through lookup, argument   *)
(* validation and the before_tool_call hook to its execution, which is     *)
(* raced against the run's cancellation token.                             *)
(***************************************************************************)
EXTENDS Integers, FiniteSets

CONSTANTS
    N,           \* calls in the batch, numbered in emission order
    Paths,       \* path strings that occur in tool arguments
    Files,       \* the files the paths may lead to
    Denotes      \* the files a path string denotes

Calls == 1..N

ASSUME ToolSchedulerAssumption ==
    /\ N \in Nat
    /\ Files # {}
    /\ Denotes \in [Paths -> SUBSET Files]

(* ToolCallMeta.  No paths means the call's paths are unknown.              *)
Meta == [readOnly : BOOLEAN, exclusive : BOOLEAN, paths : SUBSET Paths]

VARIABLES
    sequential, \* AgentLoopConfig.sequential_tool_execution
    meta,       \* the batch: one ToolCallMeta per call
    inDegree,   \* unfinished predecessors of each call
    phase,      \* "pick", "layer", "done" or "failed"
    layer,      \* the calls in flight
    stage,      \* where execute_one is for each call
    results,    \* Option<ExecutedToolCall> of each call
    cancelled   \* the run's CancellationToken

vars == <<sequential, meta, inDegree, phase, layer, stage, results, cancelled>>

NoResult == "none"
Outcomes == {"ok", "refused", "aborted"}
Stages   == {"waiting", "preparing", "executing", "settled", "broken"}

(* paths_overlap: an empty list is a wildcard; otherwise string equality.   *)
PathsOverlap(a, b) == a = {} \/ b = {} \/ a \cap b # {}

ShouldDependMutant(a, b) ==
    \/ a.exclusive \/ b.exclusive
    \/ ~(a.readOnly \/ b.readOnly) /\ PathsOverlap(a.paths, b.paths)

(* should_depend: must a, emitted first, complete before b starts?          *)
ShouldDepend(a, b) ==
    \/ a.exclusive \/ b.exclusive
    \/ ~(a.readOnly /\ b.readOnly) /\ PathsOverlap(a.paths, b.paths)

Preds(j) == {i \in Calls : i < j /\ ShouldDepend(meta[i], meta[j])}

Init ==
    /\ sequential \in BOOLEAN
    /\ meta \in [Calls -> Meta]
    /\ inDegree = [j \in Calls |-> Cardinality(Preds(j))]
    /\ phase = "pick" /\ layer = {}
    /\ stage = [i \in Calls |-> "waiting"]
    /\ results = [i \in Calls |-> NoResult]
    /\ cancelled = FALSE

Open == {i \in Calls : results[i] = NoResult}

ReadyMutant ==
    IF sequential
    THEN {i \in Open : \A k \in Open : i <= k}
    ELSE {i \in Open : inDegree[i] <= 1}

(* The next layer: everything without unfinished predecessors, or the next  *)
(* call in emission order when the host asked for sequential execution.     *)
Ready ==
    IF sequential
    THEN {i \in Open : \A k \in Open : i <= k}
    ELSE {i \in Open : inDegree[i] = 0}

(* Dispatch a layer.  A cancelled scheduler does not; a single call and the *)
(* sequential path go straight to execute_one, which looks for itself.      *)
StopsAtBoundary == cancelled /\ N > 1 /\ ~sequential

PickLayer ==
    /\ phase = "pick" /\ Open # {} /\ Ready # {} /\ ~StopsAtBoundary
    /\ phase' = "layer"
    /\ layer' = Ready
    /\ stage' = [i \in Calls |-> IF i \in Ready THEN "preparing" ELSE stage[i]]
    /\ UNCHANGED <<sequential, meta, inDegree, results, cancelled>>

(* Cancelled before a layer: every call without a result is aborted.        *)
AbortRest ==
    /\ phase = "pick" /\ Open # {} /\ Ready # {} /\ StopsAtBoundary
    /\ results' = [i \in Calls |-> IF i \in Open THEN "aborted" ELSE results[i]]
    /\ phase' = "done"
    /\ UNCHANGED <<sequential, meta, inDegree, layer, stage, cancelled>>

AllDone ==
    /\ phase = "pick" /\ Open = {}
    /\ phase' = "done"
    /\ UNCHANGED <<sequential, meta, inDegree, layer, stage, results, cancelled>>

-----------------------------------------------------------------------------
(* execute_one.  The outcome of a settled call is held by its future; it is *)
(* kept here in `results', which the scheduler only looks at between        *)
(* layers.                                                                  *)

Settles(i, outcome) ==
    /\ stage' = [stage EXCEPT ![i] = "settled"]
    /\ results' = [results EXCEPT ![i] = outcome]
    /\ UNCHANGED <<sequential, meta, inDegree, phase, layer, cancelled>>

(* Unknown tool, invalid arguments, or blocked by the hook.                 *)
Refuse(i) == stage[i] = "preparing" /\ Settles(i, "refused")

AbortEarly(i) == stage[i] = "preparing" /\ cancelled /\ Settles(i, "aborted")

Execute(i) ==
    /\ stage[i] = "preparing" /\ ~cancelled
    /\ stage' = [stage EXCEPT ![i] = "executing"]
    /\ UNCHANGED <<sequential, meta, inDegree, phase, layer, results, cancelled>>

Finish(i) == stage[i] = "executing" /\ Settles(i, "ok")

AbortExecutionMutant(i) == FALSE

(* The execution future is dropped where it stands.                         *)
AbortExecution(i) == stage[i] = "executing" /\ cancelled /\ Settles(i, "aborted")

(* The event sink fails while the call's start or end event is emitted.     *)
SinkFails(i) ==
    /\ stage[i] \in {"preparing", "executing"}
    /\ stage' = [stage EXCEPT ![i] = "broken"]
    /\ UNCHANGED <<sequential, meta, inDegree, phase, layer, results, cancelled>>

-----------------------------------------------------------------------------
(* join_all returned.  The first sink failure ends the batch; otherwise the *)
(* successors of the layer lose a predecessor per finished call, the        *)
(* subtraction saturating at zero.                                          *)
LayerOver == \A i \in layer : stage[i] \in {"settled", "broken"}

Minus(a, b) == IF b <= a THEN a - b ELSE 0

JoinLayerMutant ==
    /\ phase = "layer" /\ LayerOver /\ \A i \in layer : stage[i] = "settled"
    /\ phase' = "pick" /\ layer' = {}
    /\ UNCHANGED <<sequential, meta, inDegree, stage, results, cancelled>>

JoinLayer ==
    /\ phase = "layer" /\ LayerOver /\ \A i \in layer : stage[i] = "settled"
    /\ inDegree' = [j \in Calls |-> Minus(inDegree[j], Cardinality(layer \cap Preds(j)))]
    /\ phase' = "pick" /\ layer' = {}
    /\ UNCHANGED <<sequential, meta, stage, results, cancelled>>

FailBatch ==
    /\ phase = "layer" /\ LayerOver /\ \E i \in layer : stage[i] = "broken"
    /\ phase' = "failed"
    /\ UNCHANGED <<sequential, meta, inDegree, layer, stage, results, cancelled>>

Cancel ==
    /\ ~cancelled
    /\ cancelled' = TRUE
    /\ UNCHANGED <<sequential, meta, inDegree, phase, layer, stage, results>>

CallStep(i) ==
    Refuse(i) \/ AbortEarly(i) \/ Execute(i) \/ Finish(i) \/ AbortExecution(i) \/ SinkFails(i)

Scheduler == PickLayer \/ AbortRest \/ AllDone \/ JoinLayer \/ FailBatch

Next == Scheduler \/ Cancel \/ \E i \in Calls : CallStep(i)

Spec == Init /\ [][Next]_vars

(* The scheduler's task runs, and a call that is preparing gets through its  *)
(* checks.  Of a tool nothing is assumed until the token is cancelled: then  *)
(* its future is dropped.                                                    *)
Fairness ==
    /\ WF_vars(Scheduler)
    /\ \A i \in Calls : WF_vars(Refuse(i) \/ AbortEarly(i) \/ Execute(i))
    /\ \A i \in Calls : WF_vars(AbortExecution(i))

FairSpec == Spec /\ Fairness

-----------------------------------------------------------------------------
(* Properties.                                                              *)

(* Every variable has its type; in particular inDegree never goes below     *)
(* zero and no result appears outside the three outcomes.                   *)
TypeOK ==
    /\ sequential \in BOOLEAN /\ meta \in [Calls -> Meta]
    /\ inDegree \in [Calls -> Nat]
    /\ phase \in {"pick", "layer", "done", "failed"}
    /\ layer \subseteq Calls
    /\ stage \in [Calls -> Stages]
    /\ results \in [Calls -> Outcomes \cup {NoResult}]
    /\ cancelled \in BOOLEAN

(* What the dependency rules are for, stated on files instead of strings:   *)
(* two calls conflict when one writes a file the other reads or writes.  An *)
(* exclusive call, and one whose paths are unknown, may touch any file.     *)
Footprint(m) ==
    IF m.exclusive \/ m.paths = {} THEN Files ELSE UNION {Denotes[p] : p \in m.paths}
Writes(m) == m.exclusive \/ ~m.readOnly
Conflict(a, b) == (Writes(a) \/ Writes(b)) /\ Footprint(a) \cap Footprint(b) # {}

(* A batch behaves as if its conflicting calls ran one after the other in   *)
(* emission order: a call is dispatched only when every earlier call it     *)
(* conflicts with has settled.                                              *)
SerialOrder ==
    \A i, j \in Calls :
        i < j /\ Conflict(meta[i], meta[j]) /\ stage[j] # "waiting"
            => stage[i] = "settled"

(* The "cycle detected" fallback of execute_tool_calls is never reached: as *)
(* long as a call is open, some call is ready.                              *)
NeverFallsBack == phase = "pick" /\ Open # {} => Ready # {}

(* A result, once a call has one, is never replaced - not by the abort that *)
(* fills the open slots.                                                    *)
ResultsAreFinal ==
    [][\A i \in Calls : results[i] # NoResult => results'[i] = results[i]]_vars

(* The batch as the loop sees it (module ToolBatch): which calls wait for   *)
(* which, each call by its result once it has one and by the progress of    *)
(* its future before, and how the batch ended.                              *)
Order == {e \in Calls \X Calls : e[1] < e[2] /\ ShouldDepend(meta[e[1]], meta[e[2]])}

CallView == [i \in Calls |->
    IF results[i] # NoResult THEN results[i]
    ELSE CASE stage[i] = "waiting" -> "open"
           [] stage[i] = "broken"  -> "lost"
           [] OTHER                -> "running"]

Over == CASE phase = "done" -> "answered" [] phase = "failed" -> "failed" [] OTHER -> "no"

Batch == INSTANCE ToolBatch WITH order <- Order, call <- CallView, over <- Over

(* The layers, the counts of predecessors and the two dispatch paths of     *)
(* execute_tool_calls implement a batch: a call starts only when all the    *)
(* calls should_depend puts before it are answered, each is answered once,  *)
(* with an abort only after a cancel, and the batch is over exactly when    *)
(* every call is answered or an event sink lost one and nothing runs.       *)
SchedulerIsBatch == Batch!Spec

(* Cancelling always settles the batch, even around a tool that never       *)
(* returns, and a batch that did not fail answers every call.               *)
CancelSettlesBatch ==
    cancelled ~> (phase = "failed" \/ (phase = "done" /\ Open = {}))
=============================================================================
