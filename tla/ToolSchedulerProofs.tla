------------------------- MODULE ToolSchedulerProofs -------------------------
(***************************************************************************)
(* For every batch, every number of calls and every set of paths: the      *)
(* scheduler of core/tool.rs is type correct, dispatches conflicting calls *)
(* one after the other in emission order, never meets the "cycle detected" *)
(* fallback, never replaces a result, and implements the partial order of  *)
(* calls of ToolBatch.                                                     *)
(***************************************************************************)
EXTENDS ToolScheduler, FiniteSetTheorems, WellFoundedInduction, TLAPS

(* Calls whose outcome the scheduler has already folded into inDegree.      *)
Finished == {i \in Calls : stage[i] = "settled" /\ i \notin layer}

(* Between layers nothing is in flight; within one, exactly the layer is.   *)
StageInv ==
    /\ phase \in {"pick", "done"} => layer = {}
    /\ \A i \in Calls : i \notin layer => stage[i] \in {"waiting", "settled"}
    /\ \A i \in layer : stage[i] # "waiting"

(* A call has a result exactly when it settled, until the final abort.      *)
ResultInv ==
    /\ \A i \in Calls : stage[i] = "settled" => results[i] # NoResult
    /\ phase # "done" => \A i \in Calls : results[i] # NoResult => stage[i] = "settled"

(* inDegree counts the predecessors that have not finished.                 *)
DegreeInv == \A j \in Calls : inDegree[j] = Cardinality(Preds(j) \ Finished)

(* A dispatched call's predecessors have finished.                          *)
OrderInv == \A j \in Calls : stage[j] # "waiting" => Preds(j) \subseteq Finished

IndInv == TypeOK /\ StageInv /\ ResultInv /\ DegreeInv /\ OrderInv

-----------------------------------------------------------------------------
LEMMA CallsFinite == IsFiniteSet(Calls) /\ Calls \subseteq Nat
  BY FS_Interval, ToolSchedulerAssumption DEF Calls

LEMMA PredsFinite ==
  ASSUME NEW j \in Calls
  PROVE  /\ IsFiniteSet(Preds(j)) /\ Preds(j) \subseteq Calls
         /\ Cardinality(Preds(j)) \in Nat
         /\ \A F : IsFiniteSet(Preds(j) \ F) /\ Cardinality(Preds(j) \ F) \in Nat
  <1>1. Preds(j) \subseteq Calls
    BY DEF Preds
  <1>2. IsFiniteSet(Preds(j))
    BY <1>1, CallsFinite, FS_Subset
  <1> QED
    BY <1>1, <1>2, FS_Subset, FS_CardinalityType

(* No predecessor is left exactly when the count is zero.                   *)
LEMMA CountIsZero ==
  ASSUME NEW j \in Calls, NEW F
  PROVE  Cardinality(Preds(j) \ F) = 0 <=> Preds(j) \subseteq F
  BY PredsFinite, FS_EmptySet

(* A non-empty set of calls has a least element.                            *)
LEMMA LeastCall ==
  ASSUME NEW S, S \subseteq Calls, S # {}
  PROVE  \E m \in S : \A k \in S : m <= k
  <1>1. IsWellFoundedOn(OpToRel(<, Nat), Nat)
    BY NatLessThanWellFounded
  <1>2. S \subseteq Nat
    BY CallsFinite
  <1>3. PICK m \in S : \A k \in S : ~(<<k, m>> \in OpToRel(<, Nat))
    BY <1>1, <1>2, WFMin
  <1>4. \A k \in S : ~(k < m)
    BY <1>2, <1>3 DEF OpToRel
  <1> QED
    BY <1>2, <1>4

-----------------------------------------------------------------------------
(* The inductive invariant holds initially.                                 *)
LEMMA InitIndInv == Init => IndInv
  <1> SUFFICES ASSUME Init PROVE IndInv
    OBVIOUS
  <1>1. \A j \in Calls : Cardinality(Preds(j)) \in Nat
    BY PredsFinite
  <1>2. TypeOK
    BY <1>1 DEF Init, TypeOK, Stages
  <1>3. Finished = {}
    BY DEF Init, Finished
  <1>4. \A j \in Calls : Preds(j) \ Finished = Preds(j)
    BY <1>3
  <1>5. DegreeInv
    BY <1>4 DEF Init, DegreeInv
  <1>6. StageInv /\ ResultInv /\ OrderInv
    BY DEF Init, StageInv, ResultInv, OrderInv
  <1> QED
    BY <1>2, <1>5, <1>6 DEF IndInv

(* Between layers a call without a result waits, and one with a result has  *)
(* finished.                                                                *)
LEMMA BetweenLayers ==
  ASSUME IndInv, phase = "pick"
  PROVE  /\ \A i \in Open : stage[i] = "waiting"
         /\ \A i \in Calls : i \notin Open => i \in Finished
  <1> USE DEF IndInv, StageInv, ResultInv, Open, Finished
  <1>1. \A i \in Open : stage[i] = "waiting"
    BY DEF TypeOK
  <1>2. \A i \in Calls : i \notin Open => i \in Finished
    BY DEF TypeOK
  <1> QED
    BY <1>1, <1>2

(* A call of the next layer has no unfinished predecessor.                  *)
LEMMA ReadyHasNoPreds ==
  ASSUME IndInv, phase = "pick", NEW j \in Ready
  PROVE  j \in Open /\ j \in Calls /\ Preds(j) \subseteq Finished
  <1>1. j \in Open /\ j \in Calls
    BY DEF Ready, Open
  <1>2. CASE sequential
    <2>1. \A i \in Preds(j) : i \in Calls /\ i < j
      BY DEF Preds
    <2>2. \A k \in Open : j <= k
      BY <1>2 DEF Ready
    <2>3. \A i \in Preds(j) : i \notin Open
      <3> SUFFICES ASSUME NEW i \in Preds(j), i \in Open PROVE FALSE
        OBVIOUS
      <3>1. i \in Nat /\ j \in Nat
        BY <1>1, <2>1, CallsFinite
      <3> QED
        BY <2>1, <2>2, <3>1
    <2> QED
      BY <1>1, <2>1, <2>3, BetweenLayers
  <1>3. CASE ~sequential
    <2>1. inDegree[j] = 0
      BY <1>3 DEF Ready
    <2>2. Cardinality(Preds(j) \ Finished) = 0
      BY <1>1, <2>1 DEF IndInv, DegreeInv
    <2> QED
      BY <1>1, <2>2, CountIsZero
  <1> QED
    BY <1>2, <1>3

(* A step of one call of the layer keeps everything the scheduler counts.   *)
LEMMA CallStepInv ==
  ASSUME IndInv, NEW i \in Calls, CallStep(i)
  PROVE  IndInv'
  <1> USE DEF IndInv
  <1>1. i \in layer /\ stage[i] # "settled"
    BY DEF CallStep, Refuse, AbortEarly, Execute, Finish, AbortExecution, SinkFails,
           StageInv, TypeOK
  <1>2. /\ UNCHANGED <<sequential, meta, inDegree, phase, layer, cancelled>>
        /\ \E st \in {"executing", "settled", "broken"} : stage' = [stage EXCEPT ![i] = st]
        /\ \/ results' = results /\ stage'[i] # "settled"
           \/ \E o \in Outcomes : results' = [results EXCEPT ![i] = o] /\ stage'[i] = "settled"
    BY DEF CallStep, Refuse, AbortEarly, Execute, Finish, AbortExecution, SinkFails,
           Settles, TypeOK, Outcomes
  <1>3. TypeOK'
    BY <1>2 DEF TypeOK, Stages
  <1>4. Finished' = Finished
    BY <1>1, <1>2 DEF Finished, TypeOK
  <1>5. \A j \in Calls : Preds(j)' = Preds(j)
    BY <1>2 DEF Preds
  <1>6. StageInv'
    BY <1>1, <1>2 DEF StageInv, TypeOK
  <1>7. ResultInv'
    BY <1>1, <1>2 DEF ResultInv, TypeOK, Outcomes, NoResult
  <1>8. DegreeInv'
    BY <1>2, <1>4, <1>5 DEF DegreeInv
  <1>9. OrderInv'
    <2> SUFFICES ASSUME NEW j \in Calls, stage'[j] # "waiting"
                 PROVE  Preds(j) \subseteq Finished
      BY <1>4, <1>5 DEF OrderInv
    <2>1. stage[j] # "waiting"
      BY <1>1, <1>2 DEF StageInv, TypeOK
    <2> QED
      BY <2>1 DEF OrderInv
  <1> QED
    BY <1>3, <1>6, <1>7, <1>8, <1>9

LEMMA PickLayerInv ==
  ASSUME IndInv, PickLayer
  PROVE  IndInv'
  <1> USE DEF IndInv
  <1>1. Ready \subseteq Open /\ Ready \subseteq Calls
    BY DEF Ready, Open
  <1>2. \A i \in Ready : stage[i] = "waiting" /\ Preds(i) \subseteq Finished
    BY <1>1, BetweenLayers, ReadyHasNoPreds DEF PickLayer
  <1>3. TypeOK'
    BY <1>1 DEF PickLayer, TypeOK, Stages
  <1>4. layer = {}
    BY DEF PickLayer, StageInv
  <1>5. Finished' = Finished
    BY <1>1, <1>2, <1>4 DEF PickLayer, Finished, TypeOK
  <1>6. \A j \in Calls : Preds(j)' = Preds(j)
    BY DEF PickLayer, Preds
  <1>7. StageInv'
    BY <1>1, <1>4 DEF PickLayer, StageInv, TypeOK
  <1>8. ResultInv'
    BY <1>1, <1>2 DEF PickLayer, ResultInv, TypeOK, Open, NoResult
  <1>9. DegreeInv'
    BY <1>5, <1>6 DEF PickLayer, DegreeInv
  <1>10. OrderInv'
    BY <1>1, <1>2, <1>5, <1>6 DEF PickLayer, OrderInv
  <1> QED
    BY <1>3, <1>7, <1>8, <1>9, <1>10

LEMMA JoinLayerInv ==
  ASSUME IndInv, JoinLayer
  PROVE  IndInv'
  <1> USE DEF IndInv
  <1>1. Finished' = Finished \cup layer /\ layer \cap Finished = {}
    BY DEF JoinLayer, Finished, TypeOK
  <1>2. \A j \in Calls : Preds(j)' = Preds(j)
    BY DEF JoinLayer, Preds
  <1>3. \A j \in Calls :
           /\ inDegree'[j] = Cardinality(Preds(j) \ Finished')
           /\ inDegree'[j] \in Nat
    <2> SUFFICES ASSUME NEW j \in Calls
                 PROVE  /\ inDegree'[j] = Cardinality(Preds(j) \ Finished')
                        /\ inDegree'[j] \in Nat
      OBVIOUS
    <2> DEFINE left == Preds(j) \ Finished
    <2>1. IsFiniteSet(left) /\ Cardinality(left) \in Nat
      BY PredsFinite
    <2>2. left \cap layer = layer \cap Preds(j)
      BY <1>1
    <2>3. Cardinality(left \ layer) = Cardinality(left) - Cardinality(layer \cap Preds(j))
      <3> HIDE DEF left
      <3>1. Cardinality(left \ layer) = Cardinality(left) - Cardinality(left \cap layer)
        BY <2>1, FS_Difference
      <3> QED
        BY <2>2, <3>1
    <2>4. Cardinality(left \ layer) \in Nat
      BY <2>1, FS_Difference, FS_CardinalityType
    <2>5. Cardinality(layer \cap Preds(j)) \in Nat
      BY <2>1, <2>2, FS_Subset, FS_CardinalityType
    <2>6. left \ layer = Preds(j) \ Finished'
      BY <1>1
    <2>7. inDegree[j] = Cardinality(left)
      BY DEF DegreeInv
    <2>8. inDegree'[j] = Minus(inDegree[j], Cardinality(layer \cap Preds(j)))
      BY DEF JoinLayer
    <2>9. Minus(inDegree[j], Cardinality(layer \cap Preds(j))) = Cardinality(left \ layer)
      BY <2>1, <2>3, <2>4, <2>5, <2>7 DEF Minus
    <2> QED
      BY <2>4, <2>6, <2>8, <2>9
  <1>4. DegreeInv'
    BY <1>2, <1>3 DEF DegreeInv
  <1>5. TypeOK'
    <2>1. inDegree' \in [Calls -> Nat]
      <3>1. inDegree' = [j \in Calls |-> inDegree'[j]]
        BY DEF JoinLayer
      <3> QED
        BY <1>3, <3>1
    <2> QED
      BY <2>1 DEF JoinLayer, TypeOK
  <1>6. StageInv'
    BY DEF JoinLayer, StageInv, TypeOK
  <1>7. ResultInv'
    BY DEF JoinLayer, ResultInv
  <1>8. OrderInv'
    BY <1>1, <1>2 DEF JoinLayer, OrderInv
  <1> QED
    BY <1>4, <1>5, <1>6, <1>7, <1>8

(* The other steps leave calls, layer and counts alone.                     *)
LEMMA OtherStepsInv ==
  ASSUME IndInv, AbortRest \/ AllDone \/ FailBatch \/ Cancel \/ UNCHANGED vars
  PROVE  IndInv'
  <1> USE DEF IndInv
  <1>1. UNCHANGED <<meta, inDegree, layer, stage>>
    BY DEF AbortRest, AllDone, FailBatch, Cancel, vars
  <1>2. Finished' = Finished /\ \A j \in Calls : Preds(j)' = Preds(j)
    BY <1>1 DEF Finished, Preds
  <1>3. TypeOK'
    BY <1>1 DEF AbortRest, AllDone, FailBatch, Cancel, vars, TypeOK, Outcomes
  <1>4. StageInv'
    BY <1>1 DEF AbortRest, AllDone, FailBatch, Cancel, vars, StageInv
  <1>5. ResultInv'
    <2>1. CASE AbortRest
      BY <2>1 DEF AbortRest, ResultInv, TypeOK, Outcomes, NoResult, Open
    <2>2. CASE AllDone \/ FailBatch \/ Cancel \/ UNCHANGED vars
      BY <2>2 DEF AllDone, FailBatch, Cancel, vars, ResultInv
    <2> QED
      BY <2>1, <2>2
  <1>6. DegreeInv' /\ OrderInv'
    BY <1>1, <1>2 DEF DegreeInv, OrderInv
  <1> QED
    BY <1>3, <1>4, <1>5, <1>6

LEMMA NextIndInv == IndInv /\ [Next]_vars => IndInv'
  <1> SUFFICES ASSUME IndInv, [Next]_vars PROVE IndInv'
    OBVIOUS
  <1>1. CASE PickLayer
    BY <1>1, PickLayerInv
  <1>2. CASE JoinLayer
    BY <1>2, JoinLayerInv
  <1>3. CASE AbortRest \/ AllDone \/ FailBatch \/ Cancel \/ UNCHANGED vars
    BY <1>3, OtherStepsInv
  <1>4. CASE \E i \in Calls : CallStep(i)
    BY <1>4, CallStepInv
  <1> QED
    BY <1>1, <1>2, <1>3, <1>4 DEF Next, Scheduler

THEOREM InductiveInvariant == Spec => []IndInv
  BY InitIndInv, NextIndInv, PTL DEF Spec

(* Type correctness of the scheduler.                                       *)
THEOREM TypeCorrect == Spec => []TypeOK
  <1>1. IndInv => TypeOK
    BY DEF IndInv
  <1> QED
    BY <1>1, InductiveInvariant, PTL

-----------------------------------------------------------------------------
(* The string rules are sound for files when different path strings lead to *)
(* different files: calls that conflict are ordered by should_depend.       *)
PathsAreFaithful ==
    \A p, q \in Paths : p # q => Denotes[p] \cap Denotes[q] = {}

LEMMA ConflictImpliesDepend ==
  ASSUME PathsAreFaithful, NEW a \in Meta, NEW b \in Meta, Conflict(a, b)
  PROVE  ShouldDepend(a, b)
  <1>1. CASE a.exclusive \/ b.exclusive
    BY <1>1 DEF ShouldDepend
  <1>2. CASE ~a.exclusive /\ ~b.exclusive /\ (a.paths = {} \/ b.paths = {})
    BY <1>2 DEF ShouldDepend, PathsOverlap, Conflict, Writes
  <1>3. CASE ~a.exclusive /\ ~b.exclusive /\ a.paths # {} /\ b.paths # {}
    <2>1. ~(a.readOnly /\ b.readOnly)
      BY <1>3 DEF Conflict, Writes
    <2>2. PICK x : /\ x \in UNION {Denotes[p] : p \in a.paths}
                   /\ x \in UNION {Denotes[p] : p \in b.paths}
      BY <1>3 DEF Conflict, Footprint
    <2>3. PICK p \in a.paths, q \in b.paths : x \in Denotes[p] /\ x \in Denotes[q]
      BY <2>2
    <2>4. p \in Paths /\ q \in Paths
      BY DEF Meta
    <2>5. p = q
      BY <2>3, <2>4 DEF PathsAreFaithful
    <2> QED
      BY <2>1, <2>3, <2>5 DEF ShouldDepend, PathsOverlap
  <1> QED
    BY <1>1, <1>2, <1>3

(* Conflicting calls of a batch are dispatched one after the other, in      *)
(* emission order, whatever the batch, the tools' timing and the moment of  *)
(* a cancellation.                                                          *)
THEOREM SerialOrderHolds == PathsAreFaithful => (Spec => []SerialOrder)
  <1> SUFFICES ASSUME PathsAreFaithful PROVE Spec => []SerialOrder
    OBVIOUS
  <1>1. IndInv => SerialOrder
    <2> SUFFICES ASSUME IndInv, NEW i \in Calls, NEW j \in Calls, i < j,
                        Conflict(meta[i], meta[j]), stage[j] # "waiting"
                 PROVE  stage[i] = "settled"
      BY DEF SerialOrder
    <2>1. meta[i] \in Meta /\ meta[j] \in Meta
      BY DEF IndInv, TypeOK
    <2>2. i \in Preds(j)
      BY <2>1, ConflictImpliesDepend DEF Preds
    <2>3. i \in Finished
      BY <2>2 DEF IndInv, OrderInv
    <2> QED
      BY <2>3 DEF Finished
  <1> QED
    BY <1>1, InductiveInvariant, PTL

(* The dependency graph always offers a next layer while a call is open, so *)
(* the sequential fallback, which would execute finished calls again, is    *)
(* dead code.                                                               *)
THEOREM NeverFallsBackHolds == Spec => []NeverFallsBack
  <1>1. IndInv => NeverFallsBack
    <2> SUFFICES ASSUME IndInv, phase = "pick", Open # {} PROVE Ready # {}
      BY DEF NeverFallsBack
    <2>1. Open \subseteq Calls
      BY DEF Open
    <2>2. PICK m \in Open : \A k \in Open : m <= k
      BY <2>1, LeastCall
    <2>3. \A i \in Preds(m) : i \in Calls /\ i < m
      BY DEF Preds
    <2>4. \A i \in Preds(m) : i \notin Open
      <3> SUFFICES ASSUME NEW i \in Preds(m), i \in Open PROVE FALSE
        OBVIOUS
      <3>1. i \in Nat /\ m \in Nat
        BY <2>1, <2>3, CallsFinite
      <3> QED
        BY <2>2, <2>3, <3>1
    <2>5. Preds(m) \subseteq Finished
      BY <2>3, <2>4, BetweenLayers
    <2>6. inDegree[m] = 0
      BY <2>1, <2>5, CountIsZero DEF IndInv, DegreeInv
    <2> QED
      BY <2>1, <2>2, <2>6 DEF Ready
  <1> QED
    BY <1>1, InductiveInvariant, PTL

(* No step replaces a result: each call is answered once.                   *)
THEOREM ResultsAreFinalHolds == Spec => ResultsAreFinal
  <1> DEFINE Keeps == \A i \in Calls : results[i] # NoResult => results'[i] = results[i]
  <1>1. IndInv /\ [Next]_vars => [Keeps]_vars
    <2> SUFFICES ASSUME IndInv, Next PROVE Keeps
      BY DEF vars
    <2>1. CASE \E i \in Calls : CallStep(i)
      <3>1. PICK i \in Calls : CallStep(i)
        BY <2>1
      <3>2. phase # "done" /\ stage[i] # "settled"
        BY <3>1 DEF CallStep, Refuse, AbortEarly, Execute, Finish, AbortExecution,
                    SinkFails, IndInv, StageInv, TypeOK
      <3> QED
        BY <3>1, <3>2 DEF CallStep, Refuse, AbortEarly, Execute, Finish, AbortExecution,
                          SinkFails, Settles, IndInv, TypeOK, StageInv, ResultInv
    <2>2. CASE Scheduler \/ Cancel
      BY <2>2 DEF Scheduler, PickLayer, AbortRest, AllDone, JoinLayer, FailBatch, Cancel,
                  Open, IndInv, TypeOK
    <2> QED
      BY <2>1, <2>2 DEF Next
  <1> QED
    BY <1>1, InductiveInvariant, PTL DEF Spec, ResultsAreFinal

-----------------------------------------------------------------------------
(* The refinement of ToolBatch.                                             *)

(* How far a call is and how the batch sees it, before the batch is done.   *)
LEMMA ViewOfCall ==
  ASSUME IndInv, NEW i \in Calls
  PROVE  /\ phase # "done" => (CallView[i] = "open" <=> stage[i] = "waiting")
         /\ CallView[i] = "running" <=> stage[i] \in {"preparing", "executing"}
         /\ CallView[i] = "lost" <=> stage[i] = "broken"
         /\ stage[i] = "settled" => CallView[i] = results[i] /\ CallView[i] \in Outcomes
         /\ phase # "done" /\ stage[i] # "settled" => results[i] = NoResult
  <1> USE DEF IndInv, TypeOK, StageInv, ResultInv, CallView, Outcomes, NoResult, Stages
  <1>1. phase = "done" => stage[i] \in {"waiting", "settled"}
    OBVIOUS
  <1>2. phase # "done" /\ stage[i] # "settled" => results[i] = NoResult
    OBVIOUS
  <1>3. stage[i] = "settled" => results[i] \in Outcomes
    OBVIOUS
  <1>4. phase = "done" => CallView[i] \in Outcomes \cup {"open"}
    BY <1>1
  <1> QED
    BY <1>1, <1>2, <1>3, <1>4

(* A call that finished is answered.                                        *)
LEMMA FinishedIsAnswered ==
  ASSUME IndInv
  PROVE  Finished \subseteq Batch!Answered
  BY ViewOfCall DEF Finished, Batch!Answered, Batch!Calls, Batch!Answers, Calls, Outcomes

(* Between layers nothing runs and nothing is lost.                         *)
LEMMA PickIsQuiet ==
  ASSUME IndInv, phase = "pick"
  PROVE  Batch!Quiet
  <1> SUFFICES ASSUME NEW i \in Calls PROVE CallView[i] \notin {"running", "lost"}
    BY DEF Batch!Quiet, Batch!Calls, Calls
  <1>1. stage[i] \in {"waiting", "settled"}
    BY DEF IndInv, StageInv
  <1> QED
    BY <1>1, ViewOfCall

(* Dispatching a layer starts its calls.                                    *)
LEMMA PickIsStart ==
  ASSUME IndInv, IndInv', PickLayer
  PROVE  Batch!Start
  <1>1. Ready \subseteq Calls /\ phase = "pick" /\ Ready # {}
    BY DEF PickLayer, Ready, Open
  <1>2. \A j \in Ready : CallView[j] = "open"
    BY <1>1, BetweenLayers, ReadyHasNoPreds, ViewOfCall
  <1>3. \A e \in Order : e[2] \in Ready => CallView[e[1]] \in Batch!Answers
    <2> SUFFICES ASSUME NEW e \in Order, e[2] \in Ready
                 PROVE  CallView[e[1]] \in Batch!Answers
      OBVIOUS
    <2>1. e[1] \in Preds(e[2])
      BY DEF Order, Preds
    <2>2. e[1] \in Batch!Answered
      BY <1>1, <2>1, ReadyHasNoPreds, FinishedIsAnswered
    <2> QED
      BY <2>2 DEF Batch!Answered
  <1>4. CallView' = [i \in Calls |-> IF i \in Ready THEN "running" ELSE CallView[i]]
    <2>1. \A i \in Ready : results[i] = NoResult
      BY DEF Ready, Open
    <2>2. UNCHANGED results /\ stage' = [i \in Calls |-> IF i \in Ready THEN "preparing" ELSE stage[i]]
      BY DEF PickLayer
    <2>3. ASSUME NEW i \in Calls
          PROVE  CallView'[i] = IF i \in Ready THEN "running" ELSE CallView[i]
      BY <2>1, <2>2 DEF CallView
    <2> QED
      BY <2>3 DEF CallView
  <1>5. UNCHANGED <<Order, cancelled, Over>> /\ Over = "no"
    BY <1>1 DEF PickLayer, Order, Over
  <1>6. Ready \in SUBSET {i \in Batch!Calls : CallView[i] = "open"}
    BY <1>1, <1>2 DEF Batch!Calls, Calls
  <1> QED
    BY <1>1, <1>3, <1>4, <1>5, <1>6, PickIsQuiet DEF Batch!Start, Batch!Calls, Calls

(* A step of a call answers it, loses its answer, or shows nothing.         *)
LEMMA CallStepIsBatchStep ==
  ASSUME IndInv, IndInv', NEW i \in Calls, CallStep(i)
  PROVE  \/ \E a \in Outcomes : Batch!Answer(i, a)
         \/ Batch!Lose(i)
         \/ UNCHANGED <<Order, CallView, cancelled, Over>>
  <1>1. phase = "layer" \/ phase = "failed"
    BY DEF IndInv, StageInv, TypeOK, CallStep, Refuse, AbortEarly, Execute, Finish,
           AbortExecution, SinkFails
  <1>2. stage[i] \in {"preparing", "executing"}
    BY DEF CallStep, Refuse, AbortEarly, Execute, Finish, AbortExecution, SinkFails
  <1>3. CallView[i] = "running" /\ results[i] = NoResult
    BY <1>1, <1>2, ViewOfCall
  <1>4. UNCHANGED <<Order, cancelled, Over>>
    BY DEF CallStep, Refuse, AbortEarly, Execute, Finish, AbortExecution, SinkFails, Settles,
           Order, Over
  <1>5. ASSUME NEW a \in Outcomes, Settles(i, a), a = "aborted" => cancelled
        PROVE  Batch!Answer(i, a)
    <2>1. a # NoResult
      BY DEF Outcomes, NoResult
    <2>2. ASSUME NEW k \in Calls
          PROVE  CallView'[k] = IF k = i THEN a ELSE CallView[k]
      BY <1>5, <2>1 DEF CallView, Settles, IndInv, TypeOK
    <2>3. CallView' = [CallView EXCEPT ![i] = a]
      BY <2>2 DEF CallView
    <2> QED
      BY <1>3, <1>4, <1>5, <2>3 DEF Batch!Answer
  <1>6. CASE Refuse(i)
    BY <1>5, <1>6 DEF Refuse, Outcomes
  <1>7. CASE AbortEarly(i)
    BY <1>5, <1>7 DEF AbortEarly, Outcomes
  <1>8. CASE Finish(i)
    BY <1>5, <1>8 DEF Finish, Outcomes
  <1>9. CASE AbortExecution(i)
    BY <1>5, <1>9 DEF AbortExecution, Outcomes
  <1>10. CASE Execute(i)
    <2>1. ASSUME NEW k \in Calls
          PROVE  CallView'[k] = CallView[k]
      BY <1>10 DEF Execute, CallView, IndInv, TypeOK
    <2>2. CallView' = CallView
      BY <2>1 DEF CallView
    <2> QED
      BY <1>4, <2>2
  <1>11. CASE SinkFails(i)
    <2>1. ASSUME NEW k \in Calls
          PROVE  CallView'[k] = IF k = i THEN "lost" ELSE CallView[k]
      BY <1>3, <1>11 DEF SinkFails, CallView, IndInv, TypeOK
    <2>2. CallView' = [CallView EXCEPT ![i] = "lost"]
      BY <2>1 DEF CallView
    <2> QED
      BY <1>3, <1>4, <2>2 DEF Batch!Lose
  <1> QED
    BY <1>6, <1>7, <1>8, <1>9, <1>10, <1>11 DEF CallStep

(* Aborting the open calls, returning, failing and cancelling are the steps *)
(* of the same kind of a batch; joining a layer shows nothing.              *)
LEMMA SchedulerStepIsBatchStep ==
  ASSUME IndInv, IndInv', AbortRest \/ AllDone \/ JoinLayer \/ FailBatch \/ Cancel
  PROVE  \/ Batch!Drop \/ Batch!End \/ Batch!Fail \/ Batch!Cancel
         \/ UNCHANGED <<Order, CallView, cancelled, Over>>
  <1>1. UNCHANGED Order
    BY DEF AbortRest, AllDone, JoinLayer, FailBatch, Cancel, Order
  <1>2. CASE AbortRest
    <2>1. cancelled /\ Over = "no" /\ Over' = "answered" /\ UNCHANGED cancelled
      BY <1>2 DEF AbortRest, StopsAtBoundary, Over
    <2>2. ASSUME NEW i \in Calls
          PROVE  CallView'[i] = IF CallView[i] = "open" THEN "aborted" ELSE CallView[i]
      <3>1. i \in Open => CallView[i] = "open"
        BY <1>2, BetweenLayers, ViewOfCall DEF AbortRest
      <3>2. i \notin Open => CallView[i] = results[i] /\ CallView[i] \in Outcomes
        BY <1>2, BetweenLayers, ViewOfCall DEF AbortRest, Finished
      <3>3. results'[i] = IF i \in Open THEN "aborted" ELSE results[i]
        BY <1>2 DEF AbortRest
      <3>4. results'[i] # NoResult
        BY <3>2, <3>3 DEF Outcomes, NoResult
      <3>5. CallView'[i] = results'[i]
        BY <3>4 DEF CallView
      <3> QED
        BY <3>1, <3>2, <3>3, <3>5 DEF Outcomes
    <2>3. CallView' = [i \in Calls |-> IF CallView[i] = "open" THEN "aborted" ELSE CallView[i]]
      BY <2>2 DEF CallView
    <2>4. Batch!Quiet
      BY <1>2, PickIsQuiet DEF AbortRest
    <2> QED
      BY <1>1, <2>1, <2>3, <2>4 DEF Batch!Drop, Batch!Calls, Calls
  <1>3. CASE AllDone
    <2>1. UNCHANGED <<CallView, cancelled>> /\ Over = "no" /\ Over' = "answered"
      BY <1>3 DEF AllDone, CallView, Over
    <2>2. Calls = Finished
      BY <1>3, BetweenLayers DEF AllDone, Finished
    <2>3. Batch!Answered = Batch!Calls
      BY <2>2, FinishedIsAnswered DEF Batch!Answered, Batch!Calls, Calls
    <2> QED
      BY <1>1, <2>1, <2>3 DEF Batch!End
  <1>4. CASE JoinLayer
    BY <1>1, <1>4 DEF JoinLayer, CallView, Over
  <1>5. CASE FailBatch
    <2>1. UNCHANGED <<CallView, cancelled>> /\ Over = "no" /\ Over' = "failed"
      BY <1>5 DEF FailBatch, CallView, Over
    <2>2. \A i \in Calls : stage[i] \in {"waiting", "settled", "broken"}
      BY <1>5 DEF FailBatch, LayerOver, IndInv, StageInv
    <2>3. \A i \in Calls : CallView[i] # "running"
      BY <2>2, ViewOfCall
    <2>4. \E i \in Calls : CallView[i] = "lost"
      BY <1>5, ViewOfCall DEF FailBatch, IndInv, TypeOK
    <2> QED
      BY <1>1, <2>1, <2>3, <2>4 DEF Batch!Fail, Batch!Calls, Calls
  <1>6. CASE Cancel
    BY <1>1, <1>6 DEF Cancel, Batch!Cancel, CallView, Over
  <1> QED
    BY <1>2, <1>3, <1>4, <1>5, <1>6

(* For every batch, in both modes, the scheduler implements the partial     *)
(* order of calls that should_depend defines: every behaviour of its        *)
(* layers, counts and futures is a behaviour of ToolBatch.                  *)
THEOREM SchedulerImplementsBatch == Spec => SchedulerIsBatch
  <1>1. Init => Batch!Init
    <2> SUFFICES ASSUME Init PROVE Batch!Init
      OBVIOUS
    <2>1. Order \in SUBSET {e \in Calls \X Calls : e[1] < e[2]}
      BY DEF Order
    <2>2. CallView = [i \in Calls |-> "open"]
      BY DEF Init, CallView
    <2> QED
      BY <2>1, <2>2 DEF Init, Over, Batch!Init, Batch!Calls, Calls
  <1>2. IndInv /\ IndInv' /\ [Next]_vars => [Batch!Next]_(Batch!vars)
    <2> SUFFICES ASSUME IndInv, IndInv', [Next]_vars
                 PROVE  Batch!Next \/ UNCHANGED <<Order, CallView, cancelled, Over>>
      BY DEF Batch!vars
    <2>1. CASE PickLayer
      BY <2>1, PickIsStart DEF Batch!Next
    <2>2. CASE \E i \in Calls : CallStep(i)
      BY <2>2, CallStepIsBatchStep DEF Batch!Next, Batch!Calls, Calls, Batch!Answers, Outcomes
    <2>3. CASE AbortRest \/ AllDone \/ JoinLayer \/ FailBatch \/ Cancel
      BY <2>3, SchedulerStepIsBatchStep DEF Batch!Next
    <2>4. CASE UNCHANGED vars
      BY <2>4 DEF vars, Order, CallView, Over
    <2> QED
      BY <2>1, <2>2, <2>3, <2>4 DEF Next, Scheduler
  <1> QED
    BY <1>1, <1>2, InductiveInvariant, PTL DEF Spec, SchedulerIsBatch, Batch!Spec
=============================================================================
