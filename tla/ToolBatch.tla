------------------------------ MODULE ToolBatch ------------------------------
(***************************************************************************)
(* What execute_tool_calls (core/tool.rs) promises the agent loop of one   *)
(* batch, without layers, counts of predecessors or futures.  A batch is a *)
(* partial order of calls.  A call starts when every call it must wait for *)
(* has an answer, it is answered once, and it is answered by an abort only *)
(* after a cancel.  The batch is over when every call is answered, or when *)
(* an answer got lost and nothing runs any more.                           *)
(***************************************************************************)
EXTENDS Integers

CONSTANT N      \* calls in the batch, numbered in emission order

VARIABLES
    order,      \* pairs <<i, j>>: call j waits for the answer of call i
    call,       \* what is known of each call
    cancelled,  \* the run's CancellationToken
    over        \* "no", "answered" or "failed"

vars == <<order, call, cancelled, over>>

Calls    == 1..N
Answers  == {"ok", "refused", "aborted"}
Answered == {i \in Calls : call[i] \in Answers}

(* Nothing runs and no answer is lost: the batch is at a boundary.          *)
Quiet == \A i \in Calls : call[i] \notin {"running", "lost"}

Init ==
    /\ order \in SUBSET {e \in Calls \X Calls : e[1] < e[2]}
    /\ call = [i \in Calls |-> "open"]
    /\ cancelled = FALSE
    /\ over = "no"

(* Some calls start together, at a boundary; all of their predecessors are  *)
(* answered, so no two of them wait for one another.                        *)
Start ==
    /\ over = "no" /\ Quiet
    /\ \E S \in SUBSET {i \in Calls : call[i] = "open"} :
         /\ S # {}
         /\ \A e \in order : e[2] \in S => call[e[1]] \in Answers
         /\ call' = [i \in Calls |-> IF i \in S THEN "running" ELSE call[i]]
    /\ UNCHANGED <<order, cancelled, over>>

Answer(i, a) ==
    /\ call[i] = "running"
    /\ a = "aborted" => cancelled
    /\ call' = [call EXCEPT ![i] = a]
    /\ UNCHANGED <<order, cancelled, over>>

Lose(i) ==
    /\ call[i] = "running"
    /\ call' = [call EXCEPT ![i] = "lost"]
    /\ UNCHANGED <<order, cancelled, over>>

(* A cancelled batch answers what it never started.                         *)
Drop ==
    /\ over = "no" /\ Quiet /\ cancelled
    /\ call' = [i \in Calls |-> IF call[i] = "open" THEN "aborted" ELSE call[i]]
    /\ over' = "answered"
    /\ UNCHANGED <<order, cancelled>>

End ==
    /\ over = "no" /\ Answered = Calls
    /\ over' = "answered"
    /\ UNCHANGED <<order, call, cancelled>>

Fail ==
    /\ over = "no"
    /\ \E i \in Calls : call[i] = "lost"
    /\ \A i \in Calls : call[i] # "running"
    /\ over' = "failed"
    /\ UNCHANGED <<order, call, cancelled>>

Cancel ==
    /\ ~cancelled
    /\ cancelled' = TRUE
    /\ UNCHANGED <<order, call, over>>

Next ==
    \/ Start
    \/ \E i \in Calls : Lose(i) \/ \E a \in Answers : Answer(i, a)
    \/ Drop \/ End \/ Fail \/ Cancel

Spec == Init /\ [][Next]_vars
=============================================================================
