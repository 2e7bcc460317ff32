------------------------- MODULE HarnessSettleProofs -------------------------
(***************************************************************************)
(* The retry budget, the order of the asides, what a restore rebuilds and  *)
(* the types, for any number of prompts, tools, queued messages, faults,   *)
(* aborts and retries, and for any session the harness is opened on.       *)
(***************************************************************************)
EXTENDS HarnessSettle, WellFoundedInduction, TLAPS

-----------------------------------------------------------------------------
(* The retry budget.                                                        *)

\* The places of a run, and those on the way into one.
InRun  == {"request", "boundary", "written", "poll", "ended"}
Toward == {"pre", "input", "continue"}

\* An auto-retry is paid by `attempt' and comes only before the overflow recovery of
\* the same operation, which is paid by `recovered': the run it starts goes back to
\* the overflow check and not to the retry check.  `attempt' is cleared in between,
\* so the two counters alone bound nothing; where the operation is does.
Budget ==
  /\ attempt \in 0 .. MaxRetries /\ episode \in Nat /\ episode <= MaxRetries + 1
  /\ recovered \in BOOLEAN /\ good \in BOOLEAN
  /\ after \in {"first", "settle", "overflow"}
  /\ pc \in {"pre", "input"} => after = "first"
  /\ pc \in {"settle", "backoff", "overflow", "threshold", "queued"} => after = "settle"
  /\ pc = "shrink" => after # "first"
  /\ pc \in InRun /\ good => episode = 0
  /\ pc \in InRun \cup Toward \cup {"settle", "backoff"} /\ after # "overflow" => episode <= attempt
  /\ pc \in InRun \cup Toward \cup {"shrink"} /\ after = "overflow" => recovered
  /\ pc = "overflow" => recovered \/ episode <= MaxRetries

LEMMA BudgetInit == Init => Budget
  <1> SUFFICES ASSUME Init PROVE Budget
    OBVIOUS
  <1>1. 0 \in 0 .. MaxRetries /\ 0 <= MaxRetries + 1
    BY HarnessSettleAssumption
  <1>2. /\ pc = "idle" /\ after = "first" /\ attempt = 0 /\ episode = 0
        /\ recovered = FALSE /\ good = FALSE
    BY DEF Init
  <1> QED BY <1>1, <1>2 DEF Budget, InRun, Toward

LEMMA BudgetStep == Budget /\ [Next]_vars => Budget'
  <1> SUFFICES ASSUME Budget, [Next]_vars PROVE Budget'
    OBVIOUS
  <1> USE DEF budgets, run, flags, TaskLeaves, InRun, Toward
  <1>a. MaxRetries \in Nat
    BY HarnessSettleAssumption
  \* Where the counters stay and the place does not matter to them.
  <1>u. ASSUME UNCHANGED <<pc, after, attempt, recovered, good, episode>>
        PROVE  Budget'
    BY <1>u DEF Budget
  <1>1. CASE Handle \/ UNCHANGED vars \/ AppendIdle \/ CompactIdle
    <2>1. UNCHANGED <<pc, after, attempt, recovered, good, episode>>
      <3>1. CASE Handle
        BY <3>1 DEF Handle, Queue, NextTurn, AppendMessage, SetModel, Abort, RequestShutdown, HandleLeaves
      <3>2. CASE UNCHANGED vars \/ AppendIdle \/ CompactIdle
        BY <3>2 DEF vars, AppendIdle, CompactIdle
      <3> QED BY <1>1, <3>1, <3>2
    <2> QED BY <1>u, <2>1
  <1>2. CASE Prompt \/ Continue
    <2>1. /\ pc' \in Toward /\ after' = "first" /\ episode' = 0
          /\ UNCHANGED <<attempt, recovered, good>>
      BY <1>2 DEF Prompt, Continue
    <2> QED BY <1>a, <2>1 DEF Budget
  <1>3. CASE PrePrompt
    BY <1>3 DEF PrePrompt, Budget
  <1>4. CASE StartRun
    <2>1. /\ pc = "input" /\ pc' = "request" /\ recovered' = FALSE /\ good' = FALSE
          /\ UNCHANGED <<after, attempt, episode>>
      BY <1>4 DEF StartRun, FreshRun
    <2> QED BY <2>1 DEF Budget
  <1>5. CASE ContinueRun
    <2>1. /\ pc = "continue" /\ pc' = "request" /\ good' = FALSE
          /\ UNCHANGED <<after, attempt, recovered, episode>>
      BY <1>5 DEF ContinueRun, FreshRun
    <2> QED BY <2>1 DEF Budget
  <1>6. CASE CannotContinue \/ AppendFails
    <2>1. pc' = "broken" /\ UNCHANGED <<after, attempt, recovered, good, episode>>
      BY <1>6 DEF CannotContinue, AppendFails
    <2> QED BY <2>1 DEF Budget
  <1>7. ASSUME NEW kind \in Replies, Answer(kind)
        PROVE  Budget'
    <2>1. /\ pc = "request" /\ pc' \in {"ended", "boundary"}
          /\ good' = (good \/ kind \notin Errors)
          /\ episode' = IF kind \in Errors THEN episode ELSE 0
          /\ UNCHANGED <<after, attempt, recovered>>
      BY <1>7 DEF Answer
    <2> QED BY <1>a, <2>1 DEF Budget
  <1>8. CASE BoundaryWrite \/ BoundaryRemove \/ BoundaryDone
    <2>1. /\ pc \in InRun /\ pc' \in InRun \cup {"panicked"}
          /\ UNCHANGED <<after, attempt, recovered, good, episode>>
      BY <1>8 DEF BoundaryWrite, BoundaryRemove, TakeWritten, BoundaryDone
    <2> QED BY <2>1 DEF Budget
  <1>9. CASE Poll
    <2>1. /\ pc = "poll" /\ pc' \in {"ended", "request"} /\ episode' \in {episode, 0}
          /\ UNCHANGED <<after, attempt, recovered, good>>
      BY <1>9 DEF Poll
    <2> QED BY <1>a, <2>1 DEF Budget
  <1>10. CASE Revert \/ RevertFails \/ Escape \/ ShrinkFails
    <2>1. pc' \in {"adopt", "idle"} /\ UNCHANGED <<after, attempt, recovered, good, episode>>
      BY <1>10 DEF Revert, RevertFails, Escape, ShrinkFails, GiveUp
    <2> QED BY <2>1 DEF Budget
  <1>11. CASE RunEnds
    <2>1. /\ pc = "ended" /\ attempt' = (IF good THEN 0 ELSE attempt) /\ recovered' = (recovered /\ ~good)
          /\ pc' = (IF after = "overflow" THEN "overflow" ELSE "settle") /\ after' = "settle"
          /\ UNCHANGED <<good, episode>>
      BY <1>11 DEF RunEnds
    <2> QED BY <1>a, <2>1 DEF Budget
  <1>12. CASE AutoRetry
    <2>1. /\ pc = "settle" /\ pc' = "backoff" /\ attempt < MaxRetries
          /\ attempt' = attempt + 1 /\ episode' = episode + 1
          /\ UNCHANGED <<after, recovered, good>>
      BY <1>12 DEF AutoRetry
    <2> QED BY <1>a, <2>1 DEF Budget
  <1>13. CASE NoRetry \/ Backoff
    <2>1. /\ pc \in {"settle", "backoff"}
          /\ (attempt' \in {attempt, 0} /\ pc' = "overflow") \/ (pc' = "continue" /\ attempt' = attempt)
          /\ UNCHANGED <<after, recovered, good, episode>>
      BY <1>13 DEF NoRetry, Backoff
    <2> QED BY <1>a, <2>1 DEF Budget
  <1>14. CASE OverflowRetry
    <2>1. /\ pc = "overflow" /\ ~recovered /\ recovered' = TRUE /\ episode' = episode + 1
          /\ after' = "overflow" /\ pc' = "shrink" /\ UNCHANGED <<attempt, good>>
      BY <1>14 DEF OverflowRetry, Retries
    <2> QED BY <1>a, <2>1 DEF Budget
  <1>15. CASE OverflowSilent \/ NoOverflow
    <2>1. /\ pc = "overflow" /\ pc' \in {"shrink", "threshold"}
          /\ UNCHANGED <<after, attempt, recovered, good, episode>>
      BY <1>15 DEF OverflowSilent, NoOverflow
    <2> QED BY <2>1 DEF Budget
  <1>16. CASE Shrink
    <2>1. /\ pc = "shrink"
          /\ \/ pc' = "continue" /\ after = "overflow" /\ UNCHANGED after
             \/ pc' = "threshold" /\ after # "overflow" /\ UNCHANGED after
             \/ pc' = "threshold" /\ after' = "settle"
          /\ UNCHANGED <<attempt, recovered, good, episode>>
      BY <1>16 DEF Shrink
    <2>2. after \in {"settle", "overflow"}
      BY <2>1 DEF Budget
    <2> QED BY <2>1, <2>2 DEF Budget
  <1>17. CASE Threshold \/ Settled
    <2>1. /\ pc \in {"threshold", "queued"} /\ pc' \in {"queued", "adopt"}
          /\ UNCHANGED <<after, attempt, recovered, good, episode>>
      BY <1>17 DEF Threshold, Settled
    <2> QED BY <2>1 DEF Budget
  <1>18. CASE DeliverQueued
    <2>1. /\ pc = "queued" /\ pc' = "continue" /\ episode' = 0
          /\ UNCHANGED <<after, attempt, recovered, good>>
      BY <1>18 DEF DeliverQueued
    <2> QED BY <1>a, <2>1 DEF Budget
  <1>19. CASE Adopt \/ FlushWrite \/ FlushFails \/ FlushRemove \/ FlushDone
    <2>1. /\ pc' \in {"flush", "stored", "idle", "panicked"}
          /\ UNCHANGED <<after, attempt, recovered, good, episode>>
      BY <1>19 DEF Adopt, FlushWrite, FlushFails, FlushRemove, FlushDone, TakeWritten
    <2> QED BY <2>1 DEF Budget
  <1> QED BY <1>1, <1>2, <1>3, <1>4, <1>5, <1>6, <1>7, <1>8, <1>9, <1>10, <1>11, <1>12, <1>13,
             <1>14, <1>15, <1>16, <1>17, <1>18, <1>19 DEF Next, Operation, Task

\* After an input, or a reply that was not an error, a failing provider is asked again
\* at most MaxRetries times and once more after an overflow compaction.
THEOREM BudgetHoldsAlways == Spec => []BudgetHolds
  <1>1. Budget => BudgetHolds
    BY DEF Budget, BudgetHolds
  <1> QED BY <1>1, BudgetInit, BudgetStep, PTL DEF Spec

-----------------------------------------------------------------------------
(* The asides.                                                              *)

FromHandle(x) == x.kind = "aside" /\ x.tag > 0

\* What of the queue is still to be written: all of it, but for the head a flush has
\* written and not yet removed.
Unwritten == IF pc \in {"written", "stored"} THEN DOMAIN pending \ {1} ELSE DOMAIN pending

\* The asides are numbered as they are queued; the queue is in order, and what it has
\* still to write comes after everything that was written.
Asides ==
  /\ session \in Seq(ToSet(session)) /\ pending \in Seq(ToSet(pending))
  /\ nextTurn \in Nat /\ "asides" \in DOMAIN used /\ used.asides \in Nat
  /\ \A i \in DOMAIN session : session[i].kind = "aside" => session[i].tag \in 0 .. used.asides
  /\ \A i \in DOMAIN pending : pending[i].kind = "aside" => pending[i].tag \in 1 .. used.asides
  /\ \A i, j \in DOMAIN pending :
       i < j /\ FromHandle(pending[i]) /\ FromHandle(pending[j]) => pending[i].tag < pending[j].tag
  /\ \A i \in DOMAIN session : \A j \in Unwritten :
       FromHandle(session[i]) /\ FromHandle(pending[j]) => session[i].tag < pending[j].tag
  /\ AsidesOnceInOrder

\* s2 is s with entries added that no handle queued.
Grows(s, s2) ==
  /\ s2 \in Seq(ToSet(s2))
  /\ \A i \in DOMAIN s2 : s2[i].kind = "aside" => s2[i].tag = 0 \/ (i \in DOMAIN s /\ s2[i] = s[i])

NotQueued(x) == x.kind = "aside" => x.tag = 0

LEMMA SeqOfItsElements ==
  ASSUME NEW S, NEW s \in Seq(S)
  PROVE  s \in Seq(ToSet(s))
  <1>1. \A i \in 1 .. Len(s) : s[i] \in ToSet(s)
    BY DEF ToSet
  <1> QED BY <1>1

LEMMA AppendGrows ==
  ASSUME NEW s, s \in Seq(ToSet(s)), NEW x
  PROVE  /\ Append(s, x) \in Seq(ToSet(Append(s, x)))
         /\ Len(s) \in Nat /\ DOMAIN s = 1 .. Len(s) /\ DOMAIN Append(s, x) = 1 .. (Len(s) + 1)
         /\ \A i \in 1 .. Len(s) : Append(s, x)[i] = s[i]
         /\ Append(s, x)[Len(s) + 1] = x
         /\ NotQueued(x) => Grows(s, Append(s, x))
  <1> DEFINE S == ToSet(s) \cup {x}
  <1>1. s \in Seq(S) /\ x \in S
    <2>1. \A i \in 1 .. Len(s) : s[i] \in S
      BY DEF ToSet
    <2> QED BY <2>1
  <1> HIDE DEF S
  <1>2. /\ Append(s, x) \in Seq(S)
        /\ Len(s) \in Nat /\ DOMAIN s = 1 .. Len(s) /\ DOMAIN Append(s, x) = 1 .. (Len(s) + 1)
        /\ \A i \in 1 .. Len(s) : Append(s, x)[i] = s[i]
        /\ Append(s, x)[Len(s) + 1] = x
    BY <1>1
  <1>3. Append(s, x) \in Seq(ToSet(Append(s, x)))
    BY <1>2, SeqOfItsElements
  <1>4. \A i \in 1 .. (Len(s) + 1) : i \in 1 .. Len(s) \/ i = Len(s) + 1
    BY <1>2
  <1>5. NotQueued(x) => Grows(s, Append(s, x))
    BY <1>2, <1>3, <1>4 DEF Grows, NotQueued
  <1> QED BY <1>2, <1>3, <1>5

LEMMA ConcatGrows ==
  ASSUME NEW s, s \in Seq(ToSet(s)), NEW S, NEW t \in Seq(S), \A i \in DOMAIN t : NotQueued(t[i])
  PROVE  Grows(s, s \o t)
  <1> DEFINE U == ToSet(s) \cup S
  <1>1. s \in Seq(U) /\ t \in Seq(U)
    <2>1. /\ \A i \in 1 .. Len(s) : s[i] \in U
          /\ \A i \in 1 .. Len(t) : t[i] \in U
      BY DEF ToSet
    <2> QED BY <2>1
  <1> HIDE DEF U
  <1>2. /\ s \o t \in Seq(U) /\ Len(s) \in Nat /\ Len(t) \in Nat
        /\ DOMAIN s = 1 .. Len(s) /\ DOMAIN t = 1 .. Len(t)
        /\ DOMAIN (s \o t) = 1 .. (Len(s) + Len(t))
        /\ \A i \in 1 .. Len(s) : (s \o t)[i] = s[i]
        /\ \A i \in 1 .. (Len(s) + Len(t)) : i > Len(s) => (s \o t)[i] = t[i - Len(s)]
    BY <1>1
  <1>3. s \o t \in Seq(ToSet(s \o t))
    BY <1>2, SeqOfItsElements
  <1>4. ASSUME NEW i \in 1 .. (Len(s) + Len(t)), (s \o t)[i].kind = "aside"
        PROVE  (s \o t)[i].tag = 0 \/ (i \in DOMAIN s /\ (s \o t)[i] = s[i])
    <2>1. CASE i <= Len(s)
      <3>1. i \in 1 .. Len(s)
        BY <1>2, <2>1
      <3> QED BY <1>2, <3>1
    <2>2. CASE i > Len(s)
      <3>1. i - Len(s) \in DOMAIN t /\ (s \o t)[i] = t[i - Len(s)]
        BY <1>2, <2>2
      <3> QED BY <1>4, <3>1 DEF NotQueued
    <2> QED BY <1>2, <2>1, <2>2
  <1> QED BY <1>2, <1>3, <1>4 DEF Grows

LEMMA Entries ==
  /\ NotQueued(Input) /\ NotQueued(Aside(0))
  /\ \A kind \in Replies : \A m : NotQueued(Reply(kind, m))
  /\ \A first, tail : NotQueued(Boundary(first, tail))
  /\ \A m : ModelChange(m).kind # "aside"
  /\ \A t : Aside(t).kind = "aside" /\ Aside(t).tag = t
  BY DEF NotQueued, Input, Aside, Reply, Boundary, ModelChange, Replies

LEMMA SpendsOne ==
  ASSUME NEW what, Spend(what), "asides" \in DOMAIN used
  PROVE  /\ "asides" \in DOMAIN used'
         /\ what # "asides" => used'.asides = used.asides
         /\ what = "asides" => used'.asides = used.asides + 1
  BY DEF Spend

\* What a run says is an input or a reply.
LEMMA SaidGrows ==
  ASSUME Asides, NEW S, NEW t \in Seq(S), \A i \in DOMAIN t : NotQueued(t[i]), Said(t)
  PROVE  Grows(session, session')
  BY ConcatGrows DEF Asides, Said

LEMMA CompactsGrows ==
  ASSUME Asides, NEW c, Compacts(c)
  PROVE  Grows(session, session')
  <1>1. PICK x : session' = Append(session, x) /\ NotQueued(x)
    BY Entries DEF Compacts
  <1> QED BY <1>1, AppendGrows DEF Asides

\* Entries of the task join the session, and the queue is not touched.
LEMMA GrowthKeepsAsides ==
  ASSUME Asides, Grows(session, session'), UNCHANGED pending,
         nextTurn' \in Nat, "asides" \in DOMAIN used', used'.asides \in Nat, used'.asides >= used.asides,
         pc' \in {"written", "stored"} <=> pc \in {"written", "stored"}
  PROVE  Asides'
  <1>0. Unwritten' = Unwritten
    BY DEF Unwritten
  <1>1. /\ session' \in Seq(ToSet(session')) /\ pending' \in Seq(ToSet(pending'))
        /\ nextTurn' \in Nat /\ "asides" \in DOMAIN used' /\ used'.asides \in Nat
    BY DEF Asides, Grows
  <1>s. \A i \in DOMAIN session' : FromHandle(session'[i]) => i \in DOMAIN session /\ session'[i] = session[i]
    BY DEF Grows, FromHandle
  <1>2. \A i \in DOMAIN session' : session'[i].kind = "aside" => session'[i].tag \in 0 .. used'.asides
    BY DEF Asides, Grows
  <1>3. \A i \in DOMAIN pending' : pending'[i].kind = "aside" => pending'[i].tag \in 1 .. used'.asides
    BY DEF Asides
  <1>4. \A i, j \in DOMAIN pending' :
          i < j /\ FromHandle(pending'[i]) /\ FromHandle(pending'[j]) => pending'[i].tag < pending'[j].tag
    BY DEF Asides
  <1>5. \A i \in DOMAIN session' : \A j \in Unwritten' :
          FromHandle(session'[i]) /\ FromHandle(pending'[j]) => session'[i].tag < pending'[j].tag
    BY <1>0, <1>s DEF Asides
  <1>6. AsidesOnceInOrder'
    BY <1>s DEF Asides, AsidesOnceInOrder, FromHandle
  <1> QED BY <1>1, <1>2, <1>3, <1>4, <1>5, <1>6 DEF Asides

\* A step that leaves the session alone.
LEMMA QuietKeepsAsides ==
  ASSUME Asides, UNCHANGED <<session, pending>>,
         nextTurn' \in Nat, "asides" \in DOMAIN used', used'.asides \in Nat, used'.asides >= used.asides,
         pc' \in {"written", "stored"} <=> pc \in {"written", "stored"}
  PROVE  Asides'
  <1>1. Grows(session, session')
    BY DEF Asides, Grows
  <1> QED BY <1>1, GrowthKeepsAsides

LEMMA TagsApart ==
  ASSUME NEW u \in Nat, NEW v \in Nat, NEW a, a \in 0 .. u, NEW b, b \in 1 .. v, b > u
  PROVE  a < b
  OBVIOUS

\* The handle queues one more mutation.
LEMMA QueueingKeepsAsides ==
  ASSUME Asides, NEW x, pending' = Append(pending, x), UNCHANGED <<session, pc, nextTurn>>,
         "asides" \in DOMAIN used', used'.asides \in Nat, used'.asides >= used.asides,
         x.kind = "aside" => x.tag > used.asides /\ x.tag \in 1 .. used'.asides
  PROVE  Asides'
  <1>1. /\ pending \in Seq(ToSet(pending)) /\ used.asides \in Nat
    BY DEF Asides
  <1>2. /\ pending' \in Seq(ToSet(pending'))
        /\ Len(pending) \in Nat /\ DOMAIN pending = 1 .. Len(pending)
        /\ DOMAIN pending' = 1 .. (Len(pending) + 1)
        /\ \A i \in 1 .. Len(pending) : pending'[i] = pending[i]
        /\ pending'[Len(pending) + 1] = x
    BY <1>1, AppendGrows
  <1>3. \A i \in DOMAIN pending' : i \in DOMAIN pending \/ (i = Len(pending) + 1 /\ pending'[i] = x)
    BY <1>2
  <1>4. \A i \in DOMAIN session : session[i].kind = "aside" => session[i].tag \in 0 .. used'.asides
    BY <1>1 DEF Asides
  <1>5. \A i \in DOMAIN pending' : pending'[i].kind = "aside" => pending'[i].tag \in 1 .. used'.asides
    BY <1>1, <1>2, <1>3 DEF Asides
  <1>6. ASSUME NEW i \in DOMAIN pending', NEW j \in DOMAIN pending', i < j,
               FromHandle(pending'[i]), FromHandle(pending'[j])
        PROVE  pending'[i].tag < pending'[j].tag
    <2>1. i \in DOMAIN pending /\ pending'[i] = pending[i]
      BY <1>2, <1>6
    <2>2. CASE j \in DOMAIN pending
      BY <1>2, <1>6, <2>1, <2>2 DEF Asides
    <2>3. CASE pending'[j] = x
      <3>1. pending[i].tag \in 1 .. used.asides
        BY <1>6, <2>1 DEF Asides, FromHandle
      <3>2. pending'[j].tag > used.asides /\ pending'[j].tag \in 1 .. used'.asides
        BY <1>6, <2>3 DEF FromHandle
      <3> QED BY <1>1, <2>1, <3>1, <3>2
    <2> QED BY <1>3, <2>2, <2>3
  <1>7. ASSUME NEW i \in DOMAIN session, NEW j \in Unwritten',
               FromHandle(session[i]), FromHandle(pending'[j])
        PROVE  session[i].tag < pending'[j].tag
    <2>1. CASE j \in DOMAIN pending
      <3>1. j \in Unwritten
        BY <2>1 DEF Unwritten
      <3> QED BY <1>2, <1>7, <2>1, <3>1 DEF Asides
    <2>2. CASE j \in DOMAIN pending' /\ pending'[j] = x
      <3>1. session[i].tag \in 0 .. used.asides
        BY <1>7 DEF Asides, FromHandle
      <3>2. pending'[j].tag > used.asides /\ pending'[j].tag \in 1 .. used'.asides
        BY <1>7, <2>2 DEF FromHandle
      <3> QED BY <1>1, <3>1, <3>2, TagsApart
    <2>3. j \in DOMAIN pending'
      BY DEF Unwritten
    <2> QED BY <1>3, <2>1, <2>2, <2>3
  <1>8. AsidesOnceInOrder'
    BY DEF Asides, AsidesOnceInOrder
  <1>9. session' \in Seq(ToSet(session')) /\ nextTurn' \in Nat
    BY DEF Asides
  <1> QED BY <1>2, <1>4, <1>5, <1>6, <1>7, <1>8, <1>9 DEF Asides

\* A shutdown clears the queue.
LEMMA ClearingKeepsAsides ==
  ASSUME Asides, pending' = <<>>, UNCHANGED <<session, pc>>, nextTurn' \in Nat,
         "asides" \in DOMAIN used', used'.asides = used.asides
  PROVE  Asides'
  <1>1. DOMAIN pending' = {} /\ Unwritten' = {} /\ pending' \in Seq(ToSet(pending'))
    <2>1. DOMAIN pending' = {} /\ pending' \in Seq(ToSet(pending'))
      OBVIOUS
    <2> QED BY <2>1 DEF Unwritten
  <1>2. AsidesOnceInOrder'
    BY DEF Asides, AsidesOnceInOrder
  <1> QED BY <1>1, <1>2 DEF Asides

\* A flush writes the head of the queue ...
LEMMA WritingKeepsAsides ==
  ASSUME Asides, pending # <<>>, session' = Append(session, Head(pending)),
         pc \notin {"written", "stored"}, pc' \in {"written", "stored"},
         UNCHANGED <<pending, nextTurn, used>>
  PROVE  Asides'
  <1> DEFINE h == Head(pending)
             n == Len(session)
  <1>1. /\ pending \in Seq(ToSet(pending)) /\ session \in Seq(ToSet(session)) /\ used.asides \in Nat
    BY DEF Asides
  <1>2. /\ h = pending[1] /\ 1 \in DOMAIN pending /\ DOMAIN pending = 1 .. Len(pending)
        /\ Len(pending) \in Nat
    BY <1>1
  <1>3. /\ session' \in Seq(ToSet(session')) /\ n \in Nat
        /\ DOMAIN session = 1 .. n /\ DOMAIN session' = 1 .. (n + 1)
        /\ \A i \in 1 .. n : session'[i] = session[i]
        /\ session'[n + 1] = h
    BY <1>1, AppendGrows
  <1> HIDE DEF h, n
  <1>4. \A i \in DOMAIN session' : i \in DOMAIN session \/ i = n + 1
    BY <1>3
  <1>5. Unwritten = DOMAIN pending /\ Unwritten' = DOMAIN pending \ {1}
    BY DEF Unwritten
  <1>6. \A i \in DOMAIN session' : session'[i].kind = "aside" => session'[i].tag \in 0 .. used.asides
    BY <1>1, <1>2, <1>3, <1>4 DEF Asides
  <1>7. ASSUME NEW i \in DOMAIN session', NEW j \in DOMAIN pending \ {1},
               FromHandle(session'[i]), FromHandle(pending[j])
        PROVE  session'[i].tag < pending[j].tag
    <2>1. CASE i \in DOMAIN session
      BY <1>3, <1>5, <1>7, <2>1 DEF Asides
    <2>2. CASE i = n + 1
      <3>1. session'[i] = pending[1] /\ 1 < j
        BY <1>2, <1>3, <2>2
      <3> QED BY <1>2, <1>7, <3>1 DEF Asides
    <2> QED BY <1>4, <2>1, <2>2
  <1>8. AsidesOnceInOrder'
    <2> SUFFICES ASSUME NEW i \in DOMAIN session', NEW j \in DOMAIN session', i < j,
                        FromHandle(session'[i]), FromHandle(session'[j])
                 PROVE  session'[i].tag < session'[j].tag
      BY DEF AsidesOnceInOrder, FromHandle
    <2>1. i \in DOMAIN session /\ session'[i] = session[i]
      BY <1>3, <1>4
    <2>2. CASE j \in DOMAIN session
      BY <1>3, <2>1, <2>2 DEF Asides, AsidesOnceInOrder, FromHandle
    <2>3. CASE j = n + 1
      <3>1. session'[j] = pending[1]
        BY <1>2, <1>3, <2>3
      <3> QED BY <1>2, <1>5, <2>1, <3>1 DEF Asides
    <2> QED BY <1>4, <2>2, <2>3
  <1>9. /\ pending' \in Seq(ToSet(pending')) /\ nextTurn' \in Nat
        /\ "asides" \in DOMAIN used' /\ used'.asides \in Nat
        /\ \A i \in DOMAIN pending' : pending'[i].kind = "aside" => pending'[i].tag \in 1 .. used'.asides
        /\ \A i, j \in DOMAIN pending' :
             i < j /\ FromHandle(pending'[i]) /\ FromHandle(pending'[j]) => pending'[i].tag < pending'[j].tag
    BY DEF Asides
  <1>10. \A i \in DOMAIN session' : \A j \in Unwritten' :
           FromHandle(session'[i]) /\ FromHandle(pending'[j]) => session'[i].tag < pending'[j].tag
    BY <1>5, <1>7
  <1> QED BY <1>3, <1>6, <1>8, <1>9, <1>10 DEF Asides

\* ... and then removes it, or whatever a shutdown and the handle have put there.
LEMMA RemovingKeepsAsides ==
  ASSUME Asides, NEW next, TakeWritten(next), pc \in {"written", "stored"},
         next \notin {"written", "stored"}
  PROVE  Asides'
  <1>0. UNCHANGED <<session, nextTurn, used>> /\ pc' \notin {"written", "stored"}
    BY DEF TakeWritten, store
  <1>1. Unwritten' = DOMAIN pending' /\ Unwritten = DOMAIN pending \ {1}
    BY <1>0 DEF Unwritten
  <1>2. CASE pending = <<>>
    <2>1. pending' = <<>> /\ DOMAIN pending' = {} /\ pending' \in Seq(ToSet(pending'))
      BY <1>2 DEF TakeWritten
    <2>2. AsidesOnceInOrder'
      BY <1>0 DEF Asides, AsidesOnceInOrder
    <2> QED BY <1>0, <1>1, <2>1, <2>2 DEF Asides
  <1>3. CASE pending # <<>>
    <2>1. pending' = Tail(pending) /\ pending \in Seq(ToSet(pending))
      BY <1>3 DEF TakeWritten, Asides
    <2>2. /\ pending' \in Seq(ToSet(pending)) /\ Len(pending) \in Nat
          /\ DOMAIN pending = 1 .. Len(pending)
          /\ DOMAIN pending' = 1 .. (Len(pending) - 1)
          /\ \A i \in 1 .. (Len(pending) - 1) : pending'[i] = pending[i + 1]
      BY <1>3, <2>1
    <2>3. pending' \in Seq(ToSet(pending'))
      BY <2>2, SeqOfItsElements
    <2>4. \A i \in DOMAIN pending' : i + 1 \in DOMAIN pending /\ i + 1 # 1 /\ pending'[i] = pending[i + 1]
      BY <2>2
    <2>5. \A i, j \in DOMAIN pending' : i < j => i + 1 < j + 1
      BY <2>2
    <2>6. \A i \in DOMAIN pending' : pending'[i].kind = "aside" => pending'[i].tag \in 1 .. used.asides
      BY <2>4 DEF Asides
    <2>7. \A i, j \in DOMAIN pending' :
            i < j /\ FromHandle(pending'[i]) /\ FromHandle(pending'[j]) => pending'[i].tag < pending'[j].tag
      BY <2>4, <2>5 DEF Asides
    <2>8. \A i \in DOMAIN session : \A j \in DOMAIN pending' :
            FromHandle(session[i]) /\ FromHandle(pending'[j]) => session[i].tag < pending'[j].tag
      BY <1>1, <2>4 DEF Asides
    <2>9. AsidesOnceInOrder'
      BY <1>0 DEF Asides, AsidesOnceInOrder
    <2> QED BY <1>0, <1>1, <2>3, <2>6, <2>7, <2>8, <2>9 DEF Asides
  <1> QED BY <1>2, <1>3

LEMMA AsidesInit == Init => Asides
  <1> SUFFICES ASSUME Init PROVE Asides
    OBVIOUS
  <1>1. /\ session \in Openings /\ pending = <<>> /\ nextTurn = 0 /\ pc = "idle"
        /\ used = [prompts |-> 0, tools |-> 0, queued |-> 0, nexts |-> 0, asides |-> 0,
                   models |-> 0, faults |-> 0, aborts |-> 0]
    BY DEF Init
  <1>2. "asides" \in DOMAIN used /\ used.asides = 0
    BY <1>1
  <1>3. /\ session \in Seq(ToSet(session))
        /\ \A i \in DOMAIN session : session[i].kind = "aside" => session[i].tag = 0
    BY <1>1, OpeningsAssumption, SeqOfItsElements
  <1>4. DOMAIN pending = {} /\ Unwritten = {} /\ pending \in Seq(ToSet(pending))
    <2>1. DOMAIN pending = {} /\ pending \in Seq(ToSet(pending))
      BY <1>1
    <2> QED BY <2>1 DEF Unwritten
  <1>5. AsidesOnceInOrder
    BY <1>3 DEF AsidesOnceInOrder
  <1>6. \A i \in DOMAIN session : session[i].kind = "aside" => session[i].tag \in 0 .. used.asides
    BY <1>2, <1>3
  <1> QED BY <1>1, <1>2, <1>3, <1>4, <1>5, <1>6 DEF Asides

LEMMA AsidesStep == Asides /\ [Next]_vars => Asides'
  <1> SUFFICES ASSUME Asides, [Next]_vars PROVE Asides'
    OBVIOUS
  <1> USE DEF store, shared
  <1>t. /\ session \in Seq(ToSet(session)) /\ pending \in Seq(ToSet(pending))
        /\ nextTurn \in Nat /\ "asides" \in DOMAIN used /\ used.asides \in Nat
    BY DEF Asides
  <1>1. CASE Queue \/ NextTurn \/ Abort
    <2>1. /\ UNCHANGED <<session, pending, pc>>
          /\ nextTurn' \in Nat
      BY <1>1, <1>t DEF Queue, NextTurn, Abort, AbortAll, HandleLeaves
    <2>2. \E what \in {"queued", "nexts", "aborts"} : Spend(what)
      BY <1>1 DEF Queue, NextTurn, Abort
    <2>3. "asides" \in DOMAIN used' /\ used'.asides = used.asides
      BY <1>t, <2>2, SpendsOne
    <2> QED BY <1>t, <2>1, <2>3, QuietKeepsAsides
  <1>2. CASE AppendMessage
    <2>1. /\ pending' = Append(pending, Aside(used.asides + 1)) /\ UNCHANGED <<session, pc, nextTurn>>
          /\ Spend("asides")
      BY <1>2 DEF AppendMessage, HandleLeaves
    <2>2. "asides" \in DOMAIN used' /\ used'.asides = used.asides + 1
      BY <1>t, <2>1, SpendsOne
    <2>3. Aside(used.asides + 1).tag = used.asides + 1
      BY Entries
    <2> DEFINE x == Aside(used.asides + 1)
    <2>4. x.tag > used.asides /\ x.tag \in 1 .. used'.asides /\ used'.asides \in Nat
          /\ used'.asides >= used.asides
      BY <1>t, <2>2, <2>3
    <2> HIDE DEF x
    <2>5. pending' = Append(pending, x)
      BY <2>1 DEF x
    <2> QED BY <2>1, <2>2, <2>4, <2>5, QueueingKeepsAsides
  <1>3. CASE SetModel
    <2>1. /\ pending' = Append(pending, ModelChange(used.models + 1)) /\ UNCHANGED <<session, pc, nextTurn>>
          /\ Spend("models")
      BY <1>3 DEF SetModel, HandleLeaves
    <2>2. "asides" \in DOMAIN used' /\ used'.asides = used.asides
      BY <1>t, <2>1, SpendsOne
    <2> DEFINE x == ModelChange(used.models + 1)
    <2>3. x.kind # "aside"
      BY Entries
    <2> HIDE DEF x
    <2>4. pending' = Append(pending, x)
      BY <2>1 DEF x
    <2> QED BY <1>t, <2>1, <2>2, <2>3, <2>4, QueueingKeepsAsides
  <1>4. CASE RequestShutdown
    <2>1. pending' = <<>> /\ UNCHANGED <<session, pc, used>> /\ nextTurn' \in Nat
      BY <1>4 DEF RequestShutdown, AbortAll, HandleLeaves
    <2>2. "asides" \in DOMAIN used' /\ used'.asides = used.asides
      BY <1>t, <2>1
    <2> QED BY <2>1, <2>2, ClearingKeepsAsides
  <1>5. CASE Prompt \/ Continue
    <2>1. UNCHANGED <<session, pending, nextTurn>> /\ Spend("prompts") /\ pc = "idle"
          /\ pc' \in {"pre", "input", "continue"}
      BY <1>5 DEF Prompt, Continue, TaskLeaves
    <2>2. "asides" \in DOMAIN used' /\ used'.asides = used.asides
      BY <1>t, <2>1, SpendsOne
    <2> QED BY <1>t, <2>1, <2>2, QuietKeepsAsides
  <1>6. CASE AppendIdle
    <2>1. session' = Append(session, Aside(0)) /\ UNCHANGED <<pending, nextTurn, pc>> /\ Spend("asides")
      BY <1>6 DEF AppendIdle, TaskLeaves
    <2>2. "asides" \in DOMAIN used' /\ used'.asides = used.asides + 1
      BY <1>t, <2>1, SpendsOne
    <2>3. Grows(session, session')
      BY <1>t, <2>1, Entries, AppendGrows
    <2> QED BY <1>t, <2>1, <2>2, <2>3, GrowthKeepsAsides
  \* A compaction in a step that may compact.
  <1>c. ASSUME UNCHANGED session \/ \E c \in Cuts : Compacts(c)
        PROVE  Grows(session, session')
    <2>1. CASE UNCHANGED session
      BY <1>t, <2>1 DEF Grows
    <2>2. ASSUME NEW c \in Cuts, Compacts(c) PROVE Grows(session, session')
      BY <2>2, CompactsGrows
    <2> QED BY <1>c, <2>1, <2>2
  <1>7. CASE PrePrompt \/ Shrink \/ Threshold
    <2>1. /\ UNCHANGED session \/ \E c \in Cuts : Compacts(c)
          /\ UNCHANGED <<pending, nextTurn, used>>
          /\ pc \notin {"written", "stored"} /\ pc' \notin {"written", "stored"}
      BY <1>7 DEF PrePrompt, Shrink, Threshold, TaskLeaves
    <2> QED BY <1>t, <1>c, <2>1, GrowthKeepsAsides
  <1>8. CASE CompactIdle
    <2>1. /\ \E c \in Cuts : Compacts(c)
          /\ UNCHANGED <<pending, nextTurn, pc>> /\ Spend("prompts")
      BY <1>8 DEF CompactIdle, TaskLeaves
    <2>2. "asides" \in DOMAIN used' /\ used'.asides = used.asides
      BY <1>t, <2>1, SpendsOne
    <2> QED BY <1>t, <1>c, <2>1, <2>2, GrowthKeepsAsides
  <1>9. CASE StartRun
    <2> DEFINE t == [i \in 1 .. (nextTurn + 1) |-> Input]
    <2>1. t \in Seq({Input}) /\ \A i \in DOMAIN t : NotQueued(t[i])
      BY <1>t, Entries
    <2>2. Said(t) /\ pc = "input" /\ pc' = "request" /\ nextTurn' = 0 /\ UNCHANGED <<pending, used>>
      BY <1>9 DEF StartRun
    <2> HIDE DEF t
    <2>3. Grows(session, session')
      BY <2>1, <2>2, SaidGrows
    <2> QED BY <1>t, <2>2, <2>3, GrowthKeepsAsides
  <1>i. <<Input>> \in Seq({Input}) /\ \A i \in DOMAIN <<Input>> : NotQueued(<<Input>>[i])
    <2>1. NotQueued(Input)
      BY Entries
    <2> QED BY <2>1
  <1>s. ASSUME Said(<<Input>>) \/ UNCHANGED session
        PROVE  Grows(session, session')
    <2>1. CASE Said(<<Input>>)
      BY <1>i, <2>1, SaidGrows
    <2>2. CASE UNCHANGED session
      BY <1>t, <2>2 DEF Grows
    <2> QED BY <1>s, <2>1, <2>2
  <1>10. CASE ContinueRun
    <2>1. /\ Said(<<Input>>) \/ UNCHANGED session
          /\ pc = "continue" /\ pc' = "request" /\ UNCHANGED <<pending, nextTurn, used>>
      BY <1>10 DEF ContinueRun
    <2> QED BY <1>t, <1>s, <2>1, GrowthKeepsAsides
  <1>11. ASSUME NEW kind \in Replies, Answer(kind)
         PROVE  Asides'
    <2> DEFINE x == Reply(kind, Context)
    <2>1. /\ Said(<<x>>) /\ pc = "request" /\ pc' \in {"ended", "boundary"} /\ UNCHANGED <<pending, nextTurn>>
          /\ UNCHANGED used \/ Spend("tools")
      BY <1>11 DEF Answer, TaskLeaves
    <2>2. NotQueued(x)
      BY Entries
    <2> HIDE DEF x
    <2>3. <<x>> \in Seq({x}) /\ \A i \in DOMAIN <<x>> : NotQueued(<<x>>[i])
      BY <2>2
    <2>4. Grows(session, session')
      BY <2>1, <2>3, SaidGrows
    <2>5. "asides" \in DOMAIN used' /\ used'.asides = used.asides
      BY <1>t, <2>1, SpendsOne
    <2> QED BY <1>t, <2>1, <2>4, <2>5, GrowthKeepsAsides
  <1>12. CASE BoundaryWrite \/ FlushWrite
    <2>1. /\ pending # <<>> /\ session' = Append(session, Head(pending))
          /\ pc \notin {"written", "stored"} /\ pc' \in {"written", "stored"}
          /\ UNCHANGED <<pending, nextTurn, used>>
      BY <1>12 DEF BoundaryWrite, FlushWrite, TaskLeaves
    <2> QED BY <2>1, WritingKeepsAsides
  <1>13. CASE BoundaryRemove \/ FlushRemove
    BY <1>13, RemovingKeepsAsides DEF BoundaryRemove, FlushRemove
  <1>14. CASE Poll
    <2>1. pc = "poll" /\ pc' \in {"ended", "request"} /\ UNCHANGED <<pending, nextTurn, used>>
      BY <1>14 DEF Poll
    <2>2. CASE Said(<<Reply("aborted", Context)>>)
      <3> DEFINE x == Reply("aborted", Context)
      <3>1. NotQueued(x)
        BY Entries DEF Replies
      <3> HIDE DEF x
      <3>2. <<x>> \in Seq({x}) /\ \A i \in DOMAIN <<x>> : NotQueued(<<x>>[i])
        BY <3>1
      <3>3. Said(<<x>>)
        BY <2>2 DEF x
      <3>4. Grows(session, session')
        BY <3>2, <3>3, SaidGrows
      <3> QED BY <1>t, <2>1, <3>4, GrowthKeepsAsides
    <2>3. CASE Said(<<Input>>) \/ UNCHANGED session
      BY <1>t, <1>s, <2>1, <2>3, GrowthKeepsAsides
    <2> QED BY <1>14, <2>2, <2>3 DEF Poll
  <1>15. CASE AppendFails \/ RevertFails \/ FlushFails
    <2>1. /\ UNCHANGED <<session, pending>> /\ Spend("faults") /\ nextTurn' \in Nat
          /\ pc \notin {"written", "stored"} /\ pc' \notin {"written", "stored"}
      BY <1>15, <1>t DEF AppendFails, RevertFails, FlushFails, TaskLeaves
    <2>2. "asides" \in DOMAIN used' /\ used'.asides = used.asides
      BY <1>t, <2>1, SpendsOne
    <2> QED BY <1>t, <2>1, <2>2, QuietKeepsAsides
  <1>16. CASE \/ CannotContinue \/ BoundaryDone \/ Revert \/ Escape \/ RunEnds \/ AutoRetry \/ NoRetry \/ Backoff
              \/ OverflowRetry \/ OverflowSilent \/ NoOverflow \/ ShrinkFails \/ DeliverQueued \/ Settled
              \/ Adopt \/ FlushDone
    <2>1. /\ UNCHANGED <<session, pending, nextTurn, used>>
          /\ pc \notin {"written", "stored"} /\ pc' \notin {"written", "stored"}
      <3>1. CASE CannotContinue \/ BoundaryDone \/ Revert \/ Escape \/ ShrinkFails
        BY <3>1 DEF CannotContinue, BoundaryDone, Revert, Escape, ShrinkFails, GiveUp, TaskLeaves
      <3>2. CASE RunEnds \/ AutoRetry \/ NoRetry \/ Backoff
        BY <3>2 DEF RunEnds, Drained, AutoRetry, DropLast, NoRetry, Backoff, TaskLeaves
      <3>3. CASE OverflowRetry \/ OverflowSilent \/ NoOverflow
        BY <3>3 DEF OverflowRetry, DropLast, OverflowSilent, NoOverflow, TaskLeaves
      <3>4. CASE DeliverQueued \/ Settled \/ Adopt \/ FlushDone
        BY <3>4 DEF DeliverQueued, Settled, Drained, Adopt, FlushDone, TaskLeaves
      <3> QED BY <1>16, <3>1, <3>2, <3>3, <3>4
    <2> QED BY <1>t, <2>1, QuietKeepsAsides
  <1>17. CASE UNCHANGED vars
    BY <1>t, <1>17, QuietKeepsAsides DEF vars
  <1> QED BY <1>1, <1>2, <1>3, <1>4, <1>5, <1>6, <1>7, <1>8, <1>9, <1>10, <1>11, <1>12, <1>13,
             <1>14, <1>15, <1>16, <1>17 DEF Next, Handle, Operation, Task

\* However the flushes at turn boundaries and after operations, the shutdowns that empty
\* the queue under them and the failed appends interleave, an aside is in the session at
\* most once and behind those queued before it.
THEOREM AsidesOnceInOrderHolds == Spec => []AsidesOnceInOrder
  <1>1. Asides => AsidesOnceInOrder
    BY DEF Asides
  <1> QED BY <1>1, AsidesInit, AsidesStep, PTL DEF Spec

-----------------------------------------------------------------------------
(* What a restore rebuilds.                                                 *)

\* Induction, as the provers take it: a nonempty set of numbers has a least one, so
\* the set of counterexamples up to a length is empty once it has no least element.
LEMMA LeastNat ==
  ASSUME NEW S, S \subseteq Nat, S # {}
  PROVE  \E m \in S : \A k \in S : m <= k
  <1>1. IsWellFoundedOn(OpToRel(<, Nat), Nat)
    BY NatLessThanWellFounded
  <1>2. PICK m \in S : \A k \in S : ~(<<k, m>> \in OpToRel(<, Nat))
    BY <1>1, WFMin
  <1>3. \A k \in S : ~(k < m)
    BY <1>2 DEF OpToRel
  <1> QED BY <1>3

LEMMA GreatestNat ==
  ASSUME NEW L \in Nat, NEW S, S \subseteq 0 .. L, S # {}
  PROVE  \E m \in S : \A k \in S : k <= m
  <1> DEFINE D == {d \in 0 .. L : L - d \in S}
  <1>1. ASSUME NEW k \in S PROVE k \in 0 .. L /\ L - k \in D
    <2> DEFINE d == L - k
    <2>1. k \in 0 .. L /\ d \in 0 .. L /\ L - d = k
      OBVIOUS
    <2> HIDE DEF d
    <2>2. d \in D
      BY <2>1
    <2> QED BY <2>1, <2>2 DEF d
  <1>2. D \subseteq Nat /\ D # {}
    <2>1. D \subseteq Nat
      OBVIOUS
    <2> HIDE DEF D
    <2> QED BY <1>1, <2>1
  <1>3. PICK d \in D : \A e \in D : d <= e
    BY <1>2, LeastNat
  <1>4. L - d \in S /\ d \in Nat
    OBVIOUS
  <1>5. ASSUME NEW k \in S PROVE k <= L - d
    <2>1. d <= L - k /\ k \in Nat
      BY <1>1, <1>3
    <2> QED BY <1>4, <2>1
  <1> QED BY <1>4, <1>5

\* What is rebuilt from a session s, as the model rebuilds it from `session'.

Boundaries(s) == {n \in DOMAIN s : s[n].kind = "compaction"}
BoundaryOf(s) == IF Boundaries(s) = {} THEN 0
                 ELSE CHOOSE n \in Boundaries(s) : \A k \in Boundaries(s) : k <= n

NextKept(s, f, n) == IF s[n].kind = "model" THEN f[n - 1] ELSE Append(f[n - 1], n)
Walk(s, b, f) == [n \in 0 .. Len(s) |-> IF n <= b THEN <<>> ELSE NextKept(s, f, n)]
LaterOf(s) == (CHOOSE f : f = Walk(s, BoundaryOf(s), f))[Len(s)]
ProjectedOf(s) ==
  LET b == BoundaryOf(s)
  IN  (IF b = 0 THEN <<>> ELSE <<b>>) \o (IF b = 0 THEN <<>> ELSE s[b].tail) \o LaterOf(s)

\* The model's projection is the one above, in this state and in the next.
LEMMA ProjectedIs == ProjectedMessages = ProjectedOf(session)
  <1>1. LastBoundary = BoundaryOf(session)
    BY DEF LastBoundary, IsBoundary, BoundaryOf, Boundaries
  <1>2. Later = LaterOf(session)
    BY <1>1 DEF Later, LaterOf, Walk, NextKept
  <1> QED BY <1>1, <1>2 DEF ProjectedMessages, ProjectedOf, Head0, Tail0

LEMMA ProjectedIsNext == ProjectedMessages' = ProjectedOf(session')
  <1>1. LastBoundary' = BoundaryOf(session')
    BY DEF LastBoundary, IsBoundary, BoundaryOf, Boundaries
  <1>2. Later' = LaterOf(session')
    BY <1>1 DEF Later, LaterOf, Walk, NextKept
  <1> QED BY <1>1, <1>2 DEF ProjectedMessages, ProjectedOf, Head0, Tail0

LEMMA BoundaryFacts ==
  ASSUME NEW s \in Seq(Entry)
  PROVE  /\ BoundaryOf(s) \in 0 .. Len(s) /\ Len(s) \in Nat
         /\ Boundaries(s) = {} => BoundaryOf(s) = 0
         /\ Boundaries(s) # {} => BoundaryOf(s) \in Boundaries(s)
         /\ \A k \in Boundaries(s) : k <= BoundaryOf(s)
         /\ BoundaryOf(s) # 0 => BoundaryOf(s) \in Boundaries(s)
  <1>1. Len(s) \in Nat /\ DOMAIN s = 1 .. Len(s)
    OBVIOUS
  <1>2. Boundaries(s) \subseteq 0 .. Len(s)
    BY <1>1 DEF Boundaries
  <1>3. CASE Boundaries(s) = {}
    BY <1>1, <1>3 DEF BoundaryOf
  <1>4. CASE Boundaries(s) # {}
    <2>1. \E n \in Boundaries(s) : \A k \in Boundaries(s) : k <= n
      BY <1>1, <1>2, <1>4, GreatestNat
    <2>2. /\ BoundaryOf(s) \in Boundaries(s)
          /\ \A k \in Boundaries(s) : k <= BoundaryOf(s)
      <3> HIDE DEF Boundaries
      <3> QED BY <1>4, <2>1 DEF BoundaryOf
    <2> QED BY <1>1, <1>2, <1>4, <2>2
  <1> QED BY <1>3, <1>4

LEMMA BoundaryAppend ==
  ASSUME NEW s \in Seq(Entry), NEW e \in Entry
  PROVE  BoundaryOf(Append(s, e)) = IF e.kind = "compaction" THEN Len(s) + 1 ELSE BoundaryOf(s)
  <1> DEFINE t == Append(s, e)
             L == Len(s)
  <1>1. /\ t \in Seq(Entry) /\ L \in Nat /\ Len(t) = L + 1 /\ t[L + 1] = e
        /\ DOMAIN s = 1 .. L /\ DOMAIN t = 1 .. (L + 1)
        /\ \A k \in 1 .. L : t[k] = s[k]
    OBVIOUS
  <1> HIDE DEF t, L
  <1>2. Boundaries(t) = Boundaries(s) \cup (IF e.kind = "compaction" THEN {L + 1} ELSE {})
    BY <1>1 DEF Boundaries
  <1>3. Boundaries(s) \subseteq 1 .. L
    BY <1>1 DEF Boundaries
  <1>4. CASE e.kind = "compaction"
    <2>1. L + 1 \in Boundaries(t)
      BY <1>2, <1>4
    <2>2. BoundaryOf(t) \in 0 .. (L + 1) /\ L + 1 <= BoundaryOf(t)
      BY <1>1, <2>1, BoundaryFacts
    <2>3. BoundaryOf(t) = L + 1
      BY <1>1, <2>2
    <2> QED BY <1>4, <2>3 DEF t, L
  <1>5. CASE e.kind # "compaction"
    <2>1. Boundaries(t) = Boundaries(s)
      BY <1>2, <1>5
    <2>2. BoundaryOf(t) = BoundaryOf(s)
      BY <2>1 DEF BoundaryOf
    <2> QED BY <1>5, <2>2 DEF t
  <1> QED BY <1>4, <1>5

\* The recursion above b, up to n.
WalkTo(s, b, f, n) ==
  /\ \A k \in 0 .. n : k <= b => f[k] = <<>>
  /\ \A k \in 1 .. n : k > b => f[k] = NextKept(s, f, k)

\* The recursion has a solution up to every length, and one only.
LEMMA WalkExists ==
  ASSUME NEW s \in Seq(Entry), NEW b \in Nat
  PROVE  \A n \in 0 .. Len(s) : \E f : WalkTo(s, b, f, n)
  <1> DEFINE Bad == {n \in 0 .. Len(s) : ~\E f : WalkTo(s, b, f, n)}
  <1>0. Len(s) \in Nat
    OBVIOUS
  <1> SUFFICES ASSUME Bad # {} PROVE FALSE
    OBVIOUS
  <1>1. Bad \subseteq Nat
    BY <1>0
  <1>2. PICK m \in Bad : \A k \in Bad : m <= k
    BY <1>1, LeastNat
  <1>3. CASE m = 0
    <2> DEFINE f == [k \in 0 .. 0 |-> <<>>]
    <2>1. WalkTo(s, b, f, 0)
      BY DEF WalkTo
    <2> QED BY <1>2, <1>3, <2>1
  <1>4. CASE m # 0
    <2>1. m \in Nat /\ m - 1 \in 0 .. Len(s) /\ m - 1 \notin Bad /\ m \in 1 .. Len(s)
      BY <1>0, <1>2, <1>4
    <2>2. PICK g : WalkTo(s, b, g, m - 1)
      BY <2>1
    <2> DEFINE f == [k \in 0 .. m |-> IF k < m THEN g[k] ELSE IF m <= b THEN <<>> ELSE NextKept(s, g, m)]
    <2>3. \A k \in 0 .. (m - 1) : f[k] = g[k]
      BY <2>1
    <2>4. f[m] = IF m <= b THEN <<>> ELSE NextKept(s, g, m)
      BY <2>1
    <2>5. \A k \in 1 .. m : NextKept(s, f, k) = NextKept(s, g, k)
      BY <2>1, <2>3 DEF NextKept
    <2> HIDE DEF f
    <2>6. ASSUME NEW k \in 0 .. m, k <= b PROVE f[k] = <<>>
      <3>1. CASE k < m
        <4>1. k \in 0 .. (m - 1)
          BY <2>1, <3>1
        <4> QED BY <2>2, <2>3, <2>6, <4>1 DEF WalkTo
      <3>2. CASE k = m
        BY <2>4, <2>6, <3>2
      <3> QED BY <2>1, <3>1, <3>2
    <2>7. ASSUME NEW k \in 1 .. m, k > b PROVE f[k] = NextKept(s, f, k)
      <3>1. CASE k < m
        <4>1. k \in 1 .. (m - 1) /\ k \in 0 .. (m - 1)
          BY <2>1, <3>1
        <4>2. g[k] = NextKept(s, g, k)
          BY <2>2, <2>7, <4>1 DEF WalkTo
        <4> QED BY <2>3, <2>5, <4>1, <4>2
      <3>2. CASE k = m
        BY <2>1, <2>4, <2>5, <2>7, <3>2
      <3> QED BY <2>1, <3>1, <3>2
    <2>8. WalkTo(s, b, f, m)
      BY <2>6, <2>7 DEF WalkTo
    <2> QED BY <1>2, <2>8
  <1> QED BY <1>3, <1>4

LEMMA WalkUnique ==
  ASSUME NEW s, NEW b \in Nat, NEW n \in Nat, NEW f, NEW g, WalkTo(s, b, f, n), WalkTo(s, b, g, n)
  PROVE  \A k \in 0 .. n : f[k] = g[k]
  <1> DEFINE Bad == {k \in 0 .. n : f[k] # g[k]}
  <1> SUFFICES ASSUME Bad # {} PROVE FALSE
    OBVIOUS
  <1>0. Bad \subseteq Nat
    OBVIOUS
  <1>1. PICK m \in Bad : \A k \in Bad : m <= k
    BY <1>0, LeastNat
  <1>2. CASE m <= b
    BY <1>1, <1>2 DEF WalkTo
  <1>3. CASE m > b
    <2>1. m \in 1 .. n /\ m - 1 \in 0 .. n /\ m - 1 \notin Bad
      BY <1>1, <1>3
    <2>2. f[m] = NextKept(s, f, m) /\ g[m] = NextKept(s, g, m) /\ f[m - 1] = g[m - 1]
      BY <1>3, <2>1 DEF WalkTo
    <2> QED BY <1>1, <2>2 DEF NextKept
  <1> QED BY <1>2, <1>3

LEMMA LaterWalks ==
  ASSUME NEW s \in Seq(Entry)
  PROVE  \E f : WalkTo(s, BoundaryOf(s), f, Len(s)) /\ LaterOf(s) = f[Len(s)]
  <1> DEFINE b == BoundaryOf(s)
  <1>0. b \in Nat /\ Len(s) \in Nat
    BY BoundaryFacts
  <1> HIDE DEF b
  <1> DEFINE f == CHOOSE h : h = Walk(s, b, h)
  <1>1. LaterOf(s) = f[Len(s)]
    BY DEF LaterOf, b
  <1>3. \E h : h = Walk(s, b, h)
    <2>1. PICK g : WalkTo(s, b, g, Len(s))
      BY <1>0, WalkExists
    <2> DEFINE h == [k \in 0 .. Len(s) |-> g[k]]
    <2>2. \A k \in 0 .. Len(s) : h[k] = g[k]
      OBVIOUS
    <2>3. ASSUME NEW k \in 0 .. Len(s)
          PROVE  g[k] = IF k <= b THEN <<>> ELSE NextKept(s, h, k)
      <3>1. CASE k <= b
        BY <2>1, <3>1 DEF WalkTo
      <3>2. CASE k > b
        <4>1. k \in 1 .. Len(s) /\ k - 1 \in 0 .. Len(s)
          BY <1>0, <3>2
        <4>2. g[k] = NextKept(s, g, k) /\ h[k - 1] = g[k - 1]
          BY <2>1, <2>2, <3>2, <4>1 DEF WalkTo
        <4> QED BY <1>0, <3>2, <4>1, <4>2 DEF NextKept
      <3> QED BY <1>0, <3>1, <3>2
    <2>4. h = Walk(s, b, h)
      BY <2>3 DEF Walk
    <2> QED BY <2>4
  <1>4. f = Walk(s, b, f)
    <2> HIDE DEF Walk
    <2> QED BY <1>3
  <1> HIDE DEF f
  <1>5. \A k \in 0 .. Len(s) : k <= b => f[k] = <<>>
    BY <1>0, <1>4 DEF Walk
  <1>6. \A k \in 1 .. Len(s) : k > b => f[k] = NextKept(s, f, k)
    BY <1>0, <1>4 DEF Walk
  <1> QED BY <1>1, <1>5, <1>6 DEF WalkTo, b

\* What an append does to the messages after the boundary.
LEMMA LaterAppend ==
  ASSUME NEW s \in Seq(Entry), NEW e \in Entry
  PROVE  LaterOf(Append(s, e)) = CASE e.kind = "compaction" -> <<>>
                                   [] e.kind = "model" -> LaterOf(s)
                                   [] e.kind \notin {"compaction", "model"} -> Append(LaterOf(s), Len(s) + 1)
  <1> DEFINE t == Append(s, e)
             L == Len(s)
             b == BoundaryOf(s)
             c == BoundaryOf(t)
  <1>1. /\ t \in Seq(Entry) /\ L \in Nat /\ Len(t) = L + 1 /\ t[L + 1] = e
        /\ \A k \in 1 .. L : t[k] = s[k]
    OBVIOUS
  <1>2. PICK f : WalkTo(s, b, f, L) /\ LaterOf(s) = f[L]
    BY <1>1, LaterWalks
  <1>3. PICK g : WalkTo(t, c, g, L + 1) /\ LaterOf(t) = g[L + 1]
    BY <1>1, LaterWalks
  <1>4. c = IF e.kind = "compaction" THEN L + 1 ELSE b
    BY BoundaryAppend
  <1>5. b \in 0 .. L
    BY BoundaryFacts
  <1> HIDE DEF t, L, b, c
  <1>6. CASE e.kind = "compaction"
    <2>1. L + 1 \in 0 .. (L + 1) /\ L + 1 <= c
      BY <1>1, <1>4, <1>6
    <2>2. LaterOf(t) = <<>>
      BY <1>3, <2>1 DEF WalkTo
    <2> QED BY <1>6, <2>2 DEF t
  <1>7. CASE e.kind # "compaction"
    <2>0. c = b
      BY <1>4, <1>7
    <2>1. ASSUME NEW k \in 0 .. L, k <= b PROVE g[k] = <<>>
      <3>1. k \in 0 .. (L + 1)
        BY <1>1
      <3> QED BY <1>3, <2>0, <2>1, <3>1 DEF WalkTo
    <2>2. ASSUME NEW k \in 1 .. L, k > b PROVE g[k] = NextKept(s, g, k)
      <3>1. k \in 1 .. (L + 1)
        BY <1>1
      <3>2. g[k] = NextKept(t, g, k)
        BY <1>3, <2>0, <2>2, <3>1 DEF WalkTo
      <3> QED BY <1>1, <3>2 DEF NextKept
    <2>3. WalkTo(s, b, g, L)
      BY <2>1, <2>2 DEF WalkTo
    <2>4. g[L] = f[L]
      BY <1>1, <1>2, <1>5, <2>3, WalkUnique
    <2>5. g[L + 1] = NextKept(t, g, L + 1)
      <3>1. L + 1 \in 1 .. (L + 1) /\ L + 1 > b
        BY <1>1, <1>5
      <3> QED BY <1>3, <2>0, <3>1 DEF WalkTo
    <2>6. NextKept(t, g, L + 1) = IF e.kind = "model" THEN g[L] ELSE Append(g[L], L + 1)
      BY <1>1 DEF NextKept
    <2>7. LaterOf(t) = IF e.kind = "model" THEN LaterOf(s) ELSE Append(LaterOf(s), L + 1)
      BY <1>2, <1>3, <2>4, <2>5, <2>6
    <2> QED BY <1>7, <2>7 DEF t, L
  <1> QED BY <1>6, <1>7

\* They are entries behind the boundary, each once and in order.
LEMMA LaterSound ==
  ASSUME NEW s \in Seq(Entry)
  PROVE  /\ LaterOf(s) \in Seq(Nat \ {0})
         /\ \A i \in DOMAIN LaterOf(s) : LaterOf(s)[i] \in (BoundaryOf(s) + 1) .. Len(s)
         /\ \A i, j \in DOMAIN LaterOf(s) : i < j => LaterOf(s)[i] < LaterOf(s)[j]
  <1> DEFINE b == BoundaryOf(s)
             Good(x, n) == /\ x \in Seq(Nat \ {0})
                           /\ \A i \in DOMAIN x : x[i] \in (b + 1) .. n
                           /\ \A i, j \in DOMAIN x : i < j => x[i] < x[j]
  <1>1. b \in Nat /\ Len(s) \in Nat
    BY BoundaryFacts
  <1>2. PICK f : WalkTo(s, b, f, Len(s)) /\ LaterOf(s) = f[Len(s)]
    BY LaterWalks
  <1> HIDE DEF b
  <1> DEFINE Bad == {k \in 0 .. Len(s) : ~Good(f[k], k)}
  <1>3. ASSUME Bad # {} PROVE FALSE
    <2>1. Bad \subseteq Nat
      BY <1>1
    <2>2. PICK m \in Bad : \A k \in Bad : m <= k
      BY <1>3, <2>1, LeastNat
    <2>3. CASE m <= b
      <3>1. f[m] = <<>>
        BY <1>2, <2>2, <2>3 DEF WalkTo
      <3>2. Good(<<>>, m)
        OBVIOUS
      <3> QED BY <2>2, <3>1, <3>2
    <2>4. CASE m > b
      <3>1. m \in Nat /\ m \in 1 .. Len(s) /\ m - 1 \in 0 .. Len(s) /\ m - 1 \notin Bad
        BY <1>1, <2>2, <2>4
      <3>2. Good(f[m - 1], m - 1) /\ f[m] = NextKept(s, f, m)
        BY <1>2, <2>4, <3>1 DEF WalkTo
      <3> DEFINE x == f[m - 1]
      <3>3. x \in Seq(Nat \ {0}) /\ Good(x, m - 1)
        BY <3>2
      <3> HIDE DEF x
      <3>4. Good(x, m)
        BY <1>1, <3>1, <3>3
      <3>5. /\ Append(x, m) \in Seq(Nat \ {0}) /\ Len(x) \in Nat /\ DOMAIN x = 1 .. Len(x)
            /\ DOMAIN Append(x, m) = 1 .. (Len(x) + 1)
            /\ \A i \in 1 .. Len(x) : Append(x, m)[i] = x[i]
            /\ Append(x, m)[Len(x) + 1] = m
        BY <3>1, <3>3
      <3>6. Good(Append(x, m), m)
        <4>1. \A i \in 1 .. Len(x) : x[i] \in (b + 1) .. (m - 1)
          BY <3>3, <3>5
        <4>2. \A i \in DOMAIN Append(x, m) : Append(x, m)[i] \in (b + 1) .. m
          BY <1>1, <2>4, <3>1, <3>5, <4>1
        <4>3. ASSUME NEW i \in DOMAIN Append(x, m), NEW j \in DOMAIN Append(x, m), i < j
              PROVE  Append(x, m)[i] < Append(x, m)[j]
          <5>1. i \in 1 .. Len(x)
            BY <3>5, <4>3
          <5>2. CASE j \in 1 .. Len(x)
            BY <3>3, <3>5, <4>3, <5>1, <5>2
          <5>3. CASE j = Len(x) + 1
            BY <1>1, <3>1, <3>5, <4>1, <5>1, <5>3
          <5> QED BY <3>5, <5>2, <5>3
        <4> QED BY <3>5, <4>2, <4>3
      <3>7. f[m] = x \/ f[m] = Append(x, m)
        BY <3>2 DEF NextKept, x
      <3> QED BY <2>2, <3>4, <3>6, <3>7
    <2> QED BY <1>1, <2>1, <2>2, <2>3, <2>4
  <1>4. Good(f[Len(s)], Len(s))
    BY <1>1, <1>3
  <1> QED BY <1>2, <1>4 DEF b

LEMMA TailTyped ==
  ASSUME NEW e \in Entry, e.kind = "compaction"
  PROVE  e.tail \in Seq(Numbers)
  BY DEF Entry, Replies

\* What of the projection stands before the messages after the boundary.
Kept(s) == IF BoundaryOf(s) = 0 THEN <<>> ELSE <<BoundaryOf(s)>> \o s[BoundaryOf(s)].tail

LEMMA KeptTyped ==
  ASSUME NEW s \in Seq(Entry)
  PROVE  /\ Kept(s) \in Seq(Numbers) /\ LaterOf(s) \in Seq(Numbers)
         /\ ProjectedOf(s) = Kept(s) \o LaterOf(s) /\ ProjectedOf(s) \in Seq(Numbers)
  <1>1. LaterOf(s) \in Seq(Numbers)
    <2>1. LaterOf(s) \in Seq(Nat \ {0})
      BY LaterSound
    <2>2. \A x \in Nat \ {0} : x \in Numbers
      BY DEF Numbers
    <2> DEFINE l == LaterOf(s)
    <2> HIDE DEF l
    <2>3. l \in Seq(Nat \ {0}) => l \in Seq(Numbers)
      BY <2>2
    <2> QED BY <2>1, <2>3 DEF l
  <1>2. CASE BoundaryOf(s) = 0
    <2> DEFINE l == LaterOf(s)
    <2>1. l \in Seq(Numbers)
      BY <1>1
    <2>2. ProjectedOf(s) = <<>> \o <<>> \o l /\ Kept(s) = <<>>
      BY <1>2 DEF ProjectedOf, Kept
    <2> HIDE DEF l
    <2>3. <<>> \o <<>> \o l = <<>> \o l /\ <<>> \in Seq(Numbers)
      BY <2>1
    <2> QED BY <1>1, <2>2, <2>3 DEF l
  <1>3. CASE BoundaryOf(s) # 0
    <2> DEFINE b == BoundaryOf(s)
    <2>1. b \in Boundaries(s) /\ b \in 1 .. Len(s)
      BY <1>3, BoundaryFacts
    <2>2. s[b].tail \in Seq(Numbers)
      BY <2>1, TailTyped DEF Boundaries
    <2>3. <<b>> \in Seq(Numbers)
      BY <2>1 DEF Numbers
    <2> QED BY <1>1, <1>3, <2>2, <2>3 DEF Kept, ProjectedOf
  <1>4. Kept(s) \in Seq(Numbers) /\ ProjectedOf(s) = Kept(s) \o LaterOf(s)
    BY <1>2, <1>3
  <1> DEFINE K == Kept(s)
             l == LaterOf(s)
  <1> HIDE DEF K, l
  <1>5. K \in Seq(Numbers) /\ l \in Seq(Numbers) => K \o l \in Seq(Numbers)
    OBVIOUS
  <1> QED BY <1>1, <1>4, <1>5 DEF K, l

\* What an append does to the projection.
LEMMA ProjectedAppend ==
  ASSUME NEW s \in Seq(Entry), NEW e \in Entry
  PROVE  /\ ProjectedOf(s) \in Seq(Numbers)
         /\ e.kind = "compaction" => ProjectedOf(Append(s, e)) = <<Len(s) + 1>> \o e.tail
         /\ e.kind = "model" => ProjectedOf(Append(s, e)) = ProjectedOf(s)
         /\ e.kind \notin {"compaction", "model"} => ProjectedOf(Append(s, e)) = Append(ProjectedOf(s), Len(s) + 1)
  <1> DEFINE t == Append(s, e)
             L == Len(s)
             b == BoundaryOf(s)
  <1>1. /\ t \in Seq(Entry) /\ L \in Nat /\ Len(t) = L + 1 /\ t[L + 1] = e
        /\ \A k \in 1 .. L : t[k] = s[k]
    OBVIOUS
  <1>2. b \in 0 .. L
    BY BoundaryFacts
  <1>3. /\ ProjectedOf(s) = Kept(s) \o LaterOf(s) /\ ProjectedOf(t) = Kept(t) \o LaterOf(t)
        /\ Kept(s) \in Seq(Numbers) /\ LaterOf(s) \in Seq(Numbers) /\ Kept(t) \in Seq(Numbers)
    BY <1>1, KeptTyped
  <1>4. BoundaryOf(t) = IF e.kind = "compaction" THEN L + 1 ELSE b
    BY BoundaryAppend
  <1>5. LaterOf(t) = CASE e.kind = "compaction" -> <<>>
                       [] e.kind = "model" -> LaterOf(s)
                       [] e.kind \notin {"compaction", "model"} -> Append(LaterOf(s), L + 1)
    BY LaterAppend
  <1>6. ProjectedOf(s) \in Seq(Numbers)
    BY <1>3
  <1> HIDE DEF t, L, b
  <1>7. CASE e.kind = "compaction"
    <2>1. Kept(t) = <<L + 1>> \o e.tail /\ LaterOf(t) = <<>>
      BY <1>1, <1>4, <1>5, <1>7 DEF Kept
    <2>2. ProjectedOf(t) = <<L + 1>> \o e.tail
      <3> DEFINE K == Kept(t)
      <3> HIDE DEF K
      <3>1. K \in Seq(Numbers) => K \o <<>> = K
        OBVIOUS
      <3> QED BY <1>3, <2>1, <3>1 DEF K
    <2> QED BY <1>6, <1>7, <2>2 DEF t, L
  <1>8. CASE e.kind # "compaction"
    <2>1. Kept(t) = Kept(s)
      <3>1. BoundaryOf(t) = b
        BY <1>4, <1>8
      <3>2. b # 0 => t[b] = s[b]
        BY <1>1, <1>2
      <3> QED BY <3>1, <3>2 DEF Kept, b
    <2>2. CASE e.kind = "model"
      <3>1. LaterOf(t) = LaterOf(s)
        BY <1>5, <2>2
      <3> QED BY <1>3, <1>6, <2>1, <2>2, <3>1 DEF t
    <2>3. CASE e.kind # "model"
      <3>1. LaterOf(t) = Append(LaterOf(s), L + 1)
        BY <1>5, <1>8, <2>3
      <3> DEFINE K == Kept(s)
                 l == LaterOf(s)
      <3>2. L + 1 \in Numbers
        BY <1>1 DEF Numbers
      <3>3. K \in Seq(Numbers) /\ l \in Seq(Numbers)
        BY <1>3
      <3>4. ProjectedOf(t) = K \o Append(l, L + 1) /\ ProjectedOf(s) = K \o l
        BY <1>3, <2>1, <3>1
      <3> HIDE DEF K, l
      <3>5. K \o Append(l, L + 1) = Append(K \o l, L + 1)
        BY <3>2, <3>3
      <3> QED BY <1>6, <1>8, <2>3, <3>4, <3>5 DEF t, L
    <2> QED BY <2>2, <2>3
  <1> QED BY <1>7, <1>8

LEMMA AppendConcat ==
  ASSUME NEW S, NEW s \in Seq(S), NEW t \in Seq(S), NEW x \in S
  PROVE  /\ s \o Append(t, x) = Append(s \o t, x)
         /\ s \o t \in Seq(S) /\ Len(s \o t) = Len(s) + Len(t)
  OBVIOUS

\* A batch of messages joins the projection as it is.
LEMMA ProjectedConcat ==
  ASSUME NEW s \in Seq(Entry), NEW es \in Seq(Entry),
         \A i \in DOMAIN es : es[i].kind \notin {"compaction", "model"}
  PROVE  ProjectedOf(s \o es) = ProjectedOf(s) \o [i \in DOMAIN es |-> Len(s) + i]
  <1> DEFINE P(k) == SubSeq(es, 1, k)
             N(k) == [i \in 1 .. k |-> Len(s) + i]
             Bad == {k \in 0 .. Len(es) : ProjectedOf(s \o P(k)) # ProjectedOf(s) \o N(k)}
  <1>1. Len(es) \in Nat /\ Len(s) \in Nat /\ P(Len(es)) = es /\ DOMAIN es = 1 .. Len(es)
    OBVIOUS
  <1>2. ProjectedOf(s) \in Seq(Numbers)
    BY KeptTyped
  <1>n. \A k \in Nat : N(k) \in Seq(Numbers)
    <2>1. \A i \in Nat \ {0} : Len(s) + i \in Numbers
      BY <1>1 DEF Numbers
    <2> QED BY <2>1
  <1>a. ASSUME Bad = {} PROVE ProjectedOf(s \o es) = ProjectedOf(s) \o [i \in DOMAIN es |-> Len(s) + i]
    <2>1. Len(es) \in 0 .. Len(es)
      BY <1>1
    <2>2. ProjectedOf(s \o P(Len(es))) = ProjectedOf(s) \o N(Len(es))
      BY <1>a, <2>1
    <2>3. N(Len(es)) = [i \in DOMAIN es |-> Len(s) + i]
      BY <1>1
    <2> HIDE DEF N
    <2> QED BY <1>1, <2>2, <2>3
  <1> SUFFICES ASSUME Bad # {} PROVE FALSE
    BY <1>a
  <1>b. Bad \subseteq Nat
    BY <1>1
  <1>3. PICK m \in Bad : \A k \in Bad : m <= k
    BY <1>b, LeastNat
  <1>4. CASE m = 0
    <2>1. P(0) = <<>> /\ N(0) = <<>>
      OBVIOUS
    <2> DEFINE Q == ProjectedOf(s)
    <2>2. Q \in Seq(Numbers)
      BY <1>2
    <2> HIDE DEF Q
    <2>3. Q \o <<>> = Q /\ s \o <<>> = s
      BY <2>2
    <2>4. ProjectedOf(s \o P(0)) = Q /\ Q \o N(0) = Q
      BY <2>1, <2>3 DEF Q
    <2> HIDE DEF P, N
    <2> QED BY <1>3, <1>4, <2>4 DEF Q
  <1>5. CASE m # 0
    <2>0. m \in 0 .. Len(es)
      OBVIOUS
    <2>1. m \in 1 .. Len(es) /\ m - 1 \in 0 .. Len(es) /\ m - 1 \notin Bad
      <3> HIDE DEF Bad
      <3> QED BY <1>1, <1>b, <1>3, <1>5, <2>0
    <2>2. ProjectedOf(s \o P(m - 1)) = ProjectedOf(s) \o N(m - 1)
      BY <2>1
    <2>3. es[m] \in Entry /\ es[m].kind \notin {"compaction", "model"}
      <3>1. m \in DOMAIN es
        BY <1>1, <2>1
      <3> HIDE DEF P, N, Bad
      <3> QED BY <3>1
    <2>4. P(m - 1) \in Seq(Entry) /\ P(m) = Append(P(m - 1), es[m]) /\ Len(P(m - 1)) = m - 1
      BY <2>1, <2>3
    <2>5. N(m) = Append(N(m - 1), Len(s) + m) /\ N(m - 1) \in Seq(Numbers)
      <3>1. m \in Nat /\ m - 1 \in Nat /\ Len(s) \in Nat
        BY <1>1, <2>1
      <3>2. N(m) = Append(N(m - 1), Len(s) + m)
        BY <3>1
      <3> QED BY <1>n, <3>1, <3>2
    <2> DEFINE A == P(m - 1)
               B == N(m - 1)
               Q == ProjectedOf(s)
    <2>6. A \in Seq(Entry) /\ B \in Seq(Numbers) /\ Q \in Seq(Numbers)
      BY <1>2, <2>4, <2>5
    <2>l. Len(A) = m - 1
      BY <2>4
    <2>7. P(m) = Append(A, es[m]) /\ N(m) = Append(B, Len(s) + m) /\ ProjectedOf(s \o A) = Q \o B
      BY <2>2, <2>4, <2>5
    <2> HIDE DEF P, N, A, B, Q, Bad
    <2>8. s \o P(m) = Append(s \o A, es[m]) /\ s \o A \in Seq(Entry) /\ Len(s \o A) = Len(s) + (m - 1)
      <3> DEFINE x == es[m]
      <3>1. x \in Entry /\ P(m) = Append(A, x)
        BY <2>3, <2>7
      <3> HIDE DEF x
      <3>2. s \o Append(A, x) = Append(s \o A, x) /\ s \o A \in Seq(Entry) /\ Len(s \o A) = Len(s) + Len(A)
        BY <2>6, <3>1
      <3> QED BY <2>l, <3>1, <3>2 DEF x
    <2>9. ProjectedOf(s \o P(m)) = Append(ProjectedOf(s \o A), Len(s \o A) + 1)
      BY <2>3, <2>8, ProjectedAppend
    <2>10. Len(s \o A) + 1 = Len(s) + m /\ Len(s) + m \in Numbers
      BY <1>1, <2>1, <2>8 DEF Numbers
    <2>11. Append(Q \o B, Len(s) + m) = Q \o Append(B, Len(s) + m)
      <3> DEFINE x == Len(s) + m
      <3>1. x \in Numbers
        BY <2>10
      <3> HIDE DEF x
      <3>2. Append(Q \o B, x) = Q \o Append(B, x)
        BY <2>6, <3>1
      <3> QED BY <3>2 DEF x
    <2>12. ProjectedOf(s \o P(m)) = Q \o N(m)
      BY <2>7, <2>9, <2>10, <2>11
    <2> QED BY <1>3, <2>12 DEF Q, Bad
  <1> QED BY <1>4, <1>5

\* Entry n is a message of the conversation.
Talk(s, n) == n > 0 /\ s[n].kind # "aside"

\* A transcript over s.
Over(s, T) == T \in Seq(Numbers) /\ \A i \in DOMAIN T : T[i] <= Len(s)

\* T's conversation is in P, each message once and in the same order.
Covered(s, T, P) ==
  \A i \in DOMAIN T : Talk(s, T[i]) =>
    /\ \E p \in DOMAIN P : P[p] = T[i]
    /\ \A j \in DOMAIN T : Talk(s, T[j]) =>
         \A p, q \in DOMAIN P : P[p] = T[i] /\ P[q] = T[j] => (i < j <=> p < q)

Distinct(s, T) == \A i, j \in DOMAIN T : Talk(s, T[i]) /\ T[i] = T[j] => i = j

LEMMA CoveredIs == RestoreCovers <=> Covered(session, transcript, ProjectedMessages)
  <1> DEFINE P == ProjectedMessages
  <1> HIDE DEF P
  <1>1. RestoreCovers <=> \A i \in {k \in DOMAIN transcript : InConversation(transcript[k])} :
          /\ {p \in DOMAIN P : P[p] = transcript[i]} # {}
          /\ \A j \in {k \in DOMAIN transcript : InConversation(transcript[k])} :
               \A p \in {r \in DOMAIN P : P[r] = transcript[i]}, q \in {r \in DOMAIN P : P[r] = transcript[j]} :
                 i < j <=> p < q
    BY DEF RestoreCovers, Covers, P
  <1> QED BY <1>1 DEF Covered, Talk, InConversation, P

\* A transcript covers itself as soon as no message of the conversation is in it twice,
\* and one that is covered has none twice: a compaction may keep any part of it.
LEMMA DistinctCovers ==
  ASSUME NEW s, NEW T \in Seq(Numbers), Distinct(s, T)
  PROVE  Covered(s, T, T)
  BY DEF Distinct, Covered

LEMMA CoveredDistinct ==
  ASSUME NEW s, NEW T \in Seq(Numbers), NEW P \in Seq(Numbers), Covered(s, T, P)
  PROVE  Distinct(s, T)
  <1> SUFFICES ASSUME NEW i \in DOMAIN T, NEW j \in DOMAIN T, Talk(s, T[i]), T[i] = T[j]
               PROVE  i = j
    BY DEF Distinct
  <1>1. PICK p \in DOMAIN P : P[p] = T[i]
    BY DEF Covered
  <1>2. (i < j <=> p < p) /\ (j < i <=> p < p)
    BY <1>1 DEF Covered
  <1>3. i \in Nat /\ j \in Nat /\ p \in Nat
    OBVIOUS
  <1> QED BY <1>2, <1>3

\* The session grows, and entries join both.
LEMMA CoveredConcat ==
  ASSUME NEW s \in Seq(Entry), NEW s2 \in Seq(Entry), Len(s) <= Len(s2), \A k \in 1 .. Len(s) : s2[k] = s[k],
         NEW T, NEW P, Over(s, T), Over(s, P), Covered(s, T, P),
         NEW u \in Seq(Numbers), NEW v \in Seq(Numbers), Covered(s2, u, v),
         \A i \in DOMAIN u : u[i] <= Len(s2) /\ (Talk(s2, u[i]) => u[i] > Len(s)),
         \A i \in DOMAIN v : v[i] > Len(s) /\ v[i] <= Len(s2)
  PROVE  /\ Over(s2, T \o u) /\ Over(s2, P \o v)
         /\ Covered(s2, T \o u, P \o v)
  <1> DEFINE X == T \o u
             Y == P \o v
             a == Len(T)
             b == Len(P)
  <1>1. T \in Seq(Numbers) /\ P \in Seq(Numbers)
    BY DEF Over
  <1>2. /\ a \in Nat /\ Len(u) \in Nat /\ DOMAIN T = 1 .. a /\ DOMAIN u = 1 .. Len(u)
        /\ X \in Seq(Numbers) /\ DOMAIN X = 1 .. (a + Len(u))
        /\ \A i \in 1 .. a : X[i] = T[i]
        /\ \A i \in 1 .. (a + Len(u)) : i > a => X[i] = u[i - a]
    BY <1>1
  <1>3. /\ b \in Nat /\ Len(v) \in Nat /\ DOMAIN P = 1 .. b /\ DOMAIN v = 1 .. Len(v)
        /\ Y \in Seq(Numbers) /\ DOMAIN Y = 1 .. (b + Len(v))
        /\ \A i \in 1 .. b : Y[i] = P[i]
        /\ \A i \in 1 .. (b + Len(v)) : i > b => Y[i] = v[i - b]
    BY <1>1
  <1>4. Len(s) \in Nat /\ Len(s2) \in Nat
    OBVIOUS
  <1> HIDE DEF X, Y, a, b
  <1>n. \A n \in Numbers : n \in Int
    BY DEF Numbers, PhantomInput, PhantomReply
  \* An entry of X comes from T or from u, one of Y from P or from v.
  <1>5. ASSUME NEW i \in DOMAIN X
        PROVE  \/ i \in DOMAIN T /\ X[i] = T[i] /\ i <= a
               \/ i - a \in DOMAIN u /\ X[i] = u[i - a] /\ i > a
    BY <1>2
  <1>6. ASSUME NEW p \in DOMAIN Y
        PROVE  \/ p \in DOMAIN P /\ Y[p] = P[p] /\ p <= b
               \/ p - b \in DOMAIN v /\ Y[p] = v[p - b] /\ p > b
    BY <1>3
  <1>t. \A i \in DOMAIN T : T[i] \in Int /\ T[i] <= Len(s) /\ T[i] <= Len(s2)
    BY <1>1, <1>4, <1>n DEF Over
  <1>p. \A i \in DOMAIN P : P[i] \in Int /\ P[i] <= Len(s) /\ P[i] <= Len(s2)
    BY <1>1, <1>4, <1>n DEF Over
  <1>u. \A i \in DOMAIN u : u[i] \in Int
    BY <1>n
  <1>v. \A i \in DOMAIN v : v[i] \in Int
    BY <1>n
  <1>7. Over(s2, X) /\ Over(s2, Y)
    <2>1. \A i \in DOMAIN X : X[i] <= Len(s2)
      BY <1>5, <1>t
    <2>2. \A i \in DOMAIN Y : Y[i] <= Len(s2)
      BY <1>6, <1>p
    <2> QED BY <1>2, <1>3, <2>1, <2>2 DEF Over
  <1>8. \A i \in DOMAIN T : Talk(s2, T[i]) <=> Talk(s, T[i])
    <2> SUFFICES ASSUME NEW i \in DOMAIN T PROVE Talk(s2, T[i]) <=> Talk(s, T[i])
      OBVIOUS
    <2>1. CASE T[i] > 0
      <3>1. T[i] \in 1 .. Len(s)
        BY <1>4, <1>t, <2>1
      <3> QED BY <3>1 DEF Talk
    <2>2. CASE ~(T[i] > 0)
      BY <2>2 DEF Talk
    <2> QED BY <2>1, <2>2
  \* Where a message of the conversation stands in Y.
  <1>9. ASSUME NEW i \in DOMAIN X, Talk(s2, X[i]), NEW p \in DOMAIN Y, Y[p] = X[i]
        PROVE  \/ /\ i \in DOMAIN T /\ X[i] = T[i] /\ Talk(s, T[i]) /\ i <= a
                  /\ p \in DOMAIN P /\ P[p] = T[i] /\ p <= b
               \/ /\ i - a \in DOMAIN u /\ X[i] = u[i - a] /\ Talk(s2, u[i - a]) /\ i > a
                  /\ p - b \in DOMAIN v /\ v[p - b] = u[i - a] /\ p > b
    <2>1. CASE i \in DOMAIN T /\ X[i] = T[i] /\ i <= a
      <3>1. ~(p - b \in DOMAIN v /\ Y[p] = v[p - b])
        BY <1>4, <1>9, <1>t, <1>v, <2>1
      <3>2. p \in DOMAIN P /\ Y[p] = P[p] /\ p <= b
        BY <1>6, <3>1
      <3> QED BY <1>8, <1>9, <2>1, <3>2
    <2>2. CASE i - a \in DOMAIN u /\ X[i] = u[i - a] /\ i > a
      <3>1. u[i - a] > Len(s)
        BY <1>9, <2>2
      <3>2. ~(p \in DOMAIN P /\ Y[p] = P[p])
        BY <1>4, <1>9, <1>p, <1>u, <2>2, <3>1
      <3>3. p - b \in DOMAIN v /\ Y[p] = v[p - b] /\ p > b
        BY <1>6, <3>2
      <3> QED BY <1>9, <2>2, <3>3
    <2> QED BY <1>5, <2>1, <2>2
  <1>10. ASSUME NEW i \in DOMAIN X, Talk(s2, X[i])
         PROVE  \E p \in DOMAIN Y : Y[p] = X[i]
    <2>1. CASE i \in DOMAIN T /\ X[i] = T[i] /\ i <= a
      <3>1. PICK p \in DOMAIN P : P[p] = T[i]
        BY <1>8, <1>10, <2>1 DEF Covered
      <3>2. p \in DOMAIN Y /\ Y[p] = P[p]
        BY <1>3
      <3> QED BY <2>1, <3>1, <3>2
    <2>2. CASE i - a \in DOMAIN u /\ X[i] = u[i - a] /\ i > a
      <3>1. PICK q \in DOMAIN v : v[q] = u[i - a]
        BY <1>10, <2>2 DEF Covered
      <3>2. q + b \in DOMAIN Y /\ Y[q + b] = v[q]
        <4>1. q \in 1 .. Len(v) /\ q + b \in 1 .. (b + Len(v)) /\ q + b > b /\ (q + b) - b = q
          BY <1>3
        <4>2. Y[q + b] = v[(q + b) - b]
          BY <1>3, <4>1
        <4> QED BY <1>3, <4>1, <4>2
      <3> QED BY <2>2, <3>1, <3>2
    <2> QED BY <1>5, <2>1, <2>2
  <1>11. ASSUME NEW i \in DOMAIN X, NEW j \in DOMAIN X, Talk(s2, X[i]), Talk(s2, X[j]),
                NEW p \in DOMAIN Y, NEW q \in DOMAIN Y, Y[p] = X[i], Y[q] = X[j]
         PROVE  i < j <=> p < q
    <2>0. i \in Nat /\ j \in Nat /\ p \in Nat /\ q \in Nat
      BY <1>2, <1>3
    <2>1. \/ /\ i \in DOMAIN T /\ X[i] = T[i] /\ Talk(s, T[i]) /\ i <= a
             /\ p \in DOMAIN P /\ P[p] = T[i] /\ p <= b
          \/ /\ i - a \in DOMAIN u /\ X[i] = u[i - a] /\ Talk(s2, u[i - a]) /\ i > a
             /\ p - b \in DOMAIN v /\ v[p - b] = u[i - a] /\ p > b
      BY <1>9, <1>11
    <2>2. \/ /\ j \in DOMAIN T /\ X[j] = T[j] /\ Talk(s, T[j]) /\ j <= a
             /\ q \in DOMAIN P /\ P[q] = T[j] /\ q <= b
          \/ /\ j - a \in DOMAIN u /\ X[j] = u[j - a] /\ Talk(s2, u[j - a]) /\ j > a
             /\ q - b \in DOMAIN v /\ v[q - b] = u[j - a] /\ q > b
      BY <1>9, <1>11
    <2>3. CASE i <= a /\ j <= a
      <3>1. /\ i \in DOMAIN T /\ Talk(s, T[i]) /\ p \in DOMAIN P /\ P[p] = T[i]
            /\ j \in DOMAIN T /\ Talk(s, T[j]) /\ q \in DOMAIN P /\ P[q] = T[j]
        BY <1>2, <2>0, <2>1, <2>2, <2>3
      <3> QED BY <3>1 DEF Covered
    <2>4. CASE i > a /\ j > a
      <3>1. /\ i - a \in DOMAIN u /\ Talk(s2, u[i - a]) /\ p - b \in DOMAIN v /\ v[p - b] = u[i - a]
            /\ j - a \in DOMAIN u /\ Talk(s2, u[j - a]) /\ q - b \in DOMAIN v /\ v[q - b] = u[j - a]
        BY <1>2, <2>0, <2>1, <2>2, <2>4
      <3>2. i - a < j - a <=> p - b < q - b
        BY <3>1 DEF Covered
      <3> QED BY <1>2, <1>3, <2>0, <3>2
    <2>5. CASE i <= a /\ j > a
      <3>1. p <= b /\ q > b
        BY <1>2, <2>0, <2>1, <2>2, <2>5
      <3> QED BY <1>2, <1>3, <2>0, <2>5, <3>1
    <2>6. CASE i > a /\ j <= a
      <3>1. p > b /\ q <= b
        BY <1>2, <2>0, <2>1, <2>2, <2>6
      <3> QED BY <1>2, <1>3, <2>0, <2>6, <3>1
    <2> QED BY <1>2, <2>0, <2>3, <2>4, <2>5, <2>6
  <1>12. Covered(s2, X, Y)
    BY <1>10, <1>11 DEF Covered
  <1> QED BY <1>7, <1>12 DEF X, Y

-----------------------------------------------------------------------------
(* Types.                                                                   *)

Mutation == [kind : {"aside", "model"}, tag : Nat]
Models   == Nat \X Nat \X Nat
Counters == [{"prompts", "tools", "queued", "nexts", "asides", "models", "faults", "aborts"} -> Nat]

FlagsTyped ==
  /\ pc \in Pcs /\ more \in BOOLEAN /\ cancelled \in BOOLEAN
  /\ backoffCancelled \in BOOLEAN /\ shutdown \in BOOLEAN /\ failed \in BOOLEAN

QueuesTyped ==
  /\ used \in Counters
  /\ queue \in Nat /\ queue <= used.queued /\ used.queued <= MaxQueued
  /\ nextTurn \in Nat /\ nextTurn <= used.nexts /\ used.nexts <= MaxNext
  /\ pending \in Seq(Mutation)
  /\ writing \in [kind : {"aside", "model", "nothing"}, tag : Nat]

StoreTyped ==
  /\ session \in Seq(Entry) /\ transcript \in Seq(Numbers)
  /\ ids \in Seq(Nat) /\ recorded \in Seq(Nat) /\ flushed \in Seq(Nat \ {0})

ModelTyped == model \in Models

LEMMA FlagsStep == FlagsTyped /\ [Next]_vars => FlagsTyped'
  <1> SUFFICES ASSUME FlagsTyped, [Next]_vars PROVE FlagsTyped'
    OBVIOUS
  <1> USE DEF FlagsTyped, Pcs, run, flags, TaskLeaves
  <1>1. CASE Handle
    BY <1>1 DEF Handle, Queue, NextTurn, AppendMessage, SetModel, Abort, RequestShutdown, AbortAll,
                HandleLeaves, Running
  <1>2. CASE Operation
    BY <1>2 DEF Operation, Prompt, Continue, AppendIdle, CompactIdle
  <1>3. CASE PrePrompt \/ StartRun \/ ContinueRun \/ CannotContinue
    BY <1>3 DEF PrePrompt, StartRun, ContinueRun, CannotContinue, FreshRun
  <1>4. ASSUME NEW kind \in Replies, Answer(kind) PROVE FlagsTyped'
    BY <1>4 DEF Answer
  <1>5. CASE BoundaryWrite \/ BoundaryRemove \/ BoundaryDone \/ Poll \/ AppendFails
    BY <1>5 DEF BoundaryWrite, BoundaryRemove, BoundaryDone, Poll, AppendFails, TakeWritten
  <1>6. CASE Revert \/ RevertFails \/ Escape \/ RunEnds \/ AutoRetry \/ NoRetry \/ Backoff
    BY <1>6 DEF Revert, RevertFails, Escape, GiveUp, RunEnds, AutoRetry, NoRetry, Backoff
  <1>7. CASE OverflowRetry \/ OverflowSilent \/ NoOverflow \/ Shrink \/ ShrinkFails
    BY <1>7 DEF OverflowRetry, OverflowSilent, NoOverflow, Shrink, ShrinkFails, GiveUp
  <1>8. CASE Threshold \/ DeliverQueued \/ Settled \/ Adopt
    BY <1>8 DEF Threshold, DeliverQueued, Settled, Adopt
  <1>9. CASE FlushWrite \/ FlushFails \/ FlushRemove \/ FlushDone
    BY <1>9 DEF FlushWrite, FlushFails, FlushRemove, FlushDone, TakeWritten
  <1>10. CASE UNCHANGED vars
    BY <1>10 DEF vars
  <1> QED BY <1>1, <1>2, <1>3, <1>4, <1>5, <1>6, <1>7, <1>8, <1>9, <1>10 DEF Next, Task

LEMMA SpendTyped ==
  ASSUME NEW what, Spend(what), used \in Counters
  PROVE  /\ used' \in Counters
         /\ what # "queued" => used'.queued = used.queued
         /\ what # "nexts" => used'.nexts = used.nexts
         /\ what = "queued" => used'.queued = used.queued + 1
         /\ what = "nexts" => used'.nexts = used.nexts + 1
  <1> DEFINE D == {"prompts", "tools", "queued", "nexts", "asides", "models", "faults", "aborts"}
  <1>1. used' = [used EXCEPT ![what] = @ + 1] /\ used \in [D -> Nat]
    BY DEF Spend, Counters
  <1>2. "queued" \in D /\ "nexts" \in D
    OBVIOUS
  <1> HIDE DEF D
  <1>4. \A x \in D : used'[x] = IF x = what THEN used[x] + 1 ELSE used[x]
    BY <1>1
  <1>3. used' \in [D -> Nat]
    <2>1. \A x \in D : used[x] \in Nat
      BY <1>1
    <2>2. \A x \in D : used'[x] \in Nat
      BY <1>4, <2>1
    <2>3. used' = [x \in D |-> IF x = what THEN used[x] + 1 ELSE used[x]]
      BY <1>1
    <2>4. \A x \in D : (IF x = what THEN used[x] + 1 ELSE used[x]) \in Nat
      BY <2>1
    <2> QED BY <2>3, <2>4
  <1>5. /\ what # "queued" => used'.queued = used.queued
        /\ what # "nexts" => used'.nexts = used.nexts
        /\ what = "queued" => used'.queued = used.queued + 1
        /\ what = "nexts" => used'.nexts = used.nexts + 1
    BY <1>2, <1>4
  <1> QED BY <1>3, <1>5 DEF Counters, D

LEMMA MutationAppend ==
  ASSUME NEW p \in Seq(Mutation)
  PROVE  /\ \A x \in Mutation : Append(p, x) \in Seq(Mutation)
         /\ p # <<>> => Tail(p) \in Seq(Mutation) /\ Head(p) \in Mutation
         /\ <<>> \in Seq(Mutation)
  OBVIOUS

LEMMA QueuesStep == QueuesTyped /\ [Next]_vars => QueuesTyped'
  <1> SUFFICES ASSUME QueuesTyped, [Next]_vars PROVE QueuesTyped'
    OBVIOUS
  <1> USE DEF shared, TaskLeaves
  <1>a. MaxQueued \in Nat /\ MaxNext \in Nat
    BY HarnessSettleAssumption
  <1>m. \A x : x \in Mutation => x \in [kind : {"aside", "model", "nothing"}, tag : Nat]
    BY DEF Mutation
  <1>t. used \in Counters /\ used.asides \in Nat /\ used.models \in Nat /\ used.queued \in Nat /\ used.nexts \in Nat
    BY DEF QueuesTyped, Counters
  <1>p. pending \in Seq(Mutation) /\ pending # <<>> => Tail(pending) \in Seq(Mutation) /\ Head(pending) \in Mutation
    BY MutationAppend DEF QueuesTyped
  \* A step that fills none of the queues.
  <1>q. ASSUME \/ UNCHANGED used
               \/ \E what \in {"prompts", "tools", "asides", "models", "faults", "aborts"} : Spend(what),
               queue' \in Nat, queue' <= queue, nextTurn' \in Nat, nextTurn' <= nextTurn,
               pending' \in Seq(Mutation), writing' \in [kind : {"aside", "model", "nothing"}, tag : Nat]
        PROVE  QueuesTyped'
    <2>1. used' \in Counters /\ used'.queued = used.queued /\ used'.nexts = used.nexts
      BY <1>q, <1>t, SpendTyped
    <2> QED BY <1>a, <1>q, <1>t, <2>1 DEF QueuesTyped
  <1>1. CASE Queue
    <2>1. /\ Spend("queued") /\ used.queued < MaxQueued /\ queue' = queue + 1
          /\ UNCHANGED <<pending, nextTurn, writing>>
      BY <1>1 DEF Queue, HandleLeaves
    <2>2. used' \in Counters /\ used'.queued = used.queued + 1 /\ used'.nexts = used.nexts
      BY <1>t, <2>1, SpendTyped
    <2> QED BY <1>a, <1>t, <2>1, <2>2 DEF QueuesTyped
  <1>2. CASE NextTurn
    <2>1. /\ Spend("nexts") /\ used.nexts < MaxNext /\ nextTurn' = nextTurn + 1
          /\ UNCHANGED <<pending, queue, writing>>
      BY <1>2 DEF NextTurn, HandleLeaves
    <2>2. used' \in Counters /\ used'.nexts = used.nexts + 1 /\ used'.queued = used.queued
      BY <1>t, <2>1, SpendTyped
    <2> QED BY <1>a, <1>t, <2>1, <2>2 DEF QueuesTyped
  <1>3. CASE AppendMessage
    <2>1. /\ Spend("asides") /\ pending' = Append(pending, Aside(used.asides + 1))
          /\ UNCHANGED <<queue, nextTurn, writing>>
      BY <1>3 DEF AppendMessage, HandleLeaves
    <2>2. Aside(used.asides + 1) \in Mutation
      BY <1>t DEF Aside, Mutation
    <2>3. pending' \in Seq(Mutation)
      BY <2>1, <2>2, MutationAppend DEF QueuesTyped
    <2> QED BY <1>q, <2>1, <2>3 DEF QueuesTyped
  <1>4. CASE SetModel
    <2>1. /\ Spend("models") /\ pending' = Append(pending, ModelChange(used.models + 1))
          /\ UNCHANGED <<queue, nextTurn, writing>>
      BY <1>4 DEF SetModel, HandleLeaves
    <2>2. ModelChange(used.models + 1) \in Mutation
      BY <1>t DEF ModelChange, Mutation
    <2>3. pending' \in Seq(Mutation)
      BY <2>1, <2>2, MutationAppend DEF QueuesTyped
    <2> QED BY <1>q, <2>1, <2>3 DEF QueuesTyped
  <1>5. CASE Abort \/ RequestShutdown
    <2>1. /\ UNCHANGED used \/ Spend("aborts")
          /\ pending' \in {pending, <<>>} /\ queue' = 0 /\ nextTurn' = 0
          /\ UNCHANGED writing
      BY <1>5 DEF Abort, RequestShutdown, AbortAll, HandleLeaves
    <2>2. pending' \in Seq(Mutation)
      BY <2>1, MutationAppend DEF QueuesTyped
    <2> QED BY <1>q, <2>1, <2>2 DEF QueuesTyped
  <1>6. CASE Operation
    <2>1. /\ \E what \in {"prompts", "asides"} : Spend(what)
          /\ UNCHANGED <<pending, queue, nextTurn, writing>>
      BY <1>6 DEF Operation, Prompt, Continue, AppendIdle, CompactIdle
    <2> QED BY <1>q, <2>1 DEF QueuesTyped
  <1>7. CASE StartRun \/ ContinueRun \/ Poll
    <2>1. /\ UNCHANGED <<used, pending, writing>> /\ nextTurn' \in {nextTurn, 0}
          /\ queue' = queue \/ (queue > 0 /\ queue' = queue - 1)
      BY <1>7 DEF StartRun, ContinueRun, Poll
    <2>2. queue' \in Nat /\ queue' <= queue /\ nextTurn' \in Nat /\ nextTurn' <= nextTurn
      BY <2>1 DEF QueuesTyped
    <2> QED BY <1>q, <2>1, <2>2 DEF QueuesTyped
  <1>8. ASSUME NEW kind \in Replies, Answer(kind) PROVE QueuesTyped'
    <2>1. /\ UNCHANGED used \/ Spend("tools")
          /\ UNCHANGED <<pending, queue, nextTurn, writing>>
      BY <1>8 DEF Answer
    <2> QED BY <1>q, <2>1 DEF QueuesTyped
  <1>9. CASE BoundaryWrite \/ FlushWrite
    <2>1. UNCHANGED <<used, pending, queue, nextTurn>> /\ pending # <<>> /\ writing' = Head(pending)
      BY <1>9 DEF BoundaryWrite, FlushWrite
    <2>2. writing' \in [kind : {"aside", "model", "nothing"}, tag : Nat]
      BY <1>m, <1>p, <2>1 DEF QueuesTyped
    <2> QED BY <1>q, <2>1, <2>2 DEF QueuesTyped
  <1>10. CASE BoundaryRemove \/ FlushRemove
    <2>1. /\ UNCHANGED <<used, queue, nextTurn>> /\ writing' = Nothing
          /\ (pending = <<>> /\ UNCHANGED pending) \/ (pending # <<>> /\ pending' = Tail(pending))
      BY <1>10 DEF BoundaryRemove, FlushRemove, TakeWritten
    <2>2. pending' \in Seq(Mutation)
      BY <1>p, <2>1 DEF QueuesTyped
    <2>3. Nothing \in [kind : {"aside", "model", "nothing"}, tag : Nat]
      BY DEF Nothing
    <2> QED BY <1>q, <2>1, <2>2, <2>3 DEF QueuesTyped
  <1>11. CASE AppendFails \/ RevertFails \/ FlushFails
    <2>1. Spend("faults") /\ nextTurn' \in {nextTurn, 0} /\ UNCHANGED <<pending, queue, writing>>
      BY <1>11 DEF AppendFails, RevertFails, FlushFails
    <2>2. nextTurn' \in Nat /\ nextTurn' <= nextTurn
      BY <2>1 DEF QueuesTyped
    <2> QED BY <1>q, <2>1, <2>2 DEF QueuesTyped
  <1>12. CASE \/ PrePrompt \/ CannotContinue \/ BoundaryDone \/ Revert \/ Escape \/ RunEnds \/ AutoRetry \/ NoRetry
              \/ Backoff \/ OverflowRetry \/ OverflowSilent \/ NoOverflow \/ Shrink \/ ShrinkFails \/ Threshold
              \/ DeliverQueued \/ Settled \/ Adopt \/ FlushDone \/ UNCHANGED vars
    <2>1. UNCHANGED <<used, pending, queue, nextTurn, writing>>
      <3>1. CASE PrePrompt \/ CannotContinue \/ BoundaryDone \/ Revert \/ Escape \/ RunEnds
        BY <3>1 DEF PrePrompt, CannotContinue, BoundaryDone, Revert, Escape, GiveUp, RunEnds
      <3>2. CASE AutoRetry \/ NoRetry \/ Backoff \/ OverflowRetry \/ OverflowSilent \/ NoOverflow
        BY <3>2 DEF AutoRetry, NoRetry, Backoff, OverflowRetry, OverflowSilent, NoOverflow
      <3>3. CASE Shrink \/ ShrinkFails \/ Threshold \/ DeliverQueued \/ Settled \/ Adopt \/ FlushDone
        BY <3>3 DEF Shrink, ShrinkFails, GiveUp, Threshold, DeliverQueued, Settled, Adopt, FlushDone
      <3>4. CASE UNCHANGED vars
        BY <3>4 DEF vars
      <3> QED BY <1>12, <3>1, <3>2, <3>3, <3>4
    <2> QED BY <1>q, <2>1 DEF QueuesTyped
  <1> QED BY <1>1, <1>2, <1>3, <1>4, <1>5, <1>6, <1>7, <1>8, <1>9, <1>10, <1>11, <1>12
          DEF Next, Handle, Task

\* The models: every tag on the path and in the queue is one.
LEMMA TripleTyped ==
  ASSUME NEW m \in Models, NEW x \in Nat
  PROVE  /\ m[1] \in Nat /\ m[2] \in Nat /\ m[3] \in Nat
         /\ [m EXCEPT ![1] = x] \in Models /\ [m EXCEPT ![3] = x] \in Models
         /\ <<x, x, x>> \in Models
  BY DEF Models

LEMMA TagTyped ==
  ASSUME NEW e \in Entry, e.kind \in Replies \cup {"model"}
  PROVE  e.tag \in Nat
  BY DEF Entry, Replies

LEMMA PathModelTyped ==
  ASSUME session \in Seq(Entry)
  PROVE  PathModel \in Nat
  <1> DEFINE W == {n \in DOMAIN session : session[n].kind \in Replies \cup {"model"}}
  <1>1. Len(session) \in Nat /\ DOMAIN session = 1 .. Len(session)
    OBVIOUS
  <1>2. CASE W = {}
    BY <1>2 DEF PathModel
  <1>3. CASE W # {}
    <2>1. W \subseteq 0 .. Len(session)
      BY <1>1
    <2>2. \A n \in W : session[n] \in Entry /\ session[n].kind \in Replies \cup {"model"}
      OBVIOUS
    <2>3. \A n \in W : session[n].tag \in Nat
      BY <2>2, TagTyped
    <2>4. PathModel = session[CHOOSE n \in W : \A k \in W : k <= n].tag
      BY <1>3 DEF PathModel
    <2> HIDE DEF W
    <2>5. \E n \in W : \A k \in W : k <= n
      BY <1>1, <1>3, <2>1, GreatestNat
    <2>6. (CHOOSE n \in W : \A k \in W : k <= n) \in W
      BY <2>5
    <2> QED BY <2>3, <2>4, <2>6
  <1> QED BY <1>2, <1>3

LEMMA PickTyped ==
  ASSUME NEW p \in Seq(Mutation), {i \in DOMAIN p : p[i].kind = "model"} # {}
  PROVE  p[Max({i \in DOMAIN p : p[i].kind = "model"})].tag \in Nat
  <1> DEFINE W == {i \in DOMAIN p : p[i].kind = "model"}
  <1>1. Len(p) \in Nat /\ DOMAIN p = 1 .. Len(p)
    OBVIOUS
  <1>2. W \subseteq 0 .. Len(p) /\ W # {} /\ W \subseteq DOMAIN p
    BY <1>1
  <1> HIDE DEF W
  <1>3. PICK n \in W : \A k \in W : k <= n
    BY <1>1, <1>2, GreatestNat
  <1>4. \A k \in W : n >= k
    BY <1>1, <1>2, <1>3
  <1>5. Max(W) \in W
    BY <1>4 DEF Max
  <1>6. \A i \in DOMAIN p : p[i].tag \in Nat
    <2>1. \A i \in DOMAIN p : p[i] \in Mutation
      OBVIOUS
    <2>2. \A x \in Mutation : x.tag \in Nat
      BY DEF Mutation
    <2> QED BY <2>1, <2>2
  <1> QED BY <1>2, <1>5, <1>6 DEF W

LEMMA ModelStep == StoreTyped /\ QueuesTyped /\ ModelTyped /\ [Next]_vars => ModelTyped'
  <1> SUFFICES ASSUME StoreTyped, QueuesTyped, ModelTyped, [Next]_vars PROVE ModelTyped'
    OBVIOUS
  <1> USE DEF shared, TaskLeaves
  <1>t. model \in Models /\ Snapshot \in Nat /\ Owned \in Nat /\ Context \in Nat
    BY TripleTyped DEF ModelTyped, Snapshot, Owned, Context
  <1>1. CASE SetModel
    <2>1. model' = [model EXCEPT ![1] = used.models + 1] /\ used.models + 1 \in Nat
      BY <1>1 DEF SetModel, QueuesTyped, Counters
    <2> QED BY <1>t, <2>1, TripleTyped DEF ModelTyped
  <1>2. CASE Prompt \/ Continue \/ (RunEnds /\ model' # model)
    <2>1. model' = <<Snapshot, Snapshot, Snapshot>>
      BY <1>2 DEF Prompt, Continue, RunEnds, Adopted
    <2> QED BY <1>t, <2>1, TripleTyped DEF ModelTyped
  <1>3. CASE ContinueRun \/ BoundaryDone
    <2>1. \E x \in {Owned, Snapshot} : model' = [model EXCEPT ![3] = x]
      BY <1>3 DEF ContinueRun, BoundaryDone
    <2> QED BY <1>t, <2>1, TripleTyped DEF ModelTyped
  <1>4. CASE Revert
    <2> DEFINE W == {i \in DOMAIN pending : pending[i].kind = "model"}
    <2>1. model' = <<IF W = {} THEN PathModel ELSE pending[Max(W)].tag, PathModel, PathModel>>
      BY <1>4 DEF Revert
    <2>2. PathModel \in Nat
      BY PathModelTyped DEF StoreTyped
    <2>3. W # {} => pending[Max(W)].tag \in Nat
      BY PickTyped DEF QueuesTyped
    <2> HIDE DEF W
    <2>4. \E x, y \in Nat : model' = <<x, y, y>>
      BY <2>1, <2>2, <2>3
    <2> QED BY <2>4 DEF ModelTyped, Models
  <1>5. CASE UNCHANGED model
    BY <1>5 DEF ModelTyped
  <1>6. CASE Queue \/ NextTurn \/ AppendMessage \/ Abort \/ RequestShutdown \/ AppendIdle \/ CompactIdle
    BY <1>5, <1>6 DEF Queue, NextTurn, AppendMessage, Abort, RequestShutdown, AppendIdle, CompactIdle
  <1>7. CASE PrePrompt \/ StartRun \/ CannotContinue \/ BoundaryWrite \/ BoundaryRemove \/ Poll \/ AppendFails
              \/ RevertFails \/ Escape
    BY <1>5, <1>7 DEF PrePrompt, StartRun, CannotContinue, BoundaryWrite, BoundaryRemove, TakeWritten, Poll,
                      AppendFails, RevertFails, Escape, GiveUp
  <1>8. ASSUME NEW kind \in Replies, Answer(kind) PROVE ModelTyped'
    BY <1>5, <1>8 DEF Answer
  <1>9. CASE RunEnds \/ AutoRetry \/ NoRetry \/ Backoff \/ OverflowRetry \/ OverflowSilent \/ NoOverflow
    BY <1>2, <1>5, <1>9 DEF AutoRetry, NoRetry, Backoff, OverflowRetry, OverflowSilent, NoOverflow
  <1>10. CASE \/ Shrink \/ ShrinkFails \/ Threshold \/ DeliverQueued \/ Settled \/ Adopt \/ FlushWrite
              \/ FlushFails \/ FlushRemove \/ FlushDone \/ UNCHANGED vars
    BY <1>5, <1>10 DEF Shrink, ShrinkFails, GiveUp, Threshold, DeliverQueued, Settled, Adopt, FlushWrite,
                       FlushFails, FlushRemove, FlushDone, TakeWritten, vars
  <1> QED BY <1>1, <1>2, <1>3, <1>4, <1>6, <1>7, <1>8, <1>9, <1>10 DEF Next, Handle, Operation, Task

\* The entries a harness writes.
LEMMA EntryTyped ==
  /\ Input \in Entry /\ Input.kind = "user" /\ Aside(0) \in Entry /\ Aside(0).kind = "aside"
  /\ \A kind \in Replies, m \in Nat : Reply(kind, m) \in Entry /\ Reply(kind, m).kind = kind
  /\ \A x \in Mutation : x \in Entry /\ x.kind \in {"aside", "model"}
  /\ \A first \in Nat, tail \in Seq(Numbers) :
       /\ Boundary(first, tail) \in Entry /\ Boundary(first, tail).kind = "compaction"
       /\ Boundary(first, tail).tail = tail
  <1>1. Input \in Entry /\ Input.kind = "user" /\ Aside(0) \in Entry /\ Aside(0).kind = "aside"
    BY DEF Input, Aside, Entry
  <1>2. \A kind \in Replies, m \in Nat : Reply(kind, m) \in Entry /\ Reply(kind, m).kind = kind
    BY DEF Reply, Entry
  <1>3. \A x \in Mutation : x \in Entry /\ x.kind \in {"aside", "model"}
    BY DEF Mutation, Entry
  <1>4. \A first \in Nat, tail \in Seq(Numbers) :
          /\ Boundary(first, tail) \in Entry /\ Boundary(first, tail).kind = "compaction"
          /\ Boundary(first, tail).tail = tail
    BY DEF Boundary, Entry
  <1> QED BY <1>1, <1>2, <1>3, <1>4

LEMMA NumberTyped == /\ \A n \in Nat : n + 1 \in Numbers /\ n + 1 \in Nat \ {0}
                     /\ \A n \in Numbers : n \in Int
                     /\ PhantomInput \in Numbers /\ PhantomReply \in Numbers
                     /\ ~(PhantomInput > 0) /\ ~(PhantomReply > 0)
  BY DEF Numbers, PhantomInput, PhantomReply

\* What a compaction leaves: the boundary and a suffix of the transcript.
LEMMA CompactsTyped ==
  ASSUME StoreTyped, NEW c \in Cuts, Compacts(c)
  PROVE  \E first \in Nat, kept \in Seq(Numbers) :
           /\ session' = Append(session, Boundary(first, kept))
           /\ transcript' = <<Len(session) + 1>> \o kept
           /\ \A i \in DOMAIN kept : (c - 1) + i \in DOMAIN transcript /\ kept[i] = transcript[(c - 1) + i]
           /\ c - 1 \in Nat
           /\ ids' \in Seq(Nat) /\ UNCHANGED <<recorded, flushed>>
  <1> DEFINE kept == SubSeq(transcript, c, Len(transcript))
             L == Len(transcript)
  <1>1. transcript \in Seq(Numbers) /\ L \in Nat /\ ids \in Seq(Nat)
    BY DEF StoreTyped
  <1>2. c \in 2 .. (L + 1)
    BY <1>1 DEF Cuts
  <1>3. \A i \in Int : IdAt(i) \in Nat
    BY <1>1 DEF IdAt
  <1>4. /\ kept \in Seq(Numbers) /\ Len(kept) \in Nat /\ DOMAIN kept = 1 .. Len(kept) /\ Len(kept) = L - (c - 1)
        /\ \A i \in 1 .. Len(kept) : kept[i] = transcript[(c - 1) + i]
    BY <1>1, <1>2
  <1>5. /\ session' = Append(session, Boundary(IdAt(c), kept)) /\ transcript' = <<Len(session) + 1>> \o kept
        /\ ids' = <<0>> \o [i \in DOMAIN kept |-> IdAt(c - 1 + i)]
        /\ UNCHANGED <<recorded, flushed>>
    BY DEF Compacts
  <1> HIDE DEF kept, L
  <1>6. ids' \in Seq(Nat)
    <2> DEFINE x == [i \in DOMAIN kept |-> IdAt(c - 1 + i)]
    <2>1. \A i \in 1 .. Len(kept) : IdAt(c - 1 + i) \in Nat
      BY <1>2, <1>3, <1>4
    <2>2. x \in Seq(Nat)
      BY <1>4, <2>1
    <2> HIDE DEF x
    <2>3. <<0>> \o x \in Seq(Nat)
      BY <2>2
    <2> QED BY <1>5, <2>3 DEF x
  <1>7. IdAt(c) \in Nat
    BY <1>2, <1>3
  <1>8. ASSUME NEW i \in DOMAIN kept PROVE (c - 1) + i \in DOMAIN transcript /\ kept[i] = transcript[(c - 1) + i]
    <2>1. DOMAIN transcript = 1 .. L
      BY <1>1 DEF L
    <2> QED BY <1>1, <1>2, <1>4, <2>1
  <1>9. c - 1 \in Nat
    BY <1>1, <1>2
  <1> QED BY <1>4, <1>5, <1>6, <1>7, <1>8, <1>9

LEMMA ConcatTyped ==
  ASSUME NEW S, NEW s \in Seq(S), NEW t \in Seq(S)
  PROVE  s \o t \in Seq(S)
  OBVIOUS

LEMMA SaidTyped ==
  ASSUME StoreTyped, NEW es \in Seq(Entry), Said(es)
  PROVE  StoreTyped'
  <1> DEFINE new == [i \in DOMAIN es |-> Len(session) + i]
  <1>1. Len(session) \in Nat /\ Len(es) \in Nat /\ DOMAIN es = 1 .. Len(es)
    BY DEF StoreTyped
  <1>2. \A i \in 1 .. Len(es) : Len(session) + i \in Nat /\ Len(session) + i \in Numbers
    BY <1>1 DEF Numbers
  <1>3. new \in Seq(Nat) /\ new \in Seq(Numbers)
    BY <1>1, <1>2
  <1>4. /\ session' = session \o es /\ transcript' = transcript \o new /\ recorded' = recorded \o new
        /\ UNCHANGED <<ids, flushed>>
    BY DEF Said
  <1> HIDE DEF new
  <1> QED BY <1>3, <1>4, ConcatTyped DEF StoreTyped

\* What is rebuilt is typed, its ids too.
LEMMA RebuiltTyped ==
  ASSUME session \in Seq(Entry)
  PROVE  ProjectedMessages \in Seq(Numbers) /\ ProjectedIds \in Seq(Nat)
  <1>1. ProjectedMessages \in Seq(Numbers)
    BY ProjectedIs, KeptTyped
  <1>2. LastBoundary = BoundaryOf(session) /\ Later = LaterOf(session)
    <2>1. LastBoundary = BoundaryOf(session)
      BY DEF LastBoundary, IsBoundary, BoundaryOf, Boundaries
    <2> QED BY <2>1 DEF Later, LaterOf, Walk, NextKept
  <1>3. LastBoundary \in Nat /\ Later \in Seq(Nat \ {0})
    BY <1>2, BoundaryFacts, LaterSound
  <1>4. Head0 \in Seq(Nat)
    BY <1>3 DEF Head0
  <1>5. Tail0 \in Seq(Numbers)
    <2>1. CASE LastBoundary = 0
      BY <2>1 DEF Tail0
    <2>2. CASE LastBoundary # 0
      <3>1. LastBoundary \in Boundaries(session)
        BY <1>2, <2>2, BoundaryFacts
      <3>2. session[LastBoundary].tail \in Seq(Numbers)
        BY <3>1, TailTyped DEF Boundaries
      <3> QED BY <2>2, <3>2 DEF Tail0
    <2> QED BY <2>1, <2>2
  <1> DEFINE z == [i \in DOMAIN Tail0 |-> 0]
             h == Head0
             l == Later
  <1>6. z \in Seq(Nat)
    <2> DEFINE t == Tail0
    <2> HIDE DEF t
    <2>1. t \in Seq(Numbers) => [i \in DOMAIN t |-> 0] \in Seq(Nat)
      OBVIOUS
    <2> QED BY <1>5, <2>1 DEF t
  <1>7. ProjectedIds = h \o z \o l
    BY DEF ProjectedIds
  <1>8. l \in Seq(Nat)
    <2> HIDE DEF l
    <2>1. l \in Seq(Nat \ {0}) => l \in Seq(Nat)
      OBVIOUS
    <2> QED BY <1>3, <2>1 DEF l
  <1>9. h \in Seq(Nat)
    BY <1>4
  <1> HIDE DEF z, h, l
  <1>10. h \o z \o l \in Seq(Nat)
    BY <1>6, <1>8, <1>9
  <1> QED BY <1>1, <1>7, <1>10

LEMMA AppendsTyped ==
  ASSUME StoreTyped, NEW e \in Entry
  PROVE  /\ Len(session) \in Nat
         /\ Append(session, e) \in Seq(Entry) /\ Len(Append(session, e)) = Len(session) + 1
         /\ Append(session, e)[Len(session) + 1] = e
         /\ \A k \in 1 .. Len(session) : Append(session, e)[k] = session[k]
         /\ Append(transcript, Len(session) + 1) \in Seq(Numbers)
         /\ Append(ids, Len(session) + 1) \in Seq(Nat)
         /\ Append(flushed, Len(session) + 1) \in Seq(Nat \ {0})
  <1> DEFINE n == Len(session) + 1
  <1>1. n \in Numbers /\ n \in Nat /\ n \in Nat \ {0} /\ Len(session) \in Nat
    BY DEF StoreTyped, Numbers
  <1>2. Append(session, e) \in Seq(Entry) /\ Append(session, e)[Len(session) + 1] = e
        /\ Len(Append(session, e)) = Len(session) + 1
        /\ \A k \in 1 .. Len(session) : Append(session, e)[k] = session[k]
    BY DEF StoreTyped
  <1> HIDE DEF n
  <1>3. Append(transcript, n) \in Seq(Numbers) /\ Append(ids, n) \in Seq(Nat) /\ Append(flushed, n) \in Seq(Nat \ {0})
    BY <1>1 DEF StoreTyped
  <1> QED BY <1>1, <1>2, <1>3 DEF n

LEMMA AdoptTyped ==
  ASSUME StoreTyped
  PROVE  /\ transcript \o flushed \in Seq(Numbers) /\ ids \o flushed \in Seq(Nat) /\ ids \o recorded \in Seq(Nat)
         /\ flushed \in Seq(Numbers) /\ <<>> \in Seq(Nat) /\ <<>> \in Seq(Nat \ {0})
  <1>1. \A f : f \in Seq(Nat \ {0}) => f \in Seq(Numbers) /\ f \in Seq(Nat)
    BY DEF Numbers
  <1>2. flushed \in Seq(Numbers) /\ flushed \in Seq(Nat)
    BY <1>1 DEF StoreTyped
  <1> QED BY <1>2, ConcatTyped DEF StoreTyped

LEMMA FrontTyped ==
  ASSUME NEW S, NEW s \in Seq(S)
  PROVE  /\ Front(s) \in Seq(S)
         /\ \A i \in DOMAIN Front(s) : i \in DOMAIN s /\ Front(s)[i] = s[i]
  BY DEF Front

LEMMA CompactsStore ==
  ASSUME StoreTyped, NEW c \in Cuts, Compacts(c)
  PROVE  StoreTyped'
  <1>1. PICK first \in Nat, kept \in Seq(Numbers) :
           /\ session' = Append(session, Boundary(first, kept))
           /\ transcript' = <<Len(session) + 1>> \o kept
           /\ ids' \in Seq(Nat) /\ UNCHANGED <<recorded, flushed>>
    BY CompactsTyped
  <1>2. Boundary(first, kept) \in Entry
    BY EntryTyped
  <1>3. session' \in Seq(Entry) /\ Len(session) \in Nat
    BY <1>1, <1>2, AppendsTyped
  <1>4. <<Len(session) + 1>> \in Seq(Numbers)
    BY <1>3 DEF Numbers
  <1>5. transcript' \in Seq(Numbers)
    BY <1>1, <1>4, ConcatTyped
  <1> QED BY <1>1, <1>3, <1>5 DEF StoreTyped

\* The batches a run says are inputs and replies.
Batch(es) == es \in Seq(Entry) /\ \A i \in DOMAIN es : es[i].kind \notin {"compaction", "model"}

LEMMA Batches ==
  ASSUME QueuesTyped, ModelTyped
  PROVE  /\ Batch([i \in 1 .. (nextTurn + 1) |-> Input]) /\ Batch(<<Input>>)
         /\ \A kind \in Replies : Batch(<<Reply(kind, Context)>>)
         /\ "aborted" \in Replies
  <1>1. nextTurn + 1 \in Nat /\ Context \in Nat
    <2>1. nextTurn + 1 \in Nat
      BY DEF QueuesTyped
    <2>2. model \in Models /\ 0 \in Nat
      BY DEF ModelTyped
    <2> QED BY <2>1, <2>2, TripleTyped DEF Context
  <1>2. Input \in Entry /\ Input.kind \notin {"compaction", "model"}
    BY EntryTyped
  <1>3. \A x \in Entry : x.kind \notin {"compaction", "model"} => Batch(<<x>>)
    BY DEF Batch
  <1>4. Batch([i \in 1 .. (nextTurn + 1) |-> Input])
    <2> DEFINE x == Input
    <2>1. x \in Entry /\ x.kind \notin {"compaction", "model"}
      BY <1>2
    <2> HIDE DEF x
    <2>2. Batch([i \in 1 .. (nextTurn + 1) |-> x])
      BY <1>1, <2>1 DEF Batch
    <2> QED BY <2>2 DEF x
  <1>5. \A kind \in Replies : Reply(kind, Context) \in Entry /\ Reply(kind, Context).kind \notin {"compaction", "model"}
    BY <1>1, EntryTyped DEF Replies
  <1>6. "aborted" \in Replies
    BY DEF Replies
  <1> QED BY <1>2, <1>3, <1>4, <1>5, <1>6

\* The ways a step treats the store.
Says     == \E es : Batch(es) /\ Said(es)
Compacted == \E c \in Cuts : Compacts(c)
Drops    == DropLast
AppendsAside == /\ session' = Append(session, Aside(0))
                /\ transcript' = Append(transcript, Len(session) + 1)
                /\ ids' = Append(ids, Len(session) + 1)
                /\ UNCHANGED <<recorded, flushed, pending>>
Writes(h) == /\ h \in Mutation
             /\ session' = Append(session, h) /\ UNCHANGED pending
             /\ \/ /\ h.kind = "aside" /\ flushed' = Append(flushed, Len(session) + 1)
                   /\ UNCHANGED <<transcript, ids, recorded>>
                \/ h.kind # "aside" /\ UNCHANGED <<transcript, ids, recorded, flushed>>
                \/ /\ h.kind = "aside" /\ transcript' = Append(transcript, Len(session) + 1)
                   /\ ids' = Append(ids, Len(session) + 1) /\ UNCHANGED <<recorded, flushed>>
Fails    == /\ \E x \in {PhantomInput, PhantomReply} : transcript' = Append(transcript, x)
            /\ UNCHANGED <<session, ids, recorded, flushed>>
Reverts  == transcript' = ProjectedMessages /\ ids' = ProjectedIds /\ recorded' = <<>> /\ UNCHANGED <<session, flushed>>
Merges   == Drained /\ UNCHANGED <<session, transcript, flushed>>
Adopts   == /\ transcript' = transcript \o flushed /\ ids' = ids \o flushed /\ flushed' = <<>>
            /\ UNCHANGED <<session, recorded>>

LEMMA StoreCases ==
  ASSUME StoreTyped, QueuesTyped, ModelTyped, [Next]_vars
  PROVE  \/ Says \/ Compacted \/ Drops \/ AppendsAside \/ (\E h : Writes(h)) \/ Fails \/ Reverts \/ Merges \/ Adopts
         \/ UNCHANGED store
  <1> USE DEF store
  <1>1. CASE Handle \/ UNCHANGED vars
    BY <1>1 DEF Handle, Queue, NextTurn, AppendMessage, SetModel, Abort, RequestShutdown, HandleLeaves, vars
  <1>2. CASE Operation
    BY <1>2 DEF Operation, Prompt, Continue, AppendIdle, CompactIdle, AppendsAside, Compacted, TaskLeaves, shared
  <1>3. CASE PrePrompt \/ Shrink \/ Threshold
    BY <1>3 DEF PrePrompt, Shrink, Threshold, Compacted
  <1>4. CASE StartRun
    BY <1>4, Batches DEF StartRun, Says
  <1>5. CASE ContinueRun
    BY <1>5, Batches DEF ContinueRun, Says
  <1>6. ASSUME NEW kind \in Replies, Answer(kind) PROVE Says
    BY <1>6, Batches DEF Answer, Says
  <1>7. CASE Poll
    <2>1. Said(<<Reply("aborted", Context)>>) \/ Said(<<Input>>) \/ UNCHANGED store
      BY <1>7 DEF Poll
    <2> QED BY <2>1, Batches DEF Says
  <1>8. CASE BoundaryWrite \/ FlushWrite
    <2> DEFINE h == Head(pending)
    <2>1. h \in Mutation
      BY <1>8, MutationAppend DEF QueuesTyped, BoundaryWrite, FlushWrite
    <2>2. CASE BoundaryWrite
      <3>1. /\ session' = Append(session, h) /\ UNCHANGED <<pending, transcript, ids, recorded>>
            /\ flushed' = IF h.kind = "aside" THEN Append(flushed, Len(session) + 1) ELSE flushed
        BY <2>2 DEF BoundaryWrite, TaskLeaves, shared
      <3> HIDE DEF h
      <3>2. Writes(h)
        BY <2>1, <3>1 DEF Writes
      <3> QED BY <3>2
    <2>3. CASE FlushWrite
      <3>1. /\ session' = Append(session, h) /\ UNCHANGED <<pending, recorded, flushed>>
            /\ transcript' = transcript \o (IF h.kind = "aside" THEN <<Len(session) + 1>> ELSE <<>>)
            /\ ids' = ids \o (IF h.kind = "aside" THEN <<Len(session) + 1>> ELSE <<>>)
        BY <2>3 DEF FlushWrite, TaskLeaves, shared
      <3> HIDE DEF h
      <3>2. \A s \in Seq(Int), x \in Int : s \o <<x>> = Append(s, x) /\ s \o <<>> = s
        OBVIOUS
      <3>3. Len(session) + 1 \in Int /\ transcript \in Seq(Int) /\ ids \in Seq(Int)
        <4>1. \A s : s \in Seq(Numbers) \/ s \in Seq(Nat) => s \in Seq(Int)
          BY NumberTyped
        <4> QED BY <4>1 DEF StoreTyped
      <3>4. Writes(h)
        <4>1. CASE h.kind = "aside"
          <5>1. transcript' = Append(transcript, Len(session) + 1) /\ ids' = Append(ids, Len(session) + 1)
            BY <3>1, <3>2, <3>3, <4>1
          <5> QED BY <2>1, <3>1, <4>1, <5>1 DEF Writes
        <4>2. CASE h.kind # "aside"
          <5>1. UNCHANGED <<transcript, ids>>
            BY <3>1, <3>2, <3>3, <4>2
          <5> QED BY <2>1, <3>1, <4>2, <5>1 DEF Writes
        <4> QED BY <4>1, <4>2
      <3> QED BY <3>4
    <2> QED BY <1>8, <2>2, <2>3
  <1>9. CASE AppendFails
    BY <1>9 DEF AppendFails, Fails
  <1>10. CASE Revert
    BY <1>10 DEF Revert, Reverts
  <1>11. CASE AutoRetry \/ OverflowRetry
    BY <1>11 DEF AutoRetry, OverflowRetry, Drops
  <1>12. CASE RunEnds \/ Settled
    BY <1>12 DEF RunEnds, Settled, Merges
  <1>13. CASE Adopt
    BY <1>13 DEF Adopt, Adopts
  <1>14. CASE \/ CannotContinue \/ BoundaryRemove \/ BoundaryDone \/ RevertFails \/ Escape \/ NoRetry \/ Backoff \/ OverflowSilent
              \/ NoOverflow \/ ShrinkFails \/ DeliverQueued \/ FlushFails \/ FlushRemove \/ FlushDone
    BY <1>14 DEF CannotContinue, BoundaryRemove, BoundaryDone, RevertFails, Escape, NoRetry, Backoff, OverflowSilent, NoOverflow,
                 ShrinkFails, DeliverQueued, FlushFails, FlushRemove, FlushDone, TakeWritten
  <1> QED BY <1>1, <1>2, <1>3, <1>4, <1>5, <1>6, <1>7, <1>8, <1>9, <1>10, <1>11, <1>12, <1>13, <1>14 DEF Next, Task

LEMMA StoreStep == StoreTyped /\ QueuesTyped /\ ModelTyped /\ [Next]_vars => StoreTyped'
  <1> SUFFICES ASSUME StoreTyped, QueuesTyped, ModelTyped, [Next]_vars PROVE StoreTyped'
    OBVIOUS
  <1>1. CASE Says
    BY <1>1, SaidTyped DEF Says, Batch
  <1>2. CASE Compacted
    BY <1>2, CompactsStore DEF Compacted
  <1>3. CASE Drops
    BY <1>3, FrontTyped DEF Drops, DropLast, StoreTyped
  <1>4. CASE AppendsAside
    BY <1>4, AppendsTyped, EntryTyped DEF AppendsAside, StoreTyped
  <1>5. ASSUME NEW h, Writes(h) PROVE StoreTyped'
    <2>1. h \in Entry
      BY <1>5, EntryTyped DEF Writes
    <2> QED BY <1>5, <2>1, AppendsTyped DEF Writes, StoreTyped
  <1>6. CASE Fails
    <2>1. PICK x \in Numbers : transcript' = Append(transcript, x)
      BY <1>6, NumberTyped DEF Fails
    <2> QED BY <1>6, <2>1 DEF Fails, StoreTyped
  <1>7. CASE Reverts
    BY <1>7, RebuiltTyped, AdoptTyped DEF Reverts, StoreTyped
  <1>8. CASE Merges
    BY <1>8, AdoptTyped DEF Merges, Drained, StoreTyped
  <1>9. CASE Adopts
    BY <1>9, AdoptTyped DEF Adopts, StoreTyped
  <1>10. CASE UNCHANGED store
    BY <1>10 DEF store, StoreTyped
  <1> QED BY <1>1, <1>2, <1>3, <1>4, <1>5, <1>6, <1>7, <1>8, <1>9, <1>10, StoreCases

-----------------------------------------------------------------------------
(* The conversation survives a restore.                                     *)

\* The live transcript is covered by what is rebuilt, and so is what is rebuilt: that is
\* what a revert makes the transcript.  What the boundaries flushed, and the end of the
\* operation adopts, are asides: they may join the transcript out of order.
Restorable ==
  /\ Over(session, transcript) /\ Over(session, ProjectedOf(session))
  /\ Covered(session, transcript, ProjectedOf(session))
  /\ Covered(session, ProjectedOf(session), ProjectedOf(session))
  /\ \A i \in DOMAIN flushed : flushed[i] <= Len(session) /\ session[flushed[i]].kind = "aside"

\* Entries join the session, and their numbers the two transcripts.
LEMMA GrowthRestorable ==
  ASSUME StoreTyped, StoreTyped', Restorable,
         Len(session) <= Len(session'), \A k \in 1 .. Len(session) : session'[k] = session[k],
         NEW u \in Seq(Numbers), NEW v \in Seq(Numbers),
         transcript' = transcript \o u, ProjectedOf(session') = ProjectedOf(session) \o v,
         Covered(session', u, v), Covered(session', v, v),
         \A i \in DOMAIN u : u[i] <= Len(session') /\ (Talk(session', u[i]) => u[i] > Len(session)),
         \A i \in DOMAIN v : v[i] > Len(session) /\ v[i] <= Len(session'),
         \/ UNCHANGED flushed \/ flushed' = <<>>
         \/ flushed' = Append(flushed, Len(session')) /\ session'[Len(session')].kind = "aside"
  PROVE  Restorable'
  <1> DEFINE P == ProjectedOf(session)
             P2 == ProjectedOf(session')
  <1>1. session \in Seq(Entry) /\ session' \in Seq(Entry)
    BY DEF StoreTyped
  <1>2. Over(session, transcript) /\ Over(session, P) /\ Covered(session, transcript, P) /\ Covered(session, P, P)
    BY DEF Restorable
  <1>3. transcript' = transcript \o u /\ P2 = P \o v
    OBVIOUS
  <1> HIDE DEF P, P2
  <1>4. Over(session', transcript \o u) /\ Over(session', P \o v) /\ Covered(session', transcript \o u, P \o v)
    BY <1>1, <1>2, CoveredConcat
  <1>5. \A i \in DOMAIN v : Talk(session', v[i]) => v[i] > Len(session)
    OBVIOUS
  <1>6. Covered(session', P \o v, P \o v)
    BY <1>1, <1>2, <1>5, CoveredConcat
  <1>7. Len(session) \in Nat /\ Len(session') \in Nat /\ flushed \in Seq(Nat \ {0})
    BY DEF StoreTyped
  <1>8. ASSUME NEW n \in Nat \ {0}, n <= Len(session), session[n].kind = "aside"
        PROVE  n <= Len(session') /\ session'[n].kind = "aside"
    <2>1. n \in 1 .. Len(session)
      BY <1>7, <1>8
    <2> QED BY <1>7, <1>8, <2>1
  <1>9. ASSUME NEW i \in DOMAIN flushed PROVE flushed[i] <= Len(session') /\ session'[flushed[i]].kind = "aside"
    <2>1. flushed[i] \in Nat \ {0} /\ flushed[i] <= Len(session) /\ session[flushed[i]].kind = "aside"
      BY <1>7 DEF Restorable
    <2> QED BY <1>8, <2>1
  <1>10. \A i \in DOMAIN flushed' : flushed'[i] <= Len(session') /\ session'[flushed'[i]].kind = "aside"
    <2>1. CASE UNCHANGED flushed
      BY <1>9, <2>1
    <2>2. CASE flushed' = <<>>
      BY <2>2
    <2>3. CASE flushed' = Append(flushed, Len(session')) /\ session'[Len(session')].kind = "aside"
      <3>1. /\ DOMAIN flushed' = 1 .. (Len(flushed) + 1) /\ DOMAIN flushed = 1 .. Len(flushed) /\ Len(flushed) \in Nat
            /\ \A i \in 1 .. Len(flushed) : flushed'[i] = flushed[i]
            /\ flushed'[Len(flushed) + 1] = Len(session')
        BY <1>7, <2>3
      <3>2. \A i \in DOMAIN flushed' : i \in DOMAIN flushed \/ i = Len(flushed) + 1
        <4>1. \A n \in Nat : \A i \in 1 .. (n + 1) : i \in 1 .. n \/ i = n + 1
          OBVIOUS
        <4> QED BY <3>1, <4>1
      <3> QED BY <1>7, <1>9, <2>3, <3>1, <3>2
    <2> QED BY <2>1, <2>2, <2>3
  <1> QED BY <1>3, <1>4, <1>6, <1>10 DEF Restorable, P2

\* Numbers given one after the other.
LEMMA NewNumbers ==
  ASSUME NEW L \in Nat, NEW k \in Nat, NEW s, NEW new, new = [i \in 1 .. k |-> L + i]
  PROVE  /\ new \in Seq(Numbers) /\ Covered(s, new, new)
         /\ \A i \in DOMAIN new : new[i] > L /\ new[i] <= L + k
  <1>1. \A i \in 1 .. k : L + i \in Numbers
    BY DEF Numbers
  <1>2. new \in Seq(Numbers)
    BY <1>1
  <1>3. Distinct(s, new)
    BY DEF Distinct
  <1>4. \A i \in DOMAIN new : new[i] > L /\ new[i] <= L + k
    OBVIOUS
  <1> QED BY <1>2, <1>3, <1>4, DistinctCovers

LEMMA OneNumber ==
  ASSUME NEW L \in Nat, NEW s
  PROVE  /\ <<L + 1>> \in Seq(Numbers) /\ Covered(s, <<L + 1>>, <<L + 1>>)
         /\ \A i \in DOMAIN <<L + 1>> : <<L + 1>>[i] > L /\ <<L + 1>>[i] <= L + 1
         /\ <<>> \in Seq(Numbers) /\ Covered(s, <<>>, <<L + 1>>) /\ Covered(s, <<>>, <<>>)
         /\ \A i \in DOMAIN <<>> : FALSE
  <1>1. L + 1 \in Numbers
    BY DEF Numbers
  <1>2. <<L + 1>> \in Seq(Numbers)
    BY <1>1
  <1>3. Distinct(s, <<L + 1>>)
    BY DEF Distinct
  <1>4. Covered(s, <<L + 1>>, <<L + 1>>)
    BY <1>2, <1>3, DistinctCovers
  <1>5. Covered(s, <<>>, <<L + 1>>) /\ Covered(s, <<>>, <<>>)
    BY DEF Covered
  <1>6. \A i \in DOMAIN <<L + 1>> : <<L + 1>>[i] > L /\ <<L + 1>>[i] <= L + 1
    OBVIOUS
  <1> QED BY <1>2, <1>4, <1>5, <1>6

LEMMA SaysRestorable ==
  ASSUME StoreTyped, StoreTyped', Restorable, Says
  PROVE  Restorable'
  <1>1. PICK es : Batch(es) /\ Said(es)
    BY DEF Says
  <1> DEFINE new == [i \in DOMAIN es |-> Len(session) + i]
             L == Len(session)
  <1>2. /\ L \in Nat /\ Len(es) \in Nat /\ DOMAIN es = 1 .. Len(es) /\ es \in Seq(Entry) /\ session \in Seq(Entry)
    BY <1>1 DEF Batch, StoreTyped
  <1>3. session' = session \o es /\ transcript' = transcript \o new /\ UNCHANGED flushed
    BY <1>1 DEF Said
  <1>4. ProjectedOf(session') = ProjectedOf(session) \o new
    BY <1>1, <1>2, <1>3, ProjectedConcat DEF Batch
  <1>5. Len(session') = L + Len(es) /\ \A k \in 1 .. L : session'[k] = session[k]
    BY <1>2, <1>3
  <1>6. new = [i \in 1 .. Len(es) |-> L + i]
    BY <1>2
  <1> HIDE DEF new, L
  <1>7. /\ new \in Seq(Numbers) /\ Covered(session', new, new)
        /\ \A i \in DOMAIN new : new[i] > L /\ new[i] <= L + Len(es)
    BY <1>2, <1>6, NewNumbers
  <1>8. L <= Len(session')
    BY <1>2, <1>5
  <1> QED BY <1>3, <1>4, <1>5, <1>7, <1>8, GrowthRestorable DEF L

LEMMA WriteRestorable ==
  ASSUME StoreTyped, StoreTyped', Restorable, NEW h, Writes(h) \/ (AppendsAside /\ h = Aside(0))
  PROVE  Restorable'
  <1> DEFINE L == Len(session)
  <1>1. h \in Entry /\ h.kind \in {"aside", "model"} /\ session' = Append(session, h)
    BY EntryTyped DEF Writes, AppendsAside
  <1>2. /\ L \in Nat /\ Len(session') = L + 1 /\ session'[L + 1] = h
        /\ \A k \in 1 .. L : session'[k] = session[k]
    BY <1>1, AppendsTyped
  <1>3. session \in Seq(Entry) /\ transcript \in Seq(Numbers)
    BY DEF StoreTyped
  <1>4. /\ ProjectedOf(session) \in Seq(Numbers)
        /\ h.kind = "model" => ProjectedOf(session') = ProjectedOf(session)
        /\ h.kind = "aside" => ProjectedOf(session') = Append(ProjectedOf(session), L + 1)
    BY <1>1, <1>3, ProjectedAppend
  <1>5. \A s \in Seq(Numbers), x \in Numbers : s \o <<x>> = Append(s, x) /\ s \o <<>> = s
    OBVIOUS
  <1>6. L + 1 \in Numbers /\ L <= Len(session')
    BY <1>2 DEF Numbers
  <1>7. /\ <<L + 1>> \in Seq(Numbers) /\ Covered(session', <<L + 1>>, <<L + 1>>)
        /\ \A i \in DOMAIN <<L + 1>> : <<L + 1>>[i] > L /\ <<L + 1>>[i] <= L + 1
        /\ <<>> \in Seq(Numbers) /\ Covered(session', <<>>, <<L + 1>>) /\ Covered(session', <<>>, <<>>)
        /\ \A i \in DOMAIN <<>> : FALSE
    BY <1>2, OneNumber
  <1> DEFINE one == <<L + 1>>
             none == <<>>
  <1>8. /\ one \in Seq(Numbers) /\ Covered(session', one, one)
        /\ \A i \in DOMAIN one : one[i] > L /\ one[i] <= Len(session')
        /\ none \in Seq(Numbers) /\ Covered(session', none, one) /\ Covered(session', none, none)
        /\ \A i \in DOMAIN none : FALSE
    BY <1>2, <1>7
  <1>9. /\ \A s \in Seq(Numbers) : s \o one = Append(s, L + 1) /\ s \o none = s
    BY <1>5, <1>6
  <1>f. \/ UNCHANGED <<transcript, flushed>> /\ h.kind = "model"
        \/ UNCHANGED transcript /\ h.kind = "aside" /\ flushed' = Append(flushed, Len(session'))
        \/ UNCHANGED flushed /\ h.kind = "aside" /\ transcript' = Append(transcript, L + 1)
    BY <1>1, <1>2, EntryTyped DEF Writes, AppendsAside
  <1>k. session'[Len(session')] = h
    BY <1>2
  <1> HIDE DEF L, one, none
  <1> DEFINE P == ProjectedOf(session)
             P2 == ProjectedOf(session')
  <1>10. CASE UNCHANGED <<transcript, flushed>> /\ h.kind = "model"
    <2>1. transcript' = transcript \o none /\ P2 = P \o none
      BY <1>3, <1>4, <1>9, <1>10
    <2> QED BY <1>2, <1>6, <1>8, <1>10, <2>1, GrowthRestorable DEF L
  <1>11. CASE UNCHANGED transcript /\ h.kind = "aside" /\ flushed' = Append(flushed, Len(session'))
    <2>1. transcript' = transcript \o none /\ P2 = P \o one
      BY <1>3, <1>4, <1>9, <1>11
    <2> QED BY <1>2, <1>6, <1>8, <1>11, <1>k, <2>1, GrowthRestorable DEF L
  <1>12. CASE UNCHANGED flushed /\ h.kind = "aside" /\ transcript' = Append(transcript, L + 1)
    <2>1. transcript' = transcript \o one /\ P2 = P \o one
      BY <1>3, <1>4, <1>9, <1>12
    <2> QED BY <1>2, <1>6, <1>8, <1>12, <2>1, GrowthRestorable DEF L
  <1> QED BY <1>f, <1>10, <1>11, <1>12

\* Messages that are no conversation join the transcript alone.
LEMMA JoinRestorable ==
  ASSUME StoreTyped, StoreTyped', Restorable, UNCHANGED session,
         NEW u \in Seq(Numbers), transcript' = transcript \o u,
         \A i \in DOMAIN u : u[i] <= Len(session) /\ ~Talk(session, u[i]),
         UNCHANGED flushed \/ flushed' = <<>>
  PROVE  Restorable'
  <1> DEFINE none == <<>>
             P == ProjectedOf(session)
  <1>1. session \in Seq(Entry) /\ Len(session) \in Nat
    BY DEF StoreTyped
  <1>2. P \in Seq(Numbers)
    BY <1>1, KeptTyped
  <1>3. /\ none \in Seq(Numbers) /\ Covered(session', none, none) /\ Covered(session', u, none)
        /\ \A i \in DOMAIN none : FALSE
    BY DEF Covered
  <1> HIDE DEF P
  <1>4. P = P \o none
    BY <1>2
  <1> HIDE DEF none
  <1>5. ProjectedOf(session') = ProjectedOf(session) \o none
    BY <1>4 DEF P
  <1>6. Len(session) <= Len(session') /\ \A k \in 1 .. Len(session) : session'[k] = session[k]
    BY <1>1
  <1>7. \A i \in DOMAIN u : u[i] <= Len(session') /\ (Talk(session', u[i]) => u[i] > Len(session))
    OBVIOUS
  <1> QED BY <1>3, <1>5, <1>6, <1>7, GrowthRestorable

LEMMA FailsRestorable ==
  ASSUME StoreTyped, StoreTyped', Restorable, Fails
  PROVE  Restorable'
  <1>1. PICK x \in {PhantomInput, PhantomReply} : transcript' = Append(transcript, x)
    BY DEF Fails
  <1>2. x \in Numbers /\ ~(x > 0) /\ x <= Len(session)
    <2>1. Len(session) \in Nat
      BY DEF StoreTyped
    <2> QED BY <2>1 DEF PhantomInput, PhantomReply, Numbers
  <1> DEFINE u == <<x>>
  <1>3. u \in Seq(Numbers) /\ \A i \in DOMAIN u : u[i] = x
    BY <1>2
  <1>4. transcript' = transcript \o u
    BY <1>1, <1>2 DEF StoreTyped
  <1>5. \A i \in DOMAIN u : u[i] <= Len(session) /\ ~Talk(session, u[i])
    BY <1>2, <1>3 DEF Talk
  <1>6. UNCHANGED <<session, flushed>>
    BY DEF Fails
  <1> HIDE DEF u
  <1> QED BY <1>3, <1>4, <1>5, <1>6, JoinRestorable

LEMMA AdoptsRestorable ==
  ASSUME StoreTyped, StoreTyped', Restorable, Adopts
  PROVE  Restorable'
  <1>1. flushed \in Seq(Numbers)
    BY AdoptTyped
  <1>2. \A i \in DOMAIN flushed : flushed[i] <= Len(session) /\ ~Talk(session, flushed[i])
    BY DEF Restorable, Talk
  <1> QED BY <1>1, <1>2, JoinRestorable DEF Adopts

\* The transcript loses its last message, is rebuilt, or stays.
LEMMA LessRestorable ==
  ASSUME StoreTyped, Restorable, Drops \/ Reverts \/ Merges \/ UNCHANGED store
  PROVE  Restorable'
  <1>1. UNCHANGED <<session, flushed>>
    BY DEF Drops, DropLast, Reverts, Merges, store
  <1>2. CASE UNCHANGED transcript
    BY <1>1, <1>2 DEF Restorable
  <1>3. CASE Drops
    <2>1. transcript \in Seq(Numbers) /\ transcript' = Front(transcript)
      BY <1>3 DEF StoreTyped, Drops, DropLast
    <2>2. /\ transcript' \in Seq(Numbers)
          /\ \A i \in DOMAIN transcript' : i \in DOMAIN transcript /\ transcript'[i] = transcript[i]
      BY <2>1, FrontTyped
    <2>3. Over(session, transcript')
      BY <2>2 DEF Restorable, Over
    <2>4. Covered(session, transcript', ProjectedOf(session))
      <3> DEFINE P == ProjectedOf(session)
      <3>1. Covered(session, transcript, P)
        BY DEF Restorable
      <3> HIDE DEF P
      <3>2. Covered(session, transcript', P)
        BY <2>2, <3>1 DEF Covered
      <3> QED BY <3>2 DEF P
    <2> QED BY <1>1, <2>3, <2>4 DEF Restorable
  <1>4. CASE Reverts
    <2>1. transcript' = ProjectedOf(session)
      BY <1>4, ProjectedIs DEF Reverts
    <2> QED BY <1>1, <2>1 DEF Restorable
  <1> QED BY <1>2, <1>3, <1>4 DEF Merges, store

LEMMA CompactsRestorable ==
  ASSUME StoreTyped, StoreTyped', Restorable, Compacted
  PROVE  Restorable'
  <1>1. PICK c \in Cuts : Compacts(c)
    BY DEF Compacted
  <1>2. PICK first \in Nat, kept \in Seq(Numbers) :
           /\ session' = Append(session, Boundary(first, kept))
           /\ transcript' = <<Len(session) + 1>> \o kept
           /\ \A i \in DOMAIN kept : (c - 1) + i \in DOMAIN transcript /\ kept[i] = transcript[(c - 1) + i]
           /\ c - 1 \in Nat
           /\ UNCHANGED flushed
    BY <1>1, CompactsTyped
  <1> DEFINE e == Boundary(first, kept)
             L == Len(session)
  <1>3. e \in Entry /\ e.kind = "compaction" /\ e.tail = kept
    BY EntryTyped
  <1>4. session' = Append(session, e) /\ transcript' = <<L + 1>> \o kept
    BY <1>2
  <1> HIDE DEF e
  <1>5. /\ L \in Nat /\ session \in Seq(Entry) /\ session' \in Seq(Entry) /\ Len(session') = L + 1
        /\ session'[L + 1] = e /\ \A k \in 1 .. L : session'[k] = session[k]
        /\ transcript \in Seq(Numbers) /\ flushed \in Seq(Nat \ {0})
    BY <1>3, <1>4, AppendsTyped DEF StoreTyped
  <1>6. ProjectedOf(session') = transcript'
    BY <1>3, <1>4, <1>5, ProjectedAppend
  <1> DEFINE X == <<L + 1>> \o kept
  <1>7. /\ X \in Seq(Numbers) /\ Len(kept) \in Nat /\ DOMAIN kept = 1 .. Len(kept) /\ DOMAIN X = 1 .. (Len(kept) + 1)
        /\ X[1] = L + 1 /\ \A i \in 2 .. (Len(kept) + 1) : X[i] = kept[i - 1]
    <2>1. L + 1 \in Numbers
      BY <1>5 DEF Numbers
    <2> HIDE DEF L
    <2> QED BY <2>1
  <1> HIDE DEF X
  <1>n. \A n \in Numbers : n \in Int
    BY NumberTyped
  <1>8. Distinct(session, transcript)
    <2> DEFINE P == ProjectedOf(session)
    <2>1. P \in Seq(Numbers) /\ Covered(session, transcript, P)
      BY <1>5, KeptTyped DEF Restorable
    <2> HIDE DEF P
    <2> QED BY <1>5, <2>1, CoveredDistinct
  <1>9. ASSUME NEW i \in DOMAIN kept
        PROVE  kept[i] \in Int /\ kept[i] <= L /\ (Talk(session', kept[i]) <=> Talk(session, kept[i]))
    <2>1. kept[i] \in Numbers /\ kept[i] \in Int /\ kept[i] <= L
      BY <1>2, <1>5, <1>n DEF Restorable, Over
    <2>2. CASE kept[i] > 0
      <3>1. kept[i] \in 1 .. L
        BY <1>5, <2>1, <2>2
      <3> QED BY <1>5, <2>1, <3>1 DEF Talk
    <2>3. CASE ~(kept[i] > 0)
      BY <2>1, <2>3 DEF Talk
    <2> QED BY <2>2, <2>3
  <1>10. ASSUME NEW i \in DOMAIN X
         PROVE  (i = 1 /\ X[i] = L + 1) \/ (i - 1 \in DOMAIN kept /\ X[i] = kept[i - 1] /\ i > 1)
    BY <1>7
  <1>11. Distinct(session', X)
    <2> SUFFICES ASSUME NEW i \in DOMAIN X, NEW j \in DOMAIN X, Talk(session', X[i]), X[i] = X[j]
                 PROVE  i = j
      BY DEF Distinct
    <2>0. i \in Nat /\ j \in Nat
      BY <1>7
    <2>1. CASE i = 1 /\ X[i] = L + 1
      <3>1. ~(j - 1 \in DOMAIN kept /\ X[j] = kept[j - 1])
        BY <1>5, <1>9, <2>1
      <3> QED BY <1>10, <2>1, <3>1
    <2>2. CASE i - 1 \in DOMAIN kept /\ X[i] = kept[i - 1] /\ i > 1
      <3>1. ~(X[j] = L + 1)
        BY <1>5, <1>9, <2>2
      <3>2. j - 1 \in DOMAIN kept /\ X[j] = kept[j - 1]
        BY <1>10, <3>1
      <3> DEFINE a == (c - 1) + (i - 1)
                 b == (c - 1) + (j - 1)
      <3>3. /\ a \in DOMAIN transcript /\ X[i] = transcript[a] /\ b \in DOMAIN transcript /\ X[j] = transcript[b]
        BY <1>2, <2>2, <3>2
      <3>4. Talk(session, X[i])
        BY <1>9, <2>2
      <3>5. a = b => i = j
        BY <1>2, <2>0
      <3> HIDE DEF a, b
      <3>6. a = b
        BY <1>8, <3>3, <3>4 DEF Distinct
      <3> QED BY <3>5, <3>6
    <2> QED BY <1>10, <2>1, <2>2
  <1>12. Covered(session', X, X)
    BY <1>7, <1>11, DistinctCovers
  <1>13. Over(session', X)
    <2>1. ASSUME NEW i \in DOMAIN X PROVE X[i] <= L + 1
      <3>1. CASE X[i] = L + 1
        BY <1>5, <3>1
      <3>2. CASE i - 1 \in DOMAIN kept /\ X[i] = kept[i - 1]
        <4>1. kept[i - 1] \in Int /\ kept[i - 1] <= L
          BY <1>9, <3>2
        <4> QED BY <1>5, <3>2, <4>1
      <3> QED BY <1>10, <3>1, <3>2
    <2> QED BY <1>5, <1>7, <2>1 DEF Over
  <1>14. ASSUME NEW i \in DOMAIN flushed' PROVE flushed'[i] <= Len(session') /\ session'[flushed'[i]].kind = "aside"
    <2>1. i \in DOMAIN flushed /\ flushed'[i] = flushed[i]
      BY <1>2
    <2>2. flushed[i] \in Nat \ {0} /\ flushed[i] <= L /\ session[flushed[i]].kind = "aside"
      BY <1>5, <2>1 DEF Restorable
    <2>3. flushed[i] \in 1 .. L
      BY <1>5, <2>2
    <2> QED BY <1>5, <2>1, <2>2, <2>3
  <1>15. transcript' = X /\ ProjectedOf(session') = X
    BY <1>4, <1>6 DEF X
  <1> QED BY <1>12, <1>13, <1>14, <1>15 DEF Restorable

LEMMA RestorableStep ==
  StoreTyped /\ QueuesTyped /\ ModelTyped /\ Restorable /\ [Next]_vars => Restorable'
  <1> SUFFICES ASSUME StoreTyped, QueuesTyped, ModelTyped, Restorable, [Next]_vars PROVE Restorable'
    OBVIOUS
  <1>1. StoreTyped'
    BY StoreStep
  <1> QED BY <1>1, StoreCases, SaysRestorable, CompactsRestorable, WriteRestorable, FailsRestorable,
             AdoptsRestorable, LessRestorable

-----------------------------------------------------------------------------
\* A harness is opened on a session another one left.
LEMMA RestorableInit == Init => Restorable /\ StoreTyped /\ QueuesTyped /\ ModelTyped /\ FlagsTyped
  <1> SUFFICES ASSUME Init PROVE Restorable /\ StoreTyped /\ QueuesTyped /\ ModelTyped /\ FlagsTyped
    OBVIOUS
  <1>1. /\ session \in Openings /\ transcript = ProjectedMessages /\ ids = ProjectedIds
        /\ recorded = <<>> /\ flushed = <<>> /\ model = <<PathModel, PathModel, PathModel>>
    BY DEF Init
  <1>2. session \in Seq(Entry)
    BY <1>1, OpeningsAssumption
  <1>3. StoreTyped
    BY <1>1, <1>2, RebuiltTyped DEF StoreTyped
  <1>4. ModelTyped
    BY <1>1, <1>2, PathModelTyped DEF ModelTyped, Models
  <1>5. FlagsTyped
    BY DEF Init, FlagsTyped, Pcs
  <1>6. QueuesTyped
    <2>1. /\ used = [prompts |-> 0, tools |-> 0, queued |-> 0, nexts |-> 0, asides |-> 0,
                     models |-> 0, faults |-> 0, aborts |-> 0]
          /\ queue = 0 /\ nextTurn = 0 /\ pending = <<>> /\ writing = Nothing
      BY DEF Init
    <2>2. used \in Counters /\ used.queued = 0 /\ used.nexts = 0
      BY <2>1 DEF Counters
    <2>3. MaxQueued \in Nat /\ MaxNext \in Nat
      BY HarnessSettleAssumption
    <2> QED BY <2>1, <2>2, <2>3 DEF QueuesTyped, Nothing
  <1> DEFINE s == session
             P == ProjectedOf(s)
             b == BoundaryOf(s)
             l == LaterOf(s)
  <1>7. transcript = P
    BY <1>1, ProjectedIs
  <1>8. P \in Seq(Numbers) /\ P = Kept(s) \o l /\ Kept(s) \in Seq(Numbers) /\ l \in Seq(Numbers)
    BY <1>2, KeptTyped
  <1>9. /\ \A i \in DOMAIN l : l[i] \in (b + 1) .. Len(s)
        /\ \A i, j \in DOMAIN l : i < j => l[i] < l[j]
    BY <1>2, LaterSound
  <1>10. b \in 0 .. Len(s) /\ Len(s) \in Nat /\ (b # 0 => b \in Boundaries(s))
    BY <1>2, BoundaryFacts
  <1>n. \A n \in Numbers : n \in Int
    BY NumberTyped
  \* The boundary, and before it what it retains, each message of the conversation once.
  <1>11. /\ \A i \in DOMAIN Kept(s) : Kept(s)[i] <= b
         /\ Distinct(s, Kept(s))
    <2>1. CASE b = 0
      <3>1. Kept(s) = <<>>
        BY <2>1 DEF Kept
      <3> QED BY <3>1 DEF Distinct
    <2>2. CASE b # 0
      <3> DEFINE t == s[b].tail
      <3>1. /\ b \in DOMAIN s /\ s[b].kind = "compaction" /\ b \in Nat
        BY <1>10, <2>2 DEF Boundaries
      <3>2. t \in Seq(Numbers)
        BY <1>2, <3>1, TailTyped
      <3>3. \A p \in DOMAIN t : /\ t[p] < b
                                /\ t[p] > 0 /\ s[t[p]].kind # "aside" => \A q \in DOMAIN t : t[p] = t[q] => p = q
        BY <1>1, <3>1, OpeningsAssumption
      <3>4. Kept(s) = <<b>> \o t
        BY <2>2 DEF Kept
      <3> DEFINE X == <<b>> \o t
      <3> HIDE DEF b, t, s
      <3>5. /\ Len(t) \in Nat /\ DOMAIN t = 1 .. Len(t) /\ DOMAIN X = 1 .. (Len(t) + 1)
            /\ X[1] = b /\ \A i \in 2 .. (Len(t) + 1) : X[i] = t[i - 1]
        <4>1. b \in Numbers
          BY <2>2, <3>1 DEF Numbers
        <4> QED BY <3>2, <4>1
      <3> HIDE DEF X
      <3>6. ASSUME NEW i \in DOMAIN X
            PROVE  (i = 1 /\ X[i] = b) \/ (i - 1 \in DOMAIN t /\ X[i] = t[i - 1] /\ i \in Nat)
        BY <3>5
      <3>7. \A p \in DOMAIN t : t[p] \in Int
        BY <1>n, <3>2
      <3>8. \A i \in DOMAIN X : X[i] <= b
        BY <3>1, <3>3, <3>6, <3>7
      <3>9. ASSUME NEW i \in DOMAIN X, NEW j \in DOMAIN X, Talk(s, X[i]), X[i] = X[j]
            PROVE  i = j
        <4>0. i \in Nat /\ j \in Nat
          BY <3>5
        <4>1. CASE i = 1 /\ X[i] = b
          <5>1. ~(j - 1 \in DOMAIN t /\ X[j] = t[j - 1])
            BY <3>1, <3>3, <3>7, <3>9, <4>1
          <5> QED BY <3>6, <4>1, <5>1
        <4>2. CASE i - 1 \in DOMAIN t /\ X[i] = t[i - 1]
          <5>1. X[j] # b
            BY <3>1, <3>3, <3>7, <3>9, <4>2
          <5>2. j - 1 \in DOMAIN t /\ X[j] = t[j - 1]
            BY <3>6, <5>1
          <5>3. t[i - 1] > 0 /\ s[t[i - 1]].kind # "aside" /\ t[i - 1] = t[j - 1]
            BY <3>9, <4>2, <5>2 DEF Talk
          <5>4. i - 1 = j - 1
            BY <3>3, <4>2, <5>2, <5>3
          <5> QED BY <4>0, <5>4
        <4> QED BY <3>6, <4>1, <4>2
      <3>10. Distinct(s, X)
        BY <3>9 DEF Distinct
      <3> QED BY <3>4, <3>8, <3>10 DEF X
    <2> QED BY <2>1, <2>2
  <1> DEFINE K == Kept(s)
             X == K \o l
             a == Len(K)
  <1>12. K \in Seq(Numbers) /\ l \in Seq(Numbers) /\ P = X
    BY <1>8
  <1>13. Distinct(s, K) /\ \A i \in DOMAIN K : K[i] <= b
    BY <1>11
  <1> HIDE DEF K, l, b, P, s
  <1>14. /\ a \in Nat /\ Len(l) \in Nat /\ DOMAIN K = 1 .. a /\ DOMAIN l = 1 .. Len(l)
         /\ DOMAIN X = 1 .. (a + Len(l)) /\ X \in Seq(Numbers)
         /\ \A i \in 1 .. a : X[i] = K[i]
         /\ \A i \in 1 .. (a + Len(l)) : i > a => X[i] = l[i - a]
    BY <1>12
  <1> HIDE DEF X, a
  <1>15. ASSUME NEW i \in DOMAIN X
         PROVE  \/ i \in DOMAIN K /\ X[i] = K[i] /\ X[i] \in Int /\ X[i] <= b
                \/ i - a \in DOMAIN l /\ X[i] = l[i - a] /\ X[i] \in Int /\ X[i] > b
    <2>1. CASE i <= a
      <3>1. i \in DOMAIN K /\ X[i] = K[i]
        BY <1>14, <2>1
      <3> QED BY <1>12, <1>13, <1>n, <3>1
    <2>2. CASE i > a
      <3>1. i - a \in DOMAIN l /\ X[i] = l[i - a]
        BY <1>14, <2>2
      <3>2. l[i - a] \in (b + 1) .. Len(s)
        BY <1>9, <3>1
      <3> QED BY <1>10, <3>1, <3>2
    <2> QED BY <1>14, <2>1, <2>2
  <1>16. Distinct(s, X)
    <2> SUFFICES ASSUME NEW i \in DOMAIN X, NEW j \in DOMAIN X, Talk(s, X[i]), X[i] = X[j]
                 PROVE  i = j
      BY DEF Distinct
    <2>1. CASE X[i] <= b
      <3>1. i \in DOMAIN K /\ X[i] = K[i]
        BY <1>10, <1>15, <2>1
      <3>2. j \in DOMAIN K /\ X[j] = K[j]
        BY <1>10, <1>15, <2>1
      <3> QED BY <1>13, <3>1, <3>2 DEF Distinct
    <2>2. CASE X[i] > b
      <3>1. i - a \in DOMAIN l /\ X[i] = l[i - a]
        BY <1>10, <1>15, <2>2
      <3>2. j - a \in DOMAIN l /\ X[j] = l[j - a]
        BY <1>10, <1>15, <2>2
      <3>3. i \in Nat /\ j \in Nat /\ l[i - a] \in Int
        BY <1>12, <1>14, <1>n, <3>1
      <3> DEFINE p == i - a
                 q == j - a
      <3>4. p \in DOMAIN l /\ q \in DOMAIN l /\ l[p] = l[q] /\ l[p] \in Int
        BY <3>1, <3>2, <3>3
      <3>5. p = q => i = j
        BY <1>14, <3>3
      <3>6. p \in Int /\ q \in Int
        BY <1>14, <3>3
      <3> HIDE DEF p, q
      <3>7. ~(p < q) /\ ~(q < p)
        BY <1>9, <3>4
      <3> QED BY <3>5, <3>6, <3>7
    <2>3. X[i] \in Int
      BY <1>15
    <2> QED BY <1>10, <2>1, <2>2, <2>3
  <1>17. \A i \in DOMAIN X : X[i] <= Len(s)
    <2> SUFFICES ASSUME NEW i \in DOMAIN X PROVE X[i] <= Len(s)
      OBVIOUS
    <2>1. CASE i \in DOMAIN K /\ X[i] \in Int /\ X[i] <= b
      BY <1>10, <2>1
    <2>2. CASE i - a \in DOMAIN l /\ X[i] = l[i - a]
      <3>1. l[i - a] \in (b + 1) .. Len(s)
        BY <1>9, <2>2
      <3> QED BY <1>10, <2>2, <3>1
    <2> QED BY <1>15, <2>1, <2>2
  <1>18. Over(s, P) /\ Covered(s, P, P)
    BY <1>12, <1>14, <1>16, <1>17, DistinctCovers DEF Over
  <1>19. Restorable
    <2>1. flushed = <<>> /\ DOMAIN flushed = {}
      BY <1>1
    <2> QED BY <1>7, <1>18, <2>1 DEF Restorable, P, s
  <1> QED BY <1>3, <1>4, <1>5, <1>6, <1>19

\* However auto-retries and overflow recoveries drop failed turns, compactions move the
\* boundary at any cut, appends fail, runs are reverted and asides are flushed, each message
\* of the conversation in the live transcript is in what a restore rebuilds, once and in the
\* same order - on a new session and on one that another harness left.
THEOREM RestoreCoversHolds == Spec => []RestoreCovers
  <1> DEFINE Inv == StoreTyped /\ QueuesTyped /\ ModelTyped /\ Restorable
  <1>1. Init => Inv
    BY RestorableInit
  <1>2. Inv /\ [Next]_vars => Inv'
    BY StoreStep, QueuesStep, ModelStep, RestorableStep
  <1>3. Inv => RestoreCovers
    BY CoveredIs, ProjectedIs DEF Restorable
  <1> QED BY <1>1, <1>2, <1>3, PTL DEF Spec

\* The state keeps its type for every bound and every opening: the queues hold no more
\* than was queued, and the transcript refers only to entries the session has.
THEOREM TypeCorrect == Spec => []TypeOK
  <1> DEFINE Inv == StoreTyped /\ QueuesTyped /\ ModelTyped /\ Restorable /\ FlagsTyped /\ Budget
  <1>1. Init => Inv
    BY RestorableInit, BudgetInit
  <1>2. Inv /\ [Next]_vars => Inv'
    BY StoreStep, QueuesStep, ModelStep, RestorableStep, FlagsStep, BudgetStep
  <1>3. Inv => TypeOK
    <2> SUFFICES ASSUME Inv PROVE TypeOK
      OBVIOUS
    <2>1. /\ session \in Seq(Entry)
          /\ transcript \in Seq(Numbers) /\ \A i \in DOMAIN transcript : transcript[i] <= Len(session)
          /\ ids \in Seq(Nat) /\ recorded \in Seq(Nat)
      BY DEF StoreTyped, Restorable, Over
    <2>2. flushed \in Seq(Nat)
      <3>1. \A f : f \in Seq(Nat \ {0}) => f \in Seq(Nat)
        OBVIOUS
      <3> QED BY <3>1 DEF StoreTyped
    <2>3. /\ pending \in Seq([kind : {"aside", "model"}, tag : Nat])
          /\ writing \in [kind : {"aside", "model", "nothing"}, tag : Nat]
          /\ used \in [{"prompts", "tools", "queued", "nexts", "asides", "models", "faults", "aborts"} -> Nat]
      BY DEF QueuesTyped, Mutation, Counters
    <2>4. queue \in 0 .. MaxQueued /\ nextTurn \in 0 .. MaxNext
      <3>1. MaxQueued \in Nat /\ MaxNext \in Nat /\ used.queued \in Nat /\ used.nexts \in Nat
        BY HarnessSettleAssumption DEF QueuesTyped, Counters
      <3> QED BY <3>1 DEF QueuesTyped
    <2>5. model \in Nat \X Nat \X Nat
      BY DEF ModelTyped, Models
    <2>6. /\ after \in {"first", "settle", "overflow"} /\ attempt \in 0 .. MaxRetries /\ recovered \in BOOLEAN
          /\ good \in BOOLEAN /\ episode \in Nat
      BY DEF Budget
    <2>7. /\ pc \in Pcs /\ more \in BOOLEAN /\ cancelled \in BOOLEAN
          /\ backoffCancelled \in BOOLEAN /\ shutdown \in BOOLEAN /\ failed \in BOOLEAN
      BY DEF FlagsTyped
    <2> QED BY <2>1, <2>2, <2>3, <2>4, <2>5, <2>6, <2>7 DEF TypeOK
  <1> QED BY <1>1, <1>2, <1>3, PTL DEF Spec
=============================================================================
