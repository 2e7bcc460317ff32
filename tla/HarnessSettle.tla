---------------------------- MODULE HarnessSettle ----------------------------
(***************************************************************************)
(* The harness around the agent loop (core/harness.rs): an operation       *)
(* (prompt, continue_) runs the agent, settles the run - auto-retry with   *)
(* backoff, overflow compact-and-retry, threshold compaction, delivery of  *)
(* queued input - merges the entry ids of what was persisted into its      *)
(* index, and flushes the mutations queued meanwhile.  One task owns the   *)
(* harness; a HarnessHandle queues, mutates, aborts and shuts down from    *)
(* any other task at any moment.                                           *)
(*                                                                         *)
(* A message is the number of its session entry: `transcript' is what the  *)
(* next request carries, `session' the durable record, and `ids' the index *)
(* that is to tell, per position of the transcript, the entry it came      *)
(* from.  What happens inside a run is AgentLoop's subject; here a run is  *)
(* its persisted messages and its turn boundaries.                         *)
(***************************************************************************)
EXTENDS Integers, Sequences, FiniteSets, SequencesExt

CONSTANTS
    Openings,    \* the sessions a harness may be opened on
    MaxRetries,  \* RetrySettings.max_retries
    MaxPrompts,  \* bound: operations started
    MaxTools,    \* bound: replies that call tools
    MaxQueued,   \* bound: steers and follow-ups queued
    MaxNext,     \* bound: next_turn messages queued
    MaxAsides,   \* bound: messages appended from outside the turn
    MaxModels,   \* bound: model picks
    MaxFaults,   \* bound: failed session calls
    MaxAborts,   \* bound: aborts
    MaxKept,     \* bound: messages a compaction retains
    MayShutDown  \* bound: whether a shutdown may be requested

ASSUME HarnessSettleAssumption ==
    /\ MaxRetries \in Nat /\ MaxPrompts \in Nat /\ MaxTools \in Nat
    /\ MaxQueued \in Nat /\ MaxNext \in Nat /\ MaxAsides \in Nat
    /\ MaxModels \in Nat /\ MaxFaults \in Nat /\ MaxAborts \in Nat
    /\ MaxKept \in Nat /\ MayShutDown \in BOOLEAN

VARIABLES
    pc,          \* where the operation is
    after,       \* whose run it is: the operation's "first", or "settle", "overflow"
    session,     \* the entries on the active path
    transcript,  \* AgentState.messages, as entry numbers
    ids,         \* AgentHarness.message_entry_ids; None is 0
    recorded,    \* HarnessControl.message_entry_ids
    pending,     \* HarnessControl.pending_mutations
    writing,     \* the mutation a flush has read and not yet removed
    flushed,     \* HarnessControl.flushed_messages
    queue,       \* messages in the agent's steering and follow-up queues
    nextTurn,    \* messages in next_turn_queue
    model,       \* <<TurnRuntime.model, AgentHarness.model, the run's context.model>>
    attempt,     \* retry_attempt
    recovered,   \* overflow_recovery_attempted
    more,        \* the current turn called tools
    good,        \* the current run has a reply that is not an error
    cancelled,   \* the active run's token
    backoffCancelled, \* the token in retry_cancel
    shutdown,    \* HarnessControl.shutdown
    failed,      \* the operation returns an error
    used,        \* how much of each bound is spent
    episode      \* history: retries since the last input or good reply

store     == <<session, transcript, ids, recorded, flushed>>
shared    == <<pending, queue, nextTurn>>
run       == <<more, good, cancelled>>
budgets   == <<attempt, recovered>>
flags     == <<backoffCancelled, shutdown, failed>>
vars      == <<pc, after, store, shared, writing, model, run, budgets, flags, used, episode>>

-----------------------------------------------------------------------------
(* The session and what is rebuilt from it.                                 *)

(* Transcript messages that never reached the session: an input, and the    *)
(* last message of a reply - the reply itself or a result of its tools.     *)
PhantomInput == -1
PhantomReply == -2

Nothing == [kind |-> "nothing", tag |-> 0]

Replies == {"answer", "tool", "silent", "retryable", "overflow", "fatal", "aborted"}
Spoken  == {"user", "aside", "compaction", "tool"}  \* ends on no assistant's message
Errors  == {"retryable", "overflow", "fatal"}

Numbers == {PhantomInput, PhantomReply} \cup (Nat \ {0})

(* A session entry: a message or a model change, or a compaction boundary   *)
(* with the id of the first kept message and the retained tail.             *)
Entry == [kind : Replies \cup {"user", "aside", "model"}, tag : Nat]
           \cup [kind : {"compaction"}, first : Nat, tail : Seq(Numbers)]

(* A session that is opened was written by a harness: a boundary retains    *)
(* earlier messages, each of the conversation once.  It holds no aside that *)
(* a handle of this harness queued.                                         *)
ASSUME OpeningsAssumption ==
    \A s \in Openings :
        /\ s \in Seq(Entry)
        /\ \A i \in DOMAIN s : s[i].kind = "aside" => s[i].tag = 0
        /\ \A i \in DOMAIN s : s[i].kind = "compaction" =>
             \A p \in DOMAIN s[i].tail :
                /\ s[i].tail[p] < i
                /\ s[i].tail[p] > 0 /\ s[s[i].tail[p]].kind # "aside" =>
                     \A q \in DOMAIN s[i].tail : s[i].tail[p] = s[i].tail[q] => p = q

Input == [kind |-> "user", tag |-> 0]
Reply(kind, m) == [kind |-> kind, tag |-> m]
Aside(t) == [kind |-> "aside", tag |-> t]     \* 0: appended while idle, never queued
ModelChange(m) == [kind |-> "model", tag |-> m]
Boundary(first, tail) == [kind |-> "compaction", first |-> first, tail |-> tail]

Snapshot == model[1]
Owned    == model[2]
Context  == model[3]

IsBoundary(n) == session[n].kind = "compaction"
LastBoundary ==
    LET B == {n \in DOMAIN session : IsBoundary(n)}
    IN  IF B = {} THEN 0 ELSE CHOOSE n \in B : \A k \in B : k <= n

(* build_session_context: the latest boundary with its retained tail, then  *)
(* every message entry after it.  Only the boundary itself and standalone   *)
(* entries have an id.                                                      *)
Later ==
    LET last == LastBoundary
        kept[n \in 0..Len(session)] ==
          IF n <= last THEN <<>>
          ELSE IF session[n].kind = "model" THEN kept[n - 1] ELSE Append(kept[n - 1], n)
    IN  kept[Len(session)]
Tail0 == IF LastBoundary = 0 THEN <<>> ELSE session[LastBoundary].tail
Head0 == IF LastBoundary = 0 THEN <<>> ELSE <<LastBoundary>>
ProjectedMessages == Head0 \o Tail0 \o Later
ProjectedIds == Head0 \o [i \in DOMAIN Tail0 |-> 0] \o Later

LastKind ==
    CASE transcript = <<>>                -> "empty"
      [] Last(transcript) = PhantomInput -> "user"
      [] Last(transcript) = PhantomReply -> "lost"
      [] OTHER                            -> session[Last(transcript)].kind

(* The model a restored path carries: its latest model change or reply.     *)
PathModel ==
    LET W == {n \in DOMAIN session : session[n].kind \in Replies \cup {"model"}}
    IN  IF W = {} THEN 0 ELSE session[CHOOSE n \in W : \A k \in W : k <= n].tag

(* A harness is built on a new session, or built and restored from an old   *)
(* one.                                                                     *)
Init ==
    /\ pc = "idle" /\ after = "first"
    /\ session \in Openings /\ transcript = ProjectedMessages /\ ids = ProjectedIds
    /\ recorded = <<>> /\ flushed = <<>>
    /\ pending = <<>> /\ queue = 0 /\ nextTurn = 0 /\ writing = Nothing
    /\ model = <<PathModel, PathModel, PathModel>>
    /\ more = FALSE /\ good = FALSE /\ cancelled = FALSE
    /\ attempt = 0 /\ recovered = FALSE
    /\ backoffCancelled = TRUE /\ shutdown = FALSE /\ failed = FALSE
    /\ used = [prompts |-> 0, tools |-> 0, queued |-> 0, nexts |-> 0, asides |-> 0,
               models |-> 0, faults |-> 0, aborts |-> 0]
    /\ episode = 0

Spend(what) == used' = [used EXCEPT ![what] = @ + 1]

-----------------------------------------------------------------------------
(* HarnessHandle, from any task.                                            *)

HandleLeaves == UNCHANGED <<pc, after, store, writing, budgets, more, good, failed, episode>>

Queue ==
    /\ used.queued < MaxQueued /\ Spend("queued")
    /\ queue' = queue + 1
    /\ HandleLeaves /\ UNCHANGED <<pending, nextTurn, model, cancelled, backoffCancelled, shutdown>>

(* Bound: only while a prompt can still take the message.                   *)
NextTurn ==
    /\ pc \in {"pre", "input"} \/ used.prompts < MaxPrompts
    /\ used.nexts < MaxNext /\ Spend("nexts")
    /\ nextTurn' = nextTurn + 1
    /\ HandleLeaves /\ UNCHANGED <<pending, queue, model, cancelled, backoffCancelled, shutdown>>

AppendMessage ==
    /\ used.asides < MaxAsides /\ Spend("asides")
    /\ pending' = Append(pending, Aside(used.asides + 1))
    /\ HandleLeaves /\ UNCHANGED <<queue, nextTurn, model, cancelled, backoffCancelled, shutdown>>

SetModel ==
    /\ used.models < MaxModels /\ Spend("models")
    /\ LET m == used.models + 1
       IN  /\ model' = [model EXCEPT ![1] = m]
           /\ pending' = Append(pending, ModelChange(m))
    /\ HandleLeaves /\ UNCHANGED <<queue, nextTurn, cancelled, backoffCancelled, shutdown>>

(* abort reaches the run's token only while a run is active, and the        *)
(* backoff token only if it is the one already armed.                       *)
Running == pc \in {"request", "boundary", "written", "poll"}

AbortAll ==
    /\ cancelled' = (cancelled \/ Running)
    /\ backoffCancelled' = TRUE
    /\ queue' = 0 /\ nextTurn' = 0

Abort ==
    /\ pc # "idle" /\ used.aborts < MaxAborts /\ Spend("aborts")
    /\ AbortAll
    /\ HandleLeaves /\ UNCHANGED <<pending, model, shutdown>>

RequestShutdown ==
    /\ MayShutDown /\ ~shutdown
    /\ shutdown' = TRUE
    /\ AbortAll
    /\ pending' = <<>>
    /\ HandleLeaves /\ UNCHANGED <<model, used>>

-----------------------------------------------------------------------------
(* Starting an operation.  apply_turn_runtime adopts the snapshot's model.  *)

TaskLeaves == UNCHANGED <<shared, shutdown>>
Adopted == <<Snapshot, Snapshot, Snapshot>>

(* prompt: an aborted turn may be compacted first.  A lost reply may be one.*)
Prompt ==
    /\ pc = "idle" /\ ~shutdown
    /\ used.prompts < MaxPrompts /\ Spend("prompts")
    /\ pc' = IF LastKind \in {"aborted", "lost"} THEN "pre" ELSE "input"
    /\ after' = "first" /\ failed' = FALSE
    /\ model' = Adopted /\ episode' = 0
    /\ TaskLeaves /\ UNCHANGED <<store, writing, run, budgets, backoffCancelled>>

Continue ==
    /\ pc = "idle" /\ ~shutdown
    /\ used.prompts < MaxPrompts /\ Spend("prompts")
    /\ pc' = "continue" /\ after' = "first" /\ failed' = FALSE
    /\ model' = Adopted /\ episode' = 0
    /\ TaskLeaves /\ UNCHANGED <<store, writing, run, budgets, backoffCancelled>>

(* append_message while idle: session first, then transcript and index.     *)
AppendIdle ==
    /\ pc = "idle" /\ ~shutdown
    /\ used.asides < MaxAsides /\ Spend("asides")
    /\ LET n == Len(session) + 1
       IN  /\ session' = Append(session, Aside(0))
           /\ transcript' = Append(transcript, n)
           /\ ids' = Append(ids, n)
    /\ TaskLeaves
    /\ UNCHANGED <<pc, after, recorded, flushed, writing, model, run, budgets, backoffCancelled,
                   failed, episode>>

-----------------------------------------------------------------------------
(* compact_internal: the boundary is persisted with the retained tail, then *)
(* transcript and index are rebuilt from it.  The cut depends on token      *)
(* counts, so any cut with something to summarize is possible; all is cut   *)
(* only when the last message is a tool result cut off from its call.  The  *)
(* boundary takes the id the index has for the first kept message.          *)
Compactable == ~shutdown /\ transcript # <<>>
Cuts ==
    LET first == IF LastBoundary = 0 THEN 2 ELSE 3
        last  == Len(transcript) + (IF LastKind \in {"tool", "lost"} THEN 1 ELSE 0)
    IN  {c \in first..last : Len(transcript) - c < MaxKept}
IdAt(i) == IF i \in DOMAIN ids THEN ids[i] ELSE 0

CompactsMutant(c) ==
    LET kept == SubSeq(transcript, c, Len(transcript))
    IN  /\ session' = Append(session, Boundary(IdAt(c), <<>>))
        /\ transcript' = <<Len(session) + 1>> \o kept
        /\ ids' = <<0>> \o [i \in DOMAIN kept |-> IdAt(c - 1 + i)]
        /\ UNCHANGED <<recorded, flushed>>

Compacts(c) ==
    LET kept == SubSeq(transcript, c, Len(transcript))
    IN  /\ session' = Append(session, Boundary(IdAt(c), kept))
        /\ transcript' = <<Len(session) + 1>> \o kept
        /\ ids' = <<0>> \o [i \in DOMAIN kept |-> IdAt(c - 1 + i)]
        /\ UNCHANGED <<recorded, flushed>>

(* The pre-prompt check never blocks the prompt.                            *)
PrePrompt ==
    /\ pc = "pre"
    /\ pc' = "input"
    /\ UNCHANGED store \/ (Compactable /\ \E c \in Cuts : Compacts(c))
    /\ TaskLeaves /\ UNCHANGED <<after, writing, model, run, budgets, backoffCancelled, failed,
                                  used, episode>>

(* compact, called by the host between operations.                          *)
CompactIdle ==
    /\ pc = "idle" /\ Compactable
    /\ used.prompts < MaxPrompts /\ Spend("prompts")
    /\ \E c \in Cuts : Compacts(c)
    /\ TaskLeaves /\ UNCHANGED <<pc, after, writing, model, run, budgets, backoffCancelled, failed,
                                  episode>>

-----------------------------------------------------------------------------
(* The run.  A MessageEnd reaches the transcript and then, through the      *)
(* persistence middleware, the session; its entry id is recorded.           *)
Said(es) ==
    LET new == [i \in DOMAIN es |-> Len(session) + i]
    IN  /\ session' = session \o es
        /\ transcript' = transcript \o new
        /\ recorded' = recorded \o new
        /\ UNCHANGED <<ids, flushed>>

FreshRun == more' = FALSE /\ good' = FALSE /\ cancelled' = FALSE

(* The prompt batch: the next-turn queue, then the user's message.          *)
StartRun ==
    /\ pc = "input"
    /\ Said([i \in 1..(nextTurn + 1) |-> Input])
    /\ nextTurn' = 0
    /\ recovered' = FALSE
    /\ FreshRun
    /\ pc' = "request"
    /\ UNCHANGED <<after, pending, queue, writing, model, attempt, flags, used, episode>>

(* Agent::continue_: queued input after an assistant message, else the      *)
(* transcript as it is - joined, if it is steering, by the queued input.    *)
(* Tool results are no assistant's: behind a tool round it goes on.  A lost *)
(* message is either.                                                       *)
Continues == LastKind \in Spoken \cup {"lost"}
Refused   == LastKind \notin Spoken /\ (LastKind = "empty" \/ queue = 0)

ContinueRun ==
    /\ pc = "continue" /\ LastKind # "empty"
    /\ \/ Continues /\ UNCHANGED <<store, queue>>
       \/ queue > 0 /\ Said(<<Input>>) /\ queue' = queue - 1
    /\ model' = [model EXCEPT ![3] = Owned]
    /\ FreshRun
    /\ pc' = "request"
    /\ UNCHANGED <<after, pending, nextTurn, writing, budgets, flags, used, episode>>

CannotContinueMutant == FALSE

CannotContinue ==
    /\ pc = "continue" /\ Refused
    /\ pc' = "broken"
    /\ TaskLeaves /\ UNCHANGED <<after, store, writing, model, run, budgets, backoffCancelled,
                                  failed, used, episode>>

(* One provider round.  An error or an abort ends the run; any other reply  *)
(* reaches the turn boundary.  A tool round goes on unless a result asks to *)
(* terminate.                                                               *)
Answer(kind) ==
    /\ pc = "request"
    /\ kind = "aborted" => cancelled
    /\ IF kind = "tool" THEN used.tools < MaxTools /\ Spend("tools") ELSE UNCHANGED used
    /\ Said(<<Reply(kind, Context)>>)
    /\ more' \in {FALSE, kind = "tool"}
    /\ good' = (good \/ kind \notin Errors)
    /\ episode' = IF kind \in Errors THEN episode ELSE 0
    /\ pc' = IF kind \in Errors \cup {"aborted"} THEN "ended" ELSE "boundary"
    /\ TaskLeaves /\ UNCHANGED <<after, writing, model, budgets, backoffCancelled, failed,
                                  cancelled>>

(* prepare_next_turn: flush the queued mutations, each removed once it is   *)
(* written.  An aside's transcript sync is left to the end of the operation.*)
BoundaryWrite ==
    /\ pc = "boundary" /\ pending # <<>>
    /\ session' = Append(session, Head(pending))
    /\ flushed' = IF Head(pending).kind = "aside" THEN Append(flushed, Len(session) + 1) ELSE flushed
    /\ writing' = Head(pending)
    /\ pc' = "written"
    /\ TaskLeaves /\ UNCHANGED <<after, transcript, ids, recorded, model, run, budgets,
                                  backoffCancelled, failed, used, episode>>

(* Vec::remove(0) panics on an empty queue.                                 *)
TakeWritten(next) ==
    /\ writing' = Nothing
    /\ IF pending = <<>>
       THEN pc' = "panicked" /\ UNCHANGED pending
       ELSE pc' = next /\ pending' = Tail(pending)
    /\ UNCHANGED <<after, store, queue, nextTurn, model, run, budgets, flags, used, episode>>

BoundaryRemove == pc = "written" /\ TakeWritten("boundary")

BoundaryDone ==
    /\ pc = "boundary" /\ pending = <<>>
    /\ model' = [model EXCEPT ![3] = Snapshot]
    /\ pc' = "poll"
    /\ TaskLeaves /\ UNCHANGED <<after, store, writing, run, budgets, backoffCancelled, failed,
                                  used, episode>>

(* Queued input, another tool round, the Aborted message, or the end.       *)
Poll ==
    /\ pc = "poll"
    /\ \/ /\ cancelled
          /\ Said(<<Reply("aborted", Context)>>)
          /\ pc' = "ended" /\ UNCHANGED <<queue, episode>>
       \/ /\ ~cancelled /\ queue > 0
          /\ Said(<<Input>>) /\ queue' = queue - 1 /\ episode' = 0
          /\ pc' = "request"
       \/ /\ ~cancelled /\ queue = 0
          /\ pc' = IF more THEN "request" ELSE "ended"
          /\ UNCHANGED <<store, queue, episode>>
    /\ UNCHANGED <<after, pending, nextTurn, writing, model, run, budgets, flags, used>>

(* The third append attempt fails too: the transcript holds what the        *)
(* session does not, or a mutation stays queued, and the run is dropped.    *)
AppendFails ==
    /\ pc \in {"input", "request", "boundary", "poll"}
    /\ pc = "boundary" => pending # <<>>
    /\ used.faults < MaxFaults /\ Spend("faults")
    /\ transcript' =
         CASE pc = "boundary" -> transcript
           [] pc = "request"  -> Append(transcript, PhantomReply)
           [] OTHER           -> Append(transcript, PhantomInput)
    /\ nextTurn' = IF pc = "input" THEN 0 ELSE nextTurn
    /\ pc' = "broken"
    /\ UNCHANGED <<after, session, ids, recorded, flushed, pending, queue, writing, model, run,
                   budgets, flags, episode>>

(* The operation's own run failed: restore, then flush.  A continuation's   *)
(* failure leaves the operation through `?'.                                *)
Revert ==
    /\ pc = "broken" /\ after = "first"
    /\ transcript' = ProjectedMessages /\ ids' = ProjectedIds /\ recorded' = <<>>
    /\ LET picks == {i \in DOMAIN pending : pending[i].kind = "model"}
       IN  model' = <<IF picks = {} THEN PathModel ELSE pending[Max(picks)].tag, PathModel, PathModel>>
    /\ failed' = TRUE /\ cancelled' = FALSE
    /\ pc' = "adopt"
    /\ TaskLeaves /\ UNCHANGED <<after, session, flushed, writing, more, good, budgets,
                                 backoffCancelled, used, episode>>

(* The restore cannot read the session: transcript and index stay.          *)
RevertFails ==
    /\ pc = "broken" /\ after = "first"
    /\ used.faults < MaxFaults /\ Spend("faults")
    /\ failed' = TRUE /\ cancelled' = FALSE
    /\ pc' = "adopt"
    /\ TaskLeaves /\ UNCHANGED <<after, store, writing, model, more, good, budgets,
                                 backoffCancelled, episode>>

GiveUp ==
    /\ pc' = "idle" /\ failed' = TRUE /\ cancelled' = FALSE
    /\ UNCHANGED <<after, writing, model, more, good, backoffCancelled, used, episode>>

Escape ==
    /\ pc = "broken" /\ after # "first"
    /\ GiveUp
    /\ TaskLeaves /\ UNCHANGED <<store, budgets>>

-----------------------------------------------------------------------------
(* settle_after_run.                                                        *)

Drained == ids' = ids \o recorded /\ recorded' = <<>>

(* note_run_outcome; a continuation's entry ids are merged here, those of   *)
(* the operation's own run only once it has settled.                        *)
RunEnds ==
    /\ pc = "ended"
    /\ attempt' = IF good THEN 0 ELSE attempt
    /\ recovered' = (recovered /\ ~good)
    /\ IF after = "first"
       THEN model' = Adopted /\ UNCHANGED <<ids, recorded>>
       ELSE Drained /\ UNCHANGED model
    /\ pc' = IF after = "overflow" THEN "overflow" ELSE "settle"
    /\ after' = "settle" /\ cancelled' = FALSE
    /\ TaskLeaves /\ UNCHANGED <<session, transcript, flushed, writing, more, good,
                                 backoffCancelled, failed, used, episode>>

(* The failed turn's terminal message leaves transcript and index.          *)
DropLast ==
    /\ transcript' = Front(transcript) /\ ids' = Front(ids)
    /\ UNCHANGED <<session, recorded, flushed>>

AutoRetry ==
    /\ pc = "settle" /\ LastKind = "retryable" /\ attempt < MaxRetries
    /\ attempt' = attempt + 1 /\ episode' = episode + 1
    /\ backoffCancelled' = FALSE
    /\ DropLast
    /\ pc' = "backoff"
    /\ TaskLeaves /\ UNCHANGED <<after, writing, model, run, recovered, failed, used>>

NoRetry ==
    /\ pc = "settle" /\ ~(LastKind = "retryable" /\ attempt < MaxRetries)
    /\ attempt' = IF LastKind \in Errors THEN 0 ELSE attempt
    /\ pc' = "overflow"
    /\ TaskLeaves /\ UNCHANGED <<after, store, writing, model, run, recovered, backoffCancelled,
                                 failed, used, episode>>

Backoff ==
    /\ pc = "backoff"
    /\ \/ pc' = "continue" /\ UNCHANGED attempt
       \/ backoffCancelled /\ attempt' = 0 /\ pc' = "overflow"
    /\ TaskLeaves /\ UNCHANGED <<after, store, writing, model, run, recovered, backoffCancelled,
                                 failed, used, episode>>

(* overflow_will_retry: an overflow of the current model, newer than the    *)
(* latest boundary.  A completed reply is compacted for the next turn.      *)
Overflowed ==
    /\ LastKind \in {"overflow", "silent"}
    /\ session[Last(transcript)].tag = Owned
    /\ Last(transcript) > LastBoundary
RetriesMutant == Overflowed /\ LastKind = "overflow"

Retries == Overflowed /\ LastKind = "overflow" /\ ~recovered
Shrinks == Overflowed /\ LastKind = "silent"

OverflowRetry ==
    /\ pc = "overflow" /\ Retries
    /\ recovered' = TRUE /\ episode' = episode + 1
    /\ DropLast
    /\ after' = "overflow"
    /\ pc' = "shrink"
    /\ TaskLeaves /\ UNCHANGED <<writing, model, run, attempt, backoffCancelled, failed, used>>

OverflowSilent ==
    /\ pc = "overflow" /\ Shrinks
    /\ pc' = "shrink"
    /\ TaskLeaves /\ UNCHANGED <<after, store, writing, model, run, budgets, backoffCancelled,
                                 failed, used, episode>>

NoOverflow ==
    /\ pc = "overflow" /\ ~Retries /\ ~Shrinks
    /\ pc' = "threshold"
    /\ TaskLeaves /\ UNCHANGED <<after, store, writing, model, run, budgets, backoffCancelled,
                                 failed, used, episode>>

(* The overflow compaction: done, or nothing to compact.                    *)
Shrink ==
    /\ pc = "shrink"
    /\ \/ /\ Compactable /\ \E c \in Cuts : Compacts(c)
          /\ pc' = IF after = "overflow" THEN "continue" ELSE "threshold"
          /\ UNCHANGED after
       \/ /\ Compactable
          /\ pc' = "threshold" /\ after' = "settle" /\ UNCHANGED store
    /\ TaskLeaves /\ UNCHANGED <<writing, model, run, budgets, backoffCancelled, failed, used, episode>>

(* Shut down, an empty transcript, a hook's veto, a summary that fails.     *)
ShrinkFails ==
    /\ pc = "shrink"
    /\ GiveUp
    /\ TaskLeaves /\ UNCHANGED <<store, budgets>>

(* A user-aborted turn stays where it was stopped; a failure only logs.     *)
Threshold ==
    /\ pc = "threshold"
    /\ \/ UNCHANGED store
       \/ LastKind # "aborted" /\ Compactable /\ \E c \in Cuts : Compacts(c)
    /\ pc' = "queued"
    /\ TaskLeaves /\ UNCHANGED <<after, writing, model, run, budgets, backoffCancelled, failed,
                                 used, episode>>

DeliverQueued ==
    /\ pc = "queued" /\ queue > 0
    /\ pc' = "continue" /\ episode' = 0
    /\ TaskLeaves /\ UNCHANGED <<after, store, writing, model, run, budgets, backoffCancelled,
                                 failed, used>>

Settled ==
    /\ pc = "queued" /\ queue = 0
    /\ Drained
    /\ pc' = "adopt"
    /\ TaskLeaves /\ UNCHANGED <<after, session, transcript, flushed, writing, model, run, budgets,
                                 backoffCancelled, failed, used, episode>>

-----------------------------------------------------------------------------
(* flush_pending_mutations: adopt what the boundaries wrote, then the rest. *)

Adopt ==
    /\ pc = "adopt"
    /\ transcript' = transcript \o flushed /\ ids' = ids \o flushed /\ flushed' = <<>>
    /\ pc' = "flush"
    /\ TaskLeaves /\ UNCHANGED <<after, session, recorded, writing, model, run, budgets,
                                 backoffCancelled, failed, used, episode>>

FlushWrite ==
    /\ pc = "flush" /\ pending # <<>>
    /\ LET n == Len(session) + 1
           new == IF Head(pending).kind = "aside" THEN <<n>> ELSE <<>>
       IN  /\ session' = Append(session, Head(pending))
           /\ transcript' = transcript \o new
           /\ ids' = ids \o new
    /\ writing' = Head(pending)
    /\ pc' = "stored"
    /\ TaskLeaves /\ UNCHANGED <<after, recorded, flushed, model, run, budgets, backoffCancelled,
                                 failed, used, episode>>

FlushFails ==
    /\ pc = "flush" /\ pending # <<>>
    /\ used.faults < MaxFaults /\ Spend("faults")
    /\ pc' = "idle" /\ failed' = TRUE
    /\ TaskLeaves /\ UNCHANGED <<after, store, writing, model, run, budgets, backoffCancelled, episode>>

FlushRemoveMutant ==
    /\ pc = "stored" /\ pc' = "flush" /\ writing' = Nothing
    /\ UNCHANGED <<after, store, shared, model, run, budgets, flags, used, episode>>

FlushRemove == pc = "stored" /\ TakeWritten("flush")

FlushDone ==
    /\ pc = "flush" /\ pending = <<>>
    /\ pc' = "idle"
    /\ TaskLeaves /\ UNCHANGED <<after, store, writing, model, run, budgets, backoffCancelled,
                                 failed, used, episode>>

-----------------------------------------------------------------------------
Handle == Queue \/ NextTurn \/ AppendMessage \/ SetModel \/ Abort \/ RequestShutdown

Operation == Prompt \/ Continue \/ AppendIdle \/ CompactIdle

Task ==
    \/ PrePrompt \/ StartRun \/ ContinueRun \/ CannotContinue
    \/ \E kind \in Replies : Answer(kind)
    \/ BoundaryWrite \/ BoundaryRemove \/ BoundaryDone \/ Poll \/ AppendFails
    \/ Revert \/ RevertFails \/ Escape
    \/ RunEnds \/ AutoRetry \/ NoRetry \/ Backoff
    \/ OverflowRetry \/ OverflowSilent \/ NoOverflow \/ Shrink \/ ShrinkFails
    \/ Threshold \/ DeliverQueued \/ Settled
    \/ Adopt \/ FlushWrite \/ FlushFails \/ FlushRemove \/ FlushDone

Next == Handle \/ Operation \/ Task

Spec == Init /\ [][Next]_vars

(* The task that drives the operation is scheduled, every provider request  *)
(* ends (the streams carry their own timeouts) and backoffs elapse.         *)
FairSpec == Spec /\ WF_vars(Task)

-----------------------------------------------------------------------------
(* Properties.                                                              *)

Pcs == {"idle", "pre", "input", "continue", "request", "boundary", "written", "poll", "broken",
        "ended", "settle", "backoff", "overflow", "shrink", "threshold", "queued", "adopt",
        "flush", "stored", "panicked"}

(* Every variable keeps the type the Rust declarations give it.  A queue    *)
(* holds no more than was queued, and the transcript refers to entries.     *)
TypeOK ==
    /\ pc \in Pcs /\ after \in {"first", "settle", "overflow"}
    /\ session \in Seq(Entry)
    /\ transcript \in Seq(Numbers) /\ \A i \in DOMAIN transcript : transcript[i] <= Len(session)
    /\ ids \in Seq(Nat) /\ recorded \in Seq(Nat) /\ flushed \in Seq(Nat)
    /\ pending \in Seq([kind : {"aside", "model"}, tag : Nat])
    /\ writing \in [kind : {"aside", "model", "nothing"}, tag : Nat]
    /\ queue \in 0..MaxQueued /\ nextTurn \in 0..MaxNext
    /\ model \in Nat \X Nat \X Nat
    /\ attempt \in 0..MaxRetries /\ recovered \in BOOLEAN
    /\ more \in BOOLEAN /\ good \in BOOLEAN /\ cancelled \in BOOLEAN
    /\ backoffCancelled \in BOOLEAN /\ shutdown \in BOOLEAN /\ failed \in BOOLEAN
    /\ used \in [{"prompts", "tools", "queued", "nexts", "asides", "models", "faults", "aborts"} -> Nat]
    /\ episode \in Nat

(* A provider that keeps failing is asked a bounded number of times: after  *)
(* an input, or a reply that was not an error, the auto-retry budget and    *)
(* one overflow recovery are all the retries there are.                     *)
BudgetHolds == episode <= MaxRetries + 1

(* A queued aside is written to the session at most once, and in the order  *)
(* in which the handle queued them, through failed writes, reverted runs,   *)
(* boundary flushes and shutdown.                                           *)
AsidesOnceInOrder ==
    \A i, j \in DOMAIN session :
        (/\ i < j /\ session[i].kind = "aside" /\ session[j].kind = "aside"
         /\ session[i].tag > 0 /\ session[j].tag > 0)
            => session[i].tag < session[j].tag

(* The messages of the conversation are in `rebuilt', each once and in the  *)
(* order the live transcript has them.                                      *)
InConversation(n) == n > 0 /\ session[n].kind # "aside"
Covers(rebuilt) ==
    LET live == {i \in DOMAIN transcript : InConversation(transcript[i])}
        Places(i) == {p \in DOMAIN rebuilt : rebuilt[p] = transcript[i]}
    IN  \A i \in live :
          /\ Places(i) # {}
          /\ \A j \in live : \A p \in Places(i), q \in Places(j) : i < j <=> p < q

(* A restore never loses what the live transcript holds: the conversation   *)
(* in it is, in order, among what is rebuilt from the session - over        *)
(* retries that dropped failed turns and compactions that moved the         *)
(* boundary.  (The session may hold more: the dropped turns.)               *)
RestoreCovers == Covers(ProjectedMessages)

(* Every operation returns, however the provider and the session fail.      *)
OperationReturns == (pc # "idle") ~> (pc \in {"idle", "panicked"})

(* -- Claims of the source that the harness does not keep. --               *)

(* "Entry ids aligned by index with the agent transcript."                  *)
IdsAligned ==
    pc = "idle" /\ ~failed =>
        /\ Len(ids) = Len(transcript)
        /\ \A i \in DOMAIN ids : ids[i] \in {0, transcript[i]}

(* "Entries leave the queue only after their session append succeeds."      *)
OnlyWrittenLeaves ==
    pc \in {"written", "stored"} => pending # <<>> /\ Head(pending) = writing

(* "a transcript rebuilt from storage equals this one exactly": asides too. *)
RestoreIsExact ==
    pc = "idle" /\ ~failed => ToSet(transcript) \subseteq ToSet(ProjectedMessages)
=============================================================================
